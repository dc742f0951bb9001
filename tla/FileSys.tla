------------------------------- MODULE FileSys -------------------------------
(***************************************************************************)
(* The read-only file system of student-distrib/filesys.c over an image in *)
(* memory: a boot block with the directory, then num_inodes inode blocks,  *)
(* then data blocks.                                                       *)
(*                                                                         *)
(* An inode block is a function from 0 .. InodeWords - 1: the file's       *)
(* length and then its data block numbers.  A data block is a function     *)
(* from 0 .. BlockSize - 1.  File positions are kept per directory entry   *)
(* (bytes_read), the directory position once for the whole system.         *)
(* Anybody may call any operation with any argument at any time.           *)
(***************************************************************************)
EXTENDS Integers, Sequences, SequencesExt

CONSTANTS
    BlockSize,    \* 4096
    InodeWords,   \* 1024 words in an inode block
    WORD,         \* 2^32
    Dir,          \* directory entries, in order: [fname |-> , inode_num |-> ]
    num_inodes,
    image,        \* the blocks after the boot block
    Names,        \* file names passed to fopen
    Buffers,      \* addresses passed to fread, dir_read and load
    Sizes,        \* nbytes passed to fread and dir_read
    Content,      \* for every file name, the bytes stored when the image was built
    NameSize      \* bytes of the name field of a directory entry (32)

NULL        == 0
dir_entries == Len(Dir)
Indices     == 0 .. dir_entries - 1
dentry(i)   == Dir[i + 1]

ASSUME FileSysAssumption ==
    /\ BlockSize \in Nat /\ BlockSize > 0
    /\ InodeWords \in Nat /\ InodeWords > 0
    /\ WORD \in Nat /\ WORD > 0
    /\ num_inodes \in Nat
    /\ Dir \in Seq(Range(Dir)) /\ dir_entries < 64
    /\ Buffers \subseteq Nat /\ Sizes \subseteq Nat /\ NameSize \in Nat
    /\ \A f \in Names : f \in Seq(Range(f))

\* The image was built for Content: an entry has a name and an inode, the inode holds
\* the length and a block number for every block of the file, and these blocks hold
\* its bytes.
ASSUME ImageAssumption ==
    \A i \in Indices :
        LET name  == dentry(i).fname
            bytes == Content[name]
            inode == image[dentry(i).inode_num]
        IN  /\ name \in Seq(Range(name)) /\ name # <<>> /\ Len(name) <= NameSize
            /\ dentry(i).inode_num \in 0 .. num_inodes - 1
            /\ bytes \in Seq(Range(bytes))
            /\ inode[0] = Len(bytes) /\ Len(bytes) <= (InodeWords - 1) * BlockSize
            /\ Len(bytes) < WORD
            /\ \A b \in 0 .. InodeWords - 2, o \in 0 .. BlockSize - 1 :
                  b * BlockSize + o < Len(bytes) =>
                      image[num_inodes + inode[b + 1]][o] = bytes[b * BlockSize + o + 1]

VARIABLES
    bytes_read,    \* position of every directory entry; one slot more than files
    dir_position,
    (***********************************************************************)
    (* What the callers see                                                *)
    (***********************************************************************)
    stream,        \* per entry, since fopen or a failed fread: where reading
                   \* started (from), and what freads delivered (got)
    listed,        \* what dir_read wrote, and the size it was asked for
    call           \* the last fopen, fread or load: arguments and outcome

vars == <<bytes_read, dir_position, stream, listed, call>>

-----------------------------------------------------------------------------
(* Helpers *)

\* strncmp(fname, entry, strlen(fname)) == 0: fname is a prefix of the entry
Matches(fname, i) == IsPrefix(fname, dentry(i).fname)

\* Mutant: the search skips the directory's own entry, as the listing does.
FindEntry_SkipFirst(fname) ==
    IF \E i \in Indices \ {0} : Matches(fname, i)
    THEN CHOOSE i \in Indices \ {0} : /\ Matches(fname, i)
                                      /\ \A j \in 1 .. i - 1 : ~Matches(fname, j)
    ELSE dir_entries

\* the while loop of fopen: first match, or dir_entries
FindEntry(fname) ==
    IF \E i \in Indices : Matches(fname, i)
    THEN CHOOSE i \in Indices : /\ Matches(fname, i)
                                /\ \A j \in 0 .. i - 1 : ~Matches(fname, j)
    ELSE dir_entries

\* the first test of read_data
Refused(inode, buf) == inode > num_inodes \/ buf = NULL

inode_block(inode) == image[inode]
data_block(n)      == image[num_inodes + n]

\* Mutant: the file's blocks are taken to be contiguous.
FileByte_Contiguous(inode, i) ==
    data_block(inode_block(inode)[1] + i \div BlockSize)[i % BlockSize]

\* byte i of the file: data_block[i % 4096] of block inode_block[i / 4096 + 1]
FileByte(inode, i) ==
    data_block(inode_block(inode)[i \div BlockSize + 1])[i % BlockSize]

\* Mutant: the copy stops at the end of a block.
CopyLen_OneBlock(length, offset, nbytes) ==
    LET rest == BlockSize - (offset % BlockSize)
        want == IF rest < nbytes THEN rest ELSE nbytes
    IN  IF length - offset < want THEN length - offset ELSE want

\* How many bytes the copy loop of read_data transfers from an offset in the file.
CopyLen(length, offset, nbytes) ==
    IF length - offset < nbytes THEN length - offset ELSE nbytes

Zeros(n) == [j \in 1 .. n |-> 0]

\* read_data: the value it returns and what it writes to the buffer, from its start.
\* At the end of the file and past it, all of the buffer is blanked.
read_data(inode, offset, buf, nbytes) ==
    LET length == inode_block(inode)[0]
        n      == CopyLen(length, offset, nbytes)
    IN  IF Refused(inode, buf) THEN [n |-> -1, written |-> <<>>]
        ELSE IF offset >= length THEN [n |-> 0, written |-> Zeros(nbytes)]
        ELSE [n |-> n, written |-> [j \in 1 .. n |-> FileByte(inode, offset + j - 1)]]

-----------------------------------------------------------------------------
(* Operations *)

\* filesys_init, which skips the directory's own entry; bytes_read starts as zeroes
Init ==
    /\ bytes_read = [i \in 0 .. dir_entries |-> 0]
    /\ dir_position = 1
    /\ stream = [i \in Indices |-> [from |-> 0, got |-> <<>>]]
    /\ listed = <<>>
    /\ call = [op |-> "none"]

\* fopen resets the slot it stopped at, the spare one when nothing matches.
fopen(fname) ==
    LET i == FindEntry(fname)
        r == IF i < dir_entries THEN i ELSE -1
    IN  /\ bytes_read' = [bytes_read EXCEPT ![i] = 0]
        /\ stream' = [j \in Indices |-> IF j = i THEN [from |-> 0, got |-> <<>>]
                                                 ELSE stream[j]]
        /\ call' = [op |-> "fopen", fname |-> fname, result |-> r]
        /\ UNCHANGED <<dir_position, listed>>

\* fread adds what read_data returns to the position, a failure's -1 too: the stream
\* then starts again one byte before where it was, modulo the word.
fread(index, buf, nbytes) ==
    LET r == read_data(dentry(index).inode_num, bytes_read[index], buf, nbytes)
        s == stream[index]
    IN  /\ index < dir_entries
        /\ bytes_read' = [bytes_read EXCEPT ![index] = (@ + r.n) % WORD]
        /\ stream' = [stream EXCEPT ![index] =
              IF r.n = -1
              THEN [from |-> (s.from + Len(s.got) - 1) % WORD, got |-> <<>>]
              ELSE [from |-> s.from, got |-> s.got \o SubSeq(r.written, 1, r.n)]]
        /\ call' = [op |-> "fread", index |-> index, nbytes |-> nbytes,
                    result |-> r.n, written |-> r.written]
        /\ UNCHANGED <<dir_position, listed>>

\* the name field of a directory entry: the name, padded with zeros
NameField(i) ==
    LET name == dentry(i).fname
    IN  [j \in 1 .. NameSize |-> IF j <= Len(name) THEN name[j] ELSE 0]

\* Mutant: the last byte of the name field is kept for a terminator.
Bounded_OneLess(nbytes) == IF nbytes >= NameSize THEN NameSize - 1 ELSE nbytes

\* "bound file name to 32 chars"
Bounded(nbytes) == IF nbytes > NameSize THEN NameSize ELSE nbytes

\* dir_read, whoever calls it: the next entry's name field, or as much as fits
dir_read(buf, nbytes) ==
    LET n == Bounded(nbytes)
    IN  /\ buf # NULL /\ dir_position < dir_entries
        /\ dir_position' = dir_position + 1
        /\ listed' = Append(listed, [nbytes |-> nbytes,
                                     written |-> SubSeq(NameField(dir_position), 1, n)])
        /\ UNCHANGED <<bytes_read, stream, call>>

\* 0x400000: as many blocks as an inode block has words
LoadSize == InodeWords * BlockSize

\* load: the whole file, from its inode number
load(inode, address) ==
    LET r == read_data(inode, 0, address, LoadSize)
    IN  /\ call' = [op |-> "load", inode |-> inode, address |-> address,
                    result |-> r.n, written |-> r.written]
        /\ UNCHANGED <<bytes_read, dir_position, stream, listed>>

\* Calls that only return a value.
freadBadIndex(index) == index >= dir_entries /\ UNCHANGED vars
dir_readRefused(buf) == (buf = NULL \/ dir_position >= dir_entries) /\ UNCHANGED vars
fwrite_fclose        == UNCHANGED vars
dir_open             == UNCHANGED vars
dir_write_dir_close  == UNCHANGED vars

Next ==
    \/ \E f \in Names : fopen(f)
    \/ \E i \in Indices, b \in Buffers, n \in Sizes : fread(i, b, n)
    \/ \E b \in Buffers, n \in Sizes : dir_read(b, n)
    \/ \E inode \in 0 .. num_inodes + 1, b \in Buffers : load(inode, b)
    \/ \E i \in {-1, dir_entries} : freadBadIndex(i % WORD)
    \/ \E b \in Buffers : dir_readRefused(b)
    \/ fwrite_fclose \/ dir_open \/ dir_write_dir_close

Spec == Init /\ [][Next]_vars

-----------------------------------------------------------------------------
(* Properties *)

\* What is stored under a directory entry.
Stored(i) == Content[dentry(i).fname]

\* The freads of a file, whoever makes them and in whatever sizes, deliver its
\* content without a gap or a repetition: what they have delivered since fopen is the
\* file from its start up to the position, however its blocks are scattered over the
\* image.  The callers of one entry share that stream; an fopen by one rewinds it for
\* all, and an fread that fails (for a NULL buffer) steps it back by one byte.
StreamIntact ==
    \A i \in Indices :
        LET s == stream[i]
        IN  /\ bytes_read[i] = s.from + Len(s.got)
            /\ s.got = <<>> \/ bytes_read[i] <= Len(Stored(i))
            /\ \A j \in 1 .. Len(s.got) : s.got[j] = Stored(i)[s.from + j]

\* A count that is less than what was asked for means the end of the file: fread
\* never stops at a block or anywhere else before it.  At the end it returns 0 and
\* leaves nothing old in the buffer.
ShortMeansEnd ==
    (call.op = "fread" /\ call.result \in 0 .. call.nbytes - 1) =>
        /\ bytes_read[call.index] >= Len(Stored(call.index))
        /\ call.result = 0 => call.written = Zeros(call.nbytes)

\* The name of an entry begins with fname.
Begins(i, fname) == IsPrefix(fname, dentry(i).fname)

\* fopen returns an existing file's own entry under its full name, unless an earlier
\* entry's name begins with that name: then it returns that entry, another file's.
\* It refuses exactly the names with which no entry begins.
OpensUnlessHidden ==
    call.op = "fopen" =>
        /\ call.result = -1 <=> \A i \in Indices : ~Begins(i, call.fname)
        /\ call.result # -1 => Begins(call.result, call.fname)
        /\ \A i \in Indices :
              /\ dentry(i).fname = call.fname
              /\ \A j \in 0 .. i - 1 : ~Begins(j, call.fname)
              => call.result = i

\* dir_read has delivered every entry after the directory's own, once, in order:
\* as much of the name as the caller has room for, or all of it and zeros behind.
ListedInOrder ==
    /\ Len(listed) = dir_position - 1
    /\ \A k \in 1 .. Len(listed) :
          LET name == dentry(k).fname
              l    == listed[k]
          IN  /\ Len(l.written) = IF l.nbytes < NameSize THEN l.nbytes ELSE NameSize
              /\ \A j \in 1 .. Len(l.written) :
                    l.written[j] = IF j <= Len(name) THEN name[j] ELSE 0

\* load brings all of an existing file to its address, in order, writes nothing
\* behind it, and returns its length.  An empty file is the exception: all of the
\* 4 MB are blanked.  A NULL address is refused.
LoadWhole ==
    \A i \in Indices :
        (call.op = "load" /\ call.inode = dentry(i).inode_num) =>
            IF call.address = NULL THEN call.result = -1 /\ call.written = <<>>
            ELSE /\ call.result = Len(Stored(i))
                 /\ call.written = IF Stored(i) = <<>> THEN Zeros(LoadSize) ELSE Stored(i)

=============================================================================
