---------------------------- MODULE FileSysProofs ----------------------------
(***************************************************************************)
(* Proofs about FileSys, for every image built as ImageAssumption says and *)
(* any names, buffers and sizes.                                           *)
(***************************************************************************)
EXTENDS FileSys, SequenceTheorems, WellFoundedInduction, TLAPS

\* The n bytes of a file behind a position.
Slice(i, from, n) == [j \in 1 .. n |-> Stored(i)[from + j]]

-----------------------------------------------------------------------------
(* The inductive invariant *)

TypeOK ==
    /\ bytes_read \in [0 .. dir_entries -> 0 .. WORD - 1]
    /\ dir_position \in Nat \ {0}
    /\ stream = [i \in Indices |-> stream[i]]
    /\ \E T : listed \in Seq(T)

\* What has been delivered are the bytes between the start of a stream and the
\* position; past the end of the file nothing is delivered.
Streams ==
    \A i \in Indices : \E n \in Nat :
        /\ stream[i].from \in 0 .. WORD - 1
        /\ stream[i].got = Slice(i, stream[i].from, n)
        /\ bytes_read[i] = stream[i].from + n
        /\ n = 0 \/ bytes_read[i] <= Len(Stored(i))

IInv == /\ TypeOK /\ Streams
        /\ ShortMeansEnd /\ OpensUnlessHidden /\ ListedInOrder /\ LoadWhole

-----------------------------------------------------------------------------
(* The image *)

\* The constants, entry by entry.
LEMMA Entry ==
    ASSUME NEW i \in Indices
    PROVE  /\ dentry(i).fname \in Seq(Range(dentry(i).fname))
           /\ dentry(i).fname # <<>> /\ Len(dentry(i).fname) <= NameSize
           /\ dentry(i).inode_num \in 0 .. num_inodes - 1
           /\ Stored(i) \in Seq(Range(Stored(i))) /\ Len(Stored(i)) \in Nat
           /\ inode_block(dentry(i).inode_num)[0] = Len(Stored(i))
           /\ Len(Stored(i)) <= (InodeWords - 1) * BlockSize /\ Len(Stored(i)) < WORD
           /\ \A b \in 0 .. InodeWords - 2, o \in 0 .. BlockSize - 1 :
                 b * BlockSize + o < Len(Stored(i)) =>
                     data_block(inode_block(dentry(i).inode_num)[b + 1])[o]
                        = Stored(i)[b * BlockSize + o + 1]
BY ImageAssumption DEF Stored, inode_block, data_block

\* A position is a block and an offset in it.
LEMMA Position ==
    ASSUME NEW w \in Nat, NEW n \in Nat, n > 0, NEW k \in Nat, k < (w - 1) * n
    PROVE  /\ k \div n \in 0 .. w - 2 /\ k % n \in 0 .. n - 1
           /\ (k \div n) * n + (k % n) = k
<1>1. k % n \in 0 .. n - 1
    OBVIOUS
<1>2. k = n * (k \div n) + (k % n) /\ k \div n \in Nat
    OBVIOUS
<1>3. k \div n < w - 1
    BY <1>1, <1>2
<1>4. n * (k \div n) = (k \div n) * n
    BY <1>2
<1> QED
    BY <1>1, <1>2, <1>3, <1>4

\* read_data finds every byte of a file, however its blocks are scattered.
LEMMA ByteFound ==
    ASSUME NEW i \in Indices, NEW k \in 0 .. Len(Stored(i)) - 1
    PROVE  FileByte(dentry(i).inode_num, k) = Stored(i)[k + 1]
<1> USE FileSysAssumption
<1>1. Len(Stored(i)) \in Nat /\ k \in Nat /\ k < (InodeWords - 1) * BlockSize
    BY Entry
<1>2. /\ k \div BlockSize \in 0 .. InodeWords - 2 /\ k % BlockSize \in 0 .. BlockSize - 1
      /\ (k \div BlockSize) * BlockSize + (k % BlockSize) = k
    BY <1>1, Position
<1>3. ASSUME NEW b \in 0 .. InodeWords - 2, NEW o \in 0 .. BlockSize - 1,
             b * BlockSize + o = k
      PROVE  data_block(inode_block(dentry(i).inode_num)[b + 1])[o] = Stored(i)[k + 1]
  <2>1. b * BlockSize + o < Len(Stored(i))
      BY <1>1, <1>3
  <2>2. data_block(inode_block(dentry(i).inode_num)[b + 1])[o]
           = Stored(i)[b * BlockSize + o + 1]
      BY <2>1, Entry
  <2> QED
      BY <1>3, <2>2
<1> QED
    BY <1>2, <1>3 DEF FileByte

\* read_data, on a file of the directory: it refuses NULL, blanks the buffer at the
\* end, and otherwise copies what is left, or as much as was asked for.
ReadOf(i, offset, buf, nbytes, r) ==
    /\ buf = NULL => r.n = -1 /\ r.written = <<>>
    /\ buf # NULL /\ ~(offset < Len(Stored(i))) => r.n = 0 /\ r.written = Zeros(nbytes)
    /\ buf # NULL /\ offset < Len(Stored(i)) =>
          /\ r.n \in Nat /\ r.n <= nbytes /\ offset + r.n <= Len(Stored(i))
          /\ r.n < nbytes => offset + r.n = Len(Stored(i))
          /\ r.written = Slice(i, offset, r.n)

\* The three cases of read_data.
LEMMA ReadData ==
    ASSUME NEW i \in Indices, NEW offset \in Nat, NEW buf, NEW nbytes \in Nat,
           NEW r, r = read_data(dentry(i).inode_num, offset, buf, nbytes)
    PROVE  ReadOf(i, offset, buf, nbytes, r)
<1> USE DEF ReadOf
<1> DEFINE len == Len(Stored(i))
           n == CopyLen(len, offset, nbytes)
           ino == dentry(i).inode_num
<1>1. len \in Nat /\ ~(ino > num_inodes) /\ inode_block(ino)[0] = len
    BY Entry, FileSysAssumption
<1>2. CASE buf = NULL
    BY <1>2 DEF read_data, Refused
<1>3. CASE buf # NULL /\ ~(offset < len)
  <2>1. offset >= len
      BY <1>1, <1>3
  <2> QED
      BY <1>1, <1>3, <2>1 DEF read_data, Refused
<1>4. CASE buf # NULL /\ offset < len
  <2>1. /\ n \in Nat /\ n <= nbytes /\ offset + n <= len
        /\ n < nbytes => offset + n = len
        /\ \A j \in 1 .. n : offset + j - 1 \in 0 .. len - 1 /\ (offset + j - 1) + 1 = offset + j
      BY <1>1, <1>4 DEF CopyLen
  <2>2. ~Refused(ino, buf) /\ ~(offset >= len)
      BY <1>1, <1>4 DEF Refused
  <2>3. r = [n |-> n, written |-> [j \in 1 .. n |-> FileByte(ino, offset + j - 1)]]
      BY <1>1, <2>2 DEF read_data
  <2> HIDE DEF n
  <2>4. \A j \in 1 .. n : FileByte(ino, offset + j - 1) = Stored(i)[offset + j]
      BY <2>1, ByteFound
  <2>5. r.n = n /\ r.written = Slice(i, offset, n)
      BY <2>3, <2>4 DEF Slice
  <2> QED
      BY <1>4, <2>1, <2>5
<1> QED
    BY <1>1, <1>2, <1>3, <1>4

-----------------------------------------------------------------------------
(* Sequences and the search *)

\* A set of natural numbers has a least element.
LEMMA LeastOf ==
    ASSUME NEW S \in SUBSET Nat, S # {}
    PROVE  \E n \in S : \A m \in S : n <= m
<1> DEFINE R == OpToRel(<, Nat)
<1>1. IsWellFoundedOn(R, Nat)
    BY NatLessThanWellFounded
<1>2. \A x, y \in Nat : <<y, x>> \in R <=> y < x
    BY DEF OpToRel
<1> HIDE DEF R
<1>3. PICK n \in S : \A y \in S : ~(<<y, n>> \in R)
    BY <1>1, WFMin
<1>4. n \in Nat /\ \A y \in S : y \in Nat /\ ~(y < n)
    BY <1>2, <1>3, Zenon
<1>5. \A y \in S : n <= y
    BY <1>4
<1> QED
    BY <1>5

\* The loop of fopen ends at the first entry that matches, or past the directory when
\* none does.
LEMMA Found ==
    ASSUME NEW fname
    PROVE  \/ /\ FindEntry(fname) \in Indices /\ Matches(fname, FindEntry(fname))
              /\ \A j \in 0 .. FindEntry(fname) - 1 : ~Matches(fname, j)
           \/ FindEntry(fname) = dir_entries /\ \A i \in Indices : ~Matches(fname, i)
<1> DEFINE S == {i \in Indices : Matches(fname, i)}
           P(i) == Matches(fname, i) /\ \A j \in 0 .. i - 1 : ~Matches(fname, j)
<1>0. dir_entries \in Nat
    BY FileSysAssumption DEF dir_entries
<1>1. CASE S # {}
  <2>1. S \in SUBSET Nat
      BY <1>0 DEF Indices
  <2>2. PICK n \in S : \A m \in S : n <= m
      BY <1>1, <2>1, LeastOf
  <2>3. \A j \in 0 .. n - 1 : j \in Indices /\ ~(n <= j)
      BY <1>0, <2>1, <2>2 DEF Indices
  <2>4. \E i \in Indices : P(i)
      BY <2>2, <2>3
  <2>5. \E i \in Indices : Matches(fname, i)
      BY <1>1
  <2>6. FindEntry(fname) = CHOOSE i \in Indices : P(i)
      BY <2>5 DEF FindEntry
  <2> QED
      BY <2>4, <2>6
<1>2. CASE S = {}
    BY <1>2 DEF FindEntry
<1> QED
    BY <1>1, <1>2

\* Every sequence begins with itself.
LEMMA OwnPrefix ==
    ASSUME NEW T, NEW s \in Seq(T)
    PROVE  IsPrefix(s, s)
BY DEF IsPrefix

\* A slice is a sequence of the length it is given.
LEMMA SliceSeq ==
    ASSUME NEW i, NEW from \in Nat, NEW n \in Nat
    PROVE  /\ Slice(i, from, n) \in Seq({Stored(i)[from + j] : j \in 1 .. n})
           /\ Len(Slice(i, from, n)) = n
<1> DEFINE U == {Stored(i)[from + j] : j \in 1 .. n}
<1>1. \A j \in 1 .. n : Stored(i)[from + j] \in U
    OBVIOUS
<1> HIDE DEF U
<1>2. Slice(i, from, n) \in [1 .. n -> U]
    BY <1>1 DEF Slice
<1>3. Slice(i, from, n) \in Seq(U) /\ Len(Slice(i, from, n)) = n
    BY <1>2
<1> QED
    BY <1>3 DEF U

\* Nothing is cut off, nothing added by an empty one.
LEMMA SliceWhole ==
    ASSUME NEW i, NEW from \in Nat, NEW n \in Nat
    PROVE  /\ Slice(i, from, 0) = <<>>
           /\ SubSeq(Slice(i, from, n), 1, n) = Slice(i, from, n)
           /\ Slice(i, from, n) \o <<>> = Slice(i, from, n)
<1> DEFINE u == Slice(i, from, n)
           U == {Stored(i)[from + j] : j \in 1 .. n}
<1>1. Slice(i, from, 0) = <<>>
    BY DEF Slice
<1>2. u \in Seq(U) /\ Len(u) = n
    BY SliceSeq
<1> HIDE DEF u, U
<1>3. SubSeq(u, 1, n) = u /\ u \o <<>> = u
    BY <1>2
<1> QED
    BY <1>1, <1>3 DEF u

\* Bytes that follow each other make up one slice.
LEMMA NextBytes ==
    ASSUME NEW i, NEW from \in Nat, NEW n \in Nat, NEW m \in Nat
    PROVE  Slice(i, from, n) \o Slice(i, from + n, m) = Slice(i, from, n + m)
<1> DEFINE s == Slice(i, from, n)
           t == Slice(i, from + n, m)
           u == Slice(i, from, n + m)
           U == {Stored(i)[from + j] : j \in 1 .. n + m}
<1>1. /\ \A j \in 1 .. n : Stored(i)[from + j] \in U
      /\ \A j \in 1 .. m : Stored(i)[(from + n) + j] \in U
      /\ \A j \in 1 .. n + m : Stored(i)[from + j] \in U
  <2>1. ASSUME NEW j \in 1 .. m PROVE Stored(i)[(from + n) + j] \in U
    <3>1. n + j \in 1 .. n + m /\ (from + n) + j = from + (n + j)
        OBVIOUS
    <3>2. Stored(i)[from + (n + j)] \in U
        BY <3>1
    <3> QED
        BY <3>1, <3>2
  <2> QED
      BY <2>1
<1> HIDE DEF U
<1>2. s \in [1 .. n -> U] /\ t \in [1 .. m -> U] /\ u \in [1 .. n + m -> U]
    BY <1>1 DEF Slice
<1>3. /\ \A j \in 1 .. n : s[j] = Stored(i)[from + j]
      /\ \A j \in 1 .. m : t[j] = Stored(i)[(from + n) + j]
      /\ \A j \in 1 .. n + m : u[j] = Stored(i)[from + j]
    BY DEF Slice
<1> HIDE DEF s, t, u
<1>4. /\ s \in Seq(U) /\ Len(s) = n /\ t \in Seq(U) /\ Len(t) = m
      /\ u \in Seq(U) /\ Len(u) = n + m
    BY <1>2
<1>5. /\ s \o t \in Seq(U) /\ Len(s \o t) = n + m
      /\ \A j \in 1 .. n + m : (s \o t)[j] = IF j <= n THEN s[j] ELSE t[j - n]
    BY <1>4, ConcatProperties
<1>6. ASSUME NEW j \in 1 .. n + m PROVE (s \o t)[j] = u[j]
  <2>1. CASE j <= n
    <3>1. (s \o t)[j] = s[j] /\ j \in 1 .. n
        BY <1>5, <2>1
    <3> QED
        BY <1>3, <3>1
  <2>2. CASE ~(j <= n)
    <3>1. j - n \in 1 .. m /\ (from + n) + (j - n) = from + j
        BY <2>2
    <3>2. (s \o t)[j] = t[j - n]
        BY <1>5, <2>2
    <3> QED
        BY <1>3, <3>1, <3>2
  <2> QED
      BY <2>1, <2>2
<1>7. s \o t = u
  <2>1. Len(s \o t) = Len(u) /\ \A j \in 1 .. Len(s \o t) : (s \o t)[j] = u[j]
      BY <1>4, <1>5, <1>6
  <2> QED
      BY <1>4, <1>5, <2>1, SeqEqual
<1> QED
    BY <1>7 DEF s, t, u

-----------------------------------------------------------------------------
(* The steps *)

\* Nothing has been read, listed or called at first.
LEMMA InitIInv == Init => IInv
<1> SUFFICES ASSUME Init PROVE IInv
    OBVIOUS
<1> USE FileSysAssumption DEF Init
<1>1. TypeOK
    BY DEF TypeOK, dir_entries
<1>2. Streams
  <2> SUFFICES ASSUME NEW i \in Indices
               PROVE  \E n \in Nat :
                        /\ stream[i].from \in 0 .. WORD - 1
                        /\ stream[i].got = Slice(i, stream[i].from, n)
                        /\ bytes_read[i] = stream[i].from + n
                        /\ n = 0 \/ bytes_read[i] <= Len(Stored(i))
      BY DEF Streams
  <2>1. stream[i].from = 0 /\ stream[i].got = <<>> /\ bytes_read[i] = 0
      BY DEF Indices, dir_entries
  <2>2. Slice(i, 0, 0) = <<>>
      BY SliceWhole
  <2> QED
      BY <2>1, <2>2
<1>3. ShortMeansEnd /\ OpensUnlessHidden /\ LoadWhole
    BY DEF ShortMeansEnd, OpensUnlessHidden, LoadWhole
<1>4. ListedInOrder
    BY DEF ListedInOrder
<1> QED
    BY <1>1, <1>2, <1>3, <1>4 DEF IInv

\* fopen: the stream of the entry found starts afresh, no other one is disturbed.
LEMMA fopenStep ==
    ASSUME IInv, NEW f \in Names, fopen(f)
    PROVE  IInv'
<1> DEFINE e == FindEntry(f)
           r == IF e < dir_entries THEN e ELSE -1
<1>0. dir_entries \in Nat /\ Indices = 0 .. dir_entries - 1
    BY FileSysAssumption DEF dir_entries, Indices
<1>1. \/ e \in Indices /\ Matches(f, e) /\ r = e /\ \A j \in 0 .. e - 1 : ~Matches(f, j)
      \/ e = dir_entries /\ r = -1 /\ \A i \in Indices : ~Matches(f, i)
    BY <1>0, Found
<1>2. e \in 0 .. dir_entries
    BY <1>0, <1>1
<1>3. /\ bytes_read' = [bytes_read EXCEPT ![e] = 0]
      /\ stream' = [j \in Indices |-> IF j = e THEN [from |-> 0, got |-> <<>>] ELSE stream[j]]
      /\ call' = [op |-> "fopen", fname |-> f, result |-> r]
      /\ UNCHANGED <<dir_position, listed>>
    BY DEF fopen
<1> HIDE DEF e, r
<1>4. TypeOK
    BY DEF IInv
<1>5. TypeOK'
    BY <1>2, <1>3, <1>4, FileSysAssumption DEF TypeOK
<1>6. Streams'
  <2> SUFFICES ASSUME NEW i \in Indices
               PROVE  \E n \in Nat :
                        /\ stream'[i].from \in 0 .. WORD - 1
                        /\ stream'[i].got = Slice(i, stream'[i].from, n)
                        /\ bytes_read'[i] = stream'[i].from + n
                        /\ n = 0 \/ bytes_read'[i] <= Len(Stored(i))
      BY DEF Streams, Slice, Stored
  <2>1. CASE i = e
    <3>1. stream'[i].from = 0 /\ stream'[i].got = <<>>
        BY <1>3, <2>1
    <3>2. bytes_read'[i] = 0
        BY <1>2, <1>3, <1>4, <2>1 DEF TypeOK
    <3>3. Slice(i, 0, 0) = <<>>
        BY SliceWhole
    <3> QED
        BY <3>1, <3>2, <3>3, FileSysAssumption
  <2>2. CASE i # e
    <3>1. stream'[i] = stream[i] /\ bytes_read'[i] = bytes_read[i]
        BY <1>0, <1>3, <1>4, <2>2 DEF TypeOK
    <3> QED
        BY <3>1 DEF IInv, Streams
  <2> QED
      BY <2>1, <2>2
<1>7. OpensUnlessHidden'
  <2>1. call'.op = "fopen" /\ call'.fname = f /\ call'.result = r
      BY <1>3
  <2>2. r = -1 <=> \A i \in Indices : ~Begins(i, f)
      BY <1>0, <1>1 DEF Matches, Begins
  <2>3. r # -1 => Begins(r, f)
      BY <1>0, <1>1 DEF Matches, Begins
  <2>4. ASSUME NEW i \in Indices, dentry(i).fname = f,
               \A j \in 0 .. i - 1 : ~Begins(j, f)
        PROVE  r = i
    <3>1. Matches(f, i)
        BY <2>4, Entry, OwnPrefix DEF Matches
    <3>2. r = e /\ e \in Indices /\ Matches(f, e) /\ \A j \in 0 .. e - 1 : ~Matches(f, j)
        BY <1>1, <3>1
    <3>3. ~(i \in 0 .. e - 1) /\ ~(e \in 0 .. i - 1)
        BY <2>4, <3>1, <3>2 DEF Matches, Begins
    <3> QED
        BY <1>0, <3>2, <3>3
  <2> QED
      BY <2>1, <2>2, <2>3, <2>4 DEF OpensUnlessHidden, Begins
<1>8. ShortMeansEnd' /\ LoadWhole'
    BY <1>3 DEF ShortMeansEnd, LoadWhole
<1>9. ListedInOrder'
    BY <1>3 DEF IInv, ListedInOrder
<1> QED
    BY <1>5, <1>6, <1>7, <1>8, <1>9 DEF IInv

\* The position after an fread: one less, modulo the word, when it failed, unmoved at
\* the end of the file, and otherwise behind the bytes delivered.
LEMMA freadStep ==
    ASSUME IInv, NEW e \in Indices, NEW buf \in Buffers, NEW nbytes \in Sizes,
           fread(e, buf, nbytes)
    PROVE  IInv'
<1> DEFINE pos == bytes_read[e]
           rd == read_data(dentry(e).inode_num, pos, buf, nbytes)
           s == stream[e]
           next == IF rd.n = -1
                   THEN [from |-> (s.from + Len(s.got) - 1) % WORD, got |-> <<>>]
                   ELSE [from |-> s.from, got |-> s.got \o SubSeq(rd.written, 1, rd.n)]
<1>0. /\ nbytes \in Nat /\ dir_entries \in Nat /\ Indices = 0 .. dir_entries - 1
      /\ WORD \in Nat /\ WORD > 0
    BY FileSysAssumption DEF dir_entries, Indices
<1>1. TypeOK
    BY DEF IInv
<1>2. pos \in 0 .. WORD - 1 /\ pos \in Nat /\ e \in 0 .. dir_entries
    BY <1>0, <1>1 DEF TypeOK
<1>3. /\ buf = NULL => rd.n = -1 /\ rd.written = <<>>
      /\ buf # NULL /\ ~(pos < Len(Stored(e))) => rd.n = 0 /\ rd.written = Zeros(nbytes)
      /\ buf # NULL /\ pos < Len(Stored(e)) =>
            /\ rd.n \in Nat /\ rd.n <= nbytes /\ pos + rd.n <= Len(Stored(e))
            /\ rd.n < nbytes => pos + rd.n = Len(Stored(e))
            /\ rd.written = Slice(e, pos, rd.n)
  <2>1. ReadOf(e, pos, buf, nbytes, rd)
      BY <1>0, <1>2, ReadData
  <2> HIDE DEF rd
  <2> QED
      BY <2>1 DEF ReadOf
<1>4. /\ bytes_read' = [bytes_read EXCEPT ![e] = (pos + rd.n) % WORD]
      /\ stream' = [stream EXCEPT ![e] = next]
      /\ call' = [op |-> "fread", index |-> e, nbytes |-> nbytes,
                  result |-> rd.n, written |-> rd.written]
      /\ UNCHANGED <<dir_position, listed>>
    BY DEF fread
<1>5. Len(Stored(e)) \in Nat /\ Len(Stored(e)) < WORD
    BY Entry
<1> HIDE DEF rd
<1>6. rd.n \in Int /\ (pos + rd.n) % WORD \in 0 .. WORD - 1
  <2>1. rd.n \in Int
      BY <1>2, <1>3, <1>5
  <2> QED
      BY <1>0, <1>2, <2>1
<1>7. bytes_read'[e] = (pos + rd.n) % WORD /\ stream'[e] = next
    BY <1>1, <1>2, <1>4 DEF TypeOK
<1>8. TypeOK'
  <2>1. bytes_read' \in [0 .. dir_entries -> 0 .. WORD - 1]
      BY <1>1, <1>2, <1>4, <1>6 DEF TypeOK
  <2>2. stream' = [i \in Indices |-> stream'[i]]
      BY <1>1, <1>4 DEF TypeOK
  <2> QED
      BY <1>1, <1>4, <2>1, <2>2 DEF TypeOK
<1>9. ASSUME buf # NULL
      PROVE  (pos + rd.n) % WORD = pos + rd.n
  <2>1. pos + rd.n \in 0 .. WORD - 1
      BY <1>0, <1>2, <1>3, <1>5, <1>9
  <2> QED
      BY <1>0, <2>1
<1>10. PICK n \in Nat : /\ s.from \in 0 .. WORD - 1 /\ s.got = Slice(e, s.from, n)
                        /\ pos = s.from + n /\ (n = 0 \/ pos <= Len(Stored(e)))
    BY DEF IInv, Streams
<1>11. s.from \in Nat /\ Len(s.got) = n
  <2>1. s.from \in Nat
      BY <1>0, <1>10
  <2>2. Len(Slice(e, s.from, n)) = n
      BY <2>1, SliceSeq
  <2> QED
      BY <1>10, <2>1, <2>2
<1>12. \E m \in Nat : /\ stream'[e].from \in 0 .. WORD - 1
                      /\ stream'[e].got = Slice(e, stream'[e].from, m)
                      /\ bytes_read'[e] = stream'[e].from + m
                      /\ m = 0 \/ bytes_read'[e] <= Len(Stored(e))
  <2>1. CASE buf = NULL
    <3> DEFINE back == (s.from + Len(s.got) - 1) % WORD
    <3>1. rd.n = -1 /\ stream'[e].from = back /\ stream'[e].got = <<>>
        BY <1>3, <1>7, <2>1
    <3>2. back = (pos + rd.n) % WORD
        BY <1>10, <1>11, <3>1
    <3> HIDE DEF back
    <3>3. back \in 0 .. WORD - 1 /\ back \in Nat
        BY <1>6, <3>2
    <3>4. Slice(e, back, 0) = <<>>
        BY <3>3, SliceWhole
    <3> QED
        BY <1>7, <3>1, <3>2, <3>3, <3>4
  <2>2. CASE buf # NULL /\ ~(pos < Len(Stored(e)))
    <3>1. rd.n = 0 /\ rd.written = Zeros(nbytes)
        BY <1>3, <2>2
    <3>2. SubSeq(rd.written, 1, rd.n) = <<>>
      <4>1. Zeros(nbytes) \in Seq({0})
          BY <1>0 DEF Zeros
      <4> QED
          BY <3>1, <4>1
    <3>3. Slice(e, s.from, n) \o <<>> = Slice(e, s.from, n)
        BY <1>11, SliceWhole
    <3>4. s.got \o SubSeq(rd.written, 1, rd.n) = s.got
        BY <1>10, <3>2, <3>3
    <3>5. stream'[e].from = s.from /\ stream'[e].got = s.got
      <4>1. next = [from |-> s.from, got |-> s.got]
          BY <3>1, <3>4
      <4> HIDE DEF next
      <4> QED
          BY <1>7, <4>1
    <3>6. bytes_read'[e] = pos
        BY <1>2, <1>7, <1>9, <2>2, <3>1
    <3> QED
        BY <1>10, <3>5, <3>6
  <2>3. CASE buf # NULL /\ pos < Len(Stored(e))
    <3>1. /\ rd.n \in Nat /\ pos + rd.n <= Len(Stored(e))
          /\ rd.written = Slice(e, pos, rd.n)
        BY <1>3, <2>3
    <3>2. SubSeq(rd.written, 1, rd.n) = Slice(e, s.from + n, rd.n)
      <4>1. SubSeq(Slice(e, pos, rd.n), 1, rd.n) = Slice(e, pos, rd.n)
          BY <1>2, <3>1, SliceWhole
      <4> QED
          BY <1>10, <3>1, <4>1
    <3>3. Slice(e, s.from, n) \o Slice(e, s.from + n, rd.n) = Slice(e, s.from, n + rd.n)
      <4>1. s.from \in Nat /\ n \in Nat /\ rd.n \in Nat
          BY <1>11, <3>1
      <4> QED
          BY <4>1, NextBytes, Zenon
    <3>4. stream'[e].from = s.from /\ stream'[e].got = Slice(e, s.from, n + rd.n)
      <4>1. s.got \o SubSeq(rd.written, 1, rd.n) = Slice(e, s.from, n + rd.n)
          BY <1>10, <3>2, <3>3
      <4>2. rd.n # -1
          BY <3>1
      <4>3. next = [from |-> s.from, got |-> Slice(e, s.from, n + rd.n)]
          BY <4>1, <4>2
      <4> HIDE DEF next
      <4> QED
          BY <1>7, <4>3
    <3>5. bytes_read'[e] = s.from + (n + rd.n) /\ n + rd.n \in Nat
      <4>1. bytes_read'[e] = pos + rd.n
          BY <1>7, <1>9, <2>3
      <4> QED
          BY <1>10, <1>11, <3>1, <4>1
    <3>6. bytes_read'[e] <= Len(Stored(e))
        BY <1>7, <1>9, <2>3, <3>1
    <3> QED
        BY <1>10, <3>4, <3>5, <3>6
  <2> QED
      BY <1>2, <1>5, <2>1, <2>2, <2>3
<1>13. Streams'
  <2> SUFFICES ASSUME NEW i \in Indices
               PROVE  \E m \in Nat :
                        /\ stream'[i].from \in 0 .. WORD - 1
                        /\ stream'[i].got = Slice(i, stream'[i].from, m)
                        /\ bytes_read'[i] = stream'[i].from + m
                        /\ m = 0 \/ bytes_read'[i] <= Len(Stored(i))
      BY DEF Streams, Slice, Stored
  <2>1. CASE i = e
      BY <1>12, <2>1
  <2>2. CASE i # e
    <3>1. stream'[i] = stream[i] /\ bytes_read'[i] = bytes_read[i]
        BY <1>0, <1>1, <1>4, <2>2 DEF TypeOK
    <3> QED
        BY <3>1 DEF IInv, Streams
  <2> QED
      BY <2>1, <2>2
<1>14. ShortMeansEnd'
  <2>1. /\ call'.index = e /\ call'.nbytes = nbytes /\ call'.result = rd.n
        /\ call'.written = rd.written
      BY <1>4
  <2> SUFFICES ASSUME rd.n \in 0 .. nbytes - 1
               PROVE  /\ bytes_read'[e] >= Len(Stored(e))
                      /\ rd.n = 0 => rd.written = Zeros(nbytes)
      BY <2>1 DEF ShortMeansEnd, Stored
  <2>2. buf # NULL /\ rd.n < nbytes
      BY <1>0, <1>3
  <2>3. bytes_read'[e] = pos + rd.n
      BY <1>7, <1>9, <2>2
  <2>4. CASE ~(pos < Len(Stored(e)))
      BY <1>2, <1>3, <1>5, <2>2, <2>3, <2>4
  <2>5. CASE pos < Len(Stored(e))
      BY <1>2, <1>3, <1>5, <2>2, <2>3, <2>5
  <2> QED
      BY <1>2, <1>5, <2>4, <2>5
<1>15. OpensUnlessHidden' /\ LoadWhole'
    BY <1>4 DEF OpensUnlessHidden, LoadWhole
<1>16. ListedInOrder'
    BY <1>4 DEF IInv, ListedInOrder
<1> QED
    BY <1>8, <1>13, <1>14, <1>15, <1>16 DEF IInv

\* dir_read: the next entry's name field, or its beginning, is added to the listing.
LEMMA dir_readStep ==
    ASSUME IInv, NEW buf \in Buffers, NEW nbytes \in Sizes, dir_read(buf, nbytes)
    PROVE  IInv'
<1> DEFINE n == Bounded(nbytes)
           name == dentry(dir_position).fname
           field == NameField(dir_position)
           item == [nbytes |-> nbytes, written |-> SubSeq(field, 1, n)]
<1>0. /\ dir_position \in Nat \ {0} /\ dir_position < dir_entries /\ dir_entries \in Nat
      /\ nbytes \in Nat /\ NameSize \in Nat
    BY FileSysAssumption DEF IInv, TypeOK, dir_read, dir_entries
<1>1. n \in 0 .. NameSize /\ n = IF nbytes < NameSize THEN nbytes ELSE NameSize
    BY <1>0 DEF Bounded
<1>2. /\ dir_position' = dir_position + 1 /\ listed' = Append(listed, item)
      /\ UNCHANGED <<bytes_read, stream, call>>
    BY DEF dir_read
<1> HIDE DEF n
<1>3. /\ Len(item.written) = n /\ item.nbytes = nbytes
      /\ \A j \in 1 .. n : item.written[j] = IF j <= Len(name) THEN name[j] ELSE 0
  <2> DEFINE T == {IF j <= Len(name) THEN name[j] ELSE 0 : j \in 1 .. NameSize}
  <2>1. field \in Seq(T) /\ Len(field) = NameSize
      BY <1>0 DEF NameField
  <2>2. \A j \in 1 .. NameSize : field[j] = IF j <= Len(name) THEN name[j] ELSE 0
      BY DEF NameField
  <2> HIDE DEF field, T
  <2>3. Len(SubSeq(field, 1, n)) = n /\ \A j \in 1 .. n : SubSeq(field, 1, n)[j] = field[j]
      BY <1>0, <1>1, <2>1
  <2> QED
      BY <1>0, <1>1, <2>2, <2>3
<1>4. PICK T : listed \in Seq(T)
    BY DEF IInv, TypeOK
<1> HIDE DEF item
<1>5. /\ listed' \in Seq(T \cup {item}) /\ Len(listed') = Len(listed) + 1
      /\ \A k \in 1 .. Len(listed) : listed'[k] = listed[k]
      /\ listed'[Len(listed) + 1] = item /\ Len(listed) \in Nat
  <2>1. listed \in Seq(T \cup {item}) /\ item \in T \cup {item}
      BY <1>4
  <2> QED
      BY <1>2, <2>1
<1>6. TypeOK'
  <2>1. \E U : listed' \in Seq(U)
      BY <1>5
  <2> QED
      BY <1>0, <1>2, <2>1 DEF IInv, TypeOK
<1>7. ListedInOrder'
  <2>1. Len(listed) = dir_position - 1
      BY DEF IInv, ListedInOrder
  <2>2. Len(listed') = dir_position' - 1
      BY <1>0, <1>2, <1>5, <2>1
  <2>3. ASSUME NEW k \in 1 .. Len(listed')
        PROVE  /\ Len(listed'[k].written)
                    = IF listed'[k].nbytes < NameSize THEN listed'[k].nbytes ELSE NameSize
               /\ \A j \in 1 .. Len(listed'[k].written) :
                     listed'[k].written[j]
                        = IF j <= Len(dentry(k).fname) THEN dentry(k).fname[j] ELSE 0
    <3>1. CASE k = Len(listed) + 1
      <4>1. k = dir_position /\ listed'[k] = item
          BY <1>0, <1>5, <2>1, <3>1
      <4> QED
          BY <1>1, <1>3, <4>1
    <3>2. CASE k # Len(listed) + 1
      <4>1. k \in 1 .. Len(listed)
          BY <1>5, <3>2
      <4>2. listed'[k] = listed[k]
          BY <1>5, <4>1
      <4> QED
          BY <4>1, <4>2 DEF IInv, ListedInOrder
    <3> QED
        BY <3>1, <3>2
  <2> QED
      BY <2>2, <2>3 DEF ListedInOrder
<1>8. Streams'
    BY <1>2 DEF IInv, Streams, Stored, Slice
<1>9. ShortMeansEnd'
    BY <1>2 DEF IInv, ShortMeansEnd, Stored, Zeros
<1>10. OpensUnlessHidden'
    BY <1>2 DEF IInv, OpensUnlessHidden, Begins
<1>11. LoadWhole'
    BY <1>2 DEF IInv, LoadWhole, Stored, Zeros, LoadSize
<1> QED
    BY <1>6, <1>7, <1>8, <1>9, <1>10, <1>11 DEF IInv

\* load: the bytes asked for are never fewer than the file has.
LEMMA loadStep ==
    ASSUME IInv, NEW inode \in 0 .. num_inodes + 1, NEW address \in Buffers,
           load(inode, address)
    PROVE  IInv'
<1>1. LoadWhole'
  <2> DEFINE rd == read_data(inode, 0, address, LoadSize)
  <2>1. /\ call'.inode = inode /\ call'.address = address
        /\ call'.result = rd.n /\ call'.written = rd.written
      BY DEF load
  <2> SUFFICES ASSUME NEW i \in Indices, inode = dentry(i).inode_num
               PROVE  IF address = NULL THEN rd.n = -1 /\ rd.written = <<>>
                      ELSE /\ rd.n = Len(Stored(i))
                           /\ rd.written = IF Stored(i) = <<>> THEN Zeros(LoadSize)
                                                               ELSE Stored(i)
      BY <2>1 DEF LoadWhole, Stored
  <2> DEFINE n == Len(Stored(i))
  <2>2. LoadSize \in Nat /\ (InodeWords - 1) * BlockSize <= LoadSize
      BY FileSysAssumption DEF LoadSize
  <2>3. Len(Stored(i)) \in Nat /\ Len(Stored(i)) <= LoadSize
    <3>1. Len(Stored(i)) \in Nat /\ Len(Stored(i)) <= (InodeWords - 1) * BlockSize
        BY Entry
    <3> QED
        BY <2>2, <3>1, FileSysAssumption
  <2>5. /\ address = NULL => rd.n = -1 /\ rd.written = <<>>
        /\ address # NULL /\ ~(0 < Len(Stored(i))) =>
              rd.n = 0 /\ rd.written = Zeros(LoadSize)
        /\ address # NULL /\ 0 < Len(Stored(i)) =>
              rd.n = Len(Stored(i)) /\ rd.written = Slice(i, 0, rd.n)
    <3>1. LoadSize \in Nat /\ 0 \in Nat /\ rd = read_data(dentry(i).inode_num, 0, address, LoadSize)
        BY <2>2
    <3> HIDE DEF rd
    <3>2. /\ address = NULL => rd.n = -1 /\ rd.written = <<>>
          /\ address # NULL /\ ~(0 < Len(Stored(i))) =>
                rd.n = 0 /\ rd.written = Zeros(LoadSize)
          /\ address # NULL /\ 0 < Len(Stored(i)) =>
                /\ rd.n \in Nat /\ rd.n <= LoadSize /\ 0 + rd.n <= Len(Stored(i))
                /\ rd.n < LoadSize => 0 + rd.n = Len(Stored(i))
                /\ rd.written = Slice(i, 0, rd.n)
      <4>1. ReadOf(i, 0, address, LoadSize, rd)
          BY <3>1, ReadData
      <4> QED
          BY <4>1 DEF ReadOf
    <3> QED
        BY <2>2, <2>3, <3>2
  <2> HIDE DEF rd
  <2>6. Stored(i) \in Seq(Range(Stored(i)))
      BY Entry
  <2>7. Slice(i, 0, n) = Stored(i)
    <3>1. \A j \in 1 .. n : 0 + j = j
        BY <2>3
    <3>2. Slice(i, 0, n) = [j \in 1 .. n |-> Stored(i)[j]]
        BY <3>1 DEF Slice
    <3>3. Stored(i) = [j \in 1 .. n |-> Stored(i)[j]]
        BY <2>6
    <3> QED
        BY <3>2, <3>3
  <2>8. Stored(i) = <<>> <=> Len(Stored(i)) = 0
      BY <2>6
  <2>9. CASE address = NULL
      BY <2>5, <2>9
  <2>10. CASE address # NULL /\ Len(Stored(i)) = 0
      BY <2>5, <2>8, <2>10
  <2>11. CASE address # NULL /\ Len(Stored(i)) # 0
    <3>1. 0 < Len(Stored(i))
        BY <2>3, <2>11
    <3> QED
        BY <2>5, <2>7, <2>8, <2>11, <3>1
  <2> QED
      BY <2>9, <2>10, <2>11
<1>2. UNCHANGED <<bytes_read, dir_position, stream, listed>>
    BY DEF load
<1>4. TypeOK'
    BY <1>2 DEF IInv, TypeOK
<1>5. Streams'
    BY <1>2 DEF IInv, Streams
<1>6. ListedInOrder'
    BY <1>2 DEF IInv, ListedInOrder
<1>3. ShortMeansEnd' /\ OpensUnlessHidden'
    BY DEF load, ShortMeansEnd, OpensUnlessHidden
<1> QED
    BY <1>1, <1>3, <1>4, <1>5, <1>6 DEF IInv

\* Every step of the file system preserves the invariant.
LEMMA StepIInv == IInv /\ [Next]_vars => IInv'
<1>1. ASSUME IInv, UNCHANGED vars PROVE IInv'
  <2>1. UNCHANGED <<bytes_read, dir_position, stream, listed, call>>
      BY <1>1 DEF vars
  <2>2. TypeOK'
      BY <1>1, <2>1 DEF IInv, TypeOK
  <2>3. Streams'
      BY <1>1, <2>1 DEF IInv, Streams
  <2>4. ShortMeansEnd' /\ LoadWhole'
      BY <1>1, <2>1 DEF IInv, ShortMeansEnd, LoadWhole
  <2>5. OpensUnlessHidden'
      BY <1>1, <2>1 DEF IInv, OpensUnlessHidden
  <2>6. ListedInOrder'
      BY <1>1, <2>1 DEF IInv, ListedInOrder
  <2> QED
      BY <2>2, <2>3, <2>4, <2>5, <2>6 DEF IInv
<1> QED
    BY <1>1, fopenStep, freadStep, dir_readStep, loadStep
    DEF Next, freadBadIndex, dir_readRefused, fwrite_fclose, dir_open, dir_write_dir_close

-----------------------------------------------------------------------------
(* The theorems *)

\* The invariant holds in every reachable state.
THEOREM Inductive == Spec => []IInv
BY InitIInv, StepIInv, PTL DEF Spec

\* However a file is cut into freads, by however many callers, and wherever its blocks
\* lie, it is delivered from its start without a gap or a repetition, but for the one
\* byte by which a failed fread steps back.
THEOREM FilesReadInOrder == Spec => []StreamIntact
<1>1. IInv => StreamIntact
  <2> SUFFICES ASSUME IInv, NEW i \in Indices
               PROVE  /\ bytes_read[i] = stream[i].from + Len(stream[i].got)
                      /\ stream[i].got = <<>> \/ bytes_read[i] <= Len(Stored(i))
                      /\ \A j \in 1 .. Len(stream[i].got) :
                            stream[i].got[j] = Stored(i)[stream[i].from + j]
      BY DEF StreamIntact
  <2>1. PICK n \in Nat : /\ stream[i].from \in 0 .. WORD - 1
                         /\ stream[i].got = Slice(i, stream[i].from, n)
                         /\ bytes_read[i] = stream[i].from + n
                         /\ n = 0 \/ bytes_read[i] <= Len(Stored(i))
      BY DEF IInv, Streams
  <2>2. stream[i].from \in Nat
      BY <2>1, FileSysAssumption
  <2>3. Len(stream[i].got) = n /\ (n = 0 => stream[i].got = <<>>)
    <3>1. Len(Slice(i, stream[i].from, n)) = n /\ Slice(i, stream[i].from, 0) = <<>>
        BY <2>2, SliceSeq, SliceWhole
    <3> QED
        BY <2>1, <3>1
  <2>4. \A j \in 1 .. n : stream[i].got[j] = Stored(i)[stream[i].from + j]
      BY <2>1 DEF Slice
  <2> QED
      BY <2>1, <2>3, <2>4
<1> QED
    BY <1>1, Inductive, PTL

\* A short count is given only at the end of the file.
THEOREM ShortOnlyAtEnd == Spec => []ShortMeansEnd
BY Inductive, PTL DEF IInv

\* A file that no earlier entry hides opens under its name, and fopen fails only for a
\* name with which no entry begins.
THEOREM OpenFindsFiles == Spec => []OpensUnlessHidden
BY Inductive, PTL DEF IInv

\* Successive dir_reads deliver the directory's entries once each and in order.
THEOREM DirectoryListed == Spec => []ListedInOrder
BY Inductive, PTL DEF IInv

\* load brings every file of the image into memory whole.
THEOREM FilesLoadedWhole == Spec => []LoadWhole
BY Inductive, PTL DEF IInv
=============================================================================
