-------------------------------- MODULE Grep --------------------------------
(***************************************************************************)
(* The user program syscalls/ece391grep.c: every file of the directory is  *)
(* read through one buffer, whose last, unfinished line is moved to its    *)
(* front before the next read.                                             *)
(*                                                                         *)
(* Strings are sequences without their terminator; the buffer is a         *)
(* function, because the code relies on what is left in it.  A directory   *)
(* is a sequence of entries; a read returns as many bytes as the file      *)
(* still has and the buffer can take, or fails.                            *)
(***************************************************************************)
EXTENDS Integers, SequencesExt

CONSTANTS
    BUFSIZE,        \* 1024
    Patterns,       \* search strings, not empty
    Directories     \* sequences of [dot, opens, text]

NL  == "newline"
NUL == "nul"

ASSUME GrepAssumption ==
    /\ BUFSIZE \in Nat \ {0}
    /\ \A p \in Patterns :
          p \in Seq(Range(p)) /\ p # <<>> /\ NL \notin Range(p) /\ NUL \notin Range(p)
    /\ \A dir \in Directories :
          /\ dir \in Seq(Range(dir))
          /\ \A e \in Range(dir) : e.text \in Seq(Range(e.text))

VARIABLES
    s, dir,            \* the argument; the directory
    entry,             \* number of the directory entry main has read
    pc,
    file,              \* what is left to read of the open file
    data, last,        \* the buffer; bytes in use
    cnt, line_start,
    out,               \* lines printed: <<entry, line>>
    garbage            \* the byte main's callee finds in its uninitialised buffer

vars == <<s, dir, entry, pc, file, data, last, cnt, line_start, out, garbage>>

Bytes == 0 .. BUFSIZE     \* data[BUFSIZE + 1]

Init ==
    /\ s \in Patterns /\ dir \in Directories
    /\ entry = 0 /\ pc = "main"
    /\ file = <<>>
    /\ data = [i \in Bytes |-> NUL]
    /\ last = 0 /\ cnt = 0 /\ line_start = 0
    /\ out = <<>> /\ garbage \in {NL, NUL}

-----------------------------------------------------------------------------
(* main *)

\* The next directory entry: its end, a name that starts with a dot, a file that
\* cannot be opened, or a file to search with a buffer fresh from the stack.
NextEntry ==
    /\ pc = "main"
    /\ entry' = entry + 1
    /\ IF entry = Len(dir) THEN pc' = "done" /\ UNCHANGED <<file, data>>
       ELSE LET e == dir[entry + 1] IN
            IF e.dot THEN UNCHANGED <<pc, file, data>>
            ELSE IF ~e.opens THEN pc' = "failed" /\ UNCHANGED <<file, data>>
            ELSE /\ pc' = "read" /\ file' = e.text
                 /\ data' = [i \in Bytes |-> garbage]
    /\ last' = 0
    /\ UNCHANGED <<s, dir, cnt, line_start, out, garbage>>

\* The argument cannot be read, or the directory not opened or read.
MainFails ==
    /\ pc = "main" /\ pc' = "failed"
    /\ UNCHANGED <<s, dir, entry, file, data, last, cnt, line_start, out, garbage>>

-----------------------------------------------------------------------------
(* do_one_file *)

Read ==
    LET n == IF Len(file) < BUFSIZE - last THEN Len(file) ELSE BUFSIZE - last IN
    /\ pc = "read" /\ pc' = "line"
    /\ cnt' = n
    /\ data' = [i \in Bytes |-> IF i \in last .. last + n - 1 THEN file[i - last + 1]
                                                             ELSE data[i]]
    /\ file' = SubSeq(file, n + 1, Len(file))
    /\ last' = last + n
    /\ line_start' = 0
    /\ UNCHANGED <<s, dir, entry, out, garbage>>

ReadFails ==
    /\ pc = "read" /\ pc' = "failed"
    /\ UNCHANGED <<s, dir, entry, file, data, last, cnt, line_start, out, garbage>>

\* Where the scan for the end of a line stops.
line_end ==
    CHOOSE n \in line_start .. last :
        /\ n = last \/ data[n] = NL
        /\ \A i \in line_start .. n - 1 : data[i] # NL

\* Mutant: a line without an end is kept even when it fills the buffer.
Unfinished_AlsoFirst == data[line_end] # NL /\ cnt # 0

\* No newline, more to come, and room to be made at the front.  At line_end = last
\* the byte looked at is behind the data.
Unfinished == data[line_end] # NL /\ cnt # 0 /\ line_start # 0

\* Where a string in the buffer ends, once line_end holds a terminator.
StringEnd(from) ==
    CHOOSE n \in from .. line_end :
        /\ n = line_end \/ data[n] = NUL
        /\ \A i \in from .. n - 1 : data[i] # NUL

\* ece391_strcpy(data, data + line_start), terminator included
MoveDown ==
    LET end == StringEnd(line_start) IN
    /\ pc = "line" /\ Unfinished /\ pc' = "read"
    /\ data' = [i \in Bytes |-> IF i < end - line_start THEN data[line_start + i]
                                ELSE IF i \in {end - line_start, line_end} THEN NUL
                                ELSE data[i]]
    /\ last' = last - line_start
    /\ UNCHANGED <<s, dir, entry, file, cnt, line_start, out, garbage>>

\* ece391_strncmp(data + check, s, s_len): the terminator at line_end, which s
\* does not contain, stops it.
MatchesAt(check) ==
    \A i \in 1 .. Len(s) : check + i - 1 < line_end /\ data[check + i - 1] = s[i]

\* Mutant: the last place where the pattern fits is not tried.
Places_Short == line_start .. line_end - 1 - Len(s)

\* Where the search loop looks.
Places == line_start .. line_end - 1

\* What the search prints: the line, once, up to a zero byte.
Printed ==
    IF \E check \in Places : MatchesAt(check)
    THEN << <<entry, [i \in 1 .. StringEnd(line_start) - line_start |->
                        data[line_start + i - 1]]>> >>
    ELSE <<>>

\* One line is searched.  After the last one the buffer is empty; the file ends
\* with the pass over what the last read, of no bytes, found in it.
SearchLine ==
    /\ pc = "line" /\ ~Unfinished
    /\ data' = [data EXCEPT ![line_end] = NUL]
    /\ out' = out \o Printed
    /\ line_start' = line_end + 1
    /\ IF line_end + 1 >= last
       THEN last' = 0 /\ pc' = IF cnt = 0 THEN "close" ELSE "read"
       ELSE UNCHANGED <<last, pc>>
    /\ UNCHANGED <<s, dir, entry, file, cnt, garbage>>

Close ==
    /\ pc = "close" /\ pc' \in {"main", "failed"}
    /\ UNCHANGED <<s, dir, entry, file, data, last, cnt, line_start, out, garbage>>

Exited == pc \in {"done", "failed"} /\ UNCHANGED vars

Next ==
    \/ NextEntry \/ MainFails
    \/ Read \/ ReadFails \/ MoveDown \/ SearchLine \/ Close
    \/ Exited

Spec == Init /\ [][Next]_vars

-----------------------------------------------------------------------------
(* Properties *)

\* The line of a text that ends in front of place e.
LineBefore(t, e) == SubSeq(t, Max({i \in 1 .. e - 1 : t[i] = NL} \cup {0}) + 1, e - 1)

HasMatch(p, l) == \E i \in 0 .. Len(l) - Len(p) : SubSeq(l, i + 1, i + Len(p)) = p

\* The line of entry n that ends in front of place e of its text, if one does and it
\* contains p.
Hit(p, n, t, e) ==
    IF (e = Len(t) + 1 \/ t[e] = NL) /\ HasMatch(p, LineBefore(t, e))
    THEN << <<n, LineBefore(t, e)>> >>
    ELSE <<>>

Hits(p, n, t) == [e \in 1 .. Len(t) + 1 |-> Hit(p, n, t, e)]

Entries(p, d) ==
    [n \in 1 .. Len(d) |-> IF d[n].dot THEN <<>> ELSE FlattenSeq(Hits(p, n, d[n].text))]

\* The lines of the directory's files that contain the pattern.
Expected == FlattenSeq(Entries(s, dir))

\* A text the buffer can handle: no zero bytes, and no line is longer than the buffer.
Plain(t) ==
    /\ NUL \notin Range(t)
    /\ \A i \in 1 .. Len(t) - BUFSIZE : \E j \in i .. i + BUFSIZE : t[j] = NL

\* A file it can handle.  The one exception is a file that does not fit into the
\* buffer when the uninitialised byte behind the first read happens to be a newline:
\* it makes an unfinished line look finished.
Handled(e, byte) ==
    e.dot \/ (Plain(e.text) /\ (byte # NL \/ Len(e.text) <= BUFSIZE))

\* For files the buffer can handle, wherever reads cut their lines: what is printed
\* is the matching lines of the files in order, each one whole and once, and all of
\* them unless an operation of the kernel failed.
GrepFinds ==
    (\A n \in DOMAIN dir : Handled(dir[n], garbage)) =>
        /\ IsPrefix(out, Expected)
        /\ pc = "done" => out = Expected

\* For any contents, zero bytes and lines longer than the buffer included, a file
\* is left only when all of it has been read: the buffer never fills up with an
\* unfinished line, so that a read of no bytes always means the end of the file.
WholeFileRead == pc \in {"close", "main"} => file = <<>>
=============================================================================
