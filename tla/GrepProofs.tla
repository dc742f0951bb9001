----------------------------- MODULE GrepProofs -----------------------------
(***************************************************************************)
(* Proofs about Grep, for every size of the buffer and every directory:    *)
(* files are read to their end, and what is printed is their matching      *)
(* lines.                                                                  *)
(***************************************************************************)
EXTENDS Grep, SequenceTheorems, WellFoundedInduction, TLAPS

PCs == {"main", "read", "line", "close", "done", "failed"}

\* The buffer is used up to its size and no further.  A read always finds room in
\* it, and one that finds nothing finds the end of the file.
InBuffer ==
    /\ last \in 0 .. BUFSIZE /\ line_start \in Nat
    /\ pc = "line" => line_start <= last
RoomToRead == pc = "read" => last < BUFSIZE
EndMeansEnd == pc = "line" /\ cnt = 0 => file = <<>>

IInv ==
    /\ pc \in PCs /\ dir \in Directories
    /\ entry \in Nat /\ (pc # "done" => entry <= Len(dir))
    /\ \E T : file \in Seq(T)
    /\ InBuffer /\ RoomToRead /\ EndMeansEnd /\ WholeFileRead

-----------------------------------------------------------------------------

\* A set of natural numbers has a least element.
LEMMA Least ==
    ASSUME NEW S \in SUBSET Nat, S # {}
    PROVE  \E n \in S : \A m \in S : n <= m
<1> DEFINE R == OpToRel(<, Nat)
<1>1. IsWellFoundedOn(R, Nat)
    BY NatLessThanWellFounded
<1>2. \A x, y \in Nat : <<y, x>> \in R <=> y < x
    BY DEF OpToRel
<1> HIDE DEF R
<1>3. PICK n \in S : \A y \in S : ~(<<y, n>> \in R)
    BY <1>1, WFMin
<1>4. n \in Nat /\ \A y \in S : y \in Nat /\ ~(y < n)
    BY <1>2, <1>3, Zenon
<1>5. \A y \in S : n <= y
    BY <1>4
<1> QED
    BY <1>5

\* The scan for the end of a line stops inside the buffer.
LEMMA LineEnd ==
    ASSUME InBuffer, pc = "line"
    PROVE  /\ line_end \in line_start .. last
           /\ line_end = last \/ data[line_end] = NL
           /\ \A i \in line_start .. line_end - 1 : data[i] # NL
<1> DEFINE S == {n \in line_start .. last : n = last \/ data[n] = NL}
           P(n) == /\ n = last \/ data[n] = NL
                   /\ \A i \in line_start .. n - 1 : data[i] # NL
<1>0. line_start \in Nat /\ last \in Nat /\ line_start <= last
    BY GrepAssumption DEF InBuffer
<1>1. S \in SUBSET Nat /\ last \in S
    BY <1>0
<1>2. PICK n \in S : \A m \in S : n <= m
    BY <1>1, Least
<1>3. ASSUME NEW i \in line_start .. n - 1 PROVE data[i] # NL
  <2>1. i \in line_start .. last /\ ~(n <= i)
      BY <1>0, <1>2
  <2>2. i \notin S
      BY <1>2, <2>1
  <2> QED
      BY <2>1, <2>2
<1>4. \E m \in line_start .. last : P(m)
    BY <1>2, <1>3
<1>5. line_end = CHOOSE m \in line_start .. last : P(m)
    BY DEF line_end
<1>6. line_end \in line_start .. last /\ P(line_end)
  <2> HIDE DEF S, P
  <2> QED
      BY <1>4, <1>5
<1> QED
    BY <1>6

\* What is left of a file after n bytes of it.
LEMMA RestOfFile ==
    ASSUME NEW T, NEW f \in Seq(T), NEW n \in 0 .. Len(f)
    PROVE  /\ SubSeq(f, n + 1, Len(f)) \in Seq(T)
           /\ n = Len(f) => SubSeq(f, n + 1, Len(f)) = <<>>
<1>1. /\ n + 1 \in Int /\ Len(f) \in Int
      /\ \A i \in n + 1 .. Len(f) : f[i] \in T
    OBVIOUS
<1>2. SubSeq(f, n + 1, Len(f)) \in Seq(T)
    BY <1>1, SubSeqProperties
<1>3. n = Len(f) => SubSeq(f, n + 1, Len(f)) = <<>>
    BY <1>1, SubSeqEmpty
<1> QED
    BY <1>2, <1>3

-----------------------------------------------------------------------------
(* The theorems *)

\* The program starts with an empty buffer and no file.
LEMMA InitIInv == Init => IInv
BY GrepAssumption DEF Init, IInv, PCs, InBuffer, RoomToRead, EndMeansEnd, WholeFileRead

\* Every step of main and do_one_file preserves the invariant.
LEMMA StepIInv == IInv /\ [Next]_vars => IInv'
<1> SUFFICES ASSUME IInv, [Next]_vars PROVE IInv'
    OBVIOUS
<1> USE GrepAssumption
<1>0. /\ BUFSIZE \in Nat \ {0} /\ last \in 0 .. BUFSIZE /\ line_start \in Nat
      /\ entry \in Nat /\ (pc # "done" => entry <= Len(dir))
      /\ dir \in Directories /\ dir \in Seq(Range(dir)) /\ Len(dir) \in Nat
    BY DEF IInv, InBuffer
<1>1. CASE NextEntry
  <2>1. \E T : file' \in Seq(T)
    <3>1. CASE file' = file
        BY <3>1 DEF IInv
    <3>2. CASE file' # file
      <4>1. entry # Len(dir) /\ file' = dir[entry + 1].text /\ file = <<>>
          BY <1>1, <3>2 DEF NextEntry, IInv, WholeFileRead
      <4>2. entry + 1 \in DOMAIN dir
          BY <1>0, <1>1, <4>1 DEF NextEntry
      <4>3. dir[entry + 1] \in Range(dir)
          BY <4>2 DEF Range
      <4>4. file' \in Seq(Range(dir[entry + 1].text))
          BY <1>0, <4>1, <4>3
      <4> QED
          BY <4>4
    <3> QED
        BY <3>1, <3>2
  <2> QED
      BY <1>0, <1>1, <2>1
      DEF NextEntry, IInv, PCs, InBuffer, RoomToRead, EndMeansEnd, WholeFileRead
<1>2. CASE Read
  <2> DEFINE n == IF Len(file) < BUFSIZE - last THEN Len(file) ELSE BUFSIZE - last
  <2>0. /\ pc = "read" /\ pc' = "line" /\ cnt' = n /\ last' = last + n
        /\ file' = SubSeq(file, n + 1, Len(file)) /\ line_start' = 0
        /\ UNCHANGED <<dir, entry>>
      BY <1>2 DEF Read
  <2>1. PICK T : file \in Seq(T)
      BY DEF IInv
  <2>2. last < BUFSIZE
      BY <2>0 DEF IInv, RoomToRead
  <2>3. /\ Len(file) \in Nat /\ n \in 0 .. Len(file) /\ last + n \in 0 .. BUFSIZE
        /\ n = 0 => n = Len(file)
      BY <1>0, <2>1, <2>2
  <2> HIDE DEF n
  <2>4. file' \in Seq(T) /\ (n = 0 => file' = <<>>)
      BY <2>0, <2>1, <2>3, RestOfFile
  <2>5. \E U : file' \in Seq(U)
      BY <2>4
  <2>6. last' \in 0 .. BUFSIZE /\ line_start' = 0 /\ 0 <= last'
      BY <2>0, <2>3
  <2>7. InBuffer' /\ RoomToRead' /\ WholeFileRead'
      BY <2>0, <2>6 DEF InBuffer, RoomToRead, WholeFileRead
  <2>8. EndMeansEnd'
      BY <2>0, <2>4 DEF EndMeansEnd
  <2> QED
      BY <1>0, <2>0, <2>5, <2>7, <2>8 DEF IInv, PCs
<1>3. CASE MoveDown
  <2>1. line_start <= last /\ line_start # 0
      BY <1>3 DEF MoveDown, Unfinished, IInv, InBuffer
  <2>2. last - line_start \in 0 .. BUFSIZE - 1
      BY <1>0, <2>1
  <2> QED
      BY <1>0, <1>3, <2>2
      DEF MoveDown, IInv, PCs, InBuffer, RoomToRead, EndMeansEnd, WholeFileRead
<1>4. CASE SearchLine
  <2>1. pc = "line" /\ line_end \in line_start .. last
      BY <1>4, LineEnd DEF SearchLine, IInv
  <2>2. /\ line_start' = line_end + 1 /\ line_start' \in Nat
        /\ IF line_end + 1 >= last
           THEN last' = 0 /\ pc' = IF cnt = 0 THEN "close" ELSE "read"
           ELSE last' = last /\ pc' = pc
        /\ UNCHANGED <<dir, entry, file, cnt>>
      BY <1>0, <1>4, <2>1 DEF SearchLine
  <2> HIDE DEF line_end
  <2> QED
      BY <1>0, <2>1, <2>2
      DEF IInv, PCs, InBuffer, RoomToRead, EndMeansEnd, WholeFileRead
<1>5. CASE MainFails \/ ReadFails \/ Close
    BY <1>0, <1>5
    DEF MainFails, ReadFails, Close, IInv, PCs, InBuffer, RoomToRead, EndMeansEnd,
        WholeFileRead
<1>6. CASE Exited \/ UNCHANGED vars
    BY <1>6
    DEF Exited, vars, IInv, PCs, InBuffer, RoomToRead, EndMeansEnd, WholeFileRead
<1> QED
    BY <1>1, <1>2, <1>3, <1>4, <1>5, <1>6 DEF Next

\* The invariant holds in every reachable state.
THEOREM Inductive == Spec => []IInv
BY InitIInv, StepIInv, PTL DEF Spec

\* do_one_file leaves a file only at its end, for any contents and any buffer.
THEOREM FilesReadWhole == Spec => []WholeFileRead
BY Inductive, PTL DEF IInv

-----------------------------------------------------------------------------
(* What is printed: the invariant *)

\* The first k of a sequence of sequences, joined.
Total(q, k) == FlattenSeq([i \in 1 .. k |-> q[i]])

\* What has been printed when entry n has been searched up to the line that ends in
\* front of place k.
OutTo(p, d, n, k) == Total(Entries(p, d), n - 1) \o Total(Hits(p, n, d[n].text), k)

\* The first done bytes of text t have been dealt with; the next ones are in the
\* buffer, from `from' on, and the others in what is left of the file.
Buffered(t, f, buffer, from, to, done) ==
    /\ from \in 0 .. to /\ to \in 0 .. BUFSIZE
    /\ done + (to - from) + Len(f) = Len(t)
    /\ \A i \in from .. to - 1 : buffer[i] = t[done + (i - from) + 1]
    /\ \A i \in 1 .. Len(f) : f[i] = t[Len(t) - Len(f) + i]

\* The bytes dealt with end with a line, or the next byte does: a line as long as the
\* buffer is searched before its newline has been read.
Reached(p, d, n, o, done) ==
    LET t == d[n].text
    IN  \/ (done = 0 \/ t[done] = NL) /\ o = OutTo(p, d, n, done)
        \/ (done = Len(t) \/ t[done + 1] = NL) /\ o = OutTo(p, d, n, done + 1)

\* The byte behind the buffer is a newline only if it was one when the file was
\* opened, and then the file fits into the buffer.  A read that leaves something in
\* the file has filled the buffer.
ByteBehind ==
    /\ data[BUFSIZE] \in {garbage, NUL}
    /\ pc = "read" /\ garbage = NL => last + Len(file) <= BUFSIZE
    /\ pc = "line" /\ (garbage = NL \/ last < BUFSIZE) => file = <<>>
    /\ pc = "line" => line_start < last \/ last = 0

Searching ==
    LET t == dir[entry].text
    IN  /\ entry \in 1 .. Len(dir) /\ ~dir[entry].dot
        /\ ByteBehind
        /\ \E done \in 0 .. Len(t) :
              /\ Buffered(t, file, data, IF pc = "line" THEN line_start ELSE 0, last, done)
              /\ Reached(s, dir, entry, out, done)

Finds ==
    /\ DOMAIN data = Bytes
    /\ pc \in {"main", "close"} =>
          entry \in 0 .. Len(dir) /\ out = Total(Entries(s, dir), entry)
    /\ pc = "done" => out = Expected
    /\ pc = "failed" => IsPrefix(out, Expected)
    /\ pc \in {"read", "line"} => Searching

AllHandled == \A n \in DOMAIN dir : Handled(dir[n], garbage)

FInv == s \in Patterns /\ (AllHandled => Finds)

-----------------------------------------------------------------------------
(* Joining sequences *)

\* acc[n] is the first n sequences of q, joined.
Builds(acc, q, n, S) ==
    /\ acc \in [0 .. n -> Seq(S)] /\ acc[0] = <<>>
    /\ \A i \in 1 .. n : acc[i] = acc[i - 1] \o q[i]

\* There is such a function, up to every n.
LEMMA BuildsExists ==
    ASSUME NEW S, NEW q \in Seq(Seq(S)), NEW n \in 0 .. Len(q)
    PROVE  \E acc : Builds(acc, q, n, S)
<1> DEFINE D == {m \in 0 .. Len(q) : ~\E acc : Builds(acc, q, m, S)}
<1> SUFFICES ASSUME D # {} PROVE FALSE
    OBVIOUS
<1>1. D \in SUBSET Nat
    OBVIOUS
<1>2. PICK m \in D : \A k \in D : m <= k
    BY <1>1, Least
<1>3. m \in 0 .. Len(q) /\ ~\E acc : Builds(acc, q, m, S)
    BY <1>2
<1>4. CASE m = 0
  <2>1. Builds([i \in 0 .. 0 |-> <<>>], q, 0, S)
    <3>1. 0 .. 0 = {0} /\ 1 .. 0 = {}
        OBVIOUS
    <3> QED
        BY <3>1 DEF Builds
  <2> QED
      BY <1>3, <1>4, <2>1
<1>5. CASE m # 0
  <2>1. m - 1 \in 0 .. Len(q) /\ ~(m <= m - 1) /\ m \in 1 .. Len(q) /\ m \in Nat
      BY <1>3, <1>5
  <2>2. PICK acc : Builds(acc, q, m - 1, S)
      BY <1>2, <2>1
  <2>3. /\ acc \in [0 .. m - 1 -> Seq(S)] /\ acc[0] = <<>>
        /\ \A i \in 1 .. m - 1 : acc[i] = acc[i - 1] \o q[i]
      BY <2>2 DEF Builds
  <2>4. acc[m - 1] \in Seq(S) /\ q[m] \in Seq(S)
      BY <2>1, <2>3
  <2>5. acc[m - 1] \o q[m] \in Seq(S)
      BY <2>4, ConcatProperties
  <2> DEFINE h == [i \in 0 .. m |-> IF i = m THEN acc[m - 1] \o q[m] ELSE acc[i]]
  <2>6. \A i \in 0 .. m : i # m => i \in 0 .. m - 1
      BY <2>1
  <2>7. h \in [0 .. m -> Seq(S)]
      BY <2>3, <2>5, <2>6
  <2>8. h[0] = <<>>
      BY <1>5, <2>1, <2>3
  <2>9. ASSUME NEW i \in 1 .. m PROVE h[i] = h[i - 1] \o q[i]
    <3>1. i \in 0 .. m /\ i - 1 \in 0 .. m /\ i - 1 # m
        BY <2>1
    <3>2. h[i - 1] = acc[i - 1]
        BY <3>1
    <3>3. CASE i = m
        BY <3>1, <3>2, <3>3
    <3>4. CASE i # m
      <4>1. i \in 1 .. m - 1 /\ h[i] = acc[i]
          BY <2>1, <3>1, <3>4
      <4> HIDE DEF h
      <4> QED
          BY <2>3, <3>2, <4>1
    <3> QED
        BY <3>3, <3>4
  <2> HIDE DEF h
  <2>10. Builds(h, q, m, S)
      BY <2>7, <2>8, <2>9 DEF Builds
  <2> QED
      BY <1>3, <2>10
<1> QED
    BY <1>4, <1>5

\* FlattenSeq joins the sequences one after the other.
LEMMA FlattenIs ==
    ASSUME NEW S, NEW r \in Seq(Seq(S)), NEW acc, Builds(acc, r, Len(r), S)
    PROVE  FlattenSeq(r) = acc[Len(r)]
<1> DEFINE k == Len(r)
           F(g) == [i \in 1 .. k |-> IF i = 1 THEN r[i] ELSE g[i - 1] \o r[i]]
           u == [i \in 1 .. k |-> acc[i]]
<1>0. /\ k \in Nat /\ acc \in [0 .. k -> Seq(S)] /\ acc[0] = <<>>
      /\ \A i \in 1 .. k : acc[i] = acc[i - 1] \o r[i]
      /\ \A i \in 1 .. k : r[i] \in Seq(S)
    BY SMTT(30) DEF Builds
<1>1. CASE k = 0
  <2>1. r = <<>>
      BY <1>1
  <2> QED
      BY <1>0, <1>1, <2>1 DEF FlattenSeq
<1>2. CASE k # 0
  <2>1. u = F(u)
    <3> SUFFICES ASSUME NEW i \in 1 .. k PROVE u[i] = F(u)[i]
        OBVIOUS
    <3>1. acc[i] = acc[i - 1] \o r[i] /\ r[i] \in Seq(S)
        BY <1>0
    <3>2. CASE i = 1
      <4>1. acc[i - 1] = <<>>
          BY <1>0, <3>2
      <4>2. <<>> \o r[i] = r[i]
          BY <3>1, ConcatEmptySeq
      <4> QED
          BY <3>1, <3>2, <4>1, <4>2
    <3>3. CASE i # 1
      <4>1. i - 1 \in 1 .. k
          BY <1>0, <3>3
      <4> QED
          BY <3>1, <3>3, <4>1
    <3> QED
        BY <3>2, <3>3
  <2> DEFINE fl == CHOOSE g : g = F(g)
  <2>2. fl = F(fl)
    <3> HIDE DEF u
    <3> QED
        BY <2>1
  <2>3. FlattenSeq(r) = fl[k]
      BY <1>2 DEF FlattenSeq
  <2> HIDE DEF fl
  <2>4. \A i \in 1 .. k : fl[i] = u[i]
    <3> DEFINE D == {i \in 1 .. k : fl[i] # u[i]}
    <3> SUFFICES ASSUME D # {} PROVE FALSE
        OBVIOUS
    <3>1. D \in SUBSET Nat
        OBVIOUS
    <3>2. PICK m \in D : \A i \in D : m <= i
        BY <3>1, Least
    <3>3. m \in 1 .. k /\ fl[m] # u[m]
        BY <3>2
    <3> HIDE DEF u
    <3>4. fl[m] = F(fl)[m] /\ u[m] = F(u)[m]
        BY <2>1, <2>2
    <3>5. m # 1
        BY <3>3, <3>4
    <3>6. m - 1 \in 1 .. k /\ ~(m <= m - 1)
        BY <1>0, <3>3, <3>5
    <3>7. fl[m - 1] = u[m - 1]
        BY <3>2, <3>6
    <3> QED
        BY <3>3, <3>4, <3>5, <3>7
  <2>5. k \in 1 .. k
      BY <1>0, <1>2
  <2> QED
      BY <2>3, <2>4, <2>5
<1> QED
    BY <1>1, <1>2

\* The first k sequences are joined one by one.
Totals(q, S) ==
    /\ Total(q, 0) = <<>> /\ FlattenSeq(q) = Total(q, Len(q))
    /\ \A k \in 0 .. Len(q) : Total(q, k) \in Seq(S)
    /\ \A k \in 1 .. Len(q) : Total(q, k) = Total(q, k - 1) \o q[k]

\* Joining k sequences is joining one less and then the last.
LEMMA TotalIs ==
    ASSUME NEW S, NEW q \in Seq(Seq(S))
    PROVE  Totals(q, S)
<1> DEFINE l == Len(q)
<1>0. l \in Nat /\ l \in 0 .. l /\ \A i \in 1 .. l : q[i] \in Seq(S)
    OBVIOUS
<1>1. PICK acc : Builds(acc, q, l, S)
    BY <1>0, BuildsExists
<1>2. /\ acc \in [0 .. l -> Seq(S)] /\ acc[0] = <<>>
      /\ \A i \in 1 .. l : acc[i] = acc[i - 1] \o q[i]
    BY <1>1 DEF Builds
<1>3. ASSUME NEW k \in 0 .. l PROVE Total(q, k) = acc[k]
  <2> DEFINE r == [i \in 1 .. k |-> q[i]]
             a == [i \in 0 .. k |-> acc[i]]
  <2>1. /\ k \in Nat /\ \A i \in 1 .. k : i \in 1 .. l /\ i \in 0 .. k /\ i - 1 \in 0 .. k
        /\ \A i \in 0 .. k : i \in 0 .. l
        /\ 0 \in 0 .. k /\ k \in 0 .. k
      BY <1>0
  <2>2. r \in Seq(Seq(S)) /\ Len(r) = k /\ \A i \in 1 .. k : r[i] = q[i]
      BY <1>0, <2>1
  <2>3. a \in [0 .. k -> Seq(S)] /\ a[0] = <<>> /\ a[k] = acc[k]
    <3> HIDE DEF l, r
    <3>1. \A i \in 0 .. k : acc[i] \in Seq(S)
        BY <1>2, <2>1
    <3> QED
        BY <1>2, <2>1, <3>1
  <2>4. \A i \in 1 .. k : a[i] = a[i - 1] \o r[i]
      BY <1>2, <2>1
  <2> HIDE DEF r, a
  <2>5. Builds(a, r, Len(r), S)
      BY <2>2, <2>3, <2>4 DEF Builds
  <2>6. FlattenSeq(r) = a[k]
      BY <2>2, <2>5, FlattenIs
  <2> QED
      BY <2>3, <2>6 DEF Total, r
<1>4. FlattenSeq(q) = acc[l]
    BY <1>1, FlattenIs
<1>5. Total(q, 0) = <<>> /\ FlattenSeq(q) = Total(q, l)
    BY <1>0, <1>2, <1>3, <1>4
<1>6. ASSUME NEW k \in 0 .. l PROVE Total(q, k) \in Seq(S)
    BY <1>2, <1>3
<1>7. ASSUME NEW k \in 1 .. l PROVE Total(q, k) = Total(q, k - 1) \o q[k]
  <2>1. k \in 0 .. l /\ k - 1 \in 0 .. l
      BY <1>0
  <2> QED
      BY <1>2, <1>3, <2>1
<1> QED
    BY <1>5, <1>6, <1>7 DEF Totals

\* b starts with a.
Extends(b, a, S) == \E r \in Seq(S) : b = a \o r

\* What another sequence extends is a prefix of it.
LEMMA ExtendsPrefix ==
    ASSUME NEW S, NEW a \in Seq(S), NEW b, Extends(b, a, S)
    PROVE  IsPrefix(a, b)
<1>1. PICK r \in Seq(S) : b = a \o r
    BY DEF Extends
<1> DEFINE t == a \o r
           m == Len(a)
           x == SubSeq(a, 1, m)
           y == SubSeq(t, 1, m)
<1>2. /\ t \in Seq(S) /\ Len(t) = m + Len(r) /\ m \in Nat /\ Len(r) \in Nat
      /\ \A i \in 1 .. m + Len(r) : t[i] = IF i <= m THEN a[i] ELSE r[i - m]
    BY ConcatProperties
<1> HIDE DEF t
<1>3. \A i \in 1 .. m : i \in 1 .. m + Len(r) /\ i <= m /\ t[i] = a[i] /\ a[i] \in S /\ t[i] \in S
    BY <1>2
<1>4. m <= Len(t)
    BY <1>2
<1> HIDE DEF m
<1>5. x \in Seq(S) /\ Len(x) = m /\ \A i \in 1 .. m : x[i] = a[1 + i - 1] /\ 1 + i - 1 = i
    BY <1>2, <1>3, SubSeqProperties
<1>6. y \in Seq(S) /\ Len(y) = m /\ \A i \in 1 .. m : y[i] = t[1 + i - 1] /\ 1 + i - 1 = i
    BY <1>2, <1>3, SubSeqProperties
<1>7. \A i \in 1 .. m : x[i] = y[i]
    BY <1>3, <1>5, <1>6
<1> HIDE DEF x, y
<1>8. x = y
    BY <1>5, <1>6, <1>7
<1> QED
    BY <1>1, <1>4, <1>8 DEF IsPrefix, x, y, m, t

\* Every sequence extends itself.
LEMMA ExtendsSelf ==
    ASSUME NEW S, NEW a \in Seq(S)
    PROVE  Extends(a, a, S)
<1>1. <<>> \in Seq(S) /\ a \o <<>> = a
    BY ConcatEmptySeq
<1> QED
    BY <1>1 DEF Extends

\* Whatever extends a sequence still does when more is joined to it.
LEMMA ExtendsMore ==
    ASSUME NEW S, NEW a \in Seq(S), NEW b, Extends(b, a, S), NEW r \in Seq(S)
    PROVE  Extends(b \o r, a, S)
<1>1. PICK q \in Seq(S) : b = a \o q
    BY DEF Extends
<1>2. q \o r \in Seq(S)
    BY ConcatProperties
<1>3. (a \o q) \o r = a \o (q \o r)
    BY ConcatAssociative
<1> QED
    BY <1>1, <1>2, <1>3 DEF Extends

\* Joining to the front keeps one sequence an extension of another.
LEMMA ExtendsBehind ==
    ASSUME NEW S, NEW a \in Seq(S), NEW b, Extends(b, a, S), NEW c \in Seq(S)
    PROVE  Extends(c \o b, c \o a, S)
<1>1. PICK q \in Seq(S) : b = a \o q
    BY DEF Extends
<1>2. c \o (a \o q) = (c \o a) \o q
    BY ConcatAssociative
<1> QED
    BY <1>1, <1>2 DEF Extends

\* Extending is transitive.
LEMMA ExtendsTrans ==
    ASSUME NEW S, NEW a \in Seq(S), NEW b, Extends(b, a, S), NEW c, Extends(c, b, S)
    PROVE  Extends(c, a, S)
<1>1. PICK q \in Seq(S) : c = b \o q
    BY DEF Extends
<1> QED
    BY <1>1, ExtendsMore

\* What is joined first is what all of it starts with.
LEMMA TotalExtends ==
    ASSUME NEW S, NEW q \in Seq(Seq(S)), NEW j \in 0 .. Len(q), NEW k \in j .. Len(q)
    PROVE  Extends(Total(q, k), Total(q, j), S)
<1> DEFINE l == Len(q)
<1>t. Totals(q, S)
    BY TotalIs
<1>0. /\ l \in Nat /\ \A i \in 1 .. l : q[i] \in Seq(S)
      /\ \A i \in 0 .. l : Total(q, i) \in Seq(S)
      /\ \A i \in 1 .. l : Total(q, i) = Total(q, i - 1) \o q[i]
  <2>1. l \in Nat /\ \A i \in 1 .. l : q[i] \in Seq(S)
      OBVIOUS
  <2>2. /\ \A i \in 0 .. l : Total(q, i) \in Seq(S)
        /\ \A i \in 1 .. l : Total(q, i) = Total(q, i - 1) \o q[i]
      BY <1>t, Zenon DEF Totals
  <2> QED
      BY <2>1, <2>2
<1> DEFINE D == {m \in j .. l : ~Extends(Total(q, m), Total(q, j), S)}
<1> SUFFICES ASSUME D # {} PROVE FALSE
    OBVIOUS
<1>1. D \in SUBSET Nat
    OBVIOUS
<1>2. PICK m \in D : \A n \in D : m <= n
    BY <1>1, Least
<1>3. m \in j .. l /\ ~Extends(Total(q, m), Total(q, j), S)
    BY <1>2
<1>4. m # j
    BY <1>0, <1>3, ExtendsSelf
<1>5. m - 1 \in j .. l /\ ~(m <= m - 1) /\ m \in 1 .. l
    BY <1>0, <1>3, <1>4
<1>6. Extends(Total(q, m - 1), Total(q, j), S)
    BY <1>2, <1>5
<1>7. Total(q, m) = Total(q, m - 1) \o q[m] /\ q[m] \in Seq(S) /\ Total(q, j) \in Seq(S)
    BY <1>0, <1>5
<1>8. Extends(Total(q, m), Total(q, j), S)
  <2> DEFINE a == Total(q, j)
             b == Total(q, m - 1)
  <2>1. a \in Seq(S) /\ Extends(b, a, S) /\ q[m] \in Seq(S)
      BY <1>6, <1>7
  <2> HIDE DEF a, b
  <2>2. Extends(b \o q[m], a, S)
      BY <2>1, ExtendsMore
  <2> QED
      BY <1>7, <2>2 DEF a, b
<1> QED
    BY <1>3, <1>8

\* Where nothing is added the total stays.
LEMMA TotalSame ==
    ASSUME NEW S, NEW q \in Seq(Seq(S)), NEW j \in 0 .. Len(q), NEW k \in j .. Len(q),
           \A i \in j + 1 .. k : q[i] = <<>>
    PROVE  Total(q, k) = Total(q, j)
<1> DEFINE l == Len(q)
<1>t. Totals(q, S)
    BY TotalIs
<1>0. /\ l \in Nat /\ \A i \in 0 .. l : Total(q, i) \in Seq(S)
      /\ \A i \in 1 .. l : Total(q, i) = Total(q, i - 1) \o q[i]
  <2>1. l \in Nat /\ \A i \in 1 .. l : q[i] \in Seq(S)
      OBVIOUS
  <2>2. /\ \A i \in 0 .. l : Total(q, i) \in Seq(S)
        /\ \A i \in 1 .. l : Total(q, i) = Total(q, i - 1) \o q[i]
      BY <1>t, Zenon DEF Totals
  <2> QED
      BY <2>1, <2>2
<1> DEFINE D == {m \in j .. k : Total(q, m) # Total(q, j)}
<1> SUFFICES ASSUME D # {} PROVE FALSE
    OBVIOUS
<1>1. D \in SUBSET Nat
    OBVIOUS
<1>2. PICK m \in D : \A n \in D : m <= n
    BY <1>1, Least
<1>3. m \in j .. k /\ Total(q, m) # Total(q, j)
    BY <1>2
<1>4. m # j
    BY <1>3
<1>5. /\ m - 1 \in j .. k /\ ~(m <= m - 1) /\ m \in 1 .. l /\ m \in j + 1 .. k
      /\ m - 1 \in 0 .. l
    BY <1>0, <1>3, <1>4
<1>6. Total(q, m - 1) = Total(q, j)
    BY <1>2, <1>5
<1>7. Total(q, m) = Total(q, m - 1) \o <<>> /\ Total(q, m - 1) \in Seq(S)
    BY <1>0, <1>5
<1>8. Total(q, m - 1) \o <<>> = Total(q, m - 1)
    BY <1>7, ConcatEmptySeq
<1> QED
    BY <1>3, <1>6, <1>7, <1>8

-----------------------------------------------------------------------------
(* The lines of a text *)

Items(C) == Nat \X Seq(C)

\* A directory, as the assumption has it, whose texts are made of the characters C.
DirOver(d, C) ==
    /\ Len(d) \in Nat /\ DOMAIN d = 1 .. Len(d)
    /\ \A n \in 1 .. Len(d) : d[n].text \in Seq(C)

\* Every directory is made of some set of characters.
LEMMA DirHas ==
    ASSUME NEW d \in Directories
    PROVE  \E C : DirOver(d, C)
<1> DEFINE C == UNION {Range(e.text) : e \in Range(d)}
<1>1. d \in Seq(Range(d)) /\ \A e \in Range(d) : e.text \in Seq(Range(e.text))
    BY GrepAssumption
<1>2. Len(d) \in Nat /\ DOMAIN d = 1 .. Len(d)
    BY <1>1
<1>3. ASSUME NEW n \in 1 .. Len(d) PROVE d[n].text \in Seq(C)
  <2> DEFINE e == d[n]
  <2>1. e \in Range(d)
      BY <1>2 DEF Range
  <2> DEFINE R == Range(e.text)
  <2>2. e.text \in Seq(R) /\ R \subseteq C
      BY <1>1, <2>1
  <2> HIDE DEF R, C
  <2>3. Seq(R) \subseteq Seq(C)
      BY <2>2
  <2> QED
      BY <2>2, <2>3
<1> HIDE DEF C
<1> QED
    BY <1>2, <1>3 DEF DirOver

\* The line that ends in front of place e, once it is known where the one before it
\* ended.
LEMMA LineIs ==
    ASSUME NEW C, NEW t \in Seq(C), NEW b \in Nat, NEW e \in b + 1 .. Len(t) + 1,
           b = 0 \/ t[b] = NL, \A i \in b + 1 .. e - 1 : t[i] # NL
    PROVE  LineBefore(t, e) = SubSeq(t, b + 1, e - 1)
<1> DEFINE S == {i \in 1 .. e - 1 : t[i] = NL} \cup {0}
<1>0. Len(t) \in Nat /\ e \in Nat
    OBVIOUS
<1>1. b \in S /\ \A y \in S : y \in Nat /\ b >= y
  <2>1. b \in S
      BY <1>0
  <2>2. ASSUME NEW y \in S PROVE y \in Nat /\ b >= y
    <3>1. CASE y = 0
        BY <3>1
    <3>2. CASE y # 0
      <4>1. y \in 1 .. e - 1 /\ t[y] = NL
          BY <3>2
      <4>2. y \notin b + 1 .. e - 1
          BY <4>1
      <4> QED
          BY <1>0, <4>1, <4>2
    <3> QED
        BY <3>1, <3>2
  <2> QED
      BY <2>1, <2>2
<1> HIDE DEF S
<1>2. \E x \in S : \A y \in S : x >= y
    BY <1>1
<1>3. Max(S) \in S /\ \A y \in S : Max(S) >= y
    BY <1>2 DEF Max
<1>4. Max(S) = b
  <2> DEFINE x == Max(S)
  <2>1. x \in S /\ x >= b
      BY <1>1, <1>3
  <2> HIDE DEF x
  <2>2. x \in Nat /\ b >= x
      BY <1>1, <2>1
  <2>3. x = b
      BY <2>1, <2>2
  <2> QED
      BY <2>3 DEF x
<1> QED
    BY <1>4 DEF LineBefore, S

\* Every line is a part of its text.
LEMMA LineType ==
    ASSUME NEW C, NEW t \in Seq(C), NEW e \in 1 .. Len(t) + 1
    PROVE  LineBefore(t, e) \in Seq(C)
<1> DEFINE S == {i \in 1 .. e - 1 : t[i] = NL} \cup {0}
           D == {b \in Nat : \E m \in S : b = (e - 1) - m}
<1>0. Len(t) \in Nat /\ e \in Nat /\ \A m \in S : m \in 0 .. e - 1
    OBVIOUS
<1>1. D \in SUBSET Nat /\ (e - 1) - 0 \in D
    BY <1>0
<1>2. PICK b \in D : \A c \in D : b <= c
    BY <1>1, Least
<1>3. PICK m \in S : b = (e - 1) - m
    BY <1>2
<1>4. \A y \in S : m >= y
  <2> SUFFICES ASSUME NEW y \in S PROVE m >= y
      OBVIOUS
  <2>1. y \in 0 .. e - 1 /\ m \in 0 .. e - 1
      BY <1>0
  <2>2. (e - 1) - y \in D
      BY <1>0, <2>1
  <2>3. b <= (e - 1) - y
      BY <1>2, <2>2
  <2> QED
      BY <1>0, <1>3, <2>1, <2>3
<1>5. m \in 0 .. e - 1
    BY <1>0
<1> HIDE DEF S, D
<1>6. Max(S) \in S
  <2>1. \E x \in S : \A y \in S : x >= y
      BY <1>4
  <2> QED
      BY <2>1 DEF Max
<1>7. Max(S) \in 0 .. e - 1
    BY <1>0, <1>6
<1> DEFINE x == Max(S)
<1> HIDE DEF x
<1>8. x + 1 \in Int /\ e - 1 \in Int /\ \A i \in x + 1 .. e - 1 : t[i] \in C
    BY <1>0, <1>7 DEF x
<1>9. SubSeq(t, x + 1, e - 1) \in Seq(C)
    BY <1>8, SubSeqProperties
<1> QED
    BY <1>9 DEF LineBefore, S, x

\* The hits of a text, one sequence for each place of it.
LEMMA HitsType ==
    ASSUME NEW p, NEW C, NEW n \in Nat, NEW t \in Seq(C)
    PROVE  /\ Hits(p, n, t) \in Seq(Seq(Items(C))) /\ Len(Hits(p, n, t)) = Len(t) + 1
           /\ \A e \in 1 .. Len(t) + 1 : Hits(p, n, t)[e] = Hit(p, n, t, e)
<1>0. Len(t) + 1 \in Nat
    OBVIOUS
<1>1. ASSUME NEW e \in 1 .. Len(t) + 1 PROVE Hit(p, n, t, e) \in Seq(Items(C))
  <2> DEFINE x == <<n, LineBefore(t, e)>>
  <2>1. x \in Items(C)
      BY LineType DEF Items
  <2> HIDE DEF x
  <2>2. <<x>> \in Seq(Items(C)) /\ <<>> \in Seq(Items(C))
      BY <2>1
  <2> QED
      BY <2>2 DEF Hit, x
<1> DEFINE l == Len(t) + 1
           h == [e \in 1 .. l |-> Hit(p, n, t, e)]
<1>2. \A e \in 1 .. l : Hit(p, n, t, e) \in Seq(Items(C))
    BY <1>1
<1>3. l \in Nat
    BY <1>0
<1> HIDE DEF l
<1>4. h \in Seq(Seq(Items(C))) /\ Len(h) = l /\ \A e \in 1 .. l : h[e] = Hit(p, n, t, e)
    BY <1>2, <1>3
<1> QED
    BY <1>4 DEF Hits, h, l

\* The hits of a directory, one sequence for each entry.
LEMMA EntriesType ==
    ASSUME NEW p, NEW C, NEW d, DirOver(d, C)
    PROVE  /\ Entries(p, d) \in Seq(Seq(Items(C))) /\ Len(Entries(p, d)) = Len(d)
           /\ \A n \in 1 .. Len(d) :
                 Entries(p, d)[n] = IF d[n].dot THEN <<>>
                                    ELSE FlattenSeq(Hits(p, n, d[n].text))
<1> DEFINE found(n) == IF d[n].dot THEN <<>> ELSE FlattenSeq(Hits(p, n, d[n].text))
           l == Len(d)
           E == [n \in 1 .. l |-> found(n)]
<1>1. ASSUME NEW n \in 1 .. l PROVE found(n) \in Seq(Items(C))
  <2> DEFINE h == Hits(p, n, d[n].text)
  <2>1. d[n].text \in Seq(C) /\ n \in Nat
      BY DEF DirOver
  <2>2. h \in Seq(Seq(Items(C)))
      BY <2>1, HitsType
  <2> HIDE DEF h
  <2>3. Totals(h, Items(C)) /\ Len(h) \in 0 .. Len(h)
      BY <2>2, TotalIs
  <2>4. FlattenSeq(h) \in Seq(Items(C))
      BY <2>3 DEF Totals
  <2> QED
      BY <2>4 DEF h
<1>2. l \in Nat
    BY DEF DirOver
<1> HIDE DEF l, found
<1>3. E \in Seq(Seq(Items(C))) /\ Len(E) = l /\ \A n \in 1 .. l : E[n] = found(n)
    BY <1>1, <1>2
<1> QED
    BY <1>3 DEF Entries, E, l, found

\* Sequences are the same when their elements are.
LEMMA SameSeq ==
    ASSUME NEW C, NEW P, NEW q \in Seq(C), NEW p \in Seq(P), Len(q) = Len(p),
           \A i \in 1 .. Len(p) : q[i] = p[i]
    PROVE  q = p
<1>1. /\ q = [i \in 1 .. Len(q) |-> q[i]] /\ p = [i \in 1 .. Len(p) |-> p[i]]
    OBVIOUS
<1> QED
    BY <1>1

\* Places i + 1 to j of a sequence.
LEMMA Part ==
    ASSUME NEW C, NEW l \in Seq(C), NEW i \in Nat, NEW j \in i .. Len(l)
    PROVE  /\ SubSeq(l, i + 1, j) \in Seq(C) /\ Len(SubSeq(l, i + 1, j)) = j - i
           /\ \A k \in 1 .. j - i : SubSeq(l, i + 1, j)[k] = l[i + k]
<1>1. PICK a \in Int : a = i + 1
    OBVIOUS
<1> DEFINE q == SubSeq(l, a, j)
<1>2. j \in Int /\ \A k \in a .. j : l[k] \in C
    BY <1>1
<1>3. /\ q \in Seq(C) /\ Len(q) = IF a <= j THEN j - a + 1 ELSE 0
      /\ \A k \in 1 .. j - a + 1 : q[k] = l[a + k - 1]
    BY <1>2, SubSeqProperties
<1> HIDE DEF q
<1>4. ASSUME NEW k \in 1 .. j - i PROVE q[k] = l[i + k]
  <2>1. a + k - 1 = i + k /\ k \in 1 .. j - a + 1
      BY <1>1
  <2> QED
      BY <1>3, <2>1
<1>5. Len(q) = j - i
    BY <1>1, <1>3
<1> QED
    BY <1>1, <1>3, <1>4, <1>5 DEF q

\* o is a with b behind it.
IsCat(o, a, b) == o = a \o b

\* Joining is associative.
LEMMA Joins ==
    ASSUME NEW S, NEW u \in Seq(S), NEW v \in Seq(S), NEW w \in Seq(S), NEW y, NEW uv, NEW uy,
           IsCat(y, v, w), IsCat(uv, u, v), IsCat(uy, u, y)
    PROVE  IsCat(uy, uv, w)
<1>1. u \o (v \o w) = (u \o v) \o w
    BY SMTT(30), ConcatAssociative
<1> QED
    BY SMTT(30), <1>1 DEF IsCat

\* What a line of entry n adds to the result.
Adds(p, n, l) == IF HasMatch(p, l) THEN << <<n, l>> >> ELSE <<>>

\* A whole line adds itself to what has been found, if it has a match.
LEMMA LineAdds ==
    ASSUME NEW p, NEW C, NEW n \in Nat, NEW t \in Seq(C), NEW b \in 0 .. Len(t),
           NEW e \in b + 1 .. Len(t) + 1, b = 0 \/ t[b] = NL,
           \A i \in b + 1 .. e - 1 : t[i] # NL, e = Len(t) + 1 \/ t[e] = NL
    PROVE  IsCat(Total(Hits(p, n, t), e), Total(Hits(p, n, t), b),
                 Adds(p, n, SubSeq(t, b + 1, e - 1)))
<1> DEFINE h == Hits(p, n, t)
           l == SubSeq(t, b + 1, e - 1)
<1>0. Len(t) \in Nat /\ b \in Nat /\ e \in Nat /\ e - 1 \in b .. Len(t) + 1 /\ e \in 1 .. Len(t) + 1
    OBVIOUS
<1>1. /\ h \in Seq(Seq(Items(C))) /\ Len(h) = Len(t) + 1
      /\ \A i \in 1 .. Len(t) + 1 : h[i] = Hit(p, n, t, i)
    BY HitsType
<1>2. LineBefore(t, e) = l
    BY <1>0, LineIs
<1>3. Hit(p, n, t, e) = Adds(p, n, l)
    BY <1>2 DEF Hit, Adds
<1>4. ASSUME NEW i \in b + 1 .. e - 1 PROVE h[i] = <<>>
  <2>1. i \in 1 .. Len(t) + 1 /\ i # Len(t) + 1 /\ t[i] # NL
      BY <1>0
  <2> QED
      BY <1>1, <2>1 DEF Hit
<1> HIDE DEF h, l
<1>5. Total(h, e - 1) = Total(h, b)
  <2>1. b \in 0 .. Len(h) /\ e - 1 \in b .. Len(h)
      BY <1>0, <1>1
  <2>2. \A i \in b + 1 .. e - 1 : h[i] = <<>>
      BY <1>4
  <2> QED
      BY <1>1, <2>1, <2>2, TotalSame
<1>6. Total(h, e) = Total(h, e - 1) \o h[e]
  <2>1. Totals(h, Items(C)) /\ e \in 1 .. Len(h)
      BY <1>0, <1>1, TotalIs
  <2> QED
      BY <2>1, Zenon DEF Totals
<1>7. h[e] = Hit(p, n, t, e)
    BY <1>0, <1>1
<1> QED
    BY <1>3, <1>5, <1>6, <1>7 DEF IsCat, h, l

\* Nothing is found in an empty line.
LEMMA EmptyAdds ==
    ASSUME NEW p, NEW P, p \in Seq(P), p # <<>>, NEW C, NEW n \in Nat, NEW t \in Seq(C),
           NEW b \in 0 .. Len(t), b = 0 \/ t[b] = NL
    PROVE  Total(Hits(p, n, t), b + 1) = Total(Hits(p, n, t), b)
<1> DEFINE h == Hits(p, n, t)
<1>0. Len(t) \in Nat /\ b \in Nat /\ b + 1 \in 1 .. Len(t) + 1 /\ b + 1 \in b + 1 .. Len(t) + 1
    OBVIOUS
<1>1. /\ h \in Seq(Seq(Items(C))) /\ Len(h) = Len(t) + 1
      /\ \A i \in 1 .. Len(t) + 1 : h[i] = Hit(p, n, t, i)
    BY HitsType
<1>2. LineBefore(t, b + 1) = <<>>
  <2>1. LineBefore(t, b + 1) = SubSeq(t, b + 1, (b + 1) - 1)
    <3>1. \A i \in b + 1 .. (b + 1) - 1 : t[i] # NL
        BY <1>0
    <3> QED
        BY <1>0, <3>1, LineIs
  <2>2. b + 1 \in Int /\ (b + 1) - 1 \in Int /\ (b + 1) - 1 < b + 1
      BY <1>0
  <2>3. SubSeq(t, b + 1, (b + 1) - 1) = <<>>
      BY <2>2, SubSeqEmpty
  <2> QED
      BY <2>1, <2>3
<1>3. ~HasMatch(p, <<>>)
  <2>1. Len(p) \in Nat /\ Len(p) # 0 /\ Len(<<>>) = 0
      OBVIOUS
  <2>2. 0 .. Len(<<>>) - Len(p) = {}
      BY <2>1
  <2> QED
      BY <2>2 DEF HasMatch
<1>4. h[b + 1] = <<>>
    BY <1>0, <1>1, <1>2, <1>3 DEF Hit
<1> HIDE DEF h
<1>5. Total(h, b + 1) = Total(h, b)
  <2>1. b \in 0 .. Len(h) /\ b + 1 \in b .. Len(h)
      BY <1>0, <1>1
  <2>2. \A i \in b + 1 .. b + 1 : h[i] = <<>>
      BY <1>0, <1>4
  <2> QED
      BY <1>1, <2>1, <2>2, TotalSame
<1> QED
    BY <1>5 DEF h

\* The search loop finds p between a and z.
MatchIn(buffer, p, a, z) ==
    \E check \in a .. z - 1 :
        \A i \in 1 .. Len(p) : check + i - 1 < z /\ buffer[check + i - 1] = p[i]

\* The search loop finds the pattern exactly where the line contains it.
LEMMA MatchIs ==
    ASSUME NEW p, NEW P, p \in Seq(P), p # <<>>, NEW a \in Nat, NEW z \in Nat, a <= z,
           NEW buffer, NEW C, NEW l \in Seq(C), Len(l) = z - a,
           \A i \in 1 .. z - a : l[i] = buffer[a + i - 1]
    PROVE  HasMatch(p, l) <=> MatchIn(buffer, p, a, z)
<1> DEFINE m == Len(p)
<1>0. m \in Nat /\ m >= 1 /\ m \in 1 .. m
    OBVIOUS
<1>1. ASSUME NEW i \in 0 .. Len(l) - m
      PROVE  /\ SubSeq(l, i + 1, i + m) \in Seq(C) /\ Len(SubSeq(l, i + 1, i + m)) = m
             /\ \A j \in 1 .. m : /\ SubSeq(l, i + 1, i + m)[j] = buffer[(a + i) + j - 1]
                                  /\ (a + i) + j - 1 < z
  <2> DEFINE q == SubSeq(l, i + 1, i + m)
  <2>1. i \in Nat /\ i + m \in i .. Len(l) /\ (i + m) - i = m
      BY <1>0
  <2> HIDE DEF m
  <2>3. q \in Seq(C) /\ Len(q) = m /\ \A j \in 1 .. m : q[j] = l[i + j]
    <3>1. PICK y \in i .. Len(l) : y = i + m
        BY <2>1
    <3>2. /\ SubSeq(l, i + 1, y) \in Seq(C) /\ Len(SubSeq(l, i + 1, y)) = y - i
          /\ \A j \in 1 .. y - i : SubSeq(l, i + 1, y)[j] = l[i + j]
      <4>1. i \in Nat
          BY <2>1
      <4> QED
          BY ZenonT(60), <4>1, Part
    <3> QED
        BY <2>1, <3>1, <3>2
  <2>4. ASSUME NEW j \in 1 .. m PROVE q[j] = buffer[(a + i) + j - 1] /\ (a + i) + j - 1 < z
    <3>1. /\ i + j \in 1 .. z - a /\ a + (i + j) - 1 = (a + i) + j - 1
          /\ (a + i) + j - 1 < z
        BY <1>0
    <3> HIDE DEF q
    <3> QED
        BY <2>3, <3>1
  <2> QED
      BY <2>3, <2>4
<1>2. ASSUME HasMatch(p, l)
      PROVE  \E check \in a .. z - 1 :
                \A i \in 1 .. m : check + i - 1 < z /\ buffer[check + i - 1] = p[i]
  <2>1. PICK i \in 0 .. Len(l) - m : SubSeq(l, i + 1, i + m) = p
      BY <1>2 DEF HasMatch
  <2>2. a + i \in a .. z - 1
      BY <1>0
  <2>3. \A j \in 1 .. m : (a + i) + j - 1 < z /\ buffer[(a + i) + j - 1] = p[j]
      BY <1>1, <2>1
  <2> QED
      BY <2>2, <2>3
<1>3. ASSUME NEW check \in a .. z - 1,
             \A i \in 1 .. m : check + i - 1 < z /\ buffer[check + i - 1] = p[i]
      PROVE  HasMatch(p, l)
  <2>1. check + m - 1 < z
      BY <1>0, <1>3
  <2>2. check - a \in 0 .. Len(l) - m /\ a + (check - a) = check
      BY <1>0, <2>1
  <2> DEFINE i == check - a
             q == SubSeq(l, i + 1, i + m)
  <2>3. i \in 0 .. Len(l) - m /\ a + i = check
      BY <2>2
  <2> HIDE DEF i
  <2>4. q \in Seq(C) /\ Len(q) = m /\ \A j \in 1 .. m : q[j] = buffer[check + j - 1]
      BY <1>1, <2>3
  <2> HIDE DEF q
  <2>5. q = p
    <3>1. \A j \in 1 .. Len(p) : q[j] = p[j]
        BY <1>3, <2>4
    <3> QED
        BY <2>4, <3>1, SameSeq
  <2> QED
      BY <2>3, <2>5 DEF HasMatch, q
<1> QED
    BY <1>2, <1>3 DEF MatchIn

-----------------------------------------------------------------------------
(* What has been printed, entry by entry *)

\* The two parts of what has been printed are sequences of items.
LEMMA OutParts ==
    ASSUME NEW p, NEW C, NEW d, DirOver(d, C), NEW n \in 1 .. Len(d),
           NEW k \in 0 .. Len(d[n].text) + 1
    PROVE  /\ Total(Entries(p, d), n - 1) \in Seq(Items(C))
           /\ Total(Hits(p, n, d[n].text), k) \in Seq(Items(C))
<1> DEFINE E == Entries(p, d)
           t == d[n].text
           h == Hits(p, n, t)
<1>1. Len(d) \in Nat /\ t \in Seq(C) /\ n \in Nat
    BY DEF DirOver
<1>2. E \in Seq(Seq(Items(C))) /\ Len(E) = Len(d)
    BY EntriesType
<1>3. h \in Seq(Seq(Items(C))) /\ Len(h) = Len(t) + 1
    BY ZenonT(60), <1>1, HitsType
<1> HIDE DEF E, h
<1>4. Totals(E, Items(C)) /\ n - 1 \in 0 .. Len(E)
    BY <1>1, <1>2, TotalIs
<1>5. Totals(h, Items(C)) /\ k \in 0 .. Len(h)
    BY <1>3, TotalIs
<1>6. Total(E, n - 1) \in Seq(Items(C)) /\ Total(h, k) \in Seq(Items(C))
    BY <1>4, <1>5, Zenon DEF Totals
<1> QED
    BY <1>6 DEF E, h

\* What joins to the hits of an entry joins to everything printed.
LEMMA OutJoins ==
    ASSUME NEW p, NEW C, NEW d, DirOver(d, C), NEW n \in 1 .. Len(d),
           NEW b \in 0 .. Len(d[n].text) + 1, NEW e, NEW x \in Seq(Items(C)),
           IsCat(Total(Hits(p, n, d[n].text), e), Total(Hits(p, n, d[n].text), b), x)
    PROVE  IsCat(OutTo(p, d, n, e), OutTo(p, d, n, b), x)
<1> DEFINE a == Total(Entries(p, d), n - 1)
           h == Total(Hits(p, n, d[n].text), b)
           y == Total(Hits(p, n, d[n].text), e)
<1>1. a \in Seq(Items(C)) /\ h \in Seq(Items(C)) /\ IsCat(y, h, x)
    BY OutParts
<1>2. IsCat(OutTo(p, d, n, b), a, h) /\ IsCat(OutTo(p, d, n, e), a, y)
    BY DEF OutTo, IsCat
<1> HIDE DEF a, h, y
<1> QED
    BY <1>1, <1>2, Joins

\* A whole line takes what has been printed up to its end.
LEMMA OutAdds ==
    ASSUME NEW p, NEW C, NEW d, DirOver(d, C), NEW n \in 1 .. Len(d), NEW t,
           t = d[n].text, NEW b \in 0 .. Len(t), NEW e \in b + 1 .. Len(t) + 1,
           b = 0 \/ t[b] = NL, \A i \in b + 1 .. e - 1 : t[i] # NL,
           e = Len(t) + 1 \/ t[e] = NL
    PROVE  IsCat(OutTo(p, d, n, e), OutTo(p, d, n, b), Adds(p, n, SubSeq(t, b + 1, e - 1)))
<1> DEFINE l == SubSeq(t, b + 1, e - 1)
           x == Adds(p, n, l)
<1>1. Len(d) \in Nat /\ t \in Seq(C) /\ n \in Nat /\ Len(t) \in Nat
    BY DEF DirOver
<1>2. x \in Seq(Items(C))
  <2>1. b \in Nat /\ e - 1 \in b .. Len(t)
      BY <1>1
  <2>2. l \in Seq(C)
    <3>1. PICK y \in b .. Len(t) : y = e - 1
        BY <2>1
    <3>2. SubSeq(t, b + 1, y) \in Seq(C)
        BY <1>1, <2>1, Part
    <3> QED
        BY <3>1, <3>2
  <2> HIDE DEF l
  <2>3. <<n, l>> \in Items(C)
      BY <1>1, <2>2 DEF Items
  <2> QED
      BY <2>3 DEF Adds
<1>3. IsCat(Total(Hits(p, n, t), e), Total(Hits(p, n, t), b), x)
    BY <1>1, LineAdds
<1> HIDE DEF x
<1>4. b \in 0 .. Len(t) + 1
    BY <1>1
<1>5. IsCat(OutTo(p, d, n, e), OutTo(p, d, n, b), x)
    BY <1>2, <1>3, <1>4, OutJoins
<1> QED
    BY <1>5 DEF x

\* The empty line behind a newline adds nothing.
LEMMA OutEmpty ==
    ASSUME NEW p, NEW P, p \in Seq(P), p # <<>>, NEW C, NEW d, DirOver(d, C),
           NEW n \in 1 .. Len(d), NEW b \in 0 .. Len(d[n].text), b = 0 \/ d[n].text[b] = NL
    PROVE  OutTo(p, d, n, b + 1) = OutTo(p, d, n, b)
<1>1. d[n].text \in Seq(C) /\ n \in Nat
    BY DEF DirOver
<1>2. Total(Hits(p, n, d[n].text), b + 1) = Total(Hits(p, n, d[n].text), b)
    BY <1>1, EmptyAdds
<1> QED
    BY <1>2 DEF OutTo

\* A whole file.
LEMMA OutWhole ==
    ASSUME NEW p, NEW C, NEW d, DirOver(d, C), NEW n \in 1 .. Len(d), ~d[n].dot
    PROVE  OutTo(p, d, n, Len(d[n].text) + 1) = Total(Entries(p, d), n)
<1> DEFINE E == Entries(p, d)
           t == d[n].text
           h == Hits(p, n, t)
<1>1. Len(d) \in Nat /\ t \in Seq(C) /\ n \in Nat
    BY DEF DirOver
<1>2. E \in Seq(Seq(Items(C))) /\ Len(E) = Len(d) /\ E[n] = FlattenSeq(h)
    BY EntriesType
<1>3. h \in Seq(Seq(Items(C))) /\ Len(h) = Len(t) + 1
    BY ZenonT(60), <1>1, HitsType
<1> HIDE DEF E, h
<1>4. Totals(E, Items(C)) /\ n \in 1 .. Len(E) /\ Totals(h, Items(C))
    BY <1>1, <1>2, <1>3, TotalIs
<1>5. Total(E, n) = Total(E, n - 1) \o E[n] /\ FlattenSeq(h) = Total(h, Len(h))
    BY <1>4, Zenon DEF Totals
<1> QED
    BY <1>2, <1>3, <1>5 DEF OutTo, E, h

\* An entry whose name starts with a dot adds nothing.
LEMMA OutDot ==
    ASSUME NEW p, NEW C, NEW d, DirOver(d, C), NEW n \in 1 .. Len(d), d[n].dot
    PROVE  Total(Entries(p, d), n) = Total(Entries(p, d), n - 1)
<1> DEFINE E == Entries(p, d)
<1>1. Len(d) \in Nat /\ n \in Nat
    BY DEF DirOver
<1>2. E \in Seq(Seq(Items(C))) /\ Len(E) = Len(d) /\ E[n] = <<>>
    BY EntriesType
<1> HIDE DEF E
<1>3. /\ n - 1 \in 0 .. Len(E) /\ n \in n - 1 .. Len(E)
      /\ \A i \in (n - 1) + 1 .. n : E[i] = <<>>
    BY <1>1, <1>2
<1>4. Total(E, n) = Total(E, n - 1)
  <2>1. PICK j \in 0 .. Len(E) : j = n - 1
      BY <1>3
  <2>2. n \in j .. Len(E) /\ \A i \in j + 1 .. n : E[i] = <<>>
      BY <1>3, <2>1
  <2>3. Total(E, n) = Total(E, j)
      BY <1>2, <2>2, TotalSame
  <2> QED
      BY <2>1, <2>3
<1> QED
    BY <1>4 DEF E

\* What has been printed is what the whole result begins with.
LEMMA OutBegins ==
    ASSUME NEW p, NEW C, NEW d, DirOver(d, C), NEW n \in 0 .. Len(d)
    PROVE  IsPrefix(Total(Entries(p, d), n), FlattenSeq(Entries(p, d)))
<1> DEFINE E == Entries(p, d)
           S == Items(C)
<1>1. E \in Seq(Seq(S)) /\ Len(E) = Len(d) /\ Len(E) \in Nat
    BY EntriesType DEF DirOver
<1> HIDE DEF E, S
<1>2. Totals(E, S) /\ n \in 0 .. Len(E) /\ Len(E) \in n .. Len(E)
    BY <1>1, TotalIs
<1>3. FlattenSeq(E) = Total(E, Len(E)) /\ Total(E, n) \in Seq(S)
    BY <1>2, Zenon DEF Totals
<1>4. Extends(Total(E, Len(E)), Total(E, n), S)
    BY <1>1, <1>2, TotalExtends
<1>5. IsPrefix(Total(E, n), FlattenSeq(E))
    BY <1>3, <1>4, ExtendsPrefix
<1> QED
    BY <1>5 DEF E

\* So is what has been printed in the middle of a file.
LEMMA OutToBegins ==
    ASSUME NEW p, NEW C, NEW d, DirOver(d, C), NEW n \in 1 .. Len(d), ~d[n].dot,
           NEW k \in 0 .. Len(d[n].text) + 1
    PROVE  IsPrefix(OutTo(p, d, n, k), FlattenSeq(Entries(p, d)))
<1> DEFINE E == Entries(p, d)
           S == Items(C)
           t == d[n].text
           h == Hits(p, n, t)
           a == Total(E, n - 1)
<1>1. E \in Seq(Seq(S)) /\ Len(E) = Len(d) /\ Len(E) \in Nat
    BY EntriesType DEF DirOver
<1>2. t \in Seq(C) /\ n \in Nat /\ Len(t) \in Nat
    BY DEF DirOver
<1>3. h \in Seq(Seq(S)) /\ Len(h) = Len(t) + 1
    BY ZenonT(60), <1>2, HitsType
<1>4. a \in Seq(S) /\ Total(h, k) \in Seq(S)
    BY OutParts
<1>5. a \o Total(h, Len(t) + 1) = Total(E, n)
    BY OutWhole DEF OutTo
<1>6. OutTo(p, d, n, k) = a \o Total(h, k)
    BY DEF OutTo
<1> HIDE DEF E, S, h, a
<1>7. Extends(Total(h, Len(t) + 1), Total(h, k), S)
  <2>1. k \in 0 .. Len(h) /\ Len(h) \in k .. Len(h)
      BY <1>2, <1>3
  <2> QED
      BY <1>3, <2>1, TotalExtends
<1>8. Extends(Total(E, n), a \o Total(h, k), S)
    BY <1>4, <1>5, <1>7, ExtendsBehind
<1>9. FlattenSeq(E) = Total(E, Len(E)) /\ Extends(Total(E, Len(E)), Total(E, n), S)
  <2>1. Totals(E, S) /\ n \in 0 .. Len(E) /\ Len(E) \in n .. Len(E)
      BY <1>1, <1>2, TotalIs
  <2>2. FlattenSeq(E) = Total(E, Len(E))
      BY <2>1, Zenon DEF Totals
  <2> QED
      BY <1>1, <2>1, <2>2, TotalExtends
<1>10. a \o Total(h, k) \in Seq(S)
    BY <1>4, ConcatProperties
<1>11. Extends(FlattenSeq(E), a \o Total(h, k), S)
    BY <1>8, <1>9, <1>10, ExtendsTrans
<1>12. IsPrefix(a \o Total(h, k), FlattenSeq(E))
    BY <1>10, <1>11, ExtendsPrefix
<1> QED
    BY <1>6, <1>12 DEF E

-----------------------------------------------------------------------------
(* The buffer *)

\* A line of the buffer that is searched is a line of the text.
LineOf(t, f, a, z, le, done, e) ==
    /\ e = done + (le - a) + 1 /\ e \in done + 1 .. Len(t) + 1
    /\ \A i \in done + 1 .. e - 1 : t[i] # NL
    /\ e = Len(t) + 1 \/ t[e] = NL
    /\ le < z => e <= Len(t) /\ t[e] = NL
    /\ le = z => e + Len(f) = Len(t) + 1

\* A line that the scan delimits in the buffer is a line of the text: a line cut by
\* the end of the buffer fills it, and then its newline is the next byte.
LEMMA EndOfLine ==
    ASSUME NEW C, NEW t \in Seq(C), NEW f, Len(f) \in Nat, f = <<>> \/ Len(f) > 0,
           NEW buffer, NEW a, NEW z, NEW done \in 0 .. Len(t),
           Buffered(t, f, buffer, a, z, done), NEW le \in a .. z,
           le = z \/ buffer[le] = NL, \A i \in a .. le - 1 : buffer[i] # NL, Plain(t),
           le = z => f = <<>> \/ (a = 0 /\ z = BUFSIZE)
    PROVE  LineOf(t, f, a, z, le, done, done + (le - a) + 1)
<1> DEFINE e == done + (le - a) + 1
<1>0. /\ BUFSIZE \in Nat /\ z \in 0 .. BUFSIZE /\ a \in 0 .. z /\ Len(t) \in Nat
      /\ done + (z - a) + Len(f) = Len(t)
      /\ \A i \in a .. z - 1 : buffer[i] = t[done + (i - a) + 1]
    BY GrepAssumption DEF Buffered
<1>1. /\ e \in done + 1 .. Len(t) + 1 /\ e \in Nat
      /\ le < z => e <= Len(t)
      /\ le = z => e + Len(f) = Len(t) + 1
  <2> DEFINE lt == Len(t)
             lf == Len(f)
  <2>1. /\ lt \in Nat /\ lf \in Nat /\ done \in 0 .. lt /\ z \in Nat /\ a \in 0 .. z
        /\ le \in a .. z /\ done + (z - a) + lf = lt
      BY <1>0
  <2> HIDE DEF lt, lf
  <2>2. /\ e \in done + 1 .. lt + 1 /\ e \in Nat
        /\ le < z => e <= lt
        /\ le = z => e + lf = lt + 1
      BY <2>1
  <2> QED
      BY <2>2 DEF lt, lf
<1>2. ASSUME NEW i \in done + 1 .. e - 1 PROVE t[i] # NL
  <2>1. /\ a + (i - done) - 1 \in a .. le - 1 /\ a + (i - done) - 1 \in a .. z - 1
        /\ done + ((a + (i - done) - 1) - a) + 1 = i
      BY <1>0
  <2> QED
      BY <1>0, <2>1
<1>3. le < z => t[e] = NL
  <2> SUFFICES ASSUME le < z PROVE t[e] = NL
      OBVIOUS
  <2>1. le \in a .. z - 1 /\ buffer[le] = NL
      BY <1>0
  <2> QED
      BY <1>0, <2>1
<1>4. e = Len(t) + 1 \/ t[e] = NL
  <2>1. CASE le < z
      BY <1>3, <2>1
  <2>2. CASE ~(le < z) /\ f = <<>>
    <3>1. le = z /\ Len(f) = 0
        BY <1>0, <2>2
    <3> QED
        BY <1>1, <3>1
  <2>3. CASE ~(le < z) /\ f # <<>>
    <3>1. le = z /\ a = 0 /\ z = BUFSIZE /\ Len(f) > 0
        BY <1>0, <2>3
    <3>2. e = done + 1 + BUFSIZE /\ done + 1 \in 1 .. Len(t) - BUFSIZE
        BY <1>0, <3>1
    <3>3. PICK j \in done + 1 .. (done + 1) + BUFSIZE : t[j] = NL
        BY <3>2 DEF Plain
    <3> HIDE DEF e
    <3>4. j \notin done + 1 .. e - 1
        BY <1>2, <3>3
    <3>5. j = e
        BY <1>0, <1>1, <3>2, <3>4
    <3> QED
        BY <3>3, <3>5
  <2> QED
      BY <2>1, <2>2, <2>3
<1> HIDE DEF e
<1>5. LineOf(t, f, a, z, le, done, e)
    BY <1>1, <1>2, <1>3, <1>4 DEF LineOf, e
<1> QED
    BY <1>5 DEF e

\* What a search adds takes the result up to the end of the line.
LEMMA ReachedNext ==
    ASSUME NEW p, NEW P, p \in Seq(P), p # <<>>, NEW C, NEW d, DirOver(d, C),
           NEW n \in 1 .. Len(d), NEW t, t = d[n].text, NEW o, NEW done \in 0 .. Len(t),
           Reached(p, d, n, o, done), NEW e \in done + 1 .. Len(t) + 1,
           \A i \in done + 1 .. e - 1 : t[i] # NL, e = Len(t) + 1 \/ t[e] = NL
    PROVE  IsCat(OutTo(p, d, n, e), o, Adds(p, n, SubSeq(t, done + 1, e - 1)))
<1>0. t \in Seq(C) /\ Len(t) \in Nat /\ Len(d) \in Nat
    BY DEF DirOver
<1>1. CASE (done = 0 \/ t[done] = NL) /\ o = OutTo(p, d, n, done)
    BY <1>1, OutAdds
<1>2. CASE (done = Len(t) \/ t[done + 1] = NL) /\ o = OutTo(p, d, n, done + 1)
  <2>1. e = done + 1
    <3>1. CASE e = done + 1
        BY <3>1
    <3>2. CASE e # done + 1
      <4>1. done + 1 \in done + 1 .. e - 1 /\ done # Len(t)
          BY <1>0, <3>2
      <4> QED
          BY <1>2, <4>1
    <3> QED
        BY <3>1, <3>2
  <2>2. SubSeq(t, done + 1, e - 1) = <<>>
    <3>1. done + 1 \in Int /\ e - 1 \in Int /\ e - 1 < done + 1
        BY <2>1
    <3> QED
        BY <3>1, SubSeqEmpty
  <2>3. Adds(p, n, <<>>) = <<>>
    <3>1. Len(p) \in Nat /\ Len(p) # 0 /\ Len(<<>>) = 0
        OBVIOUS
    <3>2. 0 .. Len(<<>>) - Len(p) = {}
        BY <3>1
    <3> QED
        BY <3>2 DEF HasMatch, Adds
  <2>4. o \in Seq(Items(C))
    <3> DEFINE u == Total(Entries(p, d), n - 1)
               v == Total(Hits(p, n, d[n].text), done + 1)
    <3>1. done + 1 \in 0 .. Len(d[n].text) + 1
        BY <1>0
    <3>2. u \in Seq(Items(C)) /\ v \in Seq(Items(C))
        BY <3>1, OutParts
    <3>3. o = u \o v
        BY <1>2 DEF OutTo
    <3> HIDE DEF u, v
    <3> QED
        BY <3>2, <3>3, ConcatProperties
  <2>5. o \o <<>> = o
      BY <2>4, ConcatEmptySeq
  <2> QED
      BY <1>2, <2>1, <2>2, <2>3, <2>5 DEF IsCat
<1> QED
    BY <1>1, <1>2 DEF Reached

\* Text without zero bytes is a string up to the terminator at line_end.
LEMMA StringEndIs ==
    ASSUME line_start \in Nat, line_end \in Nat, line_start <= line_end,
           \A i \in line_start .. line_end - 1 : data[i] # NUL
    PROVE  StringEnd(line_start) = line_end
<1> DEFINE a == line_start
           z == line_end
           P(n) == (n = z \/ data[n] = NUL) /\ \A i \in a .. n - 1 : data[i] # NUL
<1>1. StringEnd(line_start) = CHOOSE n \in a .. z : P(n)
    BY DEF StringEnd
<1>2. P(z) /\ z \in a .. z
    OBVIOUS
<1>3. ASSUME NEW n \in a .. z, P(n) PROVE n = z
  <2>1. n # z => n \in a .. z - 1
      OBVIOUS
  <2> QED
      BY <1>3, <2>1
<1> DEFINE x == CHOOSE n \in a .. z : P(n)
<1>4. x \in a .. z /\ P(x)
  <2> HIDE DEF P, a, z
  <2> QED
      BY <1>2
<1> HIDE DEF x, P
<1> QED
    BY <1>1, <1>3, <1>4 DEF x

\* The search prints what the line adds to the result.
LEMMA PrintedIs ==
    ASSUME line_start \in Nat, line_end \in Nat, line_start <= line_end, line_end <= last,
           NEW P, s \in Seq(P), s # <<>>, NEW C, NEW t \in Seq(C), NEW done \in 0 .. Len(t),
           Buffered(t, file, data, line_start, last, done), Len(file) \in Nat,
           NUL \notin Range(t)
    PROVE  Printed = Adds(s, entry, SubSeq(t, done + 1, done + (line_end - line_start)))
<1> DEFINE a == line_start
           z == line_end
<1>0. /\ a \in Nat /\ z \in Nat /\ a <= z /\ last \in Nat /\ z <= last /\ Len(t) \in Nat
      /\ done + (last - a) + Len(file) = Len(t)
      /\ \A i \in a .. last - 1 : data[i] = t[done + (i - a) + 1]
    BY GrepAssumption DEF Buffered
<1>1. PICK y \in done .. Len(t) : y = done + (z - a)
    BY <1>0
<1> DEFINE l == SubSeq(t, done + 1, y)
<1>2. l \in Seq(C) /\ Len(l) = y - done /\ \A i \in 1 .. y - done : l[i] = t[done + i]
  <2>1. done \in Nat
      BY <1>0
  <2> QED
      BY <2>1, Part
<1> HIDE DEF l
<1>3. Len(l) = z - a /\ y - done = z - a
    BY <1>0, <1>1, <1>2
<1>4. ASSUME NEW i \in 1 .. z - a PROVE l[i] = data[a + i - 1]
  <2>1. a + i - 1 \in a .. last - 1 /\ done + ((a + i - 1) - a) + 1 = done + i
      BY <1>0
  <2> QED
      BY <1>0, <1>2, <1>3, <2>1
<1>5. \A i \in a .. z - 1 : data[i] # NUL
  <2> SUFFICES ASSUME NEW i \in a .. z - 1 PROVE data[i] # NUL
      OBVIOUS
  <2>1. i \in a .. last - 1 /\ done + (i - a) + 1 \in 1 .. Len(t)
      BY <1>0
  <2>2. data[i] \in Range(t)
      BY <1>0, <2>1 DEF Range
  <2> QED
      BY <2>2
<1>6. StringEnd(line_start) = z
    BY <1>0, <1>5, StringEndIs
<1>7. [i \in 1 .. z - a |-> data[a + i - 1]] = l
  <2> DEFINE g == [i \in 1 .. z - a |-> data[a + i - 1]]
  <2>1. l = [i \in 1 .. Len(l) |-> l[i]]
      BY <1>2
  <2> QED
      BY <1>3, <1>4, <2>1
<1>8. HasMatch(s, l) <=> \E check \in Places : MatchesAt(check)
  <2>1. (\E check \in Places : MatchesAt(check)) <=> MatchIn(data, s, a, z)
      BY DEF Places, MatchesAt, MatchIn
  <2>2. \A i \in 1 .. z - a : l[i] = data[a + i - 1]
      BY <1>4
  <2> HIDE DEF a, z
  <2>3. HasMatch(s, l) <=> MatchIn(data, s, a, z)
      BY <1>0, <1>2, <1>3, <2>2, MatchIs
  <2> QED
      BY <2>1, <2>3
<1>9. Printed = Adds(s, entry, l)
    BY <1>6, <1>7, <1>8 DEF Printed, Adds
<1> QED
    BY <1>1, <1>9 DEF l

-----------------------------------------------------------------------------
(* Every step keeps the invariant *)

\* Wherever the program is, what it has printed begins the expected output.
LEMMA FindsBegins ==
    ASSUME dir \in Directories, Finds, pc \in PCs
    PROVE  IsPrefix(out, Expected)
<1>0. PICK C : DirOver(dir, C)
    BY DirHas
<1>1. CASE pc \in {"main", "close"}
  <2>1. entry \in 0 .. Len(dir) /\ out = Total(Entries(s, dir), entry)
      BY <1>1 DEF Finds
  <2>2. IsPrefix(Total(Entries(s, dir), entry), FlattenSeq(Entries(s, dir)))
      BY <1>0, <2>1, OutBegins
  <2> QED
      BY <2>1, <2>2 DEF Expected
<1>2. CASE pc \in {"read", "line"}
  <2> DEFINE t == dir[entry].text
  <2>1. Searching
      BY <1>2 DEF Finds
  <2>2. entry \in 1 .. Len(dir) /\ ~dir[entry].dot
      BY <2>1 DEF Searching
  <2>3. PICK done \in 0 .. Len(t) : Reached(s, dir, entry, out, done)
      BY <2>1 DEF Searching
  <2>4. Len(t) \in Nat
      BY <1>0, <2>2 DEF DirOver
  <2>5. PICK k \in 0 .. Len(t) + 1 : out = OutTo(s, dir, entry, k)
    <3>1. done \in 0 .. Len(t) + 1 /\ done + 1 \in 0 .. Len(t) + 1
        BY <2>4
    <3> QED
        BY <2>3, <3>1 DEF Reached
  <2>6. IsPrefix(OutTo(s, dir, entry, k), FlattenSeq(Entries(s, dir)))
      BY <1>0, <2>2, OutToBegins
  <2> QED
      BY <2>5, <2>6 DEF Expected
<1>3. CASE pc = "failed"
    BY <1>3 DEF Finds
<1>4. CASE pc = "done"
  <2> DEFINE E == Entries(s, dir)
             S == Items(C)
  <2>1. out = FlattenSeq(E)
      BY <1>4 DEF Finds, Expected
  <2>2. E \in Seq(Seq(S))
      BY <1>0, EntriesType
  <2> HIDE DEF E, S
  <2>3. Totals(E, S) /\ Len(E) \in 0 .. Len(E)
      BY <2>2, TotalIs
  <2>4. FlattenSeq(E) \in Seq(S)
      BY <2>3 DEF Totals
  <2>5. IsPrefix(FlattenSeq(E), FlattenSeq(E))
      BY <2>4, ExtendsSelf, ExtendsPrefix
  <2> QED
      BY <2>1, <2>5 DEF Expected, E
<1> QED
    BY <1>1, <1>2, <1>3, <1>4 DEF PCs

\* A step that fails keeps what has been printed.
LEMMA FailsFinds ==
    ASSUME dir \in Directories, Finds, pc \in PCs, pc' = "failed",
           UNCHANGED <<s, dir, data, out>>
    PROVE  Finds'
<1>1. IsPrefix(out, Expected)
    BY FindsBegins
<1>2. Expected' = Expected
    BY DEF Expected
<1>3. IsPrefix(out', Expected')
    BY <1>1, <1>2
<1>4. DOMAIN data' = Bytes
    BY DEF Finds
<1> QED
    BY <1>3, <1>4 DEF Finds

\* main goes on to the next entry.
LEMMA NextEntryFinds ==
    ASSUME IInv, AllHandled, Finds, NextEntry
    PROVE  Finds'
<1>0. /\ dir \in Directories /\ pc = "main" /\ pc \in PCs /\ entry' = entry + 1 /\ last' = 0
      /\ UNCHANGED <<s, dir, out, garbage>>
      /\ entry \in 0 .. Len(dir) /\ out = Total(Entries(s, dir), entry)
      /\ DOMAIN data = Bytes
    BY DEF NextEntry, IInv, Finds
<1>c. PICK C : DirOver(dir, C)
    BY <1>0, DirHas
<1>l. Len(dir) \in Nat /\ DOMAIN dir = 1 .. Len(dir)
    BY <1>c DEF DirOver
<1> DEFINE E == Entries(s, dir)
<1>e. E \in Seq(Seq(Items(C))) /\ Len(E) = Len(dir)
    BY <1>c, EntriesType
<1>t. Totals(E, Items(C))
    BY <1>e, TotalIs
<1>1. CASE entry = Len(dir)
  <2>1. pc' = "done" /\ data' = data
      BY <1>1 DEF NextEntry
  <2>2. FlattenSeq(E) = Total(E, Len(E))
      BY <1>t, Zenon DEF Totals
  <2>3. out' = Expected'
      BY <1>0, <1>1, <1>e, <2>2 DEF Expected
  <2> QED
      BY <1>0, <2>1, <2>3 DEF Finds
<1> DEFINE n == entry + 1
           e == dir[n]
<1>2. ASSUME entry # Len(dir)
      PROVE  n \in 1 .. Len(dir) /\ n - 1 = entry /\ n \in 0 .. Len(dir)
  <2> DEFINE k == Len(dir)
  <2>1. k \in Nat /\ entry \in 0 .. k /\ entry # k
      BY <1>0, <1>l, <1>2
  <2> HIDE DEF k
  <2>2. n \in 1 .. k /\ n - 1 = entry /\ n \in 0 .. k
      BY <2>1
  <2> QED
      BY <2>2 DEF k
<1>3. CASE entry # Len(dir) /\ e.dot
  <2>1. pc' = pc /\ data' = data
      BY <1>3 DEF NextEntry
  <2>2. n \in 1 .. Len(dir) /\ n - 1 = entry /\ n \in 0 .. Len(dir)
      BY <1>2, <1>3
  <2>3. Total(Entries(s, dir), n) = Total(Entries(s, dir), n - 1)
      BY <1>c, <1>3, <2>2, OutDot
  <2>4. entry' \in 0 .. Len(dir') /\ out' = Total(Entries(s', dir'), entry')
      BY <1>0, <2>2, <2>3
  <2> QED
      BY <1>0, <2>1, <2>4 DEF Finds
<1>4. CASE entry # Len(dir) /\ ~e.dot /\ ~e.opens
  <2>1. pc' = "failed" /\ data' = data
      BY <1>4 DEF NextEntry
  <2> QED
      BY <1>0, <2>1, FailsFinds
<1>5. CASE entry # Len(dir) /\ ~e.dot /\ e.opens
  <2> DEFINE t == e.text
  <2>1. pc' = "read" /\ file' = t /\ data' = [i \in Bytes |-> garbage]
      BY <1>5 DEF NextEntry
  <2>2. n \in 1 .. Len(dir) /\ n - 1 = entry
      BY <1>2, <1>5
  <2>3. t \in Seq(C) /\ Len(t) \in Nat
      BY <1>c, <2>2 DEF DirOver
  <2>4. BUFSIZE \in Nat /\ BUFSIZE \in Bytes
      BY GrepAssumption DEF Bytes
  <2>5. Handled(e, garbage)
      BY <1>l, <2>2 DEF AllHandled
  <2>6. ByteBehind'
    <3>1. data'[BUFSIZE] \in {garbage', NUL}
        BY <1>0, <2>1, <2>4
    <3>2. garbage = NL => Len(t) <= BUFSIZE
        BY <1>5, <2>5 DEF Handled
    <3>3. garbage' = NL => last' + Len(file') <= BUFSIZE
        BY <1>0, <2>1, <2>3, <3>2
    <3> QED
        BY <2>1, <3>1, <3>3 DEF ByteBehind
  <2>7. Buffered(t, t, data', 0, 0, 0)
      BY <2>3, <2>4 DEF Buffered
  <2>8. Reached(s, dir, n, out, 0)
    <3>1. Total(E, entry) \in Seq(Items(C))
        BY <1>0, <1>e, <1>t, Zenon DEF Totals
    <3> DEFINE h == Hits(s, n, t)
    <3>2. h \in Seq(Seq(Items(C)))
      <4>1. n \in Nat
          BY <2>2
      <4> QED
          BY <2>3, <4>1, HitsType
    <3>3. Total(h, 0) = <<>>
      <4> HIDE DEF h
      <4>1. Totals(h, Items(C))
          BY <3>2, TotalIs
      <4> QED
          BY <4>1, Zenon DEF Totals
    <3>4. Total(E, entry) \o <<>> = Total(E, entry)
        BY <3>1, ConcatEmptySeq
    <3>5. out = OutTo(s, dir, n, 0)
        BY <1>0, <2>2, <3>3, <3>4 DEF OutTo
    <3> QED
        BY <3>5 DEF Reached
  <2>9. Searching'
    <3>1. 0 \in 0 .. Len(t)
        BY <2>3
    <3>2. /\ Buffered(dir'[entry'].text, file', data',
                      IF pc' = "line" THEN line_start' ELSE 0, last', 0)
          /\ Reached(s', dir', entry', out', 0)
          /\ 0 \in 0 .. Len(dir'[entry'].text)
        BY <1>0, <2>1, <2>7, <2>8, <3>1
    <3>3. entry' \in 1 .. Len(dir') /\ ~dir'[entry'].dot
        BY <1>0, <1>5, <2>2
    <3> QED
        BY <2>6, <3>2, <3>3 DEF Searching
  <2>10. DOMAIN data' = Bytes
      BY <2>1
  <2> QED
      BY <2>1, <2>9, <2>10 DEF Finds
<1> QED
    BY <1>1, <1>3, <1>4, <1>5

\* What is left of a file after n bytes of it, byte by byte.
LEMMA RestIs ==
    ASSUME NEW T, NEW f \in Seq(T), NEW n \in 0 .. Len(f)
    PROVE  /\ Len(SubSeq(f, n + 1, Len(f))) = Len(f) - n
           /\ \A i \in 1 .. Len(f) - n : SubSeq(f, n + 1, Len(f))[i] = f[n + i]
<1>1. n \in Nat /\ Len(f) \in n .. Len(f)
    OBVIOUS
<1> QED
    BY <1>1, Part

\* The buffer after a read.
LEMMA BufferedRead ==
    ASSUME NEW t, Len(t) \in Nat, NEW T, NEW f \in Seq(T), NEW buffer, NEW to \in 0 .. BUFSIZE,
           NEW done \in 0 .. Len(t), Buffered(t, f, buffer, 0, to, done),
           NEW n \in 0 .. Len(f), to + n <= BUFSIZE, NEW buffer2, NEW rest,
           \A i \in 0 .. to + n - 1 :
              buffer2[i] = IF i \in to .. to + n - 1 THEN f[i - to + 1] ELSE buffer[i],
           rest = SubSeq(f, n + 1, Len(f))
    PROVE  Buffered(t, rest, buffer2, 0, to + n, done)
<1> DEFINE lt == Len(t)
           lf == Len(f)
<1>0. /\ BUFSIZE \in Nat /\ lt \in Nat /\ lf \in Nat /\ done \in 0 .. lt /\ n \in 0 .. lf
      /\ done + (to - 0) + lf = lt
      /\ \A i \in 0 .. to - 1 : buffer[i] = t[done + (i - 0) + 1]
      /\ \A i \in 1 .. lf : f[i] = t[lt - lf + i]
    BY SMTT(30), GrepAssumption DEF Buffered
<1>1. Len(rest) = lf - n /\ \A i \in 1 .. lf - n : rest[i] = f[n + i]
    BY SMTT(30), RestIs
<1> HIDE DEF lt, lf
<1>2. 0 \in 0 .. to + n /\ to + n \in 0 .. BUFSIZE /\ done + ((to + n) - 0) + (lf - n) = lt
    BY <1>0
<1>3. ASSUME NEW i \in 0 .. (to + n) - 1 PROVE buffer2[i] = t[done + (i - 0) + 1]
  <2>1. CASE i \in to .. to + n - 1
    <3>1. /\ i - to + 1 \in 1 .. lf
          /\ lt - lf + (i - to + 1) = done + (i - 0) + 1
      <4>1. /\ i \in Int /\ to <= i /\ i <= to + n - 1 /\ to \in Nat /\ n \in Nat /\ n <= lf
            /\ lt \in Nat /\ lf \in Nat /\ done \in Nat
          BY <1>0, <2>1
      <4>2. lt = done + to + lf
          BY <1>0
      <4>3. i - to + 1 \in 1 .. lf
          BY <4>1
      <4> QED
          BY <4>1, <4>2, <4>3
    <3>2. buffer2[i] = f[i - to + 1]
        BY <2>1
    <3> QED
        BY <1>0, <3>1, <3>2
  <2>2. CASE i \notin to .. to + n - 1
    <3>1. i \in 0 .. to - 1
        BY <1>0, <2>2
    <3>2. buffer2[i] = buffer[i]
        BY <2>2
    <3> QED
        BY <1>0, <3>1, <3>2
  <2> QED
      BY <2>1, <2>2
<1>4. ASSUME NEW i \in 1 .. lf - n PROVE rest[i] = t[lt - (lf - n) + i]
  <2>1. n + i \in 1 .. lf /\ lt - lf + (n + i) = lt - (lf - n) + i
      BY <1>0
  <2> QED
      BY <1>0, <1>1, <2>1
<1> QED
    BY <1>1, <1>2, <1>3, <1>4 DEF Buffered, lt

\* A read.
LEMMA ReadFinds ==
    ASSUME IInv, Finds, Read
    PROVE  Finds'
<1> DEFINE n == IF Len(file) < BUFSIZE - last THEN Len(file) ELSE BUFSIZE - last
           t == dir[entry].text
<1>0. /\ dir \in Directories /\ pc = "read" /\ pc' = "line" /\ last' = last + n
      /\ data' = [i \in Bytes |-> IF i \in last .. last + n - 1 THEN file[i - last + 1]
                                                               ELSE data[i]]
      /\ file' = SubSeq(file, n + 1, Len(file)) /\ line_start' = 0
      /\ UNCHANGED <<s, dir, entry, out, garbage>>
    BY DEF Read, IInv
<1>1. PICK T : file \in Seq(T)
    BY DEF IInv
<1>2. BUFSIZE \in Nat /\ last \in 0 .. BUFSIZE /\ Len(file) \in Nat
    BY <1>1, GrepAssumption DEF IInv, InBuffer
<1>3. Searching
    BY <1>0 DEF Finds
<1>4. entry \in 1 .. Len(dir) /\ ~dir[entry].dot /\ ByteBehind
    BY <1>3 DEF Searching
<1>5. PICK done \in 0 .. Len(t) : /\ Buffered(t, file, data, 0, last, done)
                                  /\ Reached(s, dir, entry, out, done)
    BY <1>0, <1>3 DEF Searching
<1>6. Len(t) \in Nat
  <2>1. PICK C : DirOver(dir, C)
      BY <1>0, DirHas
  <2> QED
      BY <1>4, <2>1 DEF DirOver
<1>7. /\ n \in 0 .. Len(file) /\ last + n <= BUFSIZE /\ last + n \in Nat
      /\ last + n < BUFSIZE => n = Len(file)
      /\ last + Len(file) <= BUFSIZE => n = Len(file)
    BY <1>2
<1> HIDE DEF n
<1>8. Buffered(t, file', data', 0, last + n, done)
  <2>1. \A i \in 0 .. last + n - 1 :
           data'[i] = IF i \in last .. last + n - 1 THEN file[i - last + 1] ELSE data[i]
    <3> SUFFICES ASSUME NEW i \in 0 .. last + n - 1
                 PROVE  data'[i] = IF i \in last .. last + n - 1 THEN file[i - last + 1]
                                                                ELSE data[i]
        OBVIOUS
    <3>1. i \in Bytes
        BY <1>2, <1>7 DEF Bytes
    <3> QED
        BY <1>0, <3>1
  <2> HIDE DEF t
  <2> QED
      BY <1>0, <1>1, <1>2, <1>5, <1>6, <1>7, <2>1, BufferedRead
<1>9. ByteBehind'
  <2>1. data'[BUFSIZE] \in {garbage', NUL}
    <3>1. BUFSIZE \in Bytes /\ BUFSIZE \notin last .. last + n - 1
        BY <1>2, <1>7 DEF Bytes
    <3>2. data'[BUFSIZE] = data[BUFSIZE]
        BY <1>0, <3>1
    <3> QED
        BY <1>0, <1>4, <3>2 DEF ByteBehind
  <2>2. garbage' = NL \/ last' < BUFSIZE => file' = <<>>
    <3>1. garbage' = NL \/ last' < BUFSIZE => n = Len(file)
        BY <1>0, <1>4, <1>7 DEF ByteBehind
    <3>2. n = Len(file) => file' = <<>>
        BY <1>0, <1>1, <1>7, RestOfFile
    <3> QED
        BY <3>1, <3>2
  <2>3. line_start' < last' \/ last' = 0
      BY <1>0, <1>2, <1>7
  <2> QED
      BY <1>0, <2>1, <2>2, <2>3 DEF ByteBehind
<1>10. Searching'
  <2>1. /\ Buffered(dir'[entry'].text, file', data',
                    IF pc' = "line" THEN line_start' ELSE 0, last', done)
        /\ Reached(s', dir', entry', out', done)
        /\ done \in 0 .. Len(dir'[entry'].text)
      BY <1>0, <1>5, <1>8
  <2>2. entry' \in 1 .. Len(dir') /\ ~dir'[entry'].dot
      BY <1>0, <1>4
  <2> QED
      BY <1>9, <2>1, <2>2 DEF Searching
<1>11. DOMAIN data' = Bytes
    BY <1>0
<1> QED
    BY <1>0, <1>10, <1>11 DEF Finds

\* The buffer after an unfinished line has been moved to its front.
LEMMA BufferedMoved ==
    ASSUME NEW t, NEW f, Len(f) \in Nat, Len(t) \in Nat, NEW buffer, NEW a, NEW z,
           NEW done \in 0 .. Len(t), Buffered(t, f, buffer, a, z, done), NEW buffer2,
           \A i \in 0 .. (z - a) - 1 : buffer2[i] = buffer[a + i]
    PROVE  Buffered(t, f, buffer2, 0, z - a, done)
<1>0. /\ BUFSIZE \in Nat /\ z \in 0 .. BUFSIZE /\ a \in 0 .. z
      /\ done + (z - a) + Len(f) = Len(t)
      /\ \A i \in a .. z - 1 : buffer[i] = t[done + (i - a) + 1]
      /\ \A i \in 1 .. Len(f) : f[i] = t[Len(t) - Len(f) + i]
    BY GrepAssumption DEF Buffered
<1>1. ASSUME NEW i \in 0 .. (z - a) - 1 PROVE buffer2[i] = t[done + (i - 0) + 1]
  <2>1. a + i \in a .. z - 1 /\ done + ((a + i) - a) + 1 = done + (i - 0) + 1
      BY <1>0
  <2> QED
      BY <1>0, <2>1
<1>2. 0 \in 0 .. z - a /\ z - a \in 0 .. BUFSIZE /\ (z - a) - 0 = z - a
    BY <1>0
<1> QED
    BY <1>0, <1>1, <1>2 DEF Buffered

\* An unfinished line is moved to the front of the buffer.
LEMMA MoveDownFinds ==
    ASSUME IInv, AllHandled, Finds, MoveDown
    PROVE  Finds'
<1> DEFINE end == StringEnd(line_start)
           t == dir[entry].text
           a == line_start
<1>0. /\ dir \in Directories /\ pc = "line" /\ pc' = "read" /\ last' = last - a
      /\ Unfinished
      /\ data' = [i \in Bytes |-> IF i < end - a THEN data[a + i]
                                  ELSE IF i \in {end - a, line_end} THEN NUL
                                  ELSE data[i]]
      /\ UNCHANGED <<s, dir, entry, file, out, garbage>>
    BY DEF MoveDown, IInv
<1>1. PICK T : file \in Seq(T)
    BY DEF IInv
<1>2. BUFSIZE \in Nat /\ last \in 0 .. BUFSIZE /\ Len(file) \in Nat /\ a \in Nat /\ a <= last
    BY <1>0, <1>1, GrepAssumption DEF IInv, InBuffer
<1>3. Searching
    BY <1>0 DEF Finds
<1>4. entry \in 1 .. Len(dir) /\ ~dir[entry].dot /\ ByteBehind
    BY <1>3 DEF Searching
<1>5. PICK done \in 0 .. Len(t) : /\ Buffered(t, file, data, a, last, done)
                                  /\ Reached(s, dir, entry, out, done)
    BY <1>0, <1>3 DEF Searching
<1>c. PICK C : DirOver(dir, C)
    BY <1>0, DirHas
<1>6. Len(t) \in Nat /\ t \in Seq(C) /\ DOMAIN dir = 1 .. Len(dir)
    BY <1>4, <1>c DEF DirOver
<1>7. NUL \notin Range(t)
    BY <1>4, <1>6 DEF AllHandled, Handled, Plain
<1>8. line_end = last
  <2>1. InBuffer
      BY DEF IInv
  <2>2. line_end = last \/ data[line_end] = NL
      BY <1>0, <2>1, LineEnd
  <2> QED
      BY <1>0, <2>2 DEF Unfinished
<1>9. end = last
  <2>1. ASSUME NEW i \in a .. last - 1 PROVE data[i] # NUL
    <3>1. data[i] = t[done + (i - a) + 1] /\ done + (last - a) + Len(file) = Len(t)
        BY <1>5 DEF Buffered
    <3>2. done + (i - a) + 1 \in 1 .. Len(t)
        BY <1>2, <1>6, <3>1
    <3>3. t[done + (i - a) + 1] \in Range(t)
        BY <1>6, <3>2 DEF Range
    <3> QED
        BY <1>7, <3>1, <3>3
  <2> QED
      BY <1>2, <1>8, <2>1, StringEndIs
<1>10. a # 0
    BY <1>0 DEF Unfinished
<1> HIDE DEF end
<1>11. Buffered(t, file, data', 0, last - a, done)
  <2>1. \A i \in 0 .. (last - a) - 1 : data'[i] = data[a + i]
    <3> SUFFICES ASSUME NEW i \in 0 .. (last - a) - 1 PROVE data'[i] = data[a + i]
        OBVIOUS
    <3>1. i \in Bytes /\ i < end - a
        BY <1>2, <1>9 DEF Bytes
    <3> QED
        BY <1>0, <3>1
  <2> HIDE DEF t, a
  <2> QED
      BY <1>2, <1>5, <1>6, <2>1, BufferedMoved
<1>12. ByteBehind'
  <2>1. data'[BUFSIZE] \in {garbage', NUL}
    <3>1. BUFSIZE \in Bytes /\ ~(BUFSIZE < end - a)
        BY <1>2, <1>9, <1>10 DEF Bytes
    <3>2. data'[BUFSIZE] = NUL \/ data'[BUFSIZE] = data[BUFSIZE]
        BY <1>0, <3>1
    <3> QED
        BY <1>0, <1>4, <3>2 DEF ByteBehind
  <2>2. garbage' = NL => last' + Len(file') <= BUFSIZE
    <3>1. garbage = NL => Len(file) = 0
        BY <1>0, <1>4 DEF ByteBehind
    <3> QED
        BY <1>0, <1>2, <3>1
  <2> QED
      BY <1>0, <2>1, <2>2 DEF ByteBehind
<1>13. Searching'
  <2>1. /\ Buffered(dir'[entry'].text, file', data',
                    IF pc' = "line" THEN line_start' ELSE 0, last', done)
        /\ Reached(s', dir', entry', out', done)
        /\ done \in 0 .. Len(dir'[entry'].text)
      BY <1>0, <1>5, <1>11
  <2>2. entry' \in 1 .. Len(dir') /\ ~dir'[entry'].dot
      BY <1>0, <1>4
  <2> QED
      BY <1>12, <2>1, <2>2 DEF Searching
<1>14. DOMAIN data' = Bytes
    BY <1>0
<1> QED
    BY <1>0, <1>13, <1>14 DEF Finds

\* The buffer after a line has been searched: the next line starts behind its end, or
\* the buffer is empty.
LEMMA BufferedSearched ==
    ASSUME NEW t, NEW f, Len(f) \in Nat, Len(t) \in Nat, NEW buffer, NEW a, NEW z,
           NEW done \in 0 .. Len(t), Buffered(t, f, buffer, a, z, done),
           NEW le \in a .. z, NEW buffer2, \A i \in le + 1 .. z - 1 : buffer2[i] = buffer[i]
    PROVE  /\ le < z => Buffered(t, f, buffer2, le + 1, z, done + (le - a) + 1)
           /\ le + 1 = z => Buffered(t, f, buffer2, 0, 0, done + (le - a) + 1)
           /\ le = z => Buffered(t, f, buffer2, 0, 0, done + (le - a))
<1> DEFINE lt == Len(t)
           lf == Len(f)
<1>0. /\ BUFSIZE \in Nat /\ z \in 0 .. BUFSIZE /\ a \in 0 .. z /\ lt \in Nat /\ lf \in Nat
      /\ done \in Nat /\ done + (z - a) + lf = lt
      /\ \A i \in a .. z - 1 : buffer[i] = t[done + (i - a) + 1]
      /\ \A i \in 1 .. lf : f[i] = t[lt - lf + i]
    BY SMTT(30), GrepAssumption DEF Buffered
<1>1. ASSUME le < z PROVE Buffered(t, f, buffer2, le + 1, z, done + (le - a) + 1)
  <2>1. ASSUME NEW i \in le + 1 .. z - 1
        PROVE  buffer2[i] = t[(done + (le - a) + 1) + (i - (le + 1)) + 1]
    <3>1. i \in a .. z - 1 /\ (done + (le - a) + 1) + (i - (le + 1)) + 1 = done + (i - a) + 1
        BY <1>0
    <3> QED
        BY <1>0, <3>1
  <2>2. le + 1 \in 0 .. z /\ (done + (le - a) + 1) + (z - (le + 1)) + lf = lt
    <3> HIDE DEF lt, lf
    <3> QED
        BY <1>0, <1>1
  <2> QED
      BY <1>0, <2>1, <2>2 DEF Buffered
<1>2. ASSUME NEW k \in Int, k + lf = lt PROVE Buffered(t, f, buffer2, 0, 0, k)
  <2>1. k + (0 - 0) + lf = lt
    <3> HIDE DEF lt, lf
    <3> QED
        BY <1>0, <1>2
  <2>2. 0 \in 0 .. 0 /\ 0 \in 0 .. BUFSIZE /\ \A i \in 0 .. 0 - 1 : FALSE
      BY <1>0
  <2> QED
      BY <1>0, <2>1, <2>2 DEF Buffered
<1>3. /\ done + (le - a) + 1 \in Int /\ done + (le - a) \in Int
      /\ le + 1 = z => (done + (le - a) + 1) + lf = lt
      /\ le = z => (done + (le - a)) + lf = lt
  <2> HIDE DEF lt, lf
  <2>1. le \in Int /\ a \in Int /\ z \in Int
      BY <1>0
  <2>2. CASE le + 1 = z
      BY <1>0, <2>1, <2>2
  <2>3. CASE le = z
      BY <1>0, <2>1, <2>3
  <2> QED
      BY <1>0, <2>1, <2>2, <2>3
<1> QED
    BY <1>1, <1>2, <1>3

\* A line is searched: what is printed goes up to its end.
LEMMA SearchLineFinds ==
    ASSUME IInv, s \in Patterns, AllHandled, Finds, SearchLine
    PROVE  Finds'
<1> DEFINE t == dir[entry].text
           a == line_start
           le == line_end
<1>0. /\ dir \in Directories /\ pc = "line" /\ ~Unfinished
      /\ data' = [data EXCEPT ![le] = NUL]
      /\ out' = out \o Printed /\ line_start' = le + 1
      /\ UNCHANGED <<s, dir, entry, file, cnt, garbage>>
      /\ DOMAIN data = Bytes
    BY DEF SearchLine, IInv, Finds
<1>1. PICK T : file \in Seq(T)
    BY DEF IInv
<1>2. BUFSIZE \in Nat /\ last \in 0 .. BUFSIZE /\ Len(file) \in Nat /\ a \in Nat /\ a <= last
    BY <1>0, <1>1, GrepAssumption DEF IInv, InBuffer
<1>3. Searching
    BY <1>0 DEF Finds
<1>4. entry \in 1 .. Len(dir) /\ ~dir[entry].dot /\ ByteBehind
    BY <1>3 DEF Searching
<1>5. PICK done \in 0 .. Len(t) : /\ Buffered(t, file, data, a, last, done)
                                  /\ Reached(s, dir, entry, out, done)
    BY <1>0, <1>3 DEF Searching
<1>c. PICK C : DirOver(dir, C)
    BY <1>0, DirHas
<1>6. Len(t) \in Nat /\ t \in Seq(C) /\ DOMAIN dir = 1 .. Len(dir)
    BY <1>4, <1>c DEF DirOver
<1>7. Plain(t) /\ NUL \notin Range(t)
    BY <1>4, <1>6 DEF AllHandled, Handled, Plain
<1>8. /\ le \in a .. last
      /\ le = last \/ data[le] = NL
      /\ \A i \in a .. le - 1 : data[i] # NL
  <2>1. InBuffer
      BY DEF IInv
  <2> QED
      BY <1>0, <2>1, LineEnd
<1>9. le = last => file = <<>> \/ (a = 0 /\ last = BUFSIZE)
  <2> SUFFICES ASSUME le = last PROVE file = <<>> \/ (a = 0 /\ last = BUFSIZE)
      OBVIOUS
  <2>1. CASE last < BUFSIZE
      BY <1>0, <1>4, <2>1 DEF ByteBehind
  <2>2. CASE last = BUFSIZE /\ data[BUFSIZE] = NL
    <3>1. garbage = NL
        BY <1>4, <2>2 DEF ByteBehind, NL, NUL
    <3> QED
        BY <1>0, <1>4, <3>1 DEF ByteBehind
  <2>3. CASE cnt = 0
      BY <1>0, <2>3 DEF IInv, EndMeansEnd
  <2>4. CASE last = BUFSIZE /\ data[BUFSIZE] # NL /\ cnt # 0
      BY <1>0, <2>4 DEF Unfinished
  <2> QED
      BY <1>2, <2>1, <2>2, <2>3, <2>4
<1>10. PICK e \in Nat : e = done + (le - a) + 1
    BY <1>2, <1>8
<1>11. LineOf(t, file, a, last, le, done, e)
  <2>1. file = <<>> \/ Len(file) > 0
      BY <1>1
  <2> HIDE DEF t, a, le
  <2>2. LineOf(t, file, a, last, le, done, done + (le - a) + 1)
      BY <1>2, <1>5, <1>6, <1>7, <1>8, <1>9, <2>1, EndOfLine
  <2> QED
      BY <1>10, <2>2
<1>p. s \in Seq(Range(s)) /\ s # <<>>
    BY GrepAssumption
<1>12. out' = OutTo(s, dir, entry, e)
  <2>1. done + (le - a) = e - 1
      BY <1>2, <1>8, <1>10
  <2>2. Printed = Adds(s, entry, SubSeq(t, done + 1, e - 1))
    <3>1. le \in Nat /\ a <= le /\ le <= last
        BY <1>2, <1>8
    <3> HIDE DEF t
    <3>2. Printed = Adds(s, entry, SubSeq(t, done + 1, done + (line_end - line_start)))
        BY <1>2, <1>5, <1>6, <1>7, <1>p, <3>1, PrintedIs
    <3> QED
        BY <2>1, <3>2
  <2>3. /\ e \in done + 1 .. Len(t) + 1 /\ \A i \in done + 1 .. e - 1 : t[i] # NL
        /\ e = Len(t) + 1 \/ t[e] = NL
      BY <1>11 DEF LineOf
  <2>4. IsCat(OutTo(s, dir, entry, e), out, Adds(s, entry, SubSeq(t, done + 1, e - 1)))
    <3> DEFINE o == out
               n == entry
    <3> HIDE DEF o, n
    <3> QED
        BY <1>4, <1>5, <1>c, <1>p, <2>3, ReachedNext DEF o, n
  <2> QED
      BY <1>0, <2>2, <2>4 DEF IsCat
<1>13. data'[BUFSIZE] \in {garbage', NUL}
  <2>1. BUFSIZE \in Bytes /\ le \in Bytes
      BY <1>2, <1>8 DEF Bytes
  <2>2. data'[BUFSIZE] = NUL \/ data'[BUFSIZE] = data[BUFSIZE]
      BY <1>0, <2>1
  <2> QED
      BY <1>0, <1>4, <2>2 DEF ByteBehind
<1>14. \A i \in le + 1 .. last - 1 : data'[i] = data[i]
  <2> SUFFICES ASSUME NEW i \in le + 1 .. last - 1 PROVE data'[i] = data[i]
      OBVIOUS
  <2>1. i \in Bytes /\ i # le
      BY <1>2, <1>8 DEF Bytes
  <2> QED
      BY <1>0, <2>1
<1>15. /\ le < last => Buffered(t, file, data', le + 1, last, e)
       /\ le + 1 = last => Buffered(t, file, data', 0, 0, e)
       /\ le = last => Buffered(t, file, data', 0, 0, e - 1)
  <2>1. done + (le - a) = e - 1
      BY <1>2, <1>8, <1>10
  <2> HIDE DEF t, a, le
  <2>2. /\ le < last => Buffered(t, file, data', le + 1, last, done + (le - a) + 1)
        /\ le + 1 = last => Buffered(t, file, data', 0, 0, done + (le - a) + 1)
        /\ le = last => Buffered(t, file, data', 0, 0, done + (le - a))
      BY <1>2, <1>5, <1>6, <1>8, <1>14, BufferedSearched
  <2> QED
      BY <1>10, <2>1, <2>2
<1>16. /\ le < last => e \in 0 .. Len(t) /\ t[e] = NL
       /\ le = last => e - 1 \in 0 .. Len(t)
       /\ e = Len(t) + 1 \/ t[e] = NL
       /\ le = last => e + Len(file) = Len(t) + 1
  <2>1. /\ e \in done + 1 .. Len(t) + 1
        /\ le < last => e <= Len(t) /\ t[e] = NL
        /\ e = Len(t) + 1 \/ t[e] = NL
        /\ le = last => e + Len(file) = Len(t) + 1
      BY <1>11 DEF LineOf
  <2>2. done \in Nat /\ done <= Len(t)
      BY <1>6
  <2>3. e \in 1 .. Len(t) + 1 /\ e - 1 \in 0 .. Len(t) /\ (e <= Len(t) => e \in 0 .. Len(t))
      BY <1>6, <2>1, <2>2
  <2> QED
      BY <2>1, <2>3
<1>17. /\ le < last => Reached(s, dir, entry, out', e)
       /\ le = last => Reached(s, dir, entry, out', e - 1)
  <2>1. (e - 1) + 1 = e
      BY <1>10
  <2>2. le = last /\ e = Len(t) + 1 => e - 1 = Len(t)
      BY <1>6
  <2> QED
      BY <1>12, <1>16, <2>1, <2>2 DEF Reached
<1>18. DOMAIN data' = Bytes
    BY <1>0
<1>r. entry' \in 1 .. Len(dir') /\ ~dir'[entry'].dot
    BY <1>0, <1>4
<1>19. CASE le + 1 < last
  <2>1. pc' = "line" /\ last' = last
      BY <1>0, <1>2, <1>8, <1>19 DEF SearchLine
  <2>2. le < last
      BY <1>2, <1>8, <1>19
  <2>3. ByteBehind'
      BY <1>0, <1>4, <1>13, <1>19, <2>1 DEF ByteBehind
  <2>4. /\ Buffered(dir'[entry'].text, file', data',
                    IF pc' = "line" THEN line_start' ELSE 0, last', e)
        /\ Reached(s', dir', entry', out', e)
        /\ e \in 0 .. Len(dir'[entry'].text)
      BY <1>0, <1>15, <1>16, <1>17, <2>1, <2>2
  <2>5. Searching'
      BY <1>r, <2>3, <2>4 DEF Searching
  <2> QED
      BY <1>18, <2>1, <2>5 DEF Finds
<1>20. CASE ~(le + 1 < last) /\ cnt # 0
  <2>1. pc' = "read" /\ last' = 0
      BY <1>0, <1>2, <1>8, <1>20 DEF SearchLine
  <2>2. ByteBehind'
    <3>1. garbage' = NL => last' + Len(file') <= BUFSIZE
      <4>1. garbage = NL => Len(file) = 0
          BY <1>0, <1>4 DEF ByteBehind
      <4> QED
          BY <1>0, <1>2, <2>1, <4>1
    <3> QED
        BY <1>13, <2>1, <3>1 DEF ByteBehind
  <2>3. PICK k \in 0 .. Len(t) : /\ Buffered(t, file, data', 0, 0, k)
                                 /\ Reached(s, dir, entry, out', k)
    <3>1. CASE le = last
        BY <1>15, <1>16, <1>17, <3>1
    <3>2. CASE le # last
      <4>1. le < last /\ le + 1 = last
          BY <1>2, <1>8, <1>20, <3>2
      <4> QED
          BY <1>15, <1>16, <1>17, <4>1
    <3> QED
        BY <3>1, <3>2
  <2>4. /\ Buffered(dir'[entry'].text, file', data',
                    IF pc' = "line" THEN line_start' ELSE 0, last', k)
        /\ Reached(s', dir', entry', out', k)
        /\ k \in 0 .. Len(dir'[entry'].text)
      BY <1>0, <2>1, <2>3
  <2>5. Searching'
      BY <1>r, <2>2, <2>4 DEF Searching
  <2> QED
      BY <1>18, <2>1, <2>5 DEF Finds
<1>21. CASE ~(le + 1 < last) /\ cnt = 0
  <2>1. pc' = "close"
      BY <1>0, <1>2, <1>8, <1>21 DEF SearchLine
  <2>2. file = <<>> /\ Len(file) = 0
      BY <1>0, <1>21 DEF IInv, EndMeansEnd
  <2>3. OutTo(s, dir, entry, Len(t) + 1) = Total(Entries(s, dir), entry)
      BY <1>4, <1>c, OutWhole
  <2>4. OutTo(s, dir, entry, e) = Total(Entries(s, dir), entry)
    <3>1. CASE le = last
      <4>1. e = Len(t) + 1
          BY <1>6, <1>16, <2>2, <3>1
      <4> QED
          BY <2>3, <4>1
    <3>2. CASE le # last
      <4>1. le < last /\ le + 1 = last
          BY <1>2, <1>8, <1>21, <3>2
      <4>2. e \in 0 .. Len(t) /\ t[e] = NL
          BY <1>16, <4>1
      <4>3. e = Len(t)
        <5>1. e + (0 - 0) + Len(file) = Len(t)
            BY <1>15, <4>1 DEF Buffered
        <5> QED
            BY <1>6, <2>2, <5>1
      <4>4. OutTo(s, dir, entry, e + 1) = OutTo(s, dir, entry, e)
          BY <1>4, <1>c, <1>p, <4>2, OutEmpty
      <4> QED
          BY <2>3, <4>3, <4>4
    <3> QED
        BY <3>1, <3>2
  <2>5. entry' \in 0 .. Len(dir') /\ out' = Total(Entries(s', dir'), entry')
    <3>1. entry \in 0 .. Len(dir)
      <4>1. Len(dir) \in Nat
          BY <1>c DEF DirOver
      <4> QED
          BY <1>4, <4>1
    <3> QED
        BY <1>0, <1>12, <2>4, <3>1
  <2> QED
      BY <1>18, <2>1, <2>5 DEF Finds
<1> QED
    BY <1>19, <1>20, <1>21

\* A closed file has been searched to its end.
LEMMA CloseFinds ==
    ASSUME IInv, Finds, Close
    PROVE  Finds'
<1>0. /\ pc = "close" /\ pc' \in {"main", "failed"}
      /\ UNCHANGED <<s, dir, entry, data, out>>
    BY DEF Close
<1>1. CASE pc' = "main"
  <2>1. entry' \in 0 .. Len(dir') /\ out' = Total(Entries(s', dir'), entry')
      BY <1>0 DEF Finds
  <2>2. DOMAIN data' = Bytes
      BY <1>0 DEF Finds
  <2> QED
      BY <1>1, <2>1, <2>2 DEF Finds
<1>2. CASE pc' = "failed"
    BY <1>0, <1>2, FailsFinds DEF IInv
<1> QED
    BY <1>0, <1>1, <1>2

\* Before the first entry nothing is printed.
LEMMA FInvInit == Init => FInv
<1> SUFFICES ASSUME Init PROVE FInv
    OBVIOUS
<1>0. /\ s \in Patterns /\ dir \in Directories /\ entry = 0 /\ pc = "main" /\ out = <<>>
      /\ DOMAIN data = Bytes
    BY DEF Init
<1>1. PICK C : DirOver(dir, C)
    BY <1>0, DirHas
<1> DEFINE E == Entries(s, dir)
<1>2. E \in Seq(Seq(Items(C)))
    BY <1>1, EntriesType
<1>3. Total(E, 0) = <<>>
  <2> HIDE DEF E
  <2>1. Totals(E, Items(C))
      BY <1>2, TotalIs
  <2> QED
      BY <2>1, Zenon DEF Totals
<1>4. 0 \in 0 .. Len(dir)
    BY <1>1 DEF DirOver
<1>5. Finds
    BY <1>0, <1>3, <1>4 DEF Finds
<1> QED
    BY <1>0, <1>5 DEF FInv

\* Every step of main and do_one_file keeps what is printed right.
LEMMA FInvNext == IInv /\ FInv /\ [Next]_vars => FInv'
<1> SUFFICES ASSUME IInv, FInv, [Next]_vars PROVE FInv'
    OBVIOUS
<1>0. UNCHANGED <<s, dir, garbage>>
    BY DEF Next, vars, NextEntry, MainFails, Read, ReadFails, MoveDown, SearchLine, Close, Exited
<1> SUFFICES ASSUME AllHandled' PROVE Finds'
    BY <1>0 DEF FInv
<1>1. AllHandled
    BY <1>0 DEF AllHandled
<1>2. Finds /\ s \in Patterns
    BY <1>1 DEF FInv
<1>3. dir \in Directories /\ pc \in PCs
    BY DEF IInv
<1>4. CASE NextEntry
    BY <1>1, <1>2, <1>4, NextEntryFinds
<1>5. CASE MainFails
    BY <1>2, <1>3, <1>5, FailsFinds DEF MainFails
<1>6. CASE Read
    BY <1>2, <1>6, ReadFinds
<1>7. CASE ReadFails
    BY <1>2, <1>3, <1>7, FailsFinds DEF ReadFails
<1>8. CASE MoveDown
    BY <1>1, <1>2, <1>8, MoveDownFinds
<1>9. CASE SearchLine
    BY <1>1, <1>2, <1>9, SearchLineFinds
<1>10. CASE Close
    BY <1>2, <1>10, CloseFinds
<1>11. CASE Exited \/ UNCHANGED vars
  <2>1. UNCHANGED <<s, dir, entry, pc, file, data, last, cnt, line_start, out, garbage>>
      BY <1>11 DEF Exited, vars
  <2>2. Searching' = Searching
      BY <2>1 DEF Searching, ByteBehind
  <2>3. Expected' = Expected
      BY <2>1 DEF Expected
  <2> QED
      BY <1>2, <2>1, <2>2, <2>3 DEF Finds
<1> QED
    BY <1>2, <1>4, <1>5, <1>6, <1>7, <1>8, <1>9, <1>10, <1>11 DEF Next

\* Wherever reads cut the lines of a file: grep prints the matching lines of the files
\* in order, whole and once each, and at its end all of them.
THEOREM GrepPrintsMatches == Spec => []GrepFinds
<1>1. IInv /\ FInv => GrepFinds
  <2> SUFFICES ASSUME IInv, Finds PROVE IsPrefix(out, Expected) /\ (pc = "done" => out = Expected)
      BY DEF FInv, GrepFinds, AllHandled
  <2>1. IsPrefix(out, Expected)
      BY FindsBegins DEF IInv
  <2> QED
      BY <2>1 DEF Finds
<1> QED
    BY <1>1, Inductive, FInvInit, FInvNext, PTL DEF Spec
=============================================================================
