----------------------------- MODULE FishProofs -----------------------------
(***************************************************************************)
(* Proofs about Blink and Fish, for every size of the screen and of the    *)
(* array, every pair of frames that fits, and every order of the calls.    *)
(***************************************************************************)
EXTENDS Fish, FiniteSetTheorems, SequenceTheorems, WellFoundedInduction, TLAPS

\* The characters of main's own structures, of the frames, and all of them.
ExtraChars == {u.on_char : u \in Extra} \cup {u.off_char : u \in Extra}

FrameChars == UNION {Range(t) : t \in Texts0 \cup Texts1}

Chars == {NUL, Space} \cup FrameChars \cup ExtraChars

Word == 0 .. WORD - 1

Item == [location : 0 .. NumCells - 1, on_char : Chars, off_char : Chars,
         on_length : Word, off_length : Word, countdown : Word,
         status : {0, 1}, next : Slots \cup {NULL}]

\* ch is the list: linked by next from the head to NULL, without repetition, and
\* of exactly the slots that are not marked free.
Links(array, head, ch) ==
    /\ ch \in Seq(Slots)
    /\ head = IF Len(ch) = 0 THEN NULL ELSE ch[1]
    /\ \A i \in 1 .. Len(ch) :
          array[ch[i]].next = IF i = Len(ch) THEN NULL ELSE ch[i + 1]
    /\ \A i, j \in 1 .. Len(ch) : ch[i] = ch[j] => i = j
    /\ \A s \in Slots : array[s].location # 0 <=> \E i \in 1 .. Len(ch) : ch[i] = s

ListInv ==
    /\ blink_array \in [Slots -> Item]
    /\ vmem \in [0 .. NumCells - 1 -> Chars]
    /\ Links(blink_array, mp1_list_head, Chain)

-----------------------------------------------------------------------------
(* Arithmetic and sets of numbers *)

\* A set of natural numbers has a least element.
LEMMA Least ==
    ASSUME NEW S \in SUBSET Nat, S # {}
    PROVE  \E n \in S : \A m \in S : n <= m
<1> DEFINE R == OpToRel(<, Nat)
<1>1. IsWellFoundedOn(R, Nat)
    BY NatLessThanWellFounded
<1>2. \A x, y \in Nat : <<y, x>> \in R <=> y < x
    BY DEF OpToRel
<1> HIDE DEF R
<1>3. PICK n \in S : \A y \in S : ~(<<y, n>> \in R)
    BY <1>1, WFMin
<1>4. n \in Nat /\ \A y \in S : y \in Nat /\ ~(y < n)
    BY <1>2, <1>3, Zenon
<1>5. \A y \in S : n <= y
    BY <1>4
<1> QED
    BY <1>5

\* A set of numbers up to n has a greatest element.
LEMMA Greatest ==
    ASSUME NEW n \in Nat, NEW S \in SUBSET (0 .. n), S # {}
    PROVE  \E m \in S : \A x \in S : x <= m
<1> DEFINE B == {b \in Nat : \A x \in S : x <= b}
<1>1. B \in SUBSET Nat /\ n \in B
    OBVIOUS
<1>2. PICK b \in B : \A y \in B : b <= y
    BY <1>1, Least
<1>3. b \in S
  <2> SUFFICES ASSUME b \notin S PROVE FALSE
      OBVIOUS
  <2>1. \A x \in S : x \in Nat /\ x <= b /\ x # b
      BY <1>2
  <2>2. PICK x \in S : TRUE
      OBVIOUS
  <2>3. b \in Nat /\ b > 0 /\ \A y \in S : y <= b - 1
      BY <1>2, <2>1, <2>2
  <2>4. b - 1 \in B
      BY <2>3
  <2> QED
      BY <1>2, <2>3, <2>4
<1> QED
    BY <1>2, <1>3

\* Max and Min of the library, for sets of numbers up to n.
LEMMA MaxMin ==
    ASSUME NEW n \in Nat, NEW S \in SUBSET (0 .. n), S # {}
    PROVE  /\ Max(S) \in S /\ \A x \in S : x <= Max(S)
           /\ Min(S) \in S /\ \A x \in S : Min(S) <= x
<1>1. PICK m \in S : \A x \in S : x <= m
    BY Greatest
<1>2. S \in SUBSET Nat
    OBVIOUS
<1>3. PICK k \in S : \A x \in S : k <= x
    BY <1>2, Least
<1>4. \A x, y \in S : x \in Int /\ y \in Int /\ (x >= y <=> y <= x)
    OBVIOUS
<1>5. Max(S) \in S /\ \A x \in S : Max(S) >= x
    BY <1>1, <1>4 DEF Max
<1>6. Min(S) \in S /\ \A x \in S : Min(S) <= x
    BY <1>3 DEF Min
<1> QED
    BY <1>4, <1>5, <1>6

\* The first k numbers are k numbers.
LEMMA UpTo ==
    ASSUME NEW k \in Nat
    PROVE  IsFiniteSet(1 .. k) /\ Cardinality(1 .. k) = k
<1>1. 1 \in Int /\ k \in Int
    OBVIOUS
<1>2. /\ IsFiniteSet(1 .. k)
      /\ Cardinality(1 .. k) = IF 1 > k THEN 0 ELSE k - 1 + 1
    BY <1>1, FS_Interval
<1> QED
    BY <1>2

-----------------------------------------------------------------------------
(* The list *)

\* A list that is linked in this way is what following next from the head meets.
LEMMA NodesAre ==
    ASSUME NEW array, NEW head, NEW ch, Links(array, head, ch)
    PROVE  Nodes(array, head) = ch
<1> DEFINE k == Len(ch)
           F(g) == [n \in Slots |-> IF n = 1 THEN head
                                    ELSE LET before == g[n - 1] IN
                                         IF before = NULL THEN NULL
                                         ELSE array[before].next]
           g == [n \in Slots |-> IF n <= k THEN ch[n] ELSE NULL]
<1>0. /\ NumSlots \in Nat /\ ch \in Seq(Slots) /\ k \in Nat
      /\ \A i \in 1 .. k : ch[i] \in Slots /\ ch[i] # NULL
    BY BlinkAssumption DEF Links, Slots, NULL
<1>1. k <= NumSlots
  <2>1. ch \in Injection(1 .. k, Slots)
      BY <1>0 DEF Links, Injection, IsInjective
  <2>2. IsFiniteSet(Slots) /\ Cardinality(Slots) = NumSlots
      BY <1>0, UpTo DEF Slots
  <2>3. IsFiniteSet(1 .. k) /\ Cardinality(1 .. k) = k
      BY <1>0, UpTo
  <2>4. Cardinality(1 .. k) <= Cardinality(Slots)
      BY <2>1, <2>2, <2>3, FS_Injection
  <2> QED
      BY <2>2, <2>3, <2>4
<1>2. g = F(g)
  <2> SUFFICES ASSUME NEW n \in Slots PROVE g[n] = F(g)[n]
      OBVIOUS
  <2>1. CASE n = 1
      BY <1>0, <2>1 DEF Links, Slots
  <2>2. CASE n # 1
    <3>1. n - 1 \in Slots /\ n \in Nat /\ (n - 1 <= k <=> n <= k + 1)
        BY <1>0, <2>2 DEF Slots
    <3>2. CASE n - 1 <= k
      <4>1. g[n - 1] = ch[n - 1] /\ n - 1 \in 1 .. k
          BY <1>0, <3>1, <3>2 DEF Slots
      <4>2. array[ch[n - 1]].next = IF n - 1 = k THEN NULL ELSE ch[n]
          BY <1>0, <3>1, <4>1 DEF Links
      <4> QED
          BY <1>0, <2>2, <3>1, <4>1, <4>2
    <3>3. CASE ~(n - 1 <= k)
        BY <1>0, <2>2, <3>1, <3>3
    <3> QED
        BY <3>2, <3>3
  <2> QED
      BY <2>1, <2>2
<1> HIDE DEF g
<1> DEFINE node == CHOOSE h : h = F(h)
<1>3. node = F(node)
    BY <1>2
<1>4. Nodes(array, head) = [n \in 1 .. Cardinality({m \in Slots : node[m] # NULL}) |-> node[n]]
    BY DEF Nodes
<1> HIDE DEF node
<1>5. ASSUME NEW n \in Slots PROVE node[n] = g[n]
  <2> DEFINE S == {m \in Slots : node[m] # g[m]}
  <2> SUFFICES ASSUME S # {} PROVE FALSE
      BY DEF S
  <2>1. S \in SUBSET Nat
      BY DEF Slots
  <2>2. PICK m \in S : \A j \in S : m <= j
      BY <2>1, Least
  <2>3. m # 1
      BY <1>2, <1>3, <2>2
  <2>4. m \in Slots /\ m - 1 \in Slots /\ ~(m <= m - 1)
    <3>1. m \in Slots /\ m \in 1 .. NumSlots /\ m # 1
        BY <2>2, <2>3 DEF Slots
    <3> QED
        BY <1>0, <3>1 DEF Slots
  <2>5. node[m - 1] = g[m - 1]
      BY <2>2, <2>4
  <2>6. /\ node[m] = F(node)[m] /\ g[m] = F(g)[m]
        /\ F(node)[m] = F(g)[m]
      BY <1>2, <1>3, <2>4, <2>5
  <2> QED
      BY <2>2, <2>6
<1>6. {m \in Slots : node[m] # NULL} = 1 .. k
    BY <1>0, <1>1, <1>5 DEF Slots, g
<1>7. Cardinality(1 .. k) = k
    BY <1>0, UpTo
<1>8. \A n \in 1 .. k : node[n] = ch[n]
    BY <1>0, <1>1, <1>5 DEF Slots, g
<1>9. ch = [n \in 1 .. k |-> ch[n]]
    BY <1>0
<1> QED
    BY <1>4, <1>6, <1>7, <1>8, <1>9

\* A list only depends on the links and on the marks.
LEMMA SameLinks ==
    ASSUME NEW array, NEW array2, NEW head, NEW ch, Links(array, head, ch),
           \A s \in Slots : /\ array2[s].next = array[s].next
                            /\ array2[s].location = array[s].location
    PROVE  Links(array2, head, ch)
<1>1. \A i \in 1 .. Len(ch) : ch[i] \in Slots
    BY DEF Links
<1> QED
    BY <1>1 DEF Links

\* mp1_ioctl_add puts a free slot in front of the list.
LEMMA AddLinks ==
    ASSUME NEW array \in [Slots -> Item], NEW head, NEW ch, Links(array, head, ch),
           NEW e \in Slots, array[e].location = 0,
           NEW u, u.location # 0, u.next = head
    PROVE  Links([array EXCEPT ![e] = u], e, <<e>> \o ch)
<1> DEFINE new == <<e>> \o ch
           array2 == [array EXCEPT ![e] = u]
<1>0. /\ ch \in Seq(Slots) /\ Len(ch) \in Nat
      /\ \A i \in 1 .. Len(ch) : ch[i] \in Slots /\ ch[i] # e
    BY DEF Links
<1>1. /\ new \in Seq(Slots) /\ Len(new) = Len(ch) + 1
      /\ new[1] = e /\ \A i \in 2 .. Len(ch) + 1 : new[i] = ch[i - 1]
    BY <1>0
<1>2. /\ array2[e] = u
      /\ \A s \in Slots : s # e => array2[s] = array[s]
    OBVIOUS
<1> HIDE DEF new, array2
<1>3. ASSUME NEW i \in 1 .. Len(new)
      PROVE  array2[new[i]].next = IF i = Len(new) THEN NULL ELSE new[i + 1]
  <2>1. CASE i = 1
    <3>1. array2[new[i]].next = head
        BY <1>1, <1>2, <2>1
    <3>2. CASE Len(ch) = 0
        BY <1>0, <1>1, <2>1, <3>1, <3>2 DEF Links
    <3>3. CASE Len(ch) # 0
      <4>1. head = ch[1] /\ 2 \in 2 .. Len(ch) + 1 /\ i # Len(new)
          BY <1>0, <1>1, <2>1, <3>3 DEF Links
      <4> QED
          BY <1>1, <2>1, <3>1, <4>1
    <3> QED
        BY <3>2, <3>3
  <2>2. CASE i # 1
    <3>1. i \in 2 .. Len(ch) + 1 /\ i - 1 \in 1 .. Len(ch)
        BY <1>0, <1>1, <2>2
    <3>2. array2[new[i]].next = IF i - 1 = Len(ch) THEN NULL ELSE ch[i - 1 + 1]
        BY <1>0, <1>1, <1>2, <3>1 DEF Links
    <3>3. i # Len(new) => i + 1 \in 2 .. Len(ch) + 1
        BY <1>0, <1>1, <3>1
    <3> QED
        BY <1>0, <1>1, <3>1, <3>2, <3>3
  <2> QED
      BY <2>1, <2>2
<1>4. ASSUME NEW i \in 1 .. Len(new), NEW j \in 1 .. Len(new), new[i] = new[j]
      PROVE  i = j
  <2>1. CASE i = 1
      BY <1>0, <1>1, <1>4, <2>1
  <2>2. CASE j = 1
      BY <1>0, <1>1, <1>4, <2>2
  <2>3. CASE i # 1 /\ j # 1
    <3>1. i - 1 \in 1 .. Len(ch) /\ j - 1 \in 1 .. Len(ch) /\ ch[i - 1] = ch[j - 1]
        BY <1>0, <1>1, <1>4, <2>3
    <3>2. i - 1 = j - 1
        BY <3>1 DEF Links
    <3> QED
        BY <3>2, <1>0, <1>1
  <2> QED
      BY <2>1, <2>2, <2>3
<1>5. ASSUME NEW s \in Slots
      PROVE  array2[s].location # 0 <=> \E i \in 1 .. Len(new) : new[i] = s
  <2>1. CASE s = e
      BY <1>0, <1>1, <1>2, <2>1
  <2>2. CASE s # e
    <3>1. array2[s].location # 0 <=> \E i \in 1 .. Len(ch) : ch[i] = s
        BY <1>2, <2>2 DEF Links
    <3>2. ASSUME NEW i \in 1 .. Len(ch), ch[i] = s PROVE \E j \in 1 .. Len(new) : new[j] = s
      <4>1. i + 1 \in 2 .. Len(ch) + 1 /\ i + 1 \in 1 .. Len(new) /\ (i + 1) - 1 = i
          BY <1>0, <1>1
      <4> QED
          BY <1>1, <3>2, <4>1
    <3>3. ASSUME NEW j \in 1 .. Len(new), new[j] = s PROVE \E i \in 1 .. Len(ch) : ch[i] = s
      <4>1. j \in 2 .. Len(ch) + 1 /\ j - 1 \in 1 .. Len(ch)
          BY <1>0, <1>1, <2>2, <3>3
      <4> QED
          BY <1>1, <3>3, <4>1
    <3> QED
        BY <3>1, <3>2, <3>3
  <2> QED
      BY <2>1, <2>2
<1>6. e = IF Len(new) = 0 THEN NULL ELSE new[1]
    BY <1>0, <1>1
<1>7. Links(array2, e, new)
    BY <1>1, <1>3, <1>4, <1>5, <1>6 DEF Links
<1> QED
    BY <1>7 DEF new, array2

\* What RemoveAt leaves.
LEMMA RemoveAtIs ==
    ASSUME NEW S, NEW q \in Seq(S), NEW n \in 1 .. Len(q)
    PROVE  /\ RemoveAt(q, n) \in Seq(S) /\ Len(RemoveAt(q, n)) = Len(q) - 1
           /\ \A i \in 1 .. Len(q) - 1 :
                 RemoveAt(q, n)[i] = IF i < n THEN q[i] ELSE q[i + 1]
<1> DEFINE a == SubSeq(q, 1, n - 1)
           b == SubSeq(q, n + 1, Len(q))
<1>0. Len(q) \in Nat /\ n \in Nat /\ n >= 1 /\ n <= Len(q)
    OBVIOUS
<1>1. /\ a \in Seq(S) /\ Len(a) = n - 1 /\ \A i \in 1 .. n - 1 : a[i] = q[i]
    BY <1>0
<1>2. /\ b \in Seq(S) /\ Len(b) = Len(q) - n
      /\ \A i \in 1 .. Len(q) - n : b[i] = q[n + i]
    BY <1>0
<1> HIDE DEF a, b
<1>3. /\ a \o b \in Seq(S) /\ Len(a \o b) = Len(q) - 1
  <2>1. a \o b \in Seq(S) /\ Len(a \o b) = Len(a) + Len(b)
      BY <1>1, <1>2, ConcatProperties
  <2> QED
      BY <1>0, <1>1, <1>2, <2>1
<1>4. ASSUME NEW i \in 1 .. Len(q) - 1
      PROVE  (a \o b)[i] = IF i < n THEN q[i] ELSE q[i + 1]
  <2>1. CASE i < n
      BY <1>0, <1>1, <1>2, <2>1
  <2>2. CASE ~(i < n)
    <3>1. i - (n - 1) \in 1 .. Len(q) - n /\ n + (i - (n - 1)) = i + 1
        BY <1>0, <2>2
    <3>2. (a \o b)[i] = b[i - (n - 1)]
        BY <1>0, <1>1, <1>2, <2>2
    <3> QED
        BY <1>2, <2>2, <3>1, <3>2
  <2> QED
      BY <2>1, <2>2
<1> QED
    BY <1>3, <1>4 DEF RemoveAt, a, b

\* The array and the head after mp1_ioctl_remove has unlinked e.
UnlinkedIn(array, e) ==
    [s \in Slots |-> IF s = e THEN Zeroed
                     ELSE IF array[s].next = e
                     THEN [array[s] EXCEPT !.next = array[e].next]
                     ELSE array[s]]

HeadWithout(array, head, e) == IF head = e THEN array[e].next ELSE head

\* mp1_ioctl_remove takes one slot out of the list and changes nothing else in it:
\* the slot before it is the only one whose next leads to it.
LEMMA RemoveLinks ==
    ASSUME NEW array \in [Slots -> Item], NEW head, NEW ch, Links(array, head, ch),
           NEW n \in 1 .. Len(ch)
    PROVE  Links(UnlinkedIn(array, ch[n]), HeadWithout(array, head, ch[n]),
                 RemoveAt(ch, n))
<1> DEFINE e == ch[n]
           k == Len(ch)
           new == RemoveAt(ch, n)
           array2 == UnlinkedIn(array, e)
           old(i) == IF i < n THEN i ELSE i + 1
<1>0. /\ ch \in Seq(Slots) /\ k \in Nat /\ n \in 1 .. k
      /\ \A i \in 1 .. k : ch[i] \in Slots /\ ch[i] # NULL
      /\ \A i, j \in 1 .. k : ch[i] = ch[j] => i = j
      /\ \A i \in 1 .. k : array[ch[i]].next = IF i = k THEN NULL ELSE ch[i + 1]
      /\ e \in Slots
    BY BlinkAssumption DEF Links, Slots, NULL
<1>1. new \in Seq(Slots) /\ Len(new) = k - 1
    BY <1>0, RemoveAtIs
<1>2. ASSUME NEW i \in 1 .. k - 1
      PROVE  new[i] = ch[old(i)] /\ old(i) \in 1 .. k /\ old(i) # n
  <2>1. old(i) \in 1 .. k /\ old(i) # n
      BY <1>0
  <2>2. new[i] = IF i < n THEN ch[i] ELSE ch[i + 1]
      BY <1>0, RemoveAtIs
  <2> QED
      BY <2>1, <2>2
<1>3. ASSUME NEW s \in Slots, s # e
      PROVE  /\ array2[s].next = IF array[s].next = e THEN array[e].next
                                                     ELSE array[s].next
             /\ array2[s].location = array[s].location
  <2>1. array[s] \in Item
      OBVIOUS
  <2> QED
      BY <1>3, <2>1 DEF UnlinkedIn, Item
<1>4. array2[e].location = 0
    BY <1>0 DEF UnlinkedIn, Zeroed
<1> HIDE DEF new, array2
<1>5. ASSUME NEW i \in 1 .. Len(new)
      PROVE  array2[new[i]].next = IF i = Len(new) THEN NULL ELSE new[i + 1]
  <2>1. i \in 1 .. k - 1 /\ new[i] = ch[old(i)] /\ old(i) \in 1 .. k /\ old(i) # n
      BY <1>1, <1>2
  <2>2. new[i] \in Slots /\ new[i] # e
      BY <1>0, <2>1
  <2>3. array[new[i]].next = IF old(i) = k THEN NULL ELSE ch[old(i) + 1]
      BY <1>0, <2>1
  <2>4. CASE old(i) + 1 = n
    <3>1. array[new[i]].next = e /\ i = n - 1 /\ old(i) = i
        BY <1>0, <2>1, <2>3, <2>4
    <3>2. array2[new[i]].next = IF n = k THEN NULL ELSE ch[n + 1]
        BY <1>0, <1>3, <2>2, <3>1
    <3>3. n # k => i + 1 \in 1 .. k - 1 /\ new[i + 1] = ch[n + 1]
        BY <1>0, <1>2, <3>1
    <3> QED
        BY <1>0, <1>1, <3>1, <3>2, <3>3
  <2>5. CASE old(i) + 1 # n
    <3>1. array[new[i]].next # e
        BY <1>0, <2>1, <2>3, <2>5
    <3>2. array2[new[i]].next = IF old(i) = k THEN NULL ELSE ch[old(i) + 1]
        BY <1>3, <2>2, <2>3, <3>1
    <3>3. (old(i) = k) <=> (i = Len(new))
        BY <1>0, <1>1, <2>1, <2>5
    <3>4. i # Len(new) => i + 1 \in 1 .. k - 1 /\ old(i + 1) = old(i) + 1
        BY <1>0, <1>1, <2>1, <2>5
    <3>5. i # Len(new) => new[i + 1] = ch[old(i) + 1]
        BY <1>2, <3>4
    <3> QED
        BY <3>2, <3>3, <3>5
  <2> QED
      BY <2>4, <2>5
<1>6. ASSUME NEW i \in 1 .. Len(new), NEW j \in 1 .. Len(new), new[i] = new[j]
      PROVE  i = j
  <2>1. i \in 1 .. k - 1 /\ j \in 1 .. k - 1
      BY <1>1
  <2>2. old(i) = old(j)
      BY <1>0, <1>2, <1>6, <2>1
  <2> QED
      BY <1>0, <2>1, <2>2
<1>7. ASSUME NEW s \in Slots
      PROVE  array2[s].location # 0 <=> \E i \in 1 .. Len(new) : new[i] = s
  <2>1. CASE s = e
    <3>1. ASSUME NEW i \in 1 .. Len(new) PROVE new[i] # s
        BY <1>0, <1>1, <1>2, <2>1
    <3> QED
        BY <1>4, <2>1, <3>1
  <2>2. CASE s # e
    <3>1. array2[s].location # 0 <=> \E i \in 1 .. k : ch[i] = s
        BY <1>3, <2>2 DEF Links
    <3>2. ASSUME NEW i \in 1 .. k, ch[i] = s PROVE \E j \in 1 .. Len(new) : new[j] = s
      <4>1. CASE i < n
          BY <1>0, <1>1, <1>2, <3>2, <4>1
      <4>2. CASE ~(i < n)
        <5>1. i - 1 \in 1 .. k - 1 /\ old(i - 1) = i
            BY <1>0, <2>2, <3>2, <4>2
        <5> QED
            BY <1>1, <1>2, <3>2, <5>1
      <4> QED
          BY <4>1, <4>2
    <3>3. ASSUME NEW j \in 1 .. Len(new), new[j] = s PROVE \E i \in 1 .. k : ch[i] = s
        BY <1>1, <1>2, <3>3
    <3> QED
        BY <3>1, <3>2, <3>3
  <2> QED
      BY <2>1, <2>2
<1>8. HeadWithout(array, head, e) = IF Len(new) = 0 THEN NULL ELSE new[1]
  <2>1. head = ch[1]
      BY <1>0 DEF Links
  <2>2. head = e <=> n = 1
      BY <1>0, <2>1
  <2>3. CASE n = 1
    <3>1. HeadWithout(array, head, e) = IF k = 1 THEN NULL ELSE ch[2]
        BY <1>0, <2>2, <2>3 DEF HeadWithout
    <3>2. k # 1 => 1 \in 1 .. k - 1 /\ old(1) = 2
      <4>1. k \in Nat /\ k >= 1 /\ old(1) = 2
          BY <1>0, <2>3
      <4>2. \A m \in Nat : m >= 1 /\ m # 1 => 1 \in 1 .. m - 1
          OBVIOUS
      <4> HIDE DEF k, old
      <4> QED
          BY <4>1, <4>2
    <3>3. k # 1 => new[1] = ch[2]
        BY <1>2, <3>2
    <3> QED
        BY <1>0, <1>1, <3>1, <3>3
  <2>4. CASE n # 1
    <3>1. HeadWithout(array, head, e) = ch[1]
        BY <2>1, <2>2, <2>4 DEF HeadWithout
    <3>2. 1 \in 1 .. k - 1 /\ old(1) = 1
        BY <1>0, <2>4
    <3>3. new[1] = ch[1]
        BY <1>2, <3>2
    <3> QED
        BY <1>0, <1>1, <3>1, <3>2, <3>3
  <2> QED
      BY <2>3, <2>4
<1>9. Links(array2, HeadWithout(array, head, e), new)
    BY <1>1, <1>5, <1>6, <1>7, <1>8 DEF Links
<1> QED
    BY <1>9 DEF new, array2

-----------------------------------------------------------------------------
(* The calls on the list *)

\* What the callers of mp1_ioctl pass to RTC_ADD.
Argument(u) ==
    /\ u.location \in 1 .. WORD - 1 /\ u.on_char \in Chars /\ u.off_char \in Chars
    /\ u.on_length \in Word /\ u.off_length \in Word

\* The slots in use are as many as the list is long.
LEMMA Used ==
    ASSUME ListInv
    PROVE  /\ Chain \in Seq(Slots) /\ Len(Chain) \in Nat
           /\ IsFiniteSet(Slots) /\ Cardinality(Slots) = NumSlots
           /\ Range(Chain) = {s \in Slots : blink_array[s].location # 0}
           /\ Cardinality({s \in Slots : blink_array[s].location # 0}) = Len(Chain)
<1> DEFINE U == {s \in Slots : blink_array[s].location # 0}
           k == Len(Chain)
<1>0. NumSlots \in Nat /\ Chain \in Seq(Slots) /\ k \in Nat
    BY BlinkAssumption DEF ListInv, Links
<1>1. /\ Chain \in Seq(Slots) /\ k \in Nat /\ NumSlots \in Nat
      /\ \A i \in 1 .. k : Chain[i] \in Slots
      /\ \A s \in Slots : s \in U <=> \E i \in 1 .. k : Chain[i] = s
      /\ \A i, j \in 1 .. k : Chain[i] = Chain[j] => i = j
    BY <1>0 DEF ListInv, Links
<1>2. IsFiniteSet(Slots) /\ Cardinality(Slots) = NumSlots
    BY <1>1, UpTo DEF Slots
<1>3. Range(Chain) = U /\ DOMAIN Chain = 1 .. k /\ Chain \in [1 .. k -> U]
    BY <1>1 DEF Range
<1> HIDE DEF U
<1>4. \A s \in U : \E i \in 1 .. k : Chain[i] = s
    BY <1>1 DEF U
<1>5. Chain \in Bijection(1 .. k, U)
    BY <1>1, <1>3, <1>4 DEF Bijection, Injection, Surjection, IsInjective
<1>6. ExistsBijection(1 .. k, U)
    BY <1>5 DEF ExistsBijection
<1>7. IsFiniteSet(1 .. k) /\ Cardinality(1 .. k) = k
    BY <1>1, UpTo
<1>8. Cardinality(U) = k
    BY <1>6, <1>7, FS_Bijection
<1> QED
    BY <1>1, <1>2, <1>3, <1>8 DEF U

\* mp1_malloc finds a free slot unless the list has all of them.
LEMMA Malloc ==
    ASSUME ListInv
    PROVE  /\ mp1_malloc # NULL => /\ mp1_malloc \in Slots
                                   /\ blink_array[mp1_malloc].location = 0
                                   /\ Len(Chain) < NumSlots
           /\ mp1_malloc = NULL => Len(Chain) = NumSlots
<1> DEFINE free == {s \in Slots : blink_array[s].location = 0}
           U == {s \in Slots : blink_array[s].location # 0}
<1>0. /\ IsFiniteSet(Slots) /\ Cardinality(Slots) = NumSlots
      /\ Cardinality(U) = Len(Chain) /\ NumSlots \in Nat /\ Len(Chain) \in Nat
    BY Used, BlinkAssumption
<1>1. CASE free = {}
  <2>1. mp1_malloc = NULL
      BY <1>1 DEF mp1_malloc
  <2>2. U = Slots
      BY <1>1
  <2> QED
      BY <1>0, <2>1, <2>2
<1>2. CASE free # {}
  <2>1. free \in SUBSET Nat
      BY DEF Slots
  <2>2. \E s \in free : \A t \in free : s <= t
      BY <1>2, <2>1, Least
  <2>3. mp1_malloc = CHOOSE s \in free : \A t \in free : s <= t
      BY <1>2 DEF mp1_malloc
  <2>4. mp1_malloc \in free
      BY <2>2, <2>3
  <2>5. mp1_malloc # NULL
      BY <2>4, BlinkAssumption DEF Slots, NULL
  <2>6. U \in SUBSET Slots /\ U # Slots
      BY <2>4
  <2>7. Cardinality(U) <= Cardinality(Slots) /\ Cardinality(Slots) # Cardinality(U)
      BY <1>0, <2>6, FS_Subset
  <2> QED
      BY <1>0, <2>4, <2>5, <2>7
<1> QED
    BY <1>1, <1>2

\* mp1_find_helper finds the first item of the list at a location.
LEMMA FindHelper ==
    ASSUME ListInv, NEW l, mp1_find_helper(l) # NULL
    PROVE  \E n \in 1 .. Len(Chain) :
              /\ mp1_find_helper(l) = Chain[n]
              /\ blink_array[Chain[n]].location = l % WORD
              /\ \A m \in 1 .. n - 1 : blink_array[Chain[m]].location # l % WORD
<1> DEFINE I == {i \in 1 .. Len(Chain) : blink_array[Chain[i]].location = l % WORD}
<1>0. Len(Chain) \in Nat
    BY Used
<1>1. mp1_find_helper(l) = LET n == IF I # {} THEN Min(I) ELSE 0
                           IN  IF n = 0 THEN NULL ELSE Chain[n]
    BY DEF mp1_find_helper, SelectInSeq
<1>2. I # {}
    BY <1>1
<1>3. I \in SUBSET (0 .. Len(Chain))
    BY <1>0
<1> HIDE DEF I
<1>4. Min(I) \in I /\ \A x \in I : Min(I) <= x
    BY <1>0, <1>2, <1>3, MaxMin
<1> DEFINE n == Min(I)
<1> HIDE DEF n
<1>5. n \in 1 .. Len(Chain) /\ blink_array[Chain[n]].location = l % WORD
    BY <1>4 DEF I, n
<1>6. mp1_find_helper(l) = Chain[n]
    BY <1>0, <1>1, <1>2, <1>5 DEF n
<1>7. ASSUME NEW m \in 1 .. n - 1 PROVE blink_array[Chain[m]].location # l % WORD
  <2>1. m \in 1 .. Len(Chain) /\ ~(n <= m)
      BY <1>0, <1>5
  <2>2. m \notin I
      BY <1>4, <2>1 DEF n
  <2> QED
      BY <2>1, <2>2 DEF I
<1> QED
    BY <1>5, <1>6, <1>7

\* The head is a slot or NULL, and the new list is known once its links are.
LEMMA HeadIs ==
    ASSUME ListInv
    PROVE  mp1_list_head \in Slots \cup {NULL}
<1>1. Chain \in Seq(Slots) /\ Len(Chain) \in Nat
    BY Used
<1>2. Len(Chain) # 0 => Chain[1] \in Slots
    BY <1>1
<1> QED
    BY <1>2 DEF ListInv, Links

\* A description of the new list is its chain.
LEMMA NewChain ==
    ASSUME NEW ch, Links(blink_array', mp1_list_head', ch)
    PROVE  Chain' = ch /\ Links(blink_array', mp1_list_head', Chain')
<1>1. Nodes(blink_array', mp1_list_head') = ch
    BY NodesAre
<1> QED
    BY <1>1 DEF Chain

\* A step that leaves the list alone keeps everything about it.
LEMMA SameList ==
    ASSUME ListInv, UNCHANGED list
    PROVE  ListInv' /\ Chain' = Chain
<1>1. Chain' = Chain
    BY DEF Chain, list
<1> QED
    BY <1>1 DEF ListInv, list

\* RTC_ADD either leaves everything as it is, and then the location is bad or the
\* list is full, or puts a new item in front of the list and on the screen.
LEMMA AddCall ==
    ASSUME ListInv, NEW u, Argument(u), mp1_ioctl_add(u)
    PROVE  /\ ListInv'
           /\ \/ /\ UNCHANGED list /\ Chain' = Chain
                 /\ u.location >= NumCells \/ Len(Chain) = NumSlots
              \/ /\ u.location < NumCells /\ Len(Chain) < NumSlots
                 /\ mp1_malloc \in Slots /\ blink_array[mp1_malloc].location = 0
                 /\ Chain' = <<mp1_malloc>> \o Chain
                 /\ blink_array' =
                       [blink_array EXCEPT ![mp1_malloc] =
                           [location |-> u.location, on_char |-> u.on_char,
                            off_char |-> u.off_char, on_length |-> u.on_length,
                            off_length |-> u.off_length, countdown |-> u.on_length,
                            status |-> 1, next |-> mp1_list_head]]
                 /\ vmem' = [vmem EXCEPT ![u.location] = u.on_char]
<1>1. CASE u.location >= NumCells \/ mp1_malloc = NULL
  <2>1. UNCHANGED list
      BY <1>1 DEF mp1_ioctl_add
  <2> QED
      BY <1>1, <2>1, SameList, Malloc
<1>2. CASE ~(u.location >= NumCells \/ mp1_malloc = NULL)
  <2> DEFINE new == [location |-> u.location, on_char |-> u.on_char,
                     off_char |-> u.off_char, on_length |-> u.on_length,
                     off_length |-> u.off_length, countdown |-> u.on_length,
                     status |-> 1, next |-> mp1_list_head]
             e == mp1_malloc
  <2>1. /\ e \in Slots /\ blink_array[e].location = 0 /\ Len(Chain) < NumSlots
        /\ u.location < NumCells /\ u.location \in 1 .. NumCells - 1
        /\ NumCells \in Nat
      BY <1>2, Malloc, BlinkAssumption DEF Argument
  <2>2. /\ blink_array' = [blink_array EXCEPT ![e] = new]
        /\ mp1_list_head' = e
        /\ vmem' = [vmem EXCEPT ![u.location] = u.on_char]
      BY <1>2 DEF mp1_ioctl_add
  <2>3. new \in Item
      BY <2>1, HeadIs DEF Item, Argument
  <2>4. new.location # 0 /\ new.next = mp1_list_head
      BY <2>1
  <2> HIDE DEF new, e
  <2>5. blink_array \in [Slots -> Item] /\ Links(blink_array, mp1_list_head, Chain)
      BY DEF ListInv
  <2>6. Links([blink_array EXCEPT ![e] = new], e, <<e>> \o Chain)
      BY <2>1, <2>4, <2>5, AddLinks
  <2>7. Chain' = <<e>> \o Chain /\ Links(blink_array', mp1_list_head', Chain')
      BY <2>2, <2>6, NewChain
  <2>8. blink_array' \in [Slots -> Item]
      BY <2>2, <2>3, <2>5
  <2>9. vmem' \in [0 .. NumCells - 1 -> Chars]
      BY <2>1, <2>2 DEF ListInv, Argument
  <2>10. ListInv'
      BY <2>7, <2>8, <2>9 DEF ListInv
  <2> QED
      BY <2>1, <2>2, <2>7, <2>10 DEF new, e
<1> QED
    BY <1>1, <1>2

\* What mp1_free leaves is an item.
LEMMA ZeroedItem ==
    ASSUME NumCells > 0 PROVE Zeroed \in Item
<1>1. 0 \in 0 .. NumCells - 1 /\ 0 \in Word
    BY BlinkAssumption DEF Word
<1> QED
    BY <1>1 DEF Zeroed, Item, Chars, NULL

\* RTC_REMOVE changes nothing, or takes the first item at the location out.
LEMMA RemoveCall ==
    ASSUME ListInv, NEW l, mp1_ioctl_remove(l)
    PROVE  /\ ListInv' /\ vmem' = vmem
           /\ \/ UNCHANGED list /\ Chain' = Chain
              \/ \E n \in 1 .. Len(Chain) :
                    /\ \A m \in 1 .. n - 1 :
                          blink_array[Chain[m]].location # blink_array[Chain[n]].location
                    /\ Chain' = RemoveAt(Chain, n)
                    /\ blink_array' = UnlinkedIn(blink_array, Chain[n])
<1>1. CASE mp1_find_helper(l) = NULL
  <2>1. UNCHANGED list
      BY <1>1 DEF mp1_ioctl_remove
  <2> QED
      BY <2>1, SameList DEF list
<1>2. CASE mp1_find_helper(l) # NULL
  <2>1. PICK n \in 1 .. Len(Chain) :
              /\ mp1_find_helper(l) = Chain[n]
              /\ blink_array[Chain[n]].location = l % WORD
              /\ \A m \in 1 .. n - 1 : blink_array[Chain[m]].location # l % WORD
      BY <1>2, FindHelper
  <2> DEFINE e == Chain[n]
  <2>2. /\ blink_array' = UnlinkedIn(blink_array, e)
        /\ mp1_list_head' = HeadWithout(blink_array, mp1_list_head, e)
        /\ vmem' = vmem
      BY <1>2, <2>1 DEF mp1_ioctl_remove, Unlinked, UnlinkedIn, HeadWithout
  <2>3. blink_array \in [Slots -> Item] /\ Links(blink_array, mp1_list_head, Chain)
      BY DEF ListInv
  <2>4. e \in Slots /\ blink_array[e] \in Item
      BY <2>3, Used
  <2>5. Links(UnlinkedIn(blink_array, e), HeadWithout(blink_array, mp1_list_head, e),
              RemoveAt(Chain, n))
      BY <2>3, RemoveLinks
  <2> HIDE DEF e
  <2>6. Chain' = RemoveAt(Chain, n) /\ Links(blink_array', mp1_list_head', Chain')
      BY <2>2, <2>5, NewChain
  <2>7. blink_array' \in [Slots -> Item]
    <3>1. NumCells > 0
        BY <2>4, BlinkAssumption DEF Item
    <3>2. Zeroed \in Item
        BY <3>1, ZeroedItem
    <3>3. ASSUME NEW s \in Slots PROVE [blink_array[s] EXCEPT !.next = blink_array[e].next] \in Item
        BY <2>3, <2>4 DEF Item
    <3> QED
        BY <2>2, <2>3, <3>2, <3>3 DEF UnlinkedIn
  <2>8. ListInv'
      BY <2>2, <2>6, <2>7 DEF ListInv
  <2> QED
      BY <2>1, <2>2, <2>6, <2>8 DEF e
<1> QED
    BY <1>1, <1>2

\* RTC_SYNC changes nothing, or gives one item of the list the timing of another.
LEMMA SyncCall ==
    ASSUME ListInv, NEW from, NEW to, mp1_ioctl_sync(from, to)
    PROVE  /\ ListInv' /\ Chain' = Chain
           /\ \/ UNCHANGED list
              \/ \E n, m \in 1 .. Len(Chain) :
                    /\ \A i \in 1 .. n - 1 :
                          blink_array[Chain[i]].location # blink_array[Chain[n]].location
                    /\ \A i \in 1 .. m - 1 :
                          blink_array[Chain[i]].location # blink_array[Chain[m]].location
                    /\ blink_array' =
                          [blink_array EXCEPT ![Chain[m]] =
                              [@ EXCEPT !.on_length  = blink_array[Chain[n]].on_length,
                                        !.off_length = blink_array[Chain[n]].off_length,
                                        !.countdown  = blink_array[Chain[n]].countdown,
                                        !.status     = blink_array[Chain[n]].status]]
                    /\ vmem' = [vmem EXCEPT ![blink_array[Chain[m]].location] =
                                               blink_array[Chain[m]].off_char]
<1>1. CASE mp1_find_helper(from) = NULL \/ mp1_find_helper(to) = NULL
  <2>1. UNCHANGED list
      BY <1>1 DEF mp1_ioctl_sync
  <2> QED
      BY <2>1, SameList
<1>2. CASE ~(mp1_find_helper(from) = NULL \/ mp1_find_helper(to) = NULL)
  <2>1. PICK n \in 1 .. Len(Chain) :
              /\ mp1_find_helper(from) = Chain[n]
              /\ blink_array[Chain[n]].location = from % WORD
              /\ \A i \in 1 .. n - 1 : blink_array[Chain[i]].location # from % WORD
      BY <1>2, FindHelper
  <2>2. PICK m \in 1 .. Len(Chain) :
              /\ mp1_find_helper(to) = Chain[m]
              /\ blink_array[Chain[m]].location = to % WORD
              /\ \A i \in 1 .. m - 1 : blink_array[Chain[i]].location # to % WORD
      BY <1>2, FindHelper
  <2> DEFINE src == Chain[n]
             dst == Chain[m]
             new == [blink_array[dst] EXCEPT !.on_length  = blink_array[src].on_length,
                                             !.off_length = blink_array[src].off_length,
                                             !.countdown  = blink_array[src].countdown,
                                             !.status     = blink_array[src].status]
  <2>3. blink_array \in [Slots -> Item] /\ Links(blink_array, mp1_list_head, Chain)
      BY DEF ListInv
  <2>4. src \in Slots /\ dst \in Slots
      BY Used
  <2>5. blink_array[src] \in Item /\ blink_array[dst] \in Item
      BY <2>3, <2>4
  <2>6. /\ blink_array' = [blink_array EXCEPT
                        ![dst].on_length  = blink_array[src].on_length,
                        ![dst].off_length = blink_array[src].off_length,
                        ![dst].countdown  = blink_array[src].countdown,
                        ![dst].status     = blink_array[src].status]
        /\ vmem' = [vmem EXCEPT ![blink_array[dst].location] = blink_array[dst].off_char]
        /\ mp1_list_head' = mp1_list_head
      BY <1>2, <2>1, <2>2 DEF mp1_ioctl_sync
  <2>7. blink_array' = [blink_array EXCEPT ![dst] = new]
      BY ZenonT(60), <2>3, <2>4, <2>6
  <2>8. new \in Item /\ new.location = blink_array[dst].location /\ new.next = blink_array[dst].next
      BY <2>5 DEF Item
  <2> HIDE DEF new, src, dst
  <2>9. \A s \in Slots : /\ blink_array'[s].next = blink_array[s].next
                         /\ blink_array'[s].location = blink_array[s].location
      BY <2>3, <2>4, <2>7, <2>8
  <2>10. Links(blink_array', mp1_list_head', Chain)
      BY ZenonT(60), <2>3, <2>6, <2>9, SameLinks
  <2>11. Chain' = Chain /\ Links(blink_array', mp1_list_head', Chain')
      BY <2>10, NewChain
  <2>12. blink_array' \in [Slots -> Item]
      BY <2>3, <2>7, <2>8
  <2>13. vmem' \in [0 .. NumCells - 1 -> Chars]
      BY <2>5, <2>6 DEF ListInv, Item
  <2>14. ListInv'
      BY <2>11, <2>12, <2>13 DEF ListInv
  <2>15. /\ \A i \in 1 .. n - 1 :
               blink_array[Chain[i]].location # blink_array[Chain[n]].location
         /\ \A i \in 1 .. m - 1 :
               blink_array[Chain[i]].location # blink_array[Chain[m]].location
      BY <2>1, <2>2
  <2> QED
      BY <2>6, <2>7, <2>11, <2>14, <2>15 DEF new, src, dst
<1> QED
    BY <1>1, <1>2

\* The test behind decw: an item changes when its countdown is 0, 1, or above the
\* largest positive word.
LEMMA TogglesWhen ==
    ASSUME NEW b, b.countdown \in Word
    PROVE  /\ Toggles(b) <=> b.countdown \in {0, 1} \/ b.countdown > WORD \div 2
           /\ ~Toggles(b) => /\ (b.countdown - 1) % WORD = b.countdown - 1
                             /\ b.countdown - 1 \in Word
<1> DEFINE h == WORD \div 2
           x == b.countdown
<1>1. WORD \in Nat /\ h \in Nat /\ WORD = 2 * h /\ h > 0 /\ x \in 0 .. WORD - 1
    BY BlinkAssumption DEF Word
<1>2. CASE x = 0
  <2>1. (0 - 1) % WORD = WORD - 1
    <3>1. /\ 0 - 1 \in Int /\ WORD \in Nat \ {0}
        BY <1>1
    <3>2. 0 - 1 = WORD * ((0 - 1) \div WORD) + ((0 - 1) % WORD)
        BY <3>1
    <3>3. (0 - 1) % WORD \in 0 .. WORD - 1 /\ (0 - 1) \div WORD \in Int
        BY <3>1
    <3>4. (0 - 1) \div WORD = 0 - 1
        BY <3>1, <3>2, <3>3
    <3> QED
        BY <3>1, <3>2, <3>4
  <2> QED
      BY <1>1, <1>2, <2>1 DEF Toggles, Expired
<1>3. CASE x # 0
  <2>1. x - 1 \in 0 .. WORD - 1
      BY <1>1, <1>3
  <2>2. (x - 1) % WORD = x - 1
      BY <1>1, <2>1
  <2> QED
      BY <1>1, <1>3, <2>1, <2>2 DEF Toggles, Expired, Word
<1> QED
    BY <1>2, <1>3

\* A tick keeps an item an item, at its place in the list.
LEMMA TickedItem ==
    ASSUME NEW b \in Item
    PROVE  /\ Ticked(b) \in Item
           /\ Ticked(b).next = b.next /\ Ticked(b).location = b.location
<1>1. b.countdown \in Word /\ b.status \in {0, 1} /\ 1 - b.status \in {0, 1}
    BY DEF Item
<1>2. ~Toggles(b) => (b.countdown - 1) % WORD \in Word
    BY <1>1, TogglesWhen
<1>3. CASE Toggles(b)
    BY <1>1, <1>3 DEF Ticked, Item
<1>4. CASE ~Toggles(b)
    BY <1>2, <1>4 DEF Ticked, Item
<1> QED
    BY <1>3, <1>4

\* mp1_rtc_tasklet ages every item of the list and leaves the list alone.
LEMMA TickCall ==
    ASSUME ListInv, mp1_rtc_tasklet
    PROVE  /\ ListInv' /\ Chain' = Chain
           /\ \A n \in 1 .. Len(Chain) :
                 blink_array'[Chain[n]] = Ticked(blink_array[Chain[n]])
           /\ vmem' = Poked(Chain)
<1>1. /\ blink_array' = [s \in Slots |->
             IF s \in Range(Chain) THEN Ticked(blink_array[s]) ELSE blink_array[s]]
      /\ vmem' = Poked(Chain) /\ mp1_list_head' = mp1_list_head
    BY DEF mp1_rtc_tasklet
<1>2. blink_array \in [Slots -> Item] /\ Links(blink_array, mp1_list_head, Chain)
    BY DEF ListInv
<1>3. /\ Len(Chain) \in Nat /\ DOMAIN Chain = 1 .. Len(Chain)
      /\ \A n \in 1 .. Len(Chain) : Chain[n] \in Slots /\ Chain[n] \in Range(Chain)
  <2>1. Chain \in Seq(Slots) /\ Len(Chain) \in Nat
      BY Used
  <2>2. DOMAIN Chain = 1 .. Len(Chain) /\ \A n \in 1 .. Len(Chain) : Chain[n] \in Slots
      BY <2>1
  <2> QED
      BY <2>1, <2>2 DEF Range
<1>4. \A s \in Slots : /\ blink_array'[s] \in Item
                       /\ blink_array'[s].next = blink_array[s].next
                       /\ blink_array'[s].location = blink_array[s].location
    BY <1>1, <1>2, TickedItem
<1>5. blink_array' \in [Slots -> Item]
    BY <1>1, <1>4
<1>6. Links(blink_array', mp1_list_head', Chain)
    BY <1>1, <1>2, <1>4, SameLinks
<1>7. Chain' = Chain /\ Links(blink_array', mp1_list_head', Chain')
    BY <1>6, NewChain
<1>8. vmem' \in [0 .. NumCells - 1 -> Chars]
  <2> DEFINE Changes(l) == {i \in 1 .. Len(Chain) : /\ blink_array[Chain[i]].location = l
                                                    /\ Toggles(blink_array[Chain[i]])}
             Seen2(l) == IF Changes(l) # {} THEN Max(Changes(l)) ELSE 0
  <2>1. vmem \in [0 .. NumCells - 1 -> Chars]
      BY DEF ListInv
  <2>2. Poked(Chain) = [l \in 0 .. NumCells - 1 |->
            IF Seen2(l) = 0 THEN vmem[l]
            ELSE IF blink_array[Chain[Seen2(l)]].status = 1
                 THEN blink_array[Chain[Seen2(l)]].off_char
                 ELSE blink_array[Chain[Seen2(l)]].on_char]
      BY <2>1 DEF Poked, SelectLastInSeq
  <2>3. ASSUME NEW l \in 0 .. NumCells - 1, Seen2(l) # 0
        PROVE  blink_array[Chain[Seen2(l)]] \in Item
    <3>1. Changes(l) # {} /\ Changes(l) \in SUBSET (0 .. Len(Chain))
        BY <1>3, <2>3
    <3> HIDE DEF Changes
    <3>2. Max(Changes(l)) \in Changes(l)
        BY <1>3, <3>1, MaxMin
    <3>3. Seen2(l) \in 1 .. Len(Chain)
        BY <3>1, <3>2 DEF Changes
    <3> QED
        BY <1>2, <1>3, <3>3
  <2> HIDE DEF Seen2
  <2>4. ASSUME NEW l \in 0 .. NumCells - 1 PROVE Poked(Chain)[l] \in Chars
    <3>1. CASE Seen2(l) = 0
        BY <2>1, <2>2, <3>1
    <3>2. CASE Seen2(l) # 0
        BY <2>2, <2>3, <3>2 DEF Item
    <3> QED
        BY <3>1, <3>2
  <2> QED
      BY <1>1, <2>2, <2>4
<1>9. ASSUME NEW n \in 1 .. Len(Chain)
      PROVE  blink_array'[Chain[n]] = Ticked(blink_array[Chain[n]])
    BY <1>1, <1>3
<1> QED
    BY <1>1, <1>5, <1>7, <1>8, <1>9 DEF ListInv

-----------------------------------------------------------------------------
(* Places in a text *)

\* Line by line, column by column.
Before(p, q) == p[1] < q[1] \/ (p[1] = q[1] /\ p[2] < q[2])

Breaks(t, p) == {q \in 1 .. p - 1 : t[q] = NL}

LastBreak(t, p) == IF Breaks(t, p) = {} THEN 0 ELSE Max(Breaks(t, p))

\* Where a character of a file is put, by the newlines in front of it.
LEMMA BreaksFinite ==
    ASSUME NEW t, NEW p \in Nat \ {0}
    PROVE  /\ Place(t, p) = <<Cardinality(Breaks(t, p)), p - 1 - LastBreak(t, p)>>
           /\ IsFiniteSet(Breaks(t, p))
           /\ Cardinality(Breaks(t, p)) \in 0 .. p - 1
           /\ LastBreak(t, p) \in 0 .. p - 1
           /\ Breaks(t, p) # {} => LastBreak(t, p) \in Breaks(t, p)
           /\ \A q \in Breaks(t, p) : q <= LastBreak(t, p)
<1>1. Place(t, p) = <<Cardinality(Breaks(t, p)), p - 1 - LastBreak(t, p)>>
    BY DEF Place, Breaks, LastBreak
<1>2. p - 1 \in Nat /\ Breaks(t, p) \in SUBSET (1 .. p - 1)
    BY DEF Breaks
<1>3. IsFiniteSet(1 .. p - 1) /\ Cardinality(1 .. p - 1) = p - 1
    BY <1>2, UpTo
<1>4. /\ IsFiniteSet(Breaks(t, p)) /\ Cardinality(Breaks(t, p)) <= p - 1
      /\ Cardinality(Breaks(t, p)) \in Nat
    BY <1>2, <1>3, FS_Subset, FS_CardinalityType
<1>5. Breaks(t, p) \in SUBSET (0 .. p - 1)
    BY <1>2
<1>6. Breaks(t, p) # {} => /\ Max(Breaks(t, p)) \in Breaks(t, p)
                           /\ \A x \in Breaks(t, p) : x <= Max(Breaks(t, p))
    BY <1>2, <1>5, MaxMin
<1>7. /\ LastBreak(t, p) \in 0 .. p - 1
      /\ Breaks(t, p) # {} => LastBreak(t, p) \in Breaks(t, p)
      /\ \A q \in Breaks(t, p) : q <= LastBreak(t, p)
    BY <1>2, <1>5, <1>6 DEF LastBreak
<1> QED
    BY <1>1, <1>2, <1>4, <1>7

\* A text starts at the first place; a newline leads to the next line, any other
\* character to the next column.
LEMMA PlaceStep ==
    ASSUME NEW t, NEW p \in Nat \ {0}
    PROVE  /\ Place(t, 1) = <<0, 0>>
           /\ Place(t, p) \in (0 .. p - 1) \X (0 .. p - 1)
           /\ Place(t, p + 1) = IF t[p] = NL THEN <<Place(t, p)[1] + 1, 0>>
                                ELSE <<Place(t, p)[1], Place(t, p)[2] + 1>>
<1>1. Place(t, 1) = <<0, 0>>
  <2>1. Breaks(t, 1) = {}
      BY DEF Breaks
  <2>2. Place(t, 1) = <<Cardinality(Breaks(t, 1)), 1 - 1 - LastBreak(t, 1)>>
      BY BreaksFinite
  <2> QED
      BY <2>1, <2>2, FS_EmptySet DEF LastBreak
<1>2. Place(t, p) \in (0 .. p - 1) \X (0 .. p - 1)
    BY BreaksFinite
<1>3. /\ Place(t, p)[1] = Cardinality(Breaks(t, p))
      /\ Place(t, p)[2] = p - 1 - LastBreak(t, p)
      /\ LastBreak(t, p) \in Nat
    BY BreaksFinite
<1>4. Place(t, p + 1) = <<Cardinality(Breaks(t, p + 1)), p - LastBreak(t, p + 1)>>
  <2>1. p + 1 \in Nat \ {0} /\ p + 1 - 1 = p
      OBVIOUS
  <2> QED
      BY <2>1, BreaksFinite
<1>5. CASE t[p] = NL
  <2>1. Breaks(t, p + 1) = Breaks(t, p) \cup {p} /\ p \notin Breaks(t, p)
      BY <1>5 DEF Breaks
  <2>2. Cardinality(Breaks(t, p + 1)) = Cardinality(Breaks(t, p)) + 1
      BY <2>1, BreaksFinite, FS_AddElement
  <2>3. LastBreak(t, p + 1) = p
    <3>1. p \in Breaks(t, p + 1) /\ p + 1 \in Nat \ {0}
        BY <2>1
    <3>2. LastBreak(t, p + 1) \in 0 .. p + 1 - 1 /\ p <= LastBreak(t, p + 1)
        BY <3>1, BreaksFinite
    <3> QED
        BY <3>2
  <2> QED
      BY <1>1, <1>2, <1>3, <1>4, <1>5, <2>2, <2>3
<1>6. CASE t[p] # NL
  <2>1. Breaks(t, p + 1) = Breaks(t, p)
      BY <1>6 DEF Breaks
  <2>2. LastBreak(t, p + 1) = LastBreak(t, p)
      BY <2>1 DEF LastBreak
  <2>3. p - LastBreak(t, p) = p - 1 - LastBreak(t, p) + 1
      BY <1>3
  <2> QED
      BY <1>1, <1>2, <1>3, <1>4, <1>6, <2>1, <2>2, <2>3
<1> QED
    BY <1>5, <1>6

\* The characters of a text have their places in order.
LEMMA PlaceOrder ==
    ASSUME NEW t, NEW p \in Nat \ {0}, NEW q \in Nat, p < q
    PROVE  Before(Place(t, p), Place(t, q))
<1> DEFINE S == {n \in Nat : n > p /\ ~Before(Place(t, p), Place(t, n))}
<1> SUFFICES ASSUME S # {} PROVE FALSE
    OBVIOUS
<1>1. S \in SUBSET Nat
    OBVIOUS
<1>2. PICK n \in S : \A m \in S : n <= m
    BY <1>1, Least
<1> DEFINE m == n - 1
<1>3. n \in Nat /\ n > p /\ m \in Nat \ {0} /\ m + 1 = n /\ m >= p
    BY <1>2
<1>4. ~Before(Place(t, p), Place(t, n))
    BY <1>2
<1>5. m \notin S
    BY <1>2, <1>3
<1>6. m = p \/ Before(Place(t, p), Place(t, m))
    BY <1>3, <1>5
<1> HIDE DEF m
<1>7. /\ Place(t, m) \in (0 .. m - 1) \X (0 .. m - 1)
      /\ Place(t, n) = IF t[m] = NL THEN <<Place(t, m)[1] + 1, 0>>
                       ELSE <<Place(t, m)[1], Place(t, m)[2] + 1>>
    BY <1>3, PlaceStep
<1>8. Place(t, p) \in (0 .. p - 1) \X (0 .. p - 1)
    BY PlaceStep
<1>9. PICK a \in Nat, b \in Nat : Place(t, m) = <<a, b>>
    BY <1>3, <1>7
<1>10. PICK x \in Nat, y \in Nat : Place(t, p) = <<x, y>>
    BY <1>8
<1>11. Place(t, n) = <<a + 1, 0>> \/ Place(t, n) = <<a, b + 1>>
    BY <1>7, <1>9
<1>12. (a = x /\ b = y) \/ x < a \/ (x = a /\ y < b)
    BY <1>6, <1>9, <1>10 DEF Before
<1> QED
    BY <1>4, <1>10, <1>11, <1>12 DEF Before

\* The line and the column of every place are numbers.
LEMMA PlaceIn ==
    ASSUME NEW t
    PROVE  /\ \A p \in Nat \ {0} : Place(t, p)[1] \in Nat /\ Place(t, p)[2] \in Nat
           /\ \A n \in Nat : /\ Place(t, n + 1)[1] \in 0 .. n
                              /\ Place(t, n + 1)[2] \in 0 .. n
                              /\ Place(t, n + 1)[1] \in Nat
                              /\ Place(t, n + 1)[2] \in Nat
                              /\ Place(t, n + 1) = <<Place(t, n + 1)[1], Place(t, n + 1)[2]>>
<1>1. ASSUME NEW p \in Nat \ {0}
      PROVE  /\ Place(t, p)[1] \in 0 .. p - 1 /\ Place(t, p)[2] \in 0 .. p - 1
             /\ Place(t, p) = <<Place(t, p)[1], Place(t, p)[2]>>
  <2>1. Place(t, p) \in (0 .. p - 1) \X (0 .. p - 1)
      BY PlaceStep
  <2> QED
      BY <2>1
<1>2. \A n \in Nat : n + 1 \in Nat \ {0} /\ n + 1 - 1 = n
    OBVIOUS
<1> QED
    BY <1>1, <1>2

-----------------------------------------------------------------------------
(* add_frames on one file *)

\* The characters of t that have been read.
Pos(t, rest) == Len(t) - Len(rest)

\* A file t of which rest is left to read, when add_frames is at row r, column k:
\* it is read up to this place; or its line has ended before; or the file has.
ReadTo(t, rest, ch, end, r, k) ==
    /\ rest \in Seq(Range(t)) /\ Pos(t, rest) \in 0 .. Len(t)
    /\ \A i \in 1 .. Len(rest) : rest[i] = t[Pos(t, rest) + i]
    /\ \/ ch # NL /\ end = 0 /\ Place(t, Pos(t, rest) + 1) = <<r, k>>
       \/ /\ ch = NL /\ end = 0 /\ Pos(t, rest) >= 1 /\ t[Pos(t, rest)] = NL
          /\ Place(t, Pos(t, rest))[1] = r /\ Place(t, Pos(t, rest))[2] < k
       \/ /\ ch = NL /\ end = 1 /\ Pos(t, rest) = Len(t)
          /\ Before(Place(t, Len(t) + 1), <<r, k>>)

\* c0, what is left and eof0 after one more read.
CharIn(rest, ch) == IF ch = NL \/ rest = <<>> THEN NL ELSE Head(rest)
RestIn(rest, ch) == IF ch = NL \/ rest = <<>> THEN rest ELSE Tail(rest)
EofIn(rest, ch, end) == IF ch # NL /\ rest = <<>> THEN 1 ELSE end

\* One read: its line has ended, or the file, or a character is read.
ReadEffect(t, rest, ch, end) ==
    /\ Pos(t, rest) \in Nat /\ Len(t) \in Nat /\ Pos(t, rest) <= Len(t)
    /\ ch = NL => /\ CharIn(rest, ch) = NL /\ RestIn(rest, ch) = rest
                  /\ EofIn(rest, ch, end) = end
    /\ ch # NL /\ rest = <<>> =>
          /\ Pos(t, rest) = Len(t) /\ CharIn(rest, ch) = NL
          /\ RestIn(rest, ch) = rest /\ EofIn(rest, ch, end) = 1
    /\ ch # NL /\ rest # <<>> =>
          /\ Pos(t, rest) + 1 \in 1 .. Len(t)
          /\ CharIn(rest, ch) = t[Pos(t, rest) + 1]
          /\ RestIn(rest, ch) \in Seq(Range(t))
          /\ Pos(t, RestIn(rest, ch)) = Pos(t, rest) + 1
          /\ \A i \in 1 .. Len(RestIn(rest, ch)) :
                RestIn(rest, ch)[i] = t[Pos(t, rest) + 1 + i]
          /\ EofIn(rest, ch, end) = end

\* One read is one of the three.
LEMMA ReadCases ==
    ASSUME NEW t, t \in Seq(Range(t)), NEW rest, NEW ch, NEW end,
           NEW r \in Nat, NEW k \in Nat, ReadTo(t, rest, ch, end, r, k)
    PROVE  ReadEffect(t, rest, ch, end)
<1> DEFINE p == Pos(t, rest)
<1>0. /\ rest \in Seq(Range(t)) /\ p \in 0 .. Len(t) /\ Len(t) \in Nat /\ Len(rest) \in Nat
      /\ \A i \in 1 .. Len(rest) : rest[i] = t[p + i]
      /\ p = Len(t) - Len(rest)
    BY DEF ReadTo, Pos
<1> HIDE DEF p
<1>1. CASE ch = NL
    BY <1>0, <1>1 DEF ReadEffect, CharIn, RestIn, EofIn, p
<1>2. CASE ch # NL /\ rest = <<>>
    BY <1>0, <1>2 DEF ReadEffect, CharIn, RestIn, EofIn, p
<1>3. CASE ch # NL /\ rest # <<>>
  <2>1. /\ CharIn(rest, ch) = Head(rest) /\ RestIn(rest, ch) = Tail(rest)
        /\ EofIn(rest, ch, end) = end
      BY <1>3 DEF CharIn, RestIn, EofIn
  <2>2. /\ Tail(rest) \in Seq(Range(t)) /\ Len(Tail(rest)) = Len(rest) - 1
        /\ Len(rest) >= 1 /\ Head(rest) = rest[1]
        /\ \A i \in 1 .. Len(rest) - 1 : Tail(rest)[i] = rest[i + 1]
      BY <1>0, <1>3
  <2>3. p + 1 \in 1 .. Len(t) /\ Head(rest) = t[p + 1]
      BY <1>0, <2>2
  <2>4. Len(t) - Len(Tail(rest)) = p + 1
      BY <1>0, <2>2
  <2>5. ASSUME NEW i \in 1 .. Len(Tail(rest)) PROVE Tail(rest)[i] = t[p + 1 + i]
    <3>1. i \in 1 .. Len(rest) - 1 /\ i + 1 \in 1 .. Len(rest) /\ p + (i + 1) = p + 1 + i
        BY <1>0, <2>2
    <3> QED
        BY <1>0, <2>2, <3>1
  <2> QED
    <3>1. Pos(t, RestIn(rest, ch)) = p + 1
        BY <2>1, <2>4 DEF Pos
    <3>2. p \in Nat /\ p <= Len(t)
        BY <1>0
    <3> QED
        BY <1>0, <1>3, <2>1, <2>2, <2>3, <2>5, <3>1, <3>2 DEF ReadEffect, p
<1> QED
    BY <1>1, <1>2, <1>3

\* Reading the characters of one column moves the file to the next column.
LEMMA ReadOn ==
    ASSUME NEW t, t \in Seq(Range(t)), NEW rest, NEW ch, NEW end,
           NEW r \in Nat, NEW k \in Nat, ReadTo(t, rest, ch, end, r, k)
    PROVE  ReadTo(t, RestIn(rest, ch), CharIn(rest, ch), EofIn(rest, ch, end), r, k + 1)
<1> DEFINE p == Pos(t, rest)
           rest2 == RestIn(rest, ch)
<1>0. /\ rest \in Seq(Range(t)) /\ p \in 0 .. Len(t) /\ Len(t) \in Nat /\ p \in Nat
      /\ \A i \in 1 .. Len(rest) : rest[i] = t[p + i]
    BY DEF ReadTo
<1>1. CASE ch = NL
  <2>1. CharIn(rest, ch) = NL /\ rest2 = rest /\ EofIn(rest, ch, end) = end
      BY <1>1, ReadCases DEF ReadEffect
  <2>2. CASE end = 0
    <3>1. p >= 1 /\ t[p] = NL /\ Place(t, p)[1] = r /\ Place(t, p)[2] < k
        BY <1>1, <2>2 DEF ReadTo
    <3>2. Place(t, p)[2] \in Nat
        BY SMTT(30), <1>0, <3>1, PlaceIn
    <3>3. Place(t, p)[2] < k + 1
        BY <1>0, <3>1, <3>2
    <3> QED
        BY <1>0, <1>1, <2>1, <2>2, <3>1, <3>3 DEF ReadTo
  <2>3. CASE end # 0
    <3>1. end = 1 /\ p = Len(t) /\ Before(Place(t, Len(t) + 1), <<r, k>>)
        BY <1>1, <2>3 DEF ReadTo
    <3>2. Place(t, Len(t) + 1)[1] \in Nat /\ Place(t, Len(t) + 1)[2] \in Nat
        BY <1>0, PlaceIn
    <3>3. Before(Place(t, Len(t) + 1), <<r, k + 1>>)
        BY <1>0, <3>1, <3>2 DEF Before
    <3> QED
        BY <1>0, <1>1, <2>1, <3>1, <3>3 DEF ReadTo
  <2> QED
      BY <2>2, <2>3
<1>2. CASE ch # NL /\ rest = <<>>
  <2>1. /\ p = Len(t) /\ CharIn(rest, ch) = NL
        /\ rest2 = rest /\ EofIn(rest, ch, end) = 1
      BY <1>2, ReadCases DEF ReadEffect
  <2>2. Place(t, p + 1) = <<r, k>>
      BY <1>2 DEF ReadTo
  <2>3. Before(Place(t, Len(t) + 1), <<r, k + 1>>)
      BY <2>1, <2>2 DEF Before
  <2> QED
      BY <1>0, <2>1, <2>3 DEF ReadTo
<1>3. CASE ch # NL /\ rest # <<>>
  <2>1. /\ p + 1 \in 1 .. Len(t) /\ CharIn(rest, ch) = t[p + 1]
        /\ rest2 \in Seq(Range(t)) /\ Pos(t, rest2) = p + 1
        /\ \A i \in 1 .. Len(rest2) : rest2[i] = t[p + 1 + i]
        /\ EofIn(rest, ch, end) = end
      BY <1>3, ReadCases DEF ReadEffect
  <2>2. end = 0 /\ Place(t, p + 1) = <<r, k>>
      BY <1>3 DEF ReadTo
  <2> HIDE DEF rest2
  <2>3. CASE t[p + 1] = NL
    <3>1. Place(t, p + 1)[1] = r /\ Place(t, p + 1)[2] < k + 1
        BY <2>2
    <3> QED
        BY <1>0, <2>1, <2>2, <2>3, <3>1 DEF ReadTo, rest2
  <2>4. CASE t[p + 1] # NL
    <3>1. p + 1 \in Nat \ {0}
        BY <1>0
    <3>2. Place(t, p + 1 + 1) = <<r, k + 1>>
      <4> DEFINE m == p + 1
      <4> HIDE DEF m
      <4>1. m \in Nat \ {0} /\ t[m] # NL /\ Place(t, m) = <<r, k>>
          BY <2>2, <2>4, <3>1 DEF m
      <4>2. Place(t, m + 1) = <<Place(t, m)[1], Place(t, m)[2] + 1>>
          BY <4>1, PlaceStep
      <4>3. Place(t, m)[1] = r /\ Place(t, m)[2] = k
          BY <4>1
      <4> QED
          BY <4>2, <4>3 DEF m
    <3> QED
        BY <1>0, <2>1, <2>2, <2>4, <3>2 DEF ReadTo, rest2
  <2> QED
      BY <2>3, <2>4
<1> QED
    BY <1>1, <1>2, <1>3

\* When its line has ended the file waits in front of the next row, or at its end.
LEMMA RowOn ==
    ASSUME NEW t, t \in Seq(Range(t)), NEW rest, NEW ch, NEW end,
           NEW r \in Nat, NEW k \in Nat, ReadTo(t, rest, ch, end, r, k), ch = NL
    PROVE  ReadTo(t, rest, IF end = 1 THEN NL ELSE "0", end, r + 1, 0)
<1> DEFINE p == Pos(t, rest)
<1>0. /\ rest \in Seq(Range(t)) /\ p \in 0 .. Len(t) /\ Len(t) \in Nat /\ p \in Nat
      /\ \A i \in 1 .. Len(rest) : rest[i] = t[p + i]
    BY DEF ReadTo
<1>1. CASE end = 0
  <2>1. p >= 1 /\ t[p] = NL /\ Place(t, p)[1] = r
      BY <1>1 DEF ReadTo
  <2>2. p \in Nat \ {0}
      BY <1>0, <2>1
  <2>3. Place(t, p + 1) = <<r + 1, 0>>
      BY <2>1, <2>2, PlaceStep
  <2>4. "0" # NL
      BY DEF NL
  <2> QED
      BY <1>0, <1>1, <2>3, <2>4 DEF ReadTo
<1>2. CASE end # 0
  <2>1. end = 1 /\ p = Len(t) /\ Before(Place(t, Len(t) + 1), <<r, k>>)
      BY <1>2 DEF ReadTo
  <2>2. Place(t, Len(t) + 1)[1] \in Nat /\ Place(t, Len(t) + 1)[2] \in Nat
      BY <1>0, PlaceIn
  <2>3. Before(Place(t, Len(t) + 1), <<r + 1, 0>>)
      BY <2>1, <2>2 DEF Before
  <2> QED
      BY <1>0, <2>1, <2>3 DEF ReadTo
<1> QED
    BY <1>1, <1>2

\* What has been read of a file is what lies before the place add_frames is at.
LEMMA ReadPlaces ==
    ASSUME NEW t, t \in Seq(Range(t)), NEW rest, NEW ch, NEW end,
           NEW r \in Nat, NEW k \in Nat, ReadTo(t, rest, ch, end, r, k),
           NEW q \in 1 .. Len(t)
    PROVE  Before(Place(t, q), <<r, k>>) <=> q <= Pos(t, rest)
<1> DEFINE p == Pos(t, rest)
<1>0. /\ p \in 0 .. Len(t) /\ Len(t) \in Nat /\ p \in Nat /\ q \in Nat \ {0} /\ q \in Nat
    BY DEF ReadTo
<1> HIDE DEF p
<1>q. PICK a \in Nat, b \in Nat : Place(t, q) = <<a, b>>
  <2>1. Place(t, q) \in (0 .. q - 1) \X (0 .. q - 1)
      BY <1>0, PlaceStep
  <2> QED
      BY <2>1
<1>1. CASE ch # NL
  <2>1. Place(t, p + 1) = <<r, k>> /\ p + 1 \in Nat \ {0} /\ p + 1 \in Nat
      BY <1>0, <1>1 DEF ReadTo, p
  <2>2. CASE q <= p
    <3>1. q < p + 1
        BY <1>0, <2>2
    <3>2. Before(Place(t, q), Place(t, p + 1))
        BY <1>0, <2>1, <3>1, PlaceOrder
    <3> QED
        BY <2>1, <2>2, <3>2 DEF p
  <2>3. CASE q = p + 1
    <3>1. ~Before(Place(t, q), <<r, k>>)
        BY <2>1, <2>3 DEF Before
    <3>2. ~(q <= p)
        BY <1>0, <2>3
    <3> QED
        BY <3>1, <3>2 DEF p
  <2>4. CASE p + 1 < q
    <3>1. Before(<<r, k>>, Place(t, q))
        BY <1>0, <2>1, <2>4, PlaceOrder
    <3>2. ~Before(Place(t, q), <<r, k>>)
        BY <1>q, <3>1 DEF Before
    <3>3. ~(q <= p)
        BY <1>0, <2>4
    <3> QED
        BY <3>2, <3>3 DEF p
  <2> QED
      BY <1>0, <2>2, <2>3, <2>4
<1>2. CASE ch = NL /\ end = 0
  <2>1. p >= 1 /\ t[p] = NL /\ Place(t, p)[1] = r /\ Place(t, p)[2] < k
      BY <1>2 DEF ReadTo, p
  <2>2. p \in Nat \ {0} /\ p + 1 \in Nat \ {0} /\ p + 1 \in Nat
      BY <1>0, <2>1
  <2>3. PICK c2 \in Nat : Place(t, p) = <<r, c2>> /\ c2 < k
    <3>1. Place(t, p) \in (0 .. p - 1) \X (0 .. p - 1)
        BY <2>2, PlaceStep
    <3> QED
        BY <2>1, <3>1
  <2>4. Place(t, p + 1) = <<r + 1, 0>>
      BY <2>1, <2>2, <2>3, PlaceStep
  <2>5. CASE q <= p
    <3>1. q = p \/ Before(Place(t, q), Place(t, p))
        BY <1>0, <2>5, PlaceOrder
    <3>2. Before(Place(t, q), <<r, k>>)
        BY <1>q, <2>3, <3>1 DEF Before
    <3> QED
        BY <2>5, <3>2 DEF p
  <2>6. CASE ~(q <= p)
    <3>1. q = p + 1 \/ p + 1 < q
        BY <1>0, <2>6
    <3>2. q = p + 1 \/ Before(<<r + 1, 0>>, Place(t, q))
        BY <1>0, <2>2, <2>4, <3>1, PlaceOrder
    <3>3. (a = r + 1 /\ b = 0) \/ r + 1 < a \/ (r + 1 = a /\ 0 < b)
        BY <1>q, <2>4, <3>2 DEF Before
    <3>4. ~(a < r) /\ a # r
        BY <3>3
    <3>5. ~Before(Place(t, q), <<r, k>>)
        BY <1>q, <3>4 DEF Before
    <3> QED
        BY <2>6, <3>5 DEF p
  <2> QED
      BY <2>5, <2>6
<1>3. CASE ch = NL /\ end # 0
  <2>1. p = Len(t) /\ Before(Place(t, Len(t) + 1), <<r, k>>)
      BY <1>3 DEF ReadTo, p
  <2>2. Len(t) + 1 \in Nat /\ q < Len(t) + 1
      BY <1>0
  <2>3. Before(Place(t, q), Place(t, Len(t) + 1))
      BY <1>0, <2>2, PlaceOrder
  <2>4. PICK x \in Nat, y \in Nat : Place(t, Len(t) + 1) = <<x, y>>
    <3>1. Len(t) \in Nat
        BY <1>0
    <3>2. /\ Place(t, Len(t) + 1)[1] \in Nat /\ Place(t, Len(t) + 1)[2] \in Nat
          /\ Place(t, Len(t) + 1) = <<Place(t, Len(t) + 1)[1], Place(t, Len(t) + 1)[2]>>
        BY <3>1, PlaceIn, ZenonT(60)
    <3> QED
        BY <3>2, Zenon
  <2>5. Before(Place(t, q), <<r, k>>)
      BY <1>q, <2>1, <2>3, <2>4 DEF Before
  <2>6. q <= p
      BY <2>1
  <2> QED
      BY <2>5, <2>6 DEF p
<1> QED
    BY <1>1, <1>2, <1>3

\* A character other than a space at a place is a character of the text there.
LEMMA InkAt ==
    ASSUME NEW t, NEW pl, CharAt(t, pl) # Space
    PROVE  \E q \in DOMAIN t : t[q] # NL /\ Place(t, q) = pl
<1> DEFINE here == {p \in DOMAIN t : t[p] # NL /\ Place(t, p) = pl}
<1>1. CharAt(t, pl) = IF here = {} THEN Space ELSE t[CHOOSE p \in here : TRUE]
    BY DEF CharAt
<1> QED
    BY <1>1

\* The character at the place add_frames is at is the one it reads next, with a
\* space for a line that has ended.
LEMMA CharThere ==
    ASSUME NEW t, t \in Seq(Range(t)), NEW rest, NEW ch, NEW end,
           NEW r \in Nat, NEW k \in Nat, ReadTo(t, rest, ch, end, r, k)
    PROVE  /\ CharAt(t, <<r, k>>) = Seen(CharIn(rest, ch))
           /\ CharIn(rest, ch) # NL =>
                 /\ Pos(t, rest) + 1 \in DOMAIN t
                 /\ Place(t, Pos(t, rest) + 1) = <<r, k>>
                 /\ CharIn(rest, ch) \in Range(t)
<1> DEFINE p == Pos(t, rest)
           here == {q \in DOMAIN t : t[q] # NL /\ Place(t, q) = <<r, k>>}
<1>0. /\ p \in 0 .. Len(t) /\ Len(t) \in Nat /\ p \in Nat /\ DOMAIN t = 1 .. Len(t)
    BY DEF ReadTo
<1>e. ReadEffect(t, rest, ch, end)
    BY ReadCases
<1>1. CharAt(t, <<r, k>>) = IF here = {} THEN Space ELSE t[CHOOSE q \in here : TRUE]
    BY DEF CharAt
<1>2. ASSUME NEW q \in DOMAIN t, Place(t, q) = <<r, k>>
      PROVE  q = p + 1 /\ ch # NL
  <2>1. q \in 1 .. Len(t) /\ q \in Nat /\ q \in Nat \ {0}
      BY <1>0
  <2>2. ~Before(Place(t, q), <<r, k>>)
      BY <1>2 DEF Before
  <2>3. ~(q <= p)
      BY <2>1, <2>2, ReadPlaces
  <2>4. q # p + 1 => p + 1 < q /\ p + 1 \in Nat \ {0}
      BY <1>0, <2>1, <2>3
  <2>5. q # p + 1 => Before(Place(t, p + 1), <<r, k>>)
      BY <1>2, <2>1, <2>4, PlaceOrder
  <2>6. q # p + 1 => p + 1 \in 1 .. Len(t) /\ ~(p + 1 <= p)
      BY <1>0, <2>1, <2>4
  <2>7. q = p + 1
      BY <2>5, <2>6, ReadPlaces
  <2>8. ch # NL
    <3> SUFFICES ASSUME ch = NL PROVE FALSE
        OBVIOUS
    <3>1. p # Len(t)
        BY <1>0, <2>1, <2>7
    <3>2. p >= 1 /\ t[p] = NL /\ Place(t, p)[1] = r
        BY <3>1 DEF ReadTo
    <3>3. p \in Nat \ {0}
        BY <1>0, <3>2
    <3>4. Place(t, p + 1) = <<Place(t, p)[1] + 1, 0>>
        BY <3>2, <3>3, PlaceStep
    <3> QED
        BY <1>2, <2>7, <3>2, <3>4
  <2> QED
      BY <2>7, <2>8
<1>3. CASE CharIn(rest, ch) = NL
  <2>1. here = {}
    <3> SUFFICES ASSUME NEW q \in here PROVE FALSE
        OBVIOUS
    <3>1. q = p + 1 /\ ch # NL /\ t[q] # NL /\ q \in 1 .. Len(t)
        BY <1>0, <1>2
    <3>2. rest # <<>>
        BY <1>0, <3>1, <1>e DEF ReadEffect
    <3>3. CharIn(rest, ch) = t[p + 1]
        BY <3>1, <3>2, <1>e DEF ReadEffect
    <3> QED
        BY <1>3, <3>1, <3>3
  <2> QED
      BY <1>1, <1>3, <2>1 DEF Seen
<1>4. CASE CharIn(rest, ch) # NL
  <2>1. ch # NL /\ rest # <<>>
      BY <1>4 DEF CharIn
  <2>2. p + 1 \in 1 .. Len(t) /\ CharIn(rest, ch) = t[p + 1]
      BY <2>1, <1>e DEF ReadEffect
  <2>3. Place(t, p + 1) = <<r, k>>
      BY <2>1 DEF ReadTo
  <2> HIDE DEF p
  <2>4. p + 1 \in here
      BY <1>0, <1>4, <2>2, <2>3
  <2>5. \A q \in here : q = p + 1
      BY <1>2
  <2>6. (CHOOSE q \in here : TRUE) = p + 1
      BY <2>4, <2>5
  <2>7. CharAt(t, <<r, k>>) = t[p + 1]
      BY <1>1, <2>4, <2>6
  <2>8. t[p + 1] \in Range(t)
      BY <1>0, <2>2 DEF Range
  <2> QED
      BY <1>0, <1>4, <2>2, <2>3, <2>7, <2>8 DEF Seen, p
<1> QED
    BY <1>3, <1>4

\* Behind the end of a line there is nothing in its row.
LEMMA RowDone ==
    ASSUME NEW t, t \in Seq(Range(t)), NEW rest, NEW ch, NEW end,
           NEW r \in Nat, NEW k \in Nat, ReadTo(t, rest, ch, end, r, k),
           CharIn(rest, ch) = NL, NEW q \in 1 .. Len(t), t[q] # NL
    PROVE  Before(Place(t, q), <<r + 1, 0>>) <=> Before(Place(t, q), <<r, k>>)
<1> DEFINE rest2 == RestIn(rest, ch)
           end2 == EofIn(rest, ch, end)
           ch2 == CharIn(rest, ch)
<1>e. ReadEffect(t, rest, ch, end)
    BY ReadCases
<1>1. ReadTo(t, rest2, ch2, end2, r, k + 1) /\ k + 1 \in Nat
    BY ReadOn
<1> HIDE DEF rest2, end2, ch2
<1>2. ReadTo(t, rest2, IF end2 = 1 THEN NL ELSE "0", end2, r + 1, 0)
    BY <1>1, RowOn DEF ch2
<1>3. r + 1 \in Nat /\ 0 \in Nat
    OBVIOUS
<1>4. Before(Place(t, q), <<r + 1, 0>>) <=> q <= Pos(t, rest2)
    BY <1>2, <1>3, ReadPlaces
<1>5. Before(Place(t, q), <<r, k>>) <=> q <= Pos(t, rest)
    BY ReadPlaces
<1>6. \/ Pos(t, rest2) = Pos(t, rest)
      \/ Pos(t, rest2) = Pos(t, rest) + 1 /\ t[Pos(t, rest) + 1] = NL
    BY <1>e DEF ReadEffect, rest2
<1>7. Pos(t, rest) \in Nat /\ q \in Nat
    BY <1>e DEF ReadEffect
<1> QED
    BY <1>4, <1>5, <1>6, <1>7

-----------------------------------------------------------------------------
(* The invariant of the program *)

PCs == {"start", "frames", "halted", "rate", "show"}

FrameFiles == \E t0 \in Texts0, t1 \in Texts1 : files = <<t0, t1>>

\* Both files are read up to the place add_frames is at.
Reading == \A f \in 1 .. 2 : ReadTo(files[f], text[f], c[f], eof[f], row, col)

AllRead ==
    \A f \in 1 .. 2 : \A q \in DOMAIN files[f] : Before(Place(files[f], q), <<row, col>>)

ShownItems(array, ch) ==
    {<<b.location, b.on_char, b.off_char>> : b \in {array[s] : s \in Range(ch)}}

FrameAt(pl) ==
    <<pl[1] * Columns + pl[2] + Offset, CharAt(files[1], pl), CharAt(files[2], pl)>>

\* The list has exactly the frame characters up to the place add_frames is at.
Done == {pl \in Inked : Before(pl, <<row, col>>)}

ListedUpTo ==
    /\ Len(Chain) = Cardinality(Done)
    /\ ShownItems(blink_array, Chain) = {FrameAt(pl) : pl \in Done}

IInv ==
    /\ pc \in PCs /\ row \in Nat /\ col \in Nat
    /\ ListInv
    /\ pc \in {"start", "frames", "rate"} => FrameFiles /\ ListedUpTo
    /\ pc \in {"start", "frames"} => Reading
    /\ pc = "rate" => AllRead

\* The frames are sequences, short enough for the array and for a word.
LEMMA FilesFit ==
    ASSUME FrameFiles
    PROVE  /\ files[1] \in Seq(Range(files[1])) /\ files[2] \in Seq(Range(files[2]))
           /\ Len(files[1]) \in Nat /\ Len(files[2]) \in Nat
           /\ DOMAIN files[1] = 1 .. Len(files[1]) /\ DOMAIN files[2] = 1 .. Len(files[2])
           /\ Len(files[1]) + Len(files[2]) <= NumSlots
           /\ (Len(files[1]) + Len(files[2])) * (Columns + 1) + Offset < WORD
           /\ Range(files[1]) \subseteq Chars /\ Range(files[2]) \subseteq Chars
<1>1. PICK t0 \in Texts0, t1 \in Texts1 : files = <<t0, t1>>
    BY DEF FrameFiles
<1>2. files[1] = t0 /\ files[2] = t1
    BY <1>1
<1>3. t0 \in Seq(Range(t0)) /\ t1 \in Seq(Range(t1))
    BY FishAssumption
<1>4. /\ Len(t0) + Len(t1) <= NumSlots
      /\ (Len(t0) + Len(t1)) * (Columns + 1) + Offset < WORD
    BY FishAssumption
<1>5. Range(t0) \subseteq Chars /\ Range(t1) \subseteq Chars
    BY DEF Chars, FrameChars
<1>6. /\ Len(t0) \in Nat /\ Len(t1) \in Nat
      /\ DOMAIN t0 = 1 .. Len(t0) /\ DOMAIN t1 = 1 .. Len(t1)
    BY <1>3
<1> QED
    BY <1>2, <1>3, <1>4, <1>5, <1>6

\* The places of a text are at most as many as its characters.
LEMMA PlacesOf ==
    ASSUME NEW t, t \in Seq(Range(t))
    PROVE  /\ IsFiniteSet({Place(t, p) : p \in DOMAIN t})
           /\ Cardinality({Place(t, p) : p \in DOMAIN t}) <= Len(t)
           /\ Cardinality({Place(t, p) : p \in DOMAIN t}) \in Nat
           /\ \A p \in DOMAIN t : Place(t, p) \in Nat \X Nat
<1> DEFINE D == 1 .. Len(t)
           P == {Place(t, p) : p \in DOMAIN t}
           f == [p \in D |-> Place(t, p)]
<1>1. Len(t) \in Nat /\ DOMAIN t = D
    OBVIOUS
<1>2. IsFiniteSet(D) /\ Cardinality(D) = Len(t)
    BY <1>1, UpTo
<1>3. f \in Surjection(D, P)
    BY <1>1 DEF Surjection
<1> HIDE DEF f, P, D
<1>4. IsFiniteSet(P) /\ Cardinality(P) <= Cardinality(D)
    BY <1>2, <1>3, FS_Surjection
<1>5. Cardinality(P) \in Nat
    BY <1>4, FS_CardinalityType
<1>6. ASSUME NEW p \in DOMAIN t PROVE Place(t, p) \in Nat \X Nat
  <2>1. p \in Nat \ {0}
      BY <1>1 DEF D
  <2>2. Place(t, p) \in (0 .. p - 1) \X (0 .. p - 1)
      BY <2>1, PlaceStep
  <2> QED
      BY <2>1, <2>2
<1> QED
    BY <1>2, <1>4, <1>5, <1>6 DEF P

\* There is room in the array for every frame character.
LEMMA InkedFits ==
    ASSUME FrameFiles
    PROVE  /\ Inked \subseteq Nat \X Nat
           /\ IsFiniteSet(Inked) /\ Cardinality(Inked) <= NumSlots
<1> DEFINE P == {Place(files[1], p) : p \in DOMAIN files[1]}
           Q == {Place(files[2], p) : p \in DOMAIN files[2]}
<1>1. Inked \in SUBSET (P \cup Q)
  <2>1. UNION {{Place(files[f], p) : p \in DOMAIN files[f]} : f \in 1 .. 2} = P \cup Q
    <3>1. 1 .. 2 = {1, 2}
        OBVIOUS
    <3> QED
        BY <3>1
  <2> QED
      BY <2>1 DEF Inked
<1>2. /\ IsFiniteSet(P) /\ Cardinality(P) <= Len(files[1]) /\ Cardinality(P) \in Nat
      /\ P \subseteq Nat \X Nat
    BY FilesFit, PlacesOf
<1>3. /\ IsFiniteSet(Q) /\ Cardinality(Q) <= Len(files[2]) /\ Cardinality(Q) \in Nat
      /\ Q \subseteq Nat \X Nat
    BY FilesFit, PlacesOf
<1> HIDE DEF P, Q
<1>4. /\ IsFiniteSet(P \cup Q)
      /\ Cardinality(P \cup Q) = Cardinality(P) + Cardinality(Q) - Cardinality(P \cap Q)
    BY <1>2, <1>3, FS_Union
<1>5. IsFiniteSet(P \cap Q) /\ Cardinality(P \cap Q) \in Nat
    BY <1>2, FS_Intersection, FS_CardinalityType
<1>6. IsFiniteSet(Inked) /\ Cardinality(Inked) <= Cardinality(P \cup Q)
    BY <1>1, <1>4, FS_Subset
<1>7. Cardinality(Inked) \in Nat
    BY <1>6, FS_CardinalityType
<1>8. Len(files[1]) \in Nat /\ Len(files[2]) \in Nat /\ Len(files[1]) + Len(files[2]) <= NumSlots
    BY FilesFit
<1>s. NumSlots \in Nat
    BY BlinkAssumption
<1>9. Cardinality(Inked) <= NumSlots
  <2> DEFINE a == Cardinality(P)
             b == Cardinality(Q)
             m == Cardinality(P \cap Q)
             n == Cardinality(Inked)
  <2>1. /\ a \in Nat /\ b \in Nat /\ m \in Nat /\ n \in Nat /\ n <= a + b - m
        /\ a <= Len(files[1]) /\ b <= Len(files[2])
      BY <1>2, <1>3, <1>4, <1>5, <1>6, <1>7
  <2> HIDE DEF a, b, m, n
  <2>2. n <= NumSlots
    <3> DEFINE x == Len(files[1])
               y == Len(files[2])
    <3>1. x \in Nat /\ y \in Nat /\ x + y <= NumSlots /\ a <= x /\ b <= y
        BY <1>8, <2>1
    <3> HIDE DEF x, y
    <3> QED
        BY <1>s, <2>1, <3>1
  <2> QED
      BY <2>2 DEF n
<1>10. Inked \subseteq Nat \X Nat
    BY <1>1, <1>2, <1>3
<1> QED
    BY <1>6, <1>9, <1>10

\* The program starts with an empty list, in front of both files.
LEMMA InitIInv == Init => IInv
<1> SUFFICES ASSUME Init PROVE IInv
    OBVIOUS
<1>0. /\ blink_array = [s \in Slots |-> Zeroed] /\ mp1_list_head = NULL
      /\ vmem = [l \in 0 .. NumCells - 1 |-> NUL]
      /\ pc = "start" /\ text = files /\ c = <<"0", "0">> /\ eof = <<0, 0>>
      /\ row = 0 /\ col = 0 /\ FrameFiles
    BY DEF Init, BlinkInit, FrameFiles
<1>1. Links(blink_array, mp1_list_head, <<>>)
  <2>1. \A s \in Slots : blink_array[s].location = 0
      BY <1>0 DEF Zeroed
  <2> QED
      BY <1>0, <2>1 DEF Links
<1>2. Chain = <<>>
    BY <1>1, NodesAre DEF Chain
<1>3. ListInv
  <2>1. Zeroed \in Item
      BY BlinkAssumption, ZeroedItem
  <2>2. NUL \in Chars
      BY DEF Chars
  <2> QED
      BY <1>0, <1>1, <1>2, <2>1, <2>2 DEF ListInv
<1>4. Done = {}
  <2>1. \A pl \in Nat \X Nat : ~Before(pl, <<0, 0>>)
      BY DEF Before
  <2> QED
      BY <1>0, <2>1, InkedFits DEF Done
<1>5. ListedUpTo
  <2>1. Range(Chain) = {}
      BY <1>2 DEF Range
  <2>2. ShownItems(blink_array, Chain) = {}
      BY <2>1 DEF ShownItems
  <2> QED
      BY <1>2, <1>4, <2>2, FS_EmptySet DEF ListedUpTo
<1>6. Reading
  <2>1. ASSUME NEW t, t \in Seq(Range(t)) PROVE ReadTo(t, t, "0", 0, 0, 0)
    <3>1. Pos(t, t) = 0 /\ Len(t) \in Nat /\ 0 \in 0 .. Len(t)
        BY <2>1 DEF Pos
    <3>2. Place(t, 1) = <<0, 0>> /\ 0 + 1 = 1
      <4>1. 1 \in Nat \ {0}
          OBVIOUS
      <4>2. Place(t, 1) = <<0, 0>>
          BY <4>1, PlaceStep
      <4> QED
          BY <4>2
    <3>3. "0" # NL
        BY DEF NL
    <3>4. \A i \in 1 .. Len(t) : t[i] = t[0 + i]
        BY <3>1
    <3> QED
        BY <2>1, <3>1, <3>2, <3>3, <3>4 DEF ReadTo
  <2>2. ASSUME NEW f \in 1 .. 2
        PROVE  /\ files[f] \in Seq(Range(files[f]))
               /\ text[f] = files[f] /\ c[f] = "0" /\ eof[f] = 0
    <3>1. f = 1 \/ f = 2
        OBVIOUS
    <3> QED
        BY <1>0, <3>1, FilesFit
  <2> QED
      BY <1>0, <2>1, <2>2 DEF Reading
<1> QED
    BY <1>0, <1>3, <1>5, <1>6 DEF IInv, PCs

\* What one read of both files does, file by file.
LEMMA ColumnRead ==
    ASSUME IInv, pc = "frames", ReadColumn, NEW f \in 1 .. 2
    PROVE  /\ files[f] \in Seq(Range(files[f]))
           /\ ReadTo(files[f], text[f], c[f], eof[f], row, col)
           /\ Char(f) = CharIn(text[f], c[f])
           /\ text'[f] = RestIn(text[f], c[f]) /\ eof'[f] = EofIn(text[f], c[f], eof[f])
<1>1. FrameFiles /\ Reading
    BY DEF IInv
<1>2. f = 1 \/ f = 2
    OBVIOUS
<1>3. files[f] \in Seq(Range(files[f]))
    BY <1>1, <1>2, FilesFit
<1> QED
    BY <1>1, <1>3 DEF Reading, ReadColumn, Char, CharIn, RestIn, EofIn

\* A frame character has its place within the screen's words, and never at 0.
LEMMA LocationIs ==
    ASSUME IInv, pc = "frames", NEW f \in 1 .. 2, ReadColumn, Char(f) # NL
    PROVE  /\ row * Columns + col + Offset \in 1 .. WORD - 1
           /\ Location = row * Columns + col + Offset
           /\ <<row, col>> \in {Place(files[f], p) : p \in DOMAIN files[f]}
<1> DEFINE t == files[f]
           p == Pos(t, text[f])
           n == Len(files[1]) + Len(files[2])
<1>0. row \in Nat /\ col \in Nat /\ FrameFiles /\ f \in {1, 2}
    BY DEF IInv
<1>1. /\ t \in Seq(Range(t)) /\ ReadTo(t, text[f], c[f], eof[f], row, col)
      /\ CharIn(text[f], c[f]) # NL
    BY ColumnRead
<1>2. p + 1 \in DOMAIN t /\ Place(t, p + 1) = <<row, col>>
    BY <1>0, <1>1, CharThere
<1>3. /\ Len(t) \in Nat /\ DOMAIN t = 1 .. Len(t) /\ p \in Nat
    BY <1>1 DEF ReadTo
<1>4. n \in Nat /\ p + 1 <= n
  <2>1. p + 1 <= Len(t)
      BY <1>2, <1>3
  <2>2. Len(files[1]) \in Nat /\ Len(files[2]) \in Nat
      BY <1>0, FilesFit
  <2> DEFINE x == Len(files[1])
             y == Len(files[2])
             z == Len(t)
  <2>3. x \in Nat /\ y \in Nat /\ (z = x \/ z = y) /\ n = x + y /\ p + 1 <= z
      BY <1>0, <2>1, <2>2
  <2> HIDE DEF x, y, z, n, p
  <2> QED
      BY <1>3, <2>3
<1>5. n * (Columns + 1) + Offset < WORD
    BY <1>0, FilesFit
<1>6. row <= p /\ col <= p
  <2>1. Place(t, p + 1)[1] \in 0 .. p /\ Place(t, p + 1)[2] \in 0 .. p
      BY <1>3, PlaceIn
  <2> QED
      BY <1>2, <2>1
<1>7. WORD \in Nat /\ Offset \in Nat \ {0} /\ Columns \in Nat \ {0}
    BY BlinkAssumption, FishAssumption
<1> HIDE DEF n, p, t
<1>8. row <= n /\ col <= n
    BY <1>0, <1>3, <1>4, <1>6
<1>9. row * Columns + col <= n * (Columns + 1)
  <2>1. row * Columns <= n * Columns
      BY <1>0, <1>4, <1>7, <1>8
  <2>2. n * (Columns + 1) = n * Columns + n
      BY <1>4, <1>7
  <2>3. row * Columns \in Nat /\ n * Columns \in Nat
      BY <1>0, <1>4, <1>7
  <2> QED
      BY <1>0, <1>4, <1>8, <2>1, <2>2, <2>3
<1>10. row * Columns + col + Offset \in 1 .. WORD - 1
  <2>1. row * Columns \in Nat /\ n * (Columns + 1) \in Nat
      BY <1>0, <1>4, <1>7
  <2> QED
      BY <1>0, <1>5, <1>7, <1>9, <2>1
<1>11. Location = row * Columns + col + Offset
  <2> DEFINE x == row * Columns + col + Offset
  <2>1. x \in 0 .. WORD - 1
      BY <1>7, <1>10
  <2> HIDE DEF x
  <2>2. x % WORD = x
      BY <1>7, <2>1
  <2> QED
      BY <2>2 DEF Location, x
<1> QED
    BY <1>2, <1>10, <1>11 DEF t, p

\* The same files have the same places to show.
LEMMA SameInk ==
    ASSUME files' = files
    PROVE  Inked' = Inked /\ \A pl : FrameAt(pl)' = FrameAt(pl)
BY DEF Inked, FrameAt

\* A new slot in front of the list is one more slot in it.
LEMMA RangeMore ==
    ASSUME NEW S, NEW ch \in Seq(S), NEW e \in S
    PROVE  Range(<<e>> \o ch) = Range(ch) \cup {e}
<1> DEFINE new == <<e>> \o ch
<1>1. Len(ch) \in Nat /\ DOMAIN ch = 1 .. Len(ch)
    OBVIOUS
<1>2. /\ new \in Seq(S) /\ Len(new) = Len(ch) + 1 /\ new[1] = e
      /\ \A i \in 2 .. Len(ch) + 1 : new[i] = ch[i - 1]
    BY <1>1
<1>3. DOMAIN new = 1 .. Len(ch) + 1
    BY <1>2
<1> HIDE DEF new
<1>4. ASSUME NEW s \in Range(new) PROVE s \in Range(ch) \cup {e}
  <2>1. PICK i \in 1 .. Len(ch) + 1 : new[i] = s
      BY <1>3 DEF Range
  <2>2. i # 1 => i \in 2 .. Len(ch) + 1 /\ i - 1 \in 1 .. Len(ch)
      BY <1>1
  <2>3. i # 1 => s \in Range(ch)
      BY <1>1, <1>2, <2>1, <2>2 DEF Range
  <2> QED
      BY <1>2, <2>1, <2>3
<1>5. ASSUME NEW s \in Range(ch) PROVE s \in Range(new)
  <2>1. PICK i \in 1 .. Len(ch) : ch[i] = s
      BY <1>1 DEF Range
  <2>2. i + 1 \in 2 .. Len(ch) + 1 /\ i + 1 \in 1 .. Len(ch) + 1 /\ (i + 1) - 1 = i
      BY <1>1
  <2>3. new[i + 1] = s
      BY <1>2, <2>1, <2>2
  <2> QED
      BY <1>3, <2>2, <2>3 DEF Range
<1>6. e \in Range(new)
    BY <1>1, <1>2, <1>3 DEF Range
<1>7. Range(new) = Range(ch) \cup {e}
    BY <1>4, <1>5, <1>6
<1> QED
    BY <1>7 DEF new

\* A column: both files move on by one place, and the list gets the item that the
\* frames have there, if any.
LEMMA ColumnStep ==
    ASSUME IInv, Column
    PROVE  IInv'
<1>0. /\ pc = "frames" /\ pc' = pc /\ ReadColumn /\ files' = files /\ row' = row
      /\ col' = col + 1 /\ c' = <<Char(1), Char(2)>>
      /\ row \in Nat /\ col \in Nat /\ FrameFiles /\ ListInv /\ ListedUpTo
      /\ Char(1) # NL \/ Char(2) # NL
    BY DEF Column, IInv
<1>f. FrameFiles'
    BY <1>0 DEF FrameFiles
<1>r. Reading'
  <2>1. ASSUME NEW f \in 1 .. 2
        PROVE  ReadTo(files'[f], text'[f], c'[f], eof'[f], row', col')
    <3>1. /\ files[f] \in Seq(Range(files[f]))
          /\ ReadTo(files[f], text[f], c[f], eof[f], row, col)
          /\ Char(f) = CharIn(text[f], c[f])
          /\ text'[f] = RestIn(text[f], c[f]) /\ eof'[f] = EofIn(text[f], c[f], eof[f])
        BY <1>0, ColumnRead
    <3>2. f = 1 \/ f = 2
        OBVIOUS
    <3>3. c'[f] = Char(f)
        BY <1>0, <3>2
    <3>4. ReadTo(files[f], RestIn(text[f], c[f]), CharIn(text[f], c[f]),
                 EofIn(text[f], c[f], eof[f]), row, col + 1)
        BY <1>0, <3>1, ReadOn
    <3> QED
        BY <1>0, <3>1, <3>3, <3>4
  <2> QED
      BY <2>1 DEF Reading
<1>n. Inked' = Inked /\ \A pl : FrameAt(pl)' = FrameAt(pl)
    BY <1>0, SameInk
<1> DEFINE here == <<row, col>>
<1>1. Done' = Done \cup ({here} \cap Inked) /\ here \notin Done
  <2>1. \A pl \in Nat \X Nat : Before(pl, <<row, col + 1>>) <=> Before(pl, here) \/ pl = here
    <3> SUFFICES ASSUME NEW a \in Nat, NEW b \in Nat
                 PROVE  Before(<<a, b>>, <<row, col + 1>>)
                          <=> Before(<<a, b>>, here) \/ <<a, b>> = here
        OBVIOUS
    <3> QED
        BY <1>0 DEF Before
  <2>2. Inked \subseteq Nat \X Nat
      BY <1>0, InkedFits
  <2>3. Done' = {pl \in Inked : Before(pl, <<row, col + 1>>)}
      BY <1>0, <1>n DEF Done
  <2>4. ~Before(here, here)
      BY <1>0 DEF Before
  <2> QED
      BY <2>1, <2>2, <2>3, <2>4 DEF Done
<1>2. /\ CharAt(files[1], here) = Seen(Char(1)) /\ CharAt(files[2], here) = Seen(Char(2))
      /\ Char(1) # NL => Char(1) \in Range(files[1])
      /\ Char(2) # NL => Char(2) \in Range(files[2])
  <2>1. ASSUME NEW f \in 1 .. 2
        PROVE  /\ CharAt(files[f], here) = Seen(Char(f))
               /\ Char(f) # NL => Char(f) \in Range(files[f])
    <3>1. /\ files[f] \in Seq(Range(files[f]))
          /\ ReadTo(files[f], text[f], c[f], eof[f], row, col)
          /\ Char(f) = CharIn(text[f], c[f])
        BY <1>0, ColumnRead
    <3> QED
        BY <1>0, <3>1, CharThere
  <2>2. 1 \in 1 .. 2 /\ 2 \in 1 .. 2
      OBVIOUS
  <2> QED
      BY <2>1, <2>2
<1>3. Seen(Char(1)) \in Chars /\ Seen(Char(2)) \in Chars
  <2>1. Range(files[1]) \subseteq Chars /\ Range(files[2]) \subseteq Chars
      BY <1>0, FilesFit
  <2>2. Space \in Chars
      BY DEF Chars
  <2> QED
      BY <1>2, <2>1, <2>2 DEF Seen
<1>4. /\ row * Columns + col + Offset \in 1 .. WORD - 1
      /\ Location = row * Columns + col + Offset
      /\ here \in UNION {{Place(files[f], p) : p \in DOMAIN files[f]} : f \in 1 .. 2}
  <2>1. PICK f \in 1 .. 2 : Char(f) # NL
    <3>1. 1 \in 1 .. 2 /\ 2 \in 1 .. 2
        OBVIOUS
    <3> QED
        BY <1>0, <3>1
  <2> QED
      BY <1>0, <2>1, LocationIs
<1>5. here \in Inked <=> /\ ~({Char(1), Char(2)} \subseteq {Space, NL})
                         /\ Location < NumCells
  <2>1. here \in Inked <=> /\ ~(Seen(Char(1)) = Space /\ Seen(Char(2)) = Space)
                           /\ Location < NumCells
      BY <1>2, <1>4 DEF Inked
  <2>2. \A ch : Seen(ch) = Space <=> ch \in {Space, NL}
      BY DEF Seen
  <2> QED
      BY <2>1, <2>2
<1>6. Len(Chain) \in Nat /\ Chain \in Seq(Slots) /\ NumSlots \in Nat /\ IsFiniteSet(Done)
  <2>1. IsFiniteSet(Inked) /\ Done \in SUBSET Inked
      BY <1>0, InkedFits DEF Done
  <2>2. IsFiniteSet(Done)
      BY <2>1, FS_Subset
  <2> QED
      BY <1>0, <2>2, Used, BlinkAssumption
<1>7. CASE here \notin Inked
  <2>1. UNCHANGED list
    <3>1. CASE {Char(1), Char(2)} \subseteq {Space, NL}
        BY <3>1 DEF Column
    <3>2. CASE ~({Char(1), Char(2)} \subseteq {Space, NL})
      <4>1. Location >= NumCells
          BY <1>4, <1>5, <1>7, <3>2, BlinkAssumption
      <4> QED
          BY <3>2, <4>1 DEF Column, mp1_ioctl_add
    <3> QED
        BY <3>1, <3>2
  <2>2. ListInv' /\ Chain' = Chain
      BY <1>0, <2>1, SameList
  <2>3. Done' = Done
      BY <1>1, <1>7
  <2>4. {FrameAt(pl)' : pl \in Done'} = {FrameAt(pl) : pl \in Done}
      BY <1>n, <2>3
  <2>5. ListedUpTo'
      BY <1>0, <2>1, <2>2, <2>3, <2>4 DEF ListedUpTo, list
  <2> QED
      BY <1>0, <1>f, <1>r, <2>2, <2>5 DEF IInv, PCs
<1>8. CASE here \in Inked
  <2> DEFINE u == [location |-> Location,
                   on_char |-> Seen(Char(1)), off_char |-> Seen(Char(2)),
                   on_length |-> FrameLength, off_length |-> FrameLength]
  <2>1. mp1_ioctl_add(u) /\ Location < NumCells
      BY <1>5, <1>8 DEF Column
  <2>2. Argument(u)
      BY <1>3, <1>4, FishAssumption DEF Argument, Word
  <2>3. /\ Done' = Done \cup {here} /\ here \notin Done
        /\ Cardinality(Done') = Cardinality(Done) + 1
    <3>1. Done' = Done \cup {here} /\ here \notin Done
        BY <1>1, <1>8
    <3>2. Cardinality(Done \cup {here}) = Cardinality(Done) + 1
        BY <1>6, <3>1, FS_AddElement
    <3> QED
        BY <3>1, <3>2
  <2>4. Len(Chain) < NumSlots
    <3>1. Done' \in SUBSET Inked /\ IsFiniteSet(Inked) /\ Cardinality(Inked) <= NumSlots
        BY <1>0, <1>n, InkedFits DEF Done
    <3>2. Cardinality(Done') <= Cardinality(Inked)
        BY <3>1, FS_Subset
    <3>3. Cardinality(Inked) \in Nat
        BY <3>1, FS_CardinalityType
    <3>4. Cardinality(Done) = Len(Chain)
        BY <1>0 DEF ListedUpTo
    <3> QED
        BY <1>6, <2>3, <3>1, <3>2, <3>3, <3>4
  <2> DEFINE e == mp1_malloc
             new == [location |-> u.location, on_char |-> u.on_char,
                     off_char |-> u.off_char, on_length |-> u.on_length,
                     off_length |-> u.off_length, countdown |-> u.on_length,
                     status |-> 1, next |-> mp1_list_head]
  <2>5. u.location = Location
      OBVIOUS
  <2>6. ~(u.location >= NumCells \/ Len(Chain) = NumSlots)
      BY <1>4, <1>6, <2>1, <2>4, <2>5, BlinkAssumption
  <2>7. /\ ListInv' /\ e \in Slots /\ blink_array[e].location = 0
        /\ Chain' = <<e>> \o Chain /\ blink_array' = [blink_array EXCEPT ![e] = new]
      BY <1>0, <2>1, <2>2, <2>6, AddCall
  <2>8. new.location = Location /\ new.on_char = Seen(Char(1)) /\ new.off_char = Seen(Char(2))
      OBVIOUS
  <2> HIDE DEF e, new, u
  <2>9. e \notin Range(Chain)
      BY <1>0, <2>7, Used
  <2>10. blink_array \in [Slots -> Item]
      BY <1>0 DEF ListInv
  <2>11. ShownItems(blink_array', Chain')
           = ShownItems(blink_array, Chain) \cup {<<new.location, new.on_char, new.off_char>>}
    <3>1. e \in Slots /\ Chain \in Seq(Slots) /\ Chain' = <<e>> \o Chain
        BY <1>6, <2>7
    <3>2. Range(Chain') = Range(Chain) \cup {e}
        BY <3>1, RangeMore
    <3>3. \A s \in Range(Chain) : s \in Slots /\ s # e
        BY <1>0, <2>9, Used
    <3>4. blink_array'[e] = new /\ \A s \in Range(Chain) : blink_array'[s] = blink_array[s]
        BY <2>7, <2>10, <3>3
    <3>5. {blink_array'[s] : s \in Range(Chain')} = {blink_array[s] : s \in Range(Chain)} \cup {new}
        BY <3>2, <3>4
    <3> QED
        BY <3>5 DEF ShownItems
  <2>12. <<new.location, new.on_char, new.off_char>> = FrameAt(here)
      BY <1>2, <1>4, <2>8 DEF FrameAt
  <2>13. {FrameAt(pl)' : pl \in Done'} = {FrameAt(pl) : pl \in Done} \cup {FrameAt(here)}
    <3> HIDE DEF here
    <3> QED
        BY <1>n, <2>3
  <2>14. Len(Chain') = Len(Chain) + 1
      BY <1>6, <2>7
  <2>15. ListedUpTo'
    <3>1. ShownItems(blink_array, Chain) = {FrameAt(pl) : pl \in Done} /\ Len(Chain) = Cardinality(Done)
        BY <1>0 DEF ListedUpTo
    <3>2. ShownItems(blink_array', Chain') = {FrameAt(pl)' : pl \in Done'}
        BY <2>11, <2>12, <2>13, <3>1
    <3>3. Len(Chain') = Cardinality(Done')
        BY <2>3, <2>14, <3>1
    <3> QED
        BY <3>2, <3>3 DEF ListedUpTo
  <2> QED
      BY <1>0, <1>f, <1>r, <2>7, <2>15 DEF IInv, PCs
<1> QED
    BY <1>7, <1>8

\* The end of a row: nothing is listed, because nothing is left in the row; when
\* both files have ended everything has been read.
LEMMA EndRowStep ==
    ASSUME IInv, EndRow
    PROVE  IInv'
<1>0. /\ pc = "frames" /\ ReadColumn /\ files' = files /\ row' = row + 1 /\ col' = 0
      /\ c' = [f \in 1 .. 2 |-> IF eof'[f] = 1 THEN NL ELSE "0"]
      /\ pc' = IF eof' = <<1, 1>> THEN "rate" ELSE "frames"
      /\ Char(1) = NL /\ Char(2) = NL /\ UNCHANGED list
      /\ row \in Nat /\ col \in Nat /\ FrameFiles /\ ListInv /\ ListedUpTo
    BY DEF EndRow, IInv
<1>f. FrameFiles'
    BY <1>0 DEF FrameFiles
<1>l. ListInv' /\ Chain' = Chain /\ blink_array' = blink_array
    BY <1>0, SameList DEF list
<1>n. Inked' = Inked /\ \A pl : FrameAt(pl)' = FrameAt(pl)
    BY <1>0, SameInk
<1>1. ASSUME NEW f \in 1 .. 2
      PROVE  /\ files[f] \in Seq(Range(files[f]))
             /\ ReadTo(files[f], text[f], c[f], eof[f], row, col)
             /\ CharIn(text[f], c[f]) = NL
             /\ text'[f] = RestIn(text[f], c[f])
             /\ eof'[f] = EofIn(text[f], c[f], eof[f])
  <2>1. f = 1 \/ f = 2
      OBVIOUS
  <2> QED
      BY <1>0, <2>1, ColumnRead
<1>r. Reading'
  <2>1. ASSUME NEW f \in 1 .. 2
        PROVE  ReadTo(files'[f], text'[f], c'[f], eof'[f], row', col')
    <3>1. ReadTo(files[f], text'[f], NL, eof'[f], row, col + 1) /\ col + 1 \in Nat
        BY <1>0, <1>1, ReadOn
    <3>2. ReadTo(files[f], text'[f], IF eof'[f] = 1 THEN NL ELSE "0", eof'[f], row + 1, 0)
        BY <1>0, <1>1, <3>1, RowOn
    <3> QED
        BY <1>0, <3>2
  <2> QED
      BY <2>1 DEF Reading
<1>2. ASSUME NEW pl \in Inked
      PROVE  Before(pl, <<row + 1, 0>>) <=> Before(pl, <<row, col>>)
  <2>1. PICK f \in 1 .. 2 : CharAt(files[f], pl) # Space
    <3>1. 1 \in 1 .. 2 /\ 2 \in 1 .. 2
        OBVIOUS
    <3>2. CharAt(files[1], pl) # Space \/ CharAt(files[2], pl) # Space
        BY DEF Inked
    <3> QED
        BY <3>1, <3>2
  <2>2. PICK q \in DOMAIN files[f] : files[f][q] # NL /\ Place(files[f], q) = pl
      BY <2>1, InkAt
  <2>3. q \in 1 .. Len(files[f])
      BY <1>1
  <2> QED
      BY <1>0, <1>1, <2>2, <2>3, RowDone
<1>3. Done' = Done
    BY <1>0, <1>2, <1>n DEF Done
<1>4. {FrameAt(pl)' : pl \in Done'} = {FrameAt(pl) : pl \in Done}
    BY <1>3, <1>n
<1>5. ListedUpTo'
    BY <1>0, <1>3, <1>4, <1>l DEF ListedUpTo
<1>6. pc' = "rate" => AllRead'
  <2> SUFFICES ASSUME pc' = "rate", NEW f \in 1 .. 2, NEW q \in DOMAIN files[f]
               PROVE  Before(Place(files[f], q), <<row', col'>>)
      BY <1>0 DEF AllRead
  <2>1. eof' = <<1, 1>> /\ (f = 1 \/ f = 2)
      BY <1>0
  <2>2. eof'[f] = 1
      BY <2>1
  <2>3. q \in 1 .. Len(files[f]) /\ files[f] \in Seq(Range(files[f]))
      BY <1>1
  <2>4. ReadTo(files[f], text'[f], c'[f], eof'[f], row', col')
      BY <1>0, <1>r DEF Reading
  <2>5. Pos(files[f], text'[f]) = Len(files[f])
      BY <2>2, <2>4 DEF ReadTo
  <2>6. row' \in Nat /\ col' \in Nat
      BY <1>0
  <2> QED
      BY <2>3, <2>4, <2>5, <2>6, ReadPlaces
<1>7. row' \in Nat /\ col' \in Nat /\ pc' \in {"frames", "rate"}
    BY <1>0
<1> QED
    BY <1>5, <1>6, <1>7, <1>f, <1>l, <1>r DEF IInv, PCs

\* main's own structures are arguments of RTC_ADD.
LEMMA ExtraIs ==
    ASSUME NEW u \in Extra PROVE Argument(u)
<1>0. u.on_char \in ExtraChars /\ u.off_char \in ExtraChars
    BY DEF ExtraChars
<1>1. u.on_char \in Chars /\ u.off_char \in Chars
  <2>1. \A x \in ExtraChars : x \in Chars
      BY DEF Chars
  <2> QED
      BY <1>0, <2>1, Zenon
<1> QED
    BY <1>1, FishAssumption DEF Argument, Word

\* Every step of add_frames and main preserves the invariant.
LEMMA StepIInv == IInv /\ [Next]_vars => IInv'
<1> SUFFICES ASSUME IInv, [Next]_vars PROVE IInv'
    OBVIOUS
<1>0. pc \in PCs /\ row \in Nat /\ col \in Nat /\ ListInv
    BY DEF IInv
<1>1. ASSUME UNCHANGED <<list, reader>>, pc' = pc \/ (pc = "start" /\ pc' \in {"frames", "halted"})
      PROVE  IInv'
  <2>1. ListInv' /\ Chain' = Chain /\ blink_array' = blink_array
      BY <1>0, <1>1, SameList DEF list
  <2>2. UNCHANGED <<files, text, c, eof, row, col>>
      BY <1>1 DEF reader
  <2>3. FrameFiles => FrameFiles'
      BY <2>2 DEF FrameFiles
  <2>4. Inked' = Inked /\ \A pl : FrameAt(pl)' = FrameAt(pl)
      BY <2>2, SameInk
  <2>5. Done' = Done
      BY <2>2, <2>4 DEF Done
  <2>6. {FrameAt(pl)' : pl \in Done'} = {FrameAt(pl) : pl \in Done}
      BY <2>4, <2>5
  <2>7. ListedUpTo => ListedUpTo'
      BY <2>1, <2>5, <2>6 DEF ListedUpTo
  <2>8. (Reading => Reading') /\ (AllRead => AllRead')
      BY <2>2 DEF Reading, AllRead
  <2> QED
      BY <1>0, <1>1, <2>1, <2>2, <2>3, <2>7, <2>8 DEF IInv, PCs
<1>2. ASSUME ListInv', pc = "show", pc' = "show", UNCHANGED reader PROVE IInv'
    BY <1>0, <1>2 DEF IInv, PCs, reader
<1>3. CASE Start
    BY <1>1, <1>3 DEF Start
<1>4. CASE Column
    BY <1>4, ColumnStep
<1>5. CASE EndRow
    BY <1>5, EndRowStep
<1>6. CASE SetRate
  <2>1. pc' = "show" /\ UNCHANGED list /\ row' = 0 /\ col' = col
      BY <1>6 DEF SetRate
  <2>2. ListInv'
      BY <1>0, <2>1, SameList
  <2> QED
      BY <1>0, <2>1, <2>2 DEF IInv, PCs
<1>7. CASE Tick
    BY <1>0, <1>2, <1>7, TickCall DEF Tick
<1>8. CASE Ioctl
  <2>1. pc = "show" /\ pc' = pc /\ UNCHANGED reader
      BY <1>8 DEF Ioctl
  <2>2. ListInv'
    <3>1. ASSUME NEW u \in Extra, mp1_ioctl_add(u) PROVE ListInv'
        BY <1>0, <3>1, ExtraIs, AddCall
    <3>2. ASSUME NEW from, NEW to, mp1_ioctl_sync(from, to) PROVE ListInv'
        BY <1>0, <3>2, SyncCall
    <3>3. ASSUME NEW l, mp1_ioctl_remove(l) PROVE ListInv'
        BY <1>0, <3>3, RemoveCall
    <3> QED
        BY <1>8, <3>1, <3>2, <3>3 DEF Ioctl
  <2> QED
      BY <1>2, <2>1, <2>2
<1>9. CASE UNCHANGED vars
    BY <1>1, <1>9 DEF vars
<1> QED
    BY <1>3, <1>4, <1>5, <1>6, <1>7, <1>8, <1>9 DEF Next

\* The invariant holds in every state of the program, whatever the frames and the
\* order of the calls: the list is linked through exactly the slots in use, and
\* while add_frames runs it holds exactly the frame characters read so far.
THEOREM Inductive == Spec => []IInv
<1>1. Init => IInv
    BY InitIInv
<1>2. IInv /\ [Next]_vars => IInv'
    BY StepIInv
<1> QED
    BY <1>1, <1>2, PTL DEF Spec

\* mp1_malloc, mp1_free and the links of blink.S agree: following next from the
\* head ends, meets no slot twice, and meets exactly the slots in use.
THEOREM PoolStaysSound == Spec => []PoolSound
<1>1. IInv => PoolSound
  <2> SUFFICES ASSUME IInv PROVE PoolSound
      OBVIOUS
  <2>1. ListInv
      BY DEF IInv
  <2>2. /\ Chain \in Seq(Slots) /\ Len(Chain) \in Nat
        /\ Range(Chain) = {s \in Slots : blink_array[s].location # 0}
      BY <2>1, Used
  <2>3. DOMAIN Chain = 1 .. Len(Chain) /\ (Chain # <<>> => Len(Chain) \in 1 .. Len(Chain))
      BY <2>2
  <2>4. Links(blink_array, mp1_list_head, Chain)
      BY <2>1 DEF ListInv
  <2>5. IsInjective(Chain)
      BY <2>3, <2>4 DEF Links, IsInjective
  <2>6. Chain # <<>> => blink_array[Last(Chain)].next = NULL
      BY <2>3, <2>4 DEF Links, Last
  <2> QED
      BY <2>2, <2>5, <2>6 DEF PoolSound
<1> QED
    BY <1>1, Inductive, PTL

\* add_frames leaves one item for every place where a frame has a character on the
\* screen, with the characters of the two frames, however the files are cut into
\* lines and whichever ends first.
THEOREM FramesAreListed == Spec => []FramesListed
<1>1. IInv => FramesListed
  <2> SUFFICES ASSUME IInv, pc = "rate" PROVE FramesListed
      BY DEF FramesListed
  <2>1. FrameFiles /\ ListedUpTo /\ AllRead
      BY DEF IInv
  <2>2. Done = Inked
    <3> SUFFICES ASSUME NEW pl \in Inked PROVE Before(pl, <<row, col>>)
        BY DEF Done
    <3>1. PICK f \in 1 .. 2 : \E p \in DOMAIN files[f] : pl = Place(files[f], p)
        BY DEF Inked
    <3> QED
        BY <2>1, <3>1 DEF AllRead
  <2>3. Len(Chain) = Cardinality(Inked)
      BY <2>1, <2>2 DEF ListedUpTo
  <2>4. {<<b.location, b.on_char, b.off_char>> : b \in {blink_array[s] : s \in Range(Chain)}}
          = {<<pl[1] * Columns + pl[2] + Offset, CharAt(files[1], pl), CharAt(files[2], pl)>> : pl \in Inked}
      BY <2>1, <2>2 DEF ListedUpTo, ShownItems, FrameAt
  <2> QED
      BY <2>3, <2>4 DEF FramesListed
<1> QED
    BY <1>1, Inductive, PTL

-----------------------------------------------------------------------------
(* The list implements Blinkers *)

ListedItem == [location : 0 .. NumCells - 1, on_char : Chars, off_char : Chars,
               on_length : Word, off_length : Word, left : Nat, on : BOOLEAN]

ItemsOf(array, ch) == [n \in 1 .. Len(ch) |-> Listed(array[ch[n]])]

\* The ticks an item has left are those of its countdown word.
LEMMA ListedIs ==
    ASSUME NEW b \in Item
    PROVE  /\ Listed(b) \in ListedItem
           /\ Listed(b).left = Abstract!Lasts(b.countdown)
           /\ Listed(b).left >= 1
           /\ Listed(b).left = 1 <=> Toggles(b)
<1> DEFINE h == WORD \div 2
           x == b.countdown
           left == IF Toggles(b) THEN 1 ELSE x
<1>1. x \in Word /\ WORD \in Nat /\ h \in Nat
    BY BlinkAssumption DEF Item
<1>2. Toggles(b) <=> x \in {0, 1} \/ x > h
    BY <1>1, TogglesWhen
<1>3. /\ left \in Nat /\ left >= 1 /\ (left = 1 <=> Toggles(b))
      /\ left = IF x = 0 \/ x > h THEN 1 ELSE x
    BY <1>1, <1>2 DEF Word
<1>4. Listed(b).left = left
    BY DEF Listed
<1>5. left = Abstract!Lasts(x)
    BY <1>3 DEF Abstract!Lasts
<1>6. Listed(b) \in ListedItem
  <2>1. (b.status = 1) \in BOOLEAN
      OBVIOUS
  <2>2. left \in Nat
      BY <1>3
  <2> HIDE DEF left
  <2>3. Listed(b) = [location |-> b.location, on_char |-> b.on_char, off_char |-> b.off_char,
                     on_length |-> b.on_length, off_length |-> b.off_length,
                     left |-> left, on |-> b.status = 1]
      BY DEF Listed, left
  <2> QED
      BY <2>1, <2>2, <2>3 DEF Item, ListedItem
<1> QED
    BY <1>3, <1>4, <1>5, <1>6

\* Items is a sequence as long as the list.
LEMMA ItemsAre ==
    ASSUME NEW array \in [Slots -> Item], NEW ch \in Seq(Slots)
    PROVE  /\ ItemsOf(array, ch) \in Seq(ListedItem)
           /\ Len(ItemsOf(array, ch)) = Len(ch)
           /\ DOMAIN ItemsOf(array, ch) = 1 .. Len(ch)
           /\ \A n \in 1 .. Len(ch) :
                 /\ array[ch[n]] \in Item
                 /\ ItemsOf(array, ch)[n] = Listed(array[ch[n]])
<1>1. Len(ch) \in Nat /\ \A n \in 1 .. Len(ch) : ch[n] \in Slots /\ array[ch[n]] \in Item
    OBVIOUS
<1>2. \A n \in 1 .. Len(ch) : Listed(array[ch[n]]) \in ListedItem
    BY <1>1, ListedIs
<1> QED
    BY <1>1, <1>2 DEF ItemsOf

\* An item is its fields.
LEMMA SameListed ==
    ASSUME NEW i \in ListedItem, NEW j \in ListedItem,
           i.location = j.location, i.on_char = j.on_char, i.off_char = j.off_char,
           i.on_length = j.on_length, i.off_length = j.off_length,
           i.left = j.left, i.on <=> j.on
    PROVE  i = j
<1>1. i.on = j.on
    BY Zenon DEF ListedItem
<1> QED
    BY <1>1 DEF ListedItem

\* One tick makes an item one tick older.
LEMMA Aging ==
    ASSUME NEW b \in Item
    PROVE  Listed(Ticked(b)) = Abstract!Aged(Listed(b))
<1> DEFINE i == Listed(b)
<1>1. Ticked(b) \in Item /\ b.countdown \in Word /\ b.status \in {0, 1}
    BY TickedItem DEF Item
<1>2. /\ i \in ListedItem /\ i.left >= 1 /\ (i.left = 1 <=> Toggles(b))
      /\ Listed(Ticked(b)).left = Abstract!Lasts(Ticked(b).countdown)
      /\ Listed(Ticked(b)).left >= 1
      /\ i.left = Abstract!Lasts(b.countdown)
    BY <1>1, ListedIs
<1>3. /\ i.location = b.location /\ i.on_char = b.on_char /\ i.off_char = b.off_char
      /\ i.on_length = b.on_length /\ i.off_length = b.off_length
      /\ i.on <=> b.status = 1
    BY DEF Listed
<1> DEFINE j == Listed(Ticked(b))
           k == Abstract!Aged(i)
<1>4. /\ j \in ListedItem /\ j.location = b.location /\ j.on_char = b.on_char
      /\ j.off_char = b.off_char /\ j.on_length = b.on_length
      /\ j.off_length = b.off_length /\ (j.on <=> Ticked(b).status = 1)
      /\ j.left \in Nat
  <2>1. /\ Ticked(b).location = b.location /\ Ticked(b).on_char = b.on_char
        /\ Ticked(b).off_char = b.off_char /\ Ticked(b).on_length = b.on_length
        /\ Ticked(b).off_length = b.off_length
      BY DEF Ticked, Item
  <2>2. j \in ListedItem
      BY <1>1, ListedIs
  <2>3. j.left \in Nat
      BY <2>2 DEF ListedItem
  <2> QED
      BY <2>1, <2>2, <2>3 DEF Listed
<1>5. CASE Toggles(b)
  <2>1. /\ Ticked(b).countdown = IF b.status = 1 THEN b.off_length ELSE b.on_length
        /\ Ticked(b).status = 1 - b.status
      BY <1>5 DEF Ticked, Item
  <2>2. j.on <=> ~i.on
      BY <1>1, <1>3, <1>4, <2>1
  <2>3. j.left = Abstract!Lasts(IF i.on THEN i.off_length ELSE i.on_length)
      BY <1>2, <1>3, <2>1
  <2>4. k = [i EXCEPT !.on = ~@, !.left = j.left]
    <3>1. ~(i.left > 1)
        BY <1>2, <1>5
    <3> QED
        BY <2>3, <3>1 DEF Abstract!Aged
  <2> HIDE DEF i, j, k
  <2>5. k \in ListedItem
      BY <1>2, <1>4, <2>4 DEF ListedItem
  <2>6. /\ k.location = i.location /\ k.on_char = i.on_char /\ k.off_char = i.off_char
        /\ k.on_length = i.on_length /\ k.off_length = i.off_length /\ k.left = j.left
        /\ k.on <=> ~i.on
      BY <1>2, <2>4 DEF ListedItem
  <2>7. j = k
      BY <1>3, <1>4, <2>2, <2>5, <2>6, SameListed
  <2> QED
      BY <2>7 DEF i, j, k
<1>6. CASE ~Toggles(b)
  <2>1. Ticked(b).countdown = b.countdown - 1 /\ Ticked(b).status = b.status
      BY <1>1, <1>6, TogglesWhen DEF Ticked, Item
  <2>2. j.on <=> i.on
      BY <1>3, <1>4, <2>1
  <2>3. j.left = i.left - 1
      BY <1>1, <1>2, <1>6, <2>1, TogglesWhen, BlinkAssumption DEF Abstract!Lasts, Word
  <2>4. k = [i EXCEPT !.left = j.left]
    <3>1. i.left > 1
        BY <1>2, <1>6 DEF ListedItem
    <3> QED
        BY <2>3, <3>1 DEF Abstract!Aged
  <2> HIDE DEF i, j, k
  <2>5. k \in ListedItem
      BY <1>2, <1>4, <2>4 DEF ListedItem
  <2>6. /\ k.location = i.location /\ k.on_char = i.on_char /\ k.off_char = i.off_char
        /\ k.on_length = i.on_length /\ k.off_length = i.off_length /\ k.left = j.left
        /\ k.on <=> i.on
      BY <1>2, <2>4 DEF ListedItem
  <2>7. j = k
      BY <1>3, <1>4, <2>2, <2>5, <2>6, SameListed
  <2> QED
      BY <2>7 DEF i, j, k
<1> QED
    BY <1>5, <1>6

\* A change shows the character of the new phase.
LEMMA ShownNext ==
    ASSUME NEW b \in Item, Toggles(b)
    PROVE  Abstract!Shown(Abstract!Aged(Listed(b)))
             = IF b.status = 1 THEN b.off_char ELSE b.on_char
<1>1. Abstract!Aged(Listed(b)) = Listed(Ticked(b))
    BY Aging
<1>2. /\ b.status \in {0, 1} /\ Ticked(b).status = 1 - b.status
      /\ Ticked(b).on_char = b.on_char /\ Ticked(b).off_char = b.off_char
    BY DEF Ticked, Item
<1>3. /\ Listed(Ticked(b)).on <=> Ticked(b).status = 1
      /\ Listed(Ticked(b)).on_char = b.on_char /\ Listed(Ticked(b)).off_char = b.off_char
    BY <1>2 DEF Listed
<1> QED
    BY <1>1, <1>2, <1>3 DEF Abstract!Shown

\* What Items is, before and after a step that keeps the list a list.
LEMMA ItemsNow ==
    ASSUME ListInv
    PROVE  /\ Items = ItemsOf(blink_array, Chain)
           /\ Items \in Seq(ListedItem) /\ Len(Items) = Len(Chain) /\ Len(Items) \in Nat
           /\ DOMAIN Items = 1 .. Len(Chain)
           /\ \A n \in 1 .. Len(Chain) : /\ blink_array[Chain[n]] \in Item
                                         /\ Items[n] = Listed(blink_array[Chain[n]])
<1>1. Items = ItemsOf(blink_array, Chain)
    BY DEF Items, ItemsOf
<1>2. blink_array \in [Slots -> Item] /\ Chain \in Seq(Slots) /\ Len(Chain) \in Nat
    BY Used DEF ListInv
<1> QED
    BY <1>1, <1>2, ItemsAre

\* The same for the state after a step.
LEMMA ItemsNext ==
    ASSUME ListInv'
    PROVE  /\ Items' = ItemsOf(blink_array', Chain')
           /\ Items' \in Seq(ListedItem) /\ Len(Items') = Len(Chain') /\ Len(Items') \in Nat
           /\ DOMAIN Items' = 1 .. Len(Chain')
           /\ \A n \in 1 .. Len(Chain') : /\ blink_array'[Chain'[n]] \in Item
                                          /\ Items'[n] = Listed(blink_array'[Chain'[n]])
<1>1. Items' = ItemsOf(blink_array', Chain')
    BY DEF Items, ItemsOf, Listed, Toggles, Expired
<1>2. blink_array' \in [Slots -> Item] /\ Chain' \in Seq(Slots)
    BY DEF ListInv, Links
<1>3. Len(Chain') \in Nat
    BY <1>2
<1> QED
    BY <1>1, <1>2, <1>3, ItemsAre

\* A call that leaves the list alone leaves the items alone.
LEMMA SameItems ==
    ASSUME UNCHANGED list, Chain' = Chain
    PROVE  UNCHANGED <<Items, vmem>>
BY DEF Items, list, Listed, Toggles, Expired

\* mp1_rtc_tasklet is a Tick.
LEMMA TickRefines ==
    ASSUME ListInv, mp1_rtc_tasklet
    PROVE  Abstract!Tick
<1>1. /\ ListInv' /\ Chain' = Chain
      /\ \A n \in 1 .. Len(Chain) : blink_array'[Chain[n]] = Ticked(blink_array[Chain[n]])
      /\ vmem' = Poked(Chain)
    BY TickCall
<1>2. /\ Items \in Seq(ListedItem) /\ Len(Items) = Len(Chain) /\ Len(Items) \in Nat
      /\ DOMAIN Items = 1 .. Len(Chain)
      /\ \A n \in 1 .. Len(Chain) : /\ blink_array[Chain[n]] \in Item
                                    /\ Items[n] = Listed(blink_array[Chain[n]])
    BY ItemsNow
<1>3. /\ Items' \in Seq(ListedItem) /\ Len(Items') = Len(Chain)
      /\ \A n \in 1 .. Len(Chain) : Items'[n] = Listed(blink_array'[Chain[n]])
    BY <1>1, ItemsNext
<1>4. \A n \in 1 .. Len(Chain) : Items'[n] = Abstract!Aged(Items[n])
    BY <1>1, <1>2, <1>3, Aging
<1>5. Items' = [n \in DOMAIN Items |-> Abstract!Aged(Items[n])]
    BY <1>2, <1>3, <1>4
<1> DEFINE Changes(l) == {i \in 1 .. Len(Chain) : /\ blink_array[Chain[i]].location = l
                                                  /\ Toggles(blink_array[Chain[i]])}
           Last2(l) == CHOOSE n \in Changes(l) : \A m \in Changes(l) : m <= n
<1>6. ASSUME NEW l
      PROVE  /\ {n \in DOMAIN Items : Items[n].location = l /\ Items[n].left = 1} = Changes(l)
             /\ Changes(l) # {} => /\ Last2(l) = Max(Changes(l)) /\ Max(Changes(l)) # 0
                                   /\ Max(Changes(l)) \in Changes(l)
                                   /\ Max(Changes(l)) \in 1 .. Len(Chain)
  <2>1. ASSUME NEW n \in 1 .. Len(Chain)
        PROVE  /\ Items[n].location = blink_array[Chain[n]].location
               /\ Items[n].left = 1 <=> Toggles(blink_array[Chain[n]])
    <3>1. Items[n].location = blink_array[Chain[n]].location
        BY <1>2 DEF Listed
    <3> QED
        BY <1>2, <3>1, ListedIs
  <2>2. Changes(l) \in SUBSET (0 .. Len(Chain)) /\ Changes(l) \in SUBSET (1 .. Len(Chain))
        /\ Len(Chain) \in Nat
      BY <1>2
  <2>3. {n \in DOMAIN Items : Items[n].location = l /\ Items[n].left = 1} = Changes(l)
      BY <1>2, <2>1
  <2> HIDE DEF Changes
  <2>4. ASSUME Changes(l) # {}
        PROVE  /\ Last2(l) = Max(Changes(l)) /\ Max(Changes(l)) # 0
               /\ Max(Changes(l)) \in Changes(l)
               /\ Max(Changes(l)) \in 1 .. Len(Chain)
    <3>1. Max(Changes(l)) \in Changes(l) /\ \A x \in Changes(l) : x <= Max(Changes(l))
        BY <2>2, <2>4, MaxMin
    <3>2. Last2(l) \in Changes(l) /\ \A x \in Changes(l) : x <= Last2(l)
        BY <3>1
    <3> HIDE DEF Last2
    <3> QED
        BY <2>2, <3>1, <3>2
  <2> QED
      BY <2>3, <2>4
<1>7. vmem' = [l \in DOMAIN vmem |->
          LET changing == {n \in DOMAIN Items : Items[n].location = l /\ Items[n].left = 1}
          IN  IF changing = {} THEN vmem[l]
              ELSE Abstract!Shown(Abstract!Aged(Items[CHOOSE n \in changing :
                                         \A m \in changing : m <= n]))]
  <2>1. Poked(Chain) = [l \in DOMAIN vmem |->
            LET n == IF Changes(l) # {} THEN Max(Changes(l)) ELSE 0
                b == blink_array[Chain[n]]
            IN  IF n = 0 THEN vmem[l] ELSE IF b.status = 1 THEN b.off_char ELSE b.on_char]
      BY DEF Poked, SelectLastInSeq
  <2> DEFINE new(l) == IF Changes(l) = {} THEN vmem[l]
                       ELSE Abstract!Shown(Abstract!Aged(Items[Last2(l)]))
  <2>2. ASSUME NEW l \in DOMAIN vmem PROVE Poked(Chain)[l] = new(l)
    <3> HIDE DEF Changes, Last2
    <3>1. CASE Changes(l) = {}
        BY <2>1, <3>1
    <3>2. CASE Changes(l) # {}
      <4> DEFINE n == Max(Changes(l))
                 b == blink_array[Chain[n]]
      <4>1. n = Last2(l) /\ n # 0 /\ n \in 1 .. Len(Chain)
          BY <1>6, <3>2
      <4>2. Poked(Chain)[l] = IF b.status = 1 THEN b.off_char ELSE b.on_char
          BY <2>1, <3>2, <4>1
      <4>3. b \in Item /\ Items[n] = Listed(b)
          BY <1>2, <4>1
      <4>4. n \in Changes(l)
          BY <1>6, <3>2, <4>1
      <4>5. Toggles(b)
          BY <4>4 DEF Changes
      <4> HIDE DEF b
      <4>6. Abstract!Shown(Abstract!Aged(Listed(b)))
              = IF b.status = 1 THEN b.off_char ELSE b.on_char
          BY <4>3, <4>5, ShownNext
      <4> QED
          BY <3>2, <4>1, <4>2, <4>3, <4>6
    <3> QED
        BY <3>1, <3>2
  <2>3. Poked(Chain) = [l \in DOMAIN vmem |-> new(l)]
    <3> HIDE DEF new
    <3> QED
        BY <2>1, <2>2
  <2> DEFINE changing(l) == {n \in DOMAIN Items : Items[n].location = l /\ Items[n].left = 1}
             seen(l) == IF changing(l) = {} THEN vmem[l]
                        ELSE Abstract!Shown(Abstract!Aged(Items[CHOOSE n \in changing(l) :
                                         \A m \in changing(l) : m <= n]))
  <2>4. ASSUME NEW l \in DOMAIN vmem PROVE new(l) = seen(l)
    <3>1. changing(l) = Changes(l)
        BY <1>6
    <3> HIDE DEF changing, Changes
    <3> QED
        BY <3>1
  <2>5. [l \in DOMAIN vmem |-> new(l)] = [l \in DOMAIN vmem |-> seen(l)]
    <3> HIDE DEF new, seen
    <3> QED
        BY <2>4
  <2> QED
      BY <1>1, <2>3, <2>5
<1> QED
    BY <1>5, <1>7 DEF Abstract!Tick

\* RTC_ADD is an Add, or nothing.
LEMMA AddRefines ==
    ASSUME ListInv, NEW u, Argument(u), mp1_ioctl_add(u)
    PROVE  \/ UNCHANGED <<Items, vmem>>
           \/ Items' # <<>> /\ Abstract!Add(Head(Items'))
<1> DEFINE e == mp1_malloc
           new == [location |-> u.location, on_char |-> u.on_char,
                   off_char |-> u.off_char, on_length |-> u.on_length,
                   off_length |-> u.off_length, countdown |-> u.on_length,
                   status |-> 1, next |-> mp1_list_head]
<1>1. \/ UNCHANGED list /\ Chain' = Chain
      \/ /\ u.location < NumCells /\ Len(Chain) < NumSlots
         /\ e \in Slots /\ blink_array[e].location = 0
         /\ Chain' = <<e>> \o Chain
         /\ blink_array' = [blink_array EXCEPT ![e] = new]
         /\ vmem' = [vmem EXCEPT ![u.location] = u.on_char]
    BY AddCall
<1>2. ListInv'
    BY AddCall
<1>3. CASE UNCHANGED list /\ Chain' = Chain
    BY <1>3, SameItems
<1>4. CASE /\ u.location < NumCells /\ Len(Chain) < NumSlots
           /\ e \in Slots /\ blink_array[e].location = 0
           /\ Chain' = <<e>> \o Chain
           /\ blink_array' = [blink_array EXCEPT ![e] = new]
           /\ vmem' = [vmem EXCEPT ![u.location] = u.on_char]
  <2>1. /\ new.location = u.location /\ new.on_char = u.on_char /\ new.off_char = u.off_char
        /\ new.on_length = u.on_length /\ new.off_length = u.off_length
        /\ new.countdown = u.on_length /\ new.status = 1
      OBVIOUS
  <2> HIDE DEF new, e
  <2>2. /\ blink_array \in [Slots -> Item] /\ Chain \in Seq(Slots) /\ Len(Chain) \in Nat
        /\ \A i \in 1 .. Len(Chain) : Chain[i] \in Slots /\ Chain[i] # e
    <3>1. Range(Chain) = {s \in Slots : blink_array[s].location # 0}
        BY Used
    <3>2. Chain \in Seq(Slots) /\ Len(Chain) \in Nat /\ blink_array \in [Slots -> Item]
        BY Used DEF ListInv
    <3>3. \A i \in 1 .. Len(Chain) : Chain[i] \in Range(Chain)
        BY <3>2 DEF Range
    <3> QED
        BY <1>4, <3>1, <3>2, <3>3
  <2>3. /\ Len(Chain') = Len(Chain) + 1 /\ Chain'[1] = e
        /\ \A i \in 1 .. Len(Chain) : Chain'[i + 1] = Chain[i]
      BY <1>4, <2>2
  <2>4. /\ Items \in Seq(ListedItem) /\ Len(Items) = Len(Chain)
        /\ \A n \in 1 .. Len(Chain) : Items[n] = Listed(blink_array[Chain[n]])
      BY ItemsNow
  <2>5. /\ Items' \in Seq(ListedItem) /\ Len(Items') = Len(Chain')
        /\ \A n \in 1 .. Len(Chain') : /\ blink_array'[Chain'[n]] \in Item
                                       /\ Items'[n] = Listed(blink_array'[Chain'[n]])
      BY <1>2, ItemsNext
  <2> DEFINE i == Listed(new)
  <2>6. 1 \in 1 .. Len(Chain') /\ blink_array'[e] = new
      BY <1>4, <2>2, <2>3
  <2>7. new \in Item /\ Items'[1] = i
      BY <2>3, <2>5, <2>6
  <2>8. \A n \in 1 .. Len(Chain) : Items'[n + 1] = Items[n]
    <3> SUFFICES ASSUME NEW n \in 1 .. Len(Chain) PROVE Items'[n + 1] = Items[n]
        OBVIOUS
    <3>1. n + 1 \in 1 .. Len(Chain')
        BY <2>2, <2>3
    <3>2. Items'[n + 1] = Listed(blink_array'[Chain'[n + 1]]) /\ Chain'[n + 1] = Chain[n]
        BY <2>3, <2>5, <3>1
    <3>3. blink_array'[Chain[n]] = blink_array[Chain[n]]
        BY <1>4, <2>2
    <3> QED
        BY <2>4, <3>2, <3>3
  <2>9. i \in ListedItem /\ i.left = Abstract!Lasts(new.countdown)
      BY <2>7, ListedIs
  <2>10. i.location = u.location /\ i.on_char = u.on_char /\ i.on_length = u.on_length /\ i.on
      BY <2>1 DEF Listed
  <2> HIDE DEF i
  <2>11. Items' = <<i>> \o Items
    <3>1. /\ <<i>> \o Items \in Seq(ListedItem) /\ Len(<<i>> \o Items) = Len(Chain) + 1
          /\ (<<i>> \o Items)[1] = i
          /\ \A n \in 1 .. Len(Chain) : (<<i>> \o Items)[n + 1] = Items[n]
        BY <2>2, <2>4, <2>9
    <3> DEFINE s == <<i>> \o Items
               t == Items'
    <3>2. /\ s \in Seq(ListedItem) /\ t \in Seq(ListedItem) /\ Len(s) = Len(t)
          /\ Len(t) = Len(Chain) + 1 /\ s[1] = t[1]
          /\ \A n \in 1 .. Len(Chain) : s[n + 1] = t[n + 1]
        BY <2>3, <2>5, <2>7, <2>8, <3>1
    <3> HIDE DEF s, t
    <3>3. ASSUME NEW n \in 1 .. Len(t) PROVE s[n] = t[n]
      <4>1. n # 1 => n - 1 \in 1 .. Len(Chain) /\ (n - 1) + 1 = n
          BY <2>2, <3>2
      <4> QED
          BY <3>2, <4>1
    <3>4. s = t
        BY <3>2, <3>3
    <3> QED
        BY <3>4 DEF s, t
  <2>12. Items' # <<>> /\ Head(Items') = i
      BY <2>2, <2>3, <2>5, <2>7
  <2>13. Abstract!Add(i)
      BY <1>4, <2>1, <2>2, <2>4, <2>9, <2>10, <2>11 DEF Abstract!Add
  <2> QED
      BY <2>12, <2>13
<1> QED
    BY <1>1, <1>3, <1>4

\* RTC_REMOVE is a Delete, or nothing.
LEMMA RemoveRefines ==
    ASSUME ListInv, NEW l, mp1_ioctl_remove(l)
    PROVE  UNCHANGED <<Items, vmem>> \/ \E n \in DOMAIN Items : Abstract!Delete(n)
<1>1. /\ ListInv' /\ vmem' = vmem
      /\ \/ UNCHANGED list /\ Chain' = Chain
         \/ \E n \in 1 .. Len(Chain) :
               /\ \A m \in 1 .. n - 1 :
                     blink_array[Chain[m]].location # blink_array[Chain[n]].location
               /\ Chain' = RemoveAt(Chain, n)
               /\ blink_array' = UnlinkedIn(blink_array, Chain[n])
    BY RemoveCall
<1>2. CASE UNCHANGED list /\ Chain' = Chain
    BY <1>2, SameItems
<1>3. ASSUME NEW n \in 1 .. Len(Chain),
             \A m \in 1 .. n - 1 :
                blink_array[Chain[m]].location # blink_array[Chain[n]].location,
             Chain' = RemoveAt(Chain, n),
             blink_array' = UnlinkedIn(blink_array, Chain[n])
      PROVE  n \in DOMAIN Items /\ Abstract!Delete(n)
  <2>1. /\ Chain \in Seq(Slots) /\ Len(Chain) \in Nat
        /\ \A i \in 1 .. Len(Chain) : Chain[i] \in Slots
        /\ \A i, j \in 1 .. Len(Chain) : Chain[i] = Chain[j] => i = j
    <3>1. Chain \in Seq(Slots) /\ Len(Chain) \in Nat
        BY Used
    <3>2. \A i, j \in 1 .. Len(Chain) : Chain[i] = Chain[j] => i = j
        BY ZenonT(60) DEF ListInv, Links
    <3>3. \A i \in 1 .. Len(Chain) : Chain[i] \in Slots
        BY <3>1, ElementOfSeq
    <3> QED
        BY <3>1, <3>2, <3>3
  <2>2. /\ Items \in Seq(ListedItem) /\ Len(Items) = Len(Chain)
        /\ DOMAIN Items = 1 .. Len(Chain)
        /\ \A m \in 1 .. Len(Chain) : /\ blink_array[Chain[m]] \in Item
                                      /\ Items[m] = Listed(blink_array[Chain[m]])
      BY ItemsNow
  <2>3. /\ Len(Chain') = Len(Chain) - 1
        /\ \A i \in 1 .. Len(Chain) - 1 :
              Chain'[i] = IF i < n THEN Chain[i] ELSE Chain[i + 1]
      BY <1>3, <2>1, RemoveAtIs
  <2>4. /\ Items' \in Seq(ListedItem) /\ Len(Items') = Len(Chain')
        /\ \A m \in 1 .. Len(Chain') : Items'[m] = Listed(blink_array'[Chain'[m]])
      BY <1>1, ItemsNext
  <2>5. ASSUME NEW i \in 1 .. Len(Chain), i # n
        PROVE  Listed(blink_array'[Chain[i]]) = Items[i]
    <3> DEFINE b == blink_array[Chain[i]]
               b2 == blink_array'[Chain[i]]
               x == blink_array[Chain[n]].next
    <3>1. Chain[i] # Chain[n] /\ Chain[i] \in Slots /\ b \in Item
        BY <2>1, <2>2, <2>5
    <3>2. b2 = b \/ b2 = [b EXCEPT !.next = x]
        BY <1>3, <3>1 DEF UnlinkedIn
    <3>3. Items[i] = Listed(b)
        BY <2>2
    <3> HIDE DEF b, b2, x
    <3>4. /\ b2.location = b.location /\ b2.on_char = b.on_char /\ b2.off_char = b.off_char
          /\ b2.on_length = b.on_length /\ b2.off_length = b.off_length
          /\ b2.countdown = b.countdown /\ b2.status = b.status
        BY <3>1, <3>2 DEF Item
    <3>5. Listed(b2) = Listed(b)
        BY <3>4 DEF Listed, Toggles
    <3> QED
        BY <3>3, <3>5 DEF b2
  <2>6. Items' = RemoveAt(Items, n)
    <3> DEFINE s == RemoveAt(Items, n)
               t == Items'
               k == Len(Chain)
    <3>1. /\ s \in Seq(ListedItem) /\ Len(s) = k - 1
          /\ \A i \in 1 .. k - 1 : s[i] = IF i < n THEN Items[i] ELSE Items[i + 1]
        BY ZenonT(60), <2>2, RemoveAtIs
    <3>2. ASSUME NEW i \in 1 .. k - 1 PROVE t[i] = IF i < n THEN Items[i] ELSE Items[i + 1]
      <4>1. t[i] = Listed(blink_array'[Chain'[i]])
          BY <2>3, <2>4
      <4>2. CASE i < n
        <5>1. i \in 1 .. k /\ i # n /\ Chain'[i] = Chain[i]
            BY <2>1, <2>3, <4>2
        <5> QED
            BY <2>5, <4>1, <4>2, <5>1
      <4>3. CASE ~(i < n)
        <5>1. i + 1 \in 1 .. k /\ i + 1 # n /\ Chain'[i] = Chain[i + 1]
            BY <2>1, <2>3, <4>3
        <5> QED
            BY <2>5, <4>1, <4>3, <5>1
      <4> QED
          BY <4>2, <4>3
    <3>3. t \in Seq(ListedItem) /\ Len(t) = k - 1
        BY <2>3, <2>4
    <3> HIDE DEF s, t, k
    <3>4. s = t
        BY <3>1, <3>2, <3>3
    <3> QED
        BY <3>4 DEF s, t
  <2>7. Abstract!Newest(n)
    <3> SUFFICES ASSUME NEW m \in 1 .. n - 1 PROVE Items[m].location # Items[n].location
        BY DEF Abstract!Newest
    <3>1. m \in 1 .. Len(Chain)
        BY <2>1
    <3>2. /\ Items[m].location = blink_array[Chain[m]].location
          /\ Items[n].location = blink_array[Chain[n]].location
        BY <2>2, <3>1 DEF Listed
    <3> QED
        BY <1>3, <3>2
  <2> QED
      BY <1>1, <2>2, <2>6, <2>7 DEF Abstract!Delete, Abstract!RemoveAt, RemoveAt
<1> QED
    BY <1>1, <1>2, <1>3

\* RTC_SYNC is a Sync, or nothing; of the two characters it shows off_char.
LEMMA SyncRefines ==
    ASSUME ListInv, NEW from, NEW to, mp1_ioctl_sync(from, to)
    PROVE  UNCHANGED <<Items, vmem>> \/ \E n, m \in DOMAIN Items : Abstract!Sync(n, m)
<1>1. /\ ListInv' /\ Chain' = Chain
      /\ \/ UNCHANGED list
         \/ \E n, m \in 1 .. Len(Chain) :
               /\ \A i \in 1 .. n - 1 :
                     blink_array[Chain[i]].location # blink_array[Chain[n]].location
               /\ \A i \in 1 .. m - 1 :
                     blink_array[Chain[i]].location # blink_array[Chain[m]].location
               /\ blink_array' =
                     [blink_array EXCEPT ![Chain[m]] =
                         [@ EXCEPT !.on_length  = blink_array[Chain[n]].on_length,
                                   !.off_length = blink_array[Chain[n]].off_length,
                                   !.countdown  = blink_array[Chain[n]].countdown,
                                   !.status     = blink_array[Chain[n]].status]]
               /\ vmem' = [vmem EXCEPT ![blink_array[Chain[m]].location] =
                                          blink_array[Chain[m]].off_char]
    BY SyncCall
<1>2. CASE UNCHANGED list
    BY <1>1, <1>2, SameItems
<1>3. ASSUME NEW n \in 1 .. Len(Chain), NEW m \in 1 .. Len(Chain),
             \A i \in 1 .. n - 1 :
                blink_array[Chain[i]].location # blink_array[Chain[n]].location,
             \A i \in 1 .. m - 1 :
                blink_array[Chain[i]].location # blink_array[Chain[m]].location,
             blink_array' =
                [blink_array EXCEPT ![Chain[m]] =
                    [@ EXCEPT !.on_length  = blink_array[Chain[n]].on_length,
                              !.off_length = blink_array[Chain[n]].off_length,
                              !.countdown  = blink_array[Chain[n]].countdown,
                              !.status     = blink_array[Chain[n]].status]],
             vmem' = [vmem EXCEPT ![blink_array[Chain[m]].location] =
                                        blink_array[Chain[m]].off_char]
      PROVE  n \in DOMAIN Items /\ m \in DOMAIN Items /\ Abstract!Sync(n, m)
  <2>1. /\ Chain \in Seq(Slots) /\ Len(Chain) \in Nat /\ blink_array \in [Slots -> Item]
        /\ \A i \in 1 .. Len(Chain) : Chain[i] \in Slots
        /\ \A i, j \in 1 .. Len(Chain) : Chain[i] = Chain[j] => i = j
    <3>1. Chain \in Seq(Slots) /\ Len(Chain) \in Nat
        BY Used
    <3> QED
        BY <3>1 DEF ListInv, Links
  <2>2. /\ Items \in Seq(ListedItem) /\ Len(Items) = Len(Chain)
        /\ DOMAIN Items = 1 .. Len(Chain)
        /\ \A i \in 1 .. Len(Chain) : /\ blink_array[Chain[i]] \in Item
                                      /\ Items[i] = Listed(blink_array[Chain[i]])
                                      /\ Items[i] \in ListedItem
    <3>1. Items \in Seq(ListedItem) => \A i \in 1 .. Len(Items) : Items[i] \in ListedItem
        OBVIOUS
    <3> QED
        BY <3>1, ItemsNow
  <2>3. /\ Items' \in Seq(ListedItem) /\ Len(Items') = Len(Chain)
        /\ DOMAIN Items' = 1 .. Len(Chain)
        /\ \A i \in 1 .. Len(Chain) : /\ blink_array'[Chain[i]] \in Item
                                      /\ Items'[i] = Listed(blink_array'[Chain[i]])
                                      /\ Items'[i] \in ListedItem
    <3>1. Items' \in Seq(ListedItem) => \A i \in 1 .. Len(Items') : Items'[i] \in ListedItem
        OBVIOUS
    <3> QED
        BY <1>1, <3>1, ItemsNext
  <2> DEFINE im == Items[m]
             in == Items[n]
             new == [[[[im EXCEPT !.on_length = in.on_length]
                           EXCEPT !.off_length = in.off_length]
                           EXCEPT !.left = in.left]
                           EXCEPT !.on = in.on]
             want == [Items EXCEPT ![m].on_length  = in.on_length,
                                   ![m].off_length = in.off_length,
                                   ![m].left       = in.left,
                                   ![m].on         = in.on]
  <2>4. ASSUME NEW i \in 1 .. Len(Chain), i # m PROVE Items'[i] = Items[i]
    <3>1. Chain[i] # Chain[m] /\ Chain[i] \in Slots
        BY <2>1, <2>4
    <3>2. blink_array'[Chain[i]] = blink_array[Chain[i]]
        BY <1>3, <2>1, <3>1
    <3> QED
        BY <2>2, <2>3, <3>2
  <2>5. Items'[m] = new
    <3> DEFINE bm == blink_array[Chain[m]]
               bn == blink_array[Chain[n]]
               b2 == blink_array'[Chain[m]]
               j == Items'[m]
    <3>1. /\ bm \in Item /\ bn \in Item /\ b2 \in Item
          /\ im = Listed(bm) /\ in = Listed(bn) /\ j = Listed(b2)
          /\ im \in ListedItem /\ in \in ListedItem /\ j \in ListedItem
        BY <2>2, <2>3
    <3>2. b2 = [bm EXCEPT !.on_length = bn.on_length, !.off_length = bn.off_length,
                          !.countdown = bn.countdown, !.status = bn.status]
        BY <1>3, <2>1
    <3> HIDE DEF bm, bn, b2, j, im, in
    <3>3. /\ b2.location = bm.location /\ b2.on_char = bm.on_char
          /\ b2.off_char = bm.off_char /\ b2.on_length = bn.on_length
          /\ b2.off_length = bn.off_length /\ b2.countdown = bn.countdown
          /\ b2.status = bn.status
        BY <3>1, <3>2 DEF Item
    <3>4. /\ j.location = im.location /\ j.on_char = im.on_char /\ j.off_char = im.off_char
          /\ j.on_length = in.on_length /\ j.off_length = in.off_length
          /\ j.on <=> in.on
      <4>1. \A b : /\ Listed(b).location = b.location /\ Listed(b).on_char = b.on_char
                   /\ Listed(b).off_char = b.off_char /\ Listed(b).on_length = b.on_length
                   /\ Listed(b).off_length = b.off_length
                   /\ Listed(b).on <=> b.status = 1
          BY DEF Listed
      <4> QED
          BY <3>1, <3>3, <4>1
    <3>5. j.left = in.left
        BY <3>1, <3>3, ListedIs
    <3>6. new \in ListedItem
        BY <3>1 DEF ListedItem
    <3>7. /\ new.location = im.location /\ new.on_char = im.on_char /\ new.off_char = im.off_char
          /\ new.on_length = in.on_length /\ new.off_length = in.off_length
          /\ new.left = in.left /\ new.on = in.on
        BY <3>1 DEF ListedItem
    <3> HIDE DEF new
    <3>8. j = new
        BY <3>1, <3>4, <3>5, <3>6, <3>7, SameListed
    <3> QED
        BY <3>8 DEF j
  <2>6. Items' = want
    <3>1. want = [Items EXCEPT ![m] = new]
        OBVIOUS
    <3> HIDE DEF want, new
    <3>2. Items' = [Items EXCEPT ![m] = new]
        BY <2>2, <2>3, <2>4, <2>5
    <3> QED
        BY <3>1, <3>2
  <2>7. Abstract!Newest(n) /\ Abstract!Newest(m)
    <3>1. \A i \in 1 .. Len(Chain) : Items[i].location = blink_array[Chain[i]].location
        BY <2>2 DEF Listed
    <3>2. \A i \in 1 .. n - 1 : i \in 1 .. Len(Chain)
        BY <2>1
    <3>3. \A i \in 1 .. m - 1 : i \in 1 .. Len(Chain)
        BY <2>1
    <3> QED
        BY <1>3, <3>1, <3>2, <3>3 DEF Abstract!Newest
  <2>8. \E ch \in {im.on_char, im.off_char} : vmem' = [vmem EXCEPT ![im.location] = ch]
    <3>1. im.location = blink_array[Chain[m]].location /\ im.off_char = blink_array[Chain[m]].off_char
        BY <2>2 DEF Listed
    <3> QED
        BY <1>3, <3>1
  <2> QED
      BY <2>2, <2>6, <2>7, <2>8 DEF Abstract!Sync
<1> QED
    BY <1>1, <1>2, <1>3

\* What add_frames passes to RTC_ADD.
LEMMA ColumnArgument ==
    ASSUME IInv, Column
    PROVE  Argument([location |-> Location,
                     on_char |-> Seen(Char(1)), off_char |-> Seen(Char(2)),
                     on_length |-> FrameLength, off_length |-> FrameLength])
<1>0. /\ pc = "frames" /\ ReadColumn /\ row \in Nat /\ col \in Nat /\ FrameFiles
      /\ Char(1) # NL \/ Char(2) # NL
    BY DEF Column, IInv
<1>1. PICK f \in 1 .. 2 : Char(f) # NL
  <2>1. 1 \in 1 .. 2 /\ 2 \in 1 .. 2
      OBVIOUS
  <2> QED
      BY <1>0, <2>1
<1>2. Location \in 1 .. WORD - 1
    BY <1>0, <1>1, LocationIs
<1>3. ASSUME NEW g \in 1 .. 2 PROVE Seen(Char(g)) \in Chars
  <2>1. /\ files[g] \in Seq(Range(files[g]))
        /\ ReadTo(files[g], text[g], c[g], eof[g], row, col)
        /\ Char(g) = CharIn(text[g], c[g])
      BY <1>0, ColumnRead
  <2>2. Char(g) # NL => Char(g) \in Range(files[g])
      BY <1>0, <2>1, CharThere
  <2>3. Range(files[g]) \subseteq Chars
    <3>1. g = 1 \/ g = 2
        OBVIOUS
    <3> QED
        BY <1>0, <3>1, FilesFit
  <2>4. Space \in Chars
      BY DEF Chars
  <2> QED
      BY <2>2, <2>3, <2>4 DEF Seen
<1>4. 1 \in 1 .. 2 /\ 2 \in 1 .. 2
    OBVIOUS
<1> QED
    BY <1>2, <1>3, <1>4, FishAssumption DEF Argument, Word

\* A step of add_frames or main is at most one step of Blinkers.
LEMMA StepRefines ==
    IInv /\ [Next]_vars => [Abstract!Next]_(Abstract!vars)
<1> SUFFICES ASSUME IInv, [Next]_vars PROVE Abstract!Next \/ UNCHANGED Abstract!vars
    OBVIOUS
<1>0. ListInv
    BY DEF IInv
<1>1. ASSUME UNCHANGED list PROVE UNCHANGED Abstract!vars
    BY <1>0, <1>1, SameList, SameItems DEF Abstract!vars
<1>2. ASSUME NEW u, Argument(u), mp1_ioctl_add(u)
      PROVE  Abstract!Next \/ UNCHANGED Abstract!vars
    BY <1>0, <1>2, AddRefines DEF Abstract!Next, Abstract!vars
<1>3. CASE Start
    BY <1>1, <1>3 DEF Start
<1>4. CASE Column
  <2>1. CASE {Char(1), Char(2)} \subseteq {Space, NL}
      BY <1>1, <1>4, <2>1 DEF Column
  <2>2. CASE ~({Char(1), Char(2)} \subseteq {Space, NL})
    <3> DEFINE u == [location |-> Location,
                     on_char |-> Seen(Char(1)), off_char |-> Seen(Char(2)),
                     on_length |-> FrameLength, off_length |-> FrameLength]
    <3>1. mp1_ioctl_add(u)
        BY <1>4, <2>2 DEF Column
    <3>2. Argument(u)
        BY <1>4, ColumnArgument
    <3> HIDE DEF u
    <3> QED
        BY <1>2, <3>1, <3>2
  <2> QED
      BY <2>1, <2>2
<1>5. CASE EndRow
    BY <1>1, <1>5 DEF EndRow
<1>6. CASE SetRate
    BY <1>1, <1>6 DEF SetRate
<1>7. CASE Tick
    BY <1>0, <1>7, TickRefines DEF Tick, Abstract!Next
<1>8. CASE Ioctl
  <2>1. CASE \E u \in Extra : mp1_ioctl_add(u)
      BY <1>2, <2>1, ExtraIs
  <2>2. CASE \E from, to \in Locations : mp1_ioctl_sync(from, to)
      BY <1>0, <2>2, SyncRefines DEF Abstract!Next, Abstract!vars
  <2>3. CASE \E l \in Locations : mp1_ioctl_remove(l)
      BY <1>0, <2>3, RemoveRefines DEF Abstract!Next, Abstract!vars
  <2> QED
      BY <1>8, <2>1, <2>2, <2>3 DEF Ioctl
<1>9. CASE UNCHANGED vars
    BY <1>1, <1>9 DEF vars
<1> QED
    BY <1>3, <1>4, <1>5, <1>6, <1>7, <1>8, <1>9 DEF Next

\* The slots, pointers and countdown words of blink.S behave as the plain sequence
\* of blinking characters of Blinkers, in any order of calls and ticks.
THEOREM ListImplementsBlinkers == Spec => ImplementsBlinkers
<1>1. Init => Abstract!Init
  <2> SUFFICES ASSUME Init PROVE Abstract!Init
      OBVIOUS
  <2>1. /\ ListInv /\ vmem = [l \in 0 .. NumCells - 1 |-> NUL]
        /\ blink_array = [s \in Slots |-> Zeroed]
      BY InitIInv DEF IInv, Init, BlinkInit
  <2>2. Range(Chain) = {}
    <3>1. \A s \in Slots : blink_array[s].location = 0
        BY <2>1 DEF Zeroed
    <3> QED
        BY <2>1, <3>1, Used
  <2>3. Len(Chain) = 0
    <3>1. Chain \in Seq(Slots) /\ Len(Chain) \in Nat
        BY <2>1, Used
    <3>2. Len(Chain) # 0 => Chain[1] \in Range(Chain)
        BY <3>1 DEF Range
    <3> QED
        BY <2>2, <3>2
  <2>4. Items = <<>>
      BY <2>1, <2>3, ItemsNow
  <2>5. vmem \in [0 .. NumCells - 1 -> {"nul"}]
      BY <2>1 DEF NUL
  <2> QED
      BY <2>4, <2>5 DEF Abstract!Init
<1>2. IInv /\ [Next]_vars => [Abstract!Next]_(Abstract!vars)
    BY StepRefines
<1> QED
    BY <1>1, <1>2, Inductive, PTL DEF Spec, ImplementsBlinkers, Abstract!Spec
=============================================================================
