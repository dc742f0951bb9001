------------------------------ MODULE Blinkers ------------------------------
(***************************************************************************)
(* What the blink list promises, without slots, pointers or countdown      *)
(* words: a sequence of blinking characters, the newest first.  An item    *)
(* knows how many ticks its phase still lasts; a phase whose length, read  *)
(* as a signed word, is not positive lasts one tick.                       *)
(***************************************************************************)
EXTENDS Integers, SequencesExt

CONSTANTS NumCells, Capacity, WORD

VARIABLES items, vmem

vars == <<items, vmem>>

Lasts(len) == IF len = 0 \/ len > WORD \div 2 THEN 1 ELSE len

\* Calls name an item by its location and mean the newest one there.
Newest(n) == \A m \in 1 .. n - 1 : items[m].location # items[n].location

Shown(i) == IF i.on THEN i.on_char ELSE i.off_char

Init == items = <<>> /\ vmem \in [0 .. NumCells - 1 -> {"nul"}]

\* An item appears, shown at once; only a full list or a bad location prevents it.
Add(u) ==
    /\ u.location < NumCells /\ Len(items) < Capacity
    /\ u.on /\ u.left = Lasts(u.on_length)
    /\ items' = <<u>> \o items
    /\ vmem' = [vmem EXCEPT ![u.location] = u.on_char]

Delete(n) ==
    /\ Newest(n)
    /\ items' = RemoveAt(items, n)
    /\ UNCHANGED vmem

\* Item m goes on in step with item n.  Until it changes next, its cell shows one
\* of its characters.
Sync(n, m) ==
    /\ Newest(n) /\ Newest(m)
    /\ items' = [items EXCEPT ![m].on_length  = items[n].on_length,
                              ![m].off_length = items[n].off_length,
                              ![m].left       = items[n].left,
                              ![m].on         = items[n].on]
    /\ \E ch \in {items[m].on_char, items[m].off_char} :
          vmem' = [vmem EXCEPT ![items[m].location] = ch]

Aged(i) ==
    IF i.left > 1 THEN [i EXCEPT !.left = @ - 1]
    ELSE [i EXCEPT !.on = ~@,
                   !.left = Lasts(IF i.on THEN i.off_length ELSE i.on_length)]

\* All items age together; where one changes its cell shows the new phase.  Of
\* two that share a cell and change together the older one is seen.
Tick ==
    /\ items' = [n \in DOMAIN items |-> Aged(items[n])]
    /\ vmem' = [l \in DOMAIN vmem |->
                  LET changing == {n \in DOMAIN items :
                                     items[n].location = l /\ items[n].left = 1}
                  IN  IF changing = {} THEN vmem[l]
                      ELSE Shown(Aged(items[CHOOSE n \in changing :
                                             \A m \in changing : m <= n]))]

Next ==
    \/ Tick
    \/ items' # <<>> /\ Add(Head(items'))
    \/ \E n \in DOMAIN items : Delete(n)
    \/ \E n, m \in DOMAIN items : Sync(n, m)

Spec == Init /\ [][Next]_vars
=============================================================================
