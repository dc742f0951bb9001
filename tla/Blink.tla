-------------------------------- MODULE Blink --------------------------------
(***************************************************************************)
(* The list of blinking characters of fish/blink.S, with the allocator     *)
(* that fish/fish.c gives it.                                              *)
(*                                                                         *)
(* Items live in the array blink_array, chained by their next field from   *)
(* mp1_list_head.  A slot is free when its location is 0: the allocator    *)
(* has no other mark.  A pointer is the number of a slot, or NULL.  Of     *)
(* video memory only the character bytes are kept, which is all that       *)
(* mp1_poke writes.  One call of mp1_ioctl or of mp1_rtc_tasklet is one    *)
(* action: the program is single-threaded.                                 *)
(***************************************************************************)
EXTENDS Integers, SequencesExt

CONSTANTS
    NumCells,  \* cells of the screen (80 * 25)
    NumSlots,  \* size of blink_array (80 * 25)
    WORD       \* 2^16: countdown and location are words

ASSUME BlinkAssumption ==
    /\ NumCells \in Nat \ {0} /\ NumSlots \in Nat
    /\ WORD \in Nat /\ WORD % 2 = 0 /\ NumCells < WORD \div 2

VARIABLES
    blink_array, mp1_list_head,
    vmem                          \* characters at vmem_base_addr

list == <<blink_array, mp1_list_head, vmem>>

NULL  == 0
Slots == 1 .. NumSlots
NUL   == "nul"

\* What memset leaves in a slot: mp1_free, and main for the whole array.
Zeroed == [location |-> 0, on_char |-> NUL, off_char |-> NUL, on_length |-> 0,
           off_length |-> 0, countdown |-> 0, status |-> 0, next |-> NULL]

BlinkInit ==
    /\ blink_array = [s \in Slots |-> Zeroed]
    /\ mp1_list_head = NULL
    /\ vmem = [l \in 0 .. NumCells - 1 |-> NUL]

-----------------------------------------------------------------------------
(* Helpers *)

\* The slots that are met by following next from the head.
Nodes(array, head) ==
    LET node[n \in Slots] ==
            IF n = 1 THEN head
            ELSE LET before == node[n - 1] IN
                 IF before = NULL THEN NULL ELSE array[before].next
    IN  [n \in 1 .. Cardinality({m \in Slots : node[m] # NULL}) |-> node[n]]

Chain == Nodes(blink_array, mp1_list_head)

mp1_find_helper(l) ==
    LET chain == Chain
        n == SelectInSeq(chain, LAMBDA s : blink_array[s].location = l % WORD)
    IN  IF n = 0 THEN NULL ELSE chain[n]

mp1_malloc ==
    LET free == {s \in Slots : blink_array[s].location = 0}
    IN  IF free = {} THEN NULL ELSE CHOOSE s \in free : \A t \in free : s <= t

\* The value of a word as a signed number is at most 0.
Expired(c) == c = 0 \/ c >= WORD \div 2

\* decw and the test that follows it: does the item change on this tick?
Toggles(b) == Expired((b.countdown - 1) % WORD)

\* Mutant: the new phase is counted with the length of the old one.
Ticked_OldLength(b) ==
    IF Toggles(b)
    THEN [b EXCEPT !.status = 1 - @,
                   !.countdown = IF b.status = 1 THEN b.on_length ELSE b.off_length]
    ELSE [b EXCEPT !.countdown = (@ - 1) % WORD]

\* An item after one tick.
Ticked(b) ==
    IF Toggles(b)
    THEN [b EXCEPT !.status = 1 - @,
                   !.countdown = IF b.status = 1 THEN b.off_length ELSE b.on_length]
    ELSE [b EXCEPT !.countdown = (@ - 1) % WORD]

\* The pokes of a tasklet that walks the nodes in this order: in each cell the
\* last one stays.
Poked(nodes) ==
    [l \in DOMAIN vmem |->
        LET n == SelectLastInSeq(nodes, LAMBDA s : /\ blink_array[s].location = l
                                                   /\ Toggles(blink_array[s]))
            b == blink_array[nodes[n]]
        IN  IF n = 0 THEN vmem[l]
            ELSE IF b.status = 1 THEN b.off_char ELSE b.on_char]

-----------------------------------------------------------------------------
(* Operations *)

mp1_rtc_tasklet ==
    LET chain == Chain IN
    /\ blink_array' = [s \in Slots |->
           IF s \in Range(chain) THEN Ticked(blink_array[s]) ELSE blink_array[s]]
    /\ vmem' = Poked(chain)
    /\ UNCHANGED mp1_list_head

\* RTC_ADD with the caller's structure u; a bad location or a full array: -1
mp1_ioctl_add(u) ==
    IF u.location >= NumCells \/ mp1_malloc = NULL
    THEN UNCHANGED list
    ELSE /\ blink_array' =
                [blink_array EXCEPT ![mp1_malloc] =
                    [location |-> u.location, on_char |-> u.on_char,
                     off_char |-> u.off_char, on_length |-> u.on_length,
                     off_length |-> u.off_length, countdown |-> u.on_length,
                     status |-> 1, next |-> mp1_list_head]]
         /\ mp1_list_head' = mp1_malloc
         /\ vmem' = [vmem EXCEPT ![u.location] = u.on_char]

\* The array after found_prev and mp1_free.
Unlinked(e) ==
    [s \in Slots |-> IF s = e THEN Zeroed
                     ELSE IF blink_array[s].next = e
                     THEN [blink_array[s] EXCEPT !.next = blink_array[e].next]
                     ELSE blink_array[s]]

\* RTC_REMOVE; -1 when nothing blinks at l
mp1_ioctl_remove(l) ==
    LET e == mp1_find_helper(l) IN
    IF e = NULL THEN UNCHANGED list
    ELSE /\ blink_array' = Unlinked(e)
         /\ mp1_list_head' = IF mp1_list_head = e THEN blink_array[e].next
                                                  ELSE mp1_list_head
         /\ UNCHANGED vmem

\* RTC_SYNC: the item at `to' gets the timing of the item at `from'.  The
\* flags of testb are never "less", so cmovl leaves off_char to be shown.
mp1_ioctl_sync(from, to) ==
    LET src == mp1_find_helper(from)
        dst == mp1_find_helper(to)
    IN  IF src = NULL \/ dst = NULL THEN UNCHANGED list
        ELSE /\ blink_array' =
                    [blink_array EXCEPT
                        ![dst].on_length  = blink_array[src].on_length,
                        ![dst].off_length = blink_array[src].off_length,
                        ![dst].countdown  = blink_array[src].countdown,
                        ![dst].status     = blink_array[src].status]
             /\ vmem' = [vmem EXCEPT ![blink_array[dst].location] =
                                        blink_array[dst].off_char]
             /\ UNCHANGED mp1_list_head

-----------------------------------------------------------------------------
(* Properties *)

\* mp1_free and mp1_malloc agree with the list: following next from the head
\* ends, meets no slot twice, and meets exactly the slots that are not marked
\* free, so that nothing is handed out while it is linked and nothing leaks.
\* This depends on no caller ever blinking at location 0.
PoolSound ==
    /\ IsInjective(Chain)
    /\ Range(Chain) = {s \in Slots : blink_array[s].location # 0}
    /\ Chain # <<>> => blink_array[Last(Chain)].next = NULL
=============================================================================
