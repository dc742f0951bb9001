-------------------------------- MODULE Fish --------------------------------
(***************************************************************************)
(* The program fish/fish.c around the list of blink.S: add_frames merges   *)
(* two text files, line by line and column by column, into blinking        *)
(* characters; then main lets the list run, one tasklet per tick of the    *)
(* clock, and adds, synchronises and removes items in between.             *)
(*                                                                         *)
(* main makes these calls in a fixed order after fixed numbers of ticks.   *)
(* Here they come in any order and with any location in Locations; main's  *)
(* script is one of the behaviours.                                        *)
(*                                                                         *)
(* ece391_read is a call of the kernel, which is external: on a file that  *)
(* is open it returns a byte or, at the end, 0.  add_frames relies on that *)
(* and has no branch for -1, which it would take for a byte read.          *)
(***************************************************************************)
EXTENDS Blink, FiniteSets

CONSTANTS
    Columns, Offset,   \* 80, 40
    FrameLength,       \* on_length and off_length of every frame character (15)
    Texts0, Texts1,    \* possible contents of frame0.txt and frame1.txt
    Extra,             \* structures main passes to RTC_ADD
    Locations,         \* locations main passes to RTC_SYNC and RTC_REMOVE
    MaxCalls           \* bound: ioctl calls after add_frames

NL    == "newline"
Space == " "

\* main's structures and locations; a frame is short enough for the array and
\* for a location to be a word (the two files have 361 characters together).
ASSUME FishAssumption ==
    /\ Offset \in Nat \ {0} /\ Columns \in Nat \ {0}
    /\ FrameLength \in 0 .. WORD - 1
    /\ \A u \in Extra : /\ u.location \in 1 .. WORD - 1
                        /\ u.on_length \in 0 .. WORD - 1
                        /\ u.off_length \in 0 .. WORD - 1
    /\ Locations \subseteq Nat
    /\ \A t \in Texts0 \cup Texts1 : t \in Seq(Range(t))
    /\ \A t0 \in Texts0, t1 \in Texts1 :
          LET n == Len(t0) + Len(t1)
          IN  n <= NumSlots /\ n * (Columns + 1) + Offset < WORD

VARIABLES
    pc, calls,
    files,             \* contents of the two files
    text,              \* what is left to read of each
    c, eof,            \* c0, c1; eof0, eof1
    row, col

reader == <<files, text, c, eof, row, col>>
vars   == <<list, pc, calls, reader>>

Init ==
    /\ BlinkInit
    /\ pc = "start" /\ calls = 0
    /\ \E t0 \in Texts0, t1 \in Texts1 : files = <<t0, t1>>
    /\ text = files
    /\ c = <<"0", "0">> /\ eof = <<0, 0>>
    /\ row = 0 /\ col = 0

-----------------------------------------------------------------------------
(* add_frames *)

\* Video memory is mapped and both files are opened; if one of these fails main
\* returns or the program is halted, with nothing on the list.
Start ==
    /\ pc = "start" /\ pc' \in {"frames", "halted"}
    /\ UNCHANGED <<list, calls, reader>>

\* Mutant: a file that has ended its line is read on.
Char_NoWait(f) == IF text[f] = <<>> THEN NL ELSE Head(text[f])

\* c0 or c1 after the read of one column: a file whose line has ended waits for
\* the other one's, and the end of a file ends its line.
Char(f) == IF c[f] = NL \/ text[f] = <<>> THEN NL ELSE Head(text[f])

ReadColumn ==
    /\ text' = [f \in 1 .. 2 |-> IF c[f] = NL \/ text[f] = <<>> THEN text[f]
                                                              ELSE Tail(text[f])]
    /\ eof' = [f \in 1 .. 2 |-> IF c[f] # NL /\ text[f] = <<>> THEN 1 ELSE eof[f]]

\* Mutant: frames start in the first cell of the screen.
Location_NoOffset == row * Columns + col

Location == (row * Columns + col + Offset) % WORD

Seen(ch) == IF ch = NL THEN Space ELSE ch

\* A column in which at least one line goes on.
Column ==
    /\ pc = "frames" /\ <<Char(1), Char(2)>> # <<NL, NL>>
    /\ ReadColumn
    /\ c' = <<Char(1), Char(2)>>
    /\ col' = col + 1
    /\ IF {Char(1), Char(2)} \subseteq {Space, NL} THEN UNCHANGED list
       ELSE mp1_ioctl_add([location |-> Location,
                           on_char |-> Seen(Char(1)), off_char |-> Seen(Char(2)),
                           on_length |-> FrameLength, off_length |-> FrameLength])
    /\ UNCHANGED <<pc, calls, files, row>>

\* Both lines have ended; a file at its end only has empty lines from now on.
EndRow ==
    /\ pc = "frames" /\ <<Char(1), Char(2)>> = <<NL, NL>>
    /\ ReadColumn
    /\ c' = [f \in 1 .. 2 |-> IF eof'[f] = 1 THEN NL ELSE "0"]
    /\ row' = row + 1 /\ col' = 0
    /\ pc' = IF eof' = <<1, 1>> THEN "rate" ELSE "frames"
    /\ UNCHANGED <<list, calls, files>>

-----------------------------------------------------------------------------
(* main *)

\* The clock is set; the files are no longer needed.
SetRate ==
    /\ pc = "rate" /\ pc' = "show"
    /\ files' = <<<<>>, <<>>>> /\ row' = 0
    /\ UNCHANGED <<list, calls, text, c, eof, col>>

\* ece391_read(rtc_fd) returns and the tasklet is called.
Tick == pc = "show" /\ mp1_rtc_tasklet /\ UNCHANGED <<pc, calls, reader>>

Ioctl ==
    /\ pc = "show" /\ calls < MaxCalls
    /\ calls' = calls + 1
    /\ \/ \E u \in Extra : mp1_ioctl_add(u)
       \/ \E from, to \in Locations : mp1_ioctl_sync(from, to)
       \/ \E l \in Locations : mp1_ioctl_remove(l)
    /\ UNCHANGED <<pc, reader>>

\* main stops after some tick; from then on nothing changes.
Next == Start \/ Column \/ EndRow \/ SetRate \/ Tick \/ Ioctl

Spec == Init /\ [][Next]_vars

-----------------------------------------------------------------------------
(* Properties *)

\* The place of character p of a text: its line and its column.
Place(t, p) ==
    LET breaks == {q \in 1 .. p - 1 : t[q] = NL}
    IN  <<Cardinality(breaks), p - 1 - (IF breaks = {} THEN 0 ELSE Max(breaks))>>

\* The character a text has at a place, a space where its line is shorter.
CharAt(t, place) ==
    LET here == {p \in DOMAIN t : t[p] # NL /\ Place(t, p) = place}
    IN  IF here = {} THEN Space ELSE t[CHOOSE p \in here : TRUE]

\* The places of the screen where at least one text has something to show.
Inked ==
    {pl \in UNION {{Place(files[f], p) : p \in DOMAIN files[f]} : f \in 1 .. 2} :
        /\ <<CharAt(files[1], pl), CharAt(files[2], pl)>> # <<Space, Space>>
        /\ pl[1] * Columns + pl[2] + Offset < NumCells}

\* However the two files are cut into lines, and whichever ends first, add_frames
\* leaves exactly one item for every place where a frame has a character, with
\* the characters of the two frames at that place.
FramesListed ==
    pc = "rate" =>
        /\ Len(Chain) = Cardinality(Inked)
        /\ {<<b.location, b.on_char, b.off_char>> :
                b \in {blink_array[s] : s \in Range(Chain)}}
             = {<<pl[1] * Columns + pl[2] + Offset,
                  CharAt(files[1], pl), CharAt(files[2], pl)>> : pl \in Inked}

Listed(b) ==
    [location |-> b.location, on_char |-> b.on_char, off_char |-> b.off_char,
     on_length |-> b.on_length, off_length |-> b.off_length,
     left |-> IF Toggles(b) THEN 1 ELSE b.countdown, on |-> b.status = 1]

Items == LET chain == Chain
         IN  [n \in 1 .. Len(chain) |-> Listed(blink_array[chain[n]])]

Abstract ==
    INSTANCE Blinkers WITH
        items <- Items,
        Capacity <- NumSlots

\* The slots, pointers and countdown words of blink.S implement the plain
\* sequence of blinking characters: every call and every tick does to the list
\* and to the screen what Blinkers says, in any order of calls.
ImplementsBlinkers == Abstract!Spec
=============================================================================
