------------------------------ MODULE Terminal ------------------------------
(***************************************************************************)
(* The line terminal of the kernel: student-distrib/terminal.c, the        *)
(* keyboard interrupt handler of idthandlers.c that feeds it, and the read *)
(* loop of kernel.c that consumes it.                                      *)
(*                                                                         *)
(* Two activities share the file-scope variables of terminal.c.  The main  *)
(* thread (the loop of entry()) executes one statement per step.  The      *)
(* keyboard handler runs with interrupts disabled from its first line to   *)
(* its last, so one interrupt is one step, and it may come between any two *)
(* statements of the main thread.                                          *)
(***************************************************************************)
EXTENDS Integers, Sequences

CONSTANTS
    TypedSize,    \* length of typed[]                          (1024)
    LineLimit,    \* line_pos at which printable keys are refused (10)
    ReadCnt,      \* cnt the main loop passes to terminal_read  (1024)
    Printable,    \* the characters a key can type
    LetterL,      \* 'l', the one ctrl acts on
    CharKeys,     \* scancodes below 0x80 that reach the tables
    chars,        \* the unshifted table
    shift_chars,  \* the shifted table
    Ctrls,        \* physical keys that send 0x1D / 0x9D
    Shifts        \* physical keys that send 0x2A, 0x36 / 0xAA, 0xB6

NUL == "NUL"   \* table entry 0: not a character
BS  == "BS"    \* '\b'
NL  == "NL"    \* '\n'

Codes == Printable \cup {NUL, BS, NL}

ASSUME SizeAssumption ==
    /\ TypedSize \in Nat /\ LineLimit \in Nat /\ ReadCnt \in Nat
    /\ 0 < LineLimit /\ LineLimit < TypedSize /\ LineLimit < ReadCnt

ASSUME TableAssumption ==
    /\ NUL \notin Printable /\ BS \notin Printable /\ NL \notin Printable
    /\ LetterL \in Printable
    /\ chars \in [CharKeys -> Codes]
    /\ shift_chars \in [CharKeys -> Codes]
    /\ \A k \in CharKeys : shift_chars[k] # LetterL

ASSUME ModifierAssumption == Ctrls \cap Shifts = {}

VARIABLES
    typed, line_pos, enter_pressed, shift, caps_lock, ctrl, reading,
    pc,        \* next statement of the main thread
    buf,       \* the main loop's line buffer
    rtn_cnt,   \* characters terminal_read has copied
    held,      \* modifier keys that are physically down
    echo,      \* ghost: what this read has echoed after the prompt
    raced      \* ghost: 1 once a key hit terminal_read's initialisation

flags    == <<enter_pressed, shift, caps_lock, ctrl, reading>>
mainVars == <<pc, buf, rtn_cnt>>
vars     == <<typed, line_pos, flags, mainVars, held, echo, raced>>

Modifiers == Ctrls \cup Shifts
Slots     == 0 .. TypedSize - 1
BufSlots  == 0 .. ReadCnt - 1

\* The statements of the main thread, in program order.
PrintPCs == {"prompt", "typed"}
ReadPCs  == {"reading", "line_pos", "enter_pressed", "wait", "copy"}
PCs      == PrintPCs \cup ReadPCs

(***************************************************************************)
(* terminal_open runs once, before the main loop; enter_pressed, typed and *)
(* the rest of the file-scope data start as zeroes.                        *)
(***************************************************************************)
Init ==
    /\ typed = [i \in Slots |-> NUL]
    /\ line_pos = 0
    /\ enter_pressed = 0 /\ shift = 0 /\ caps_lock = 0 /\ ctrl = 0
    /\ reading = 0
    /\ pc = "prompt"
    /\ buf = [i \in BufSlots |-> NUL]
    /\ rtn_cnt = 0
    /\ held = {}
    /\ echo = <<>>
    /\ raced = 0

-----------------------------------------------------------------------------
(* The main thread: kernel.c's loop and terminal_read. *)

Goto(from, to) == pc = from /\ pc' = to

\* printf("Reading-> ")
PrintPrompt ==
    /\ Goto("prompt", "reading")
    /\ UNCHANGED <<typed, line_pos, flags, buf, rtn_cnt, held, echo, raced>>

\* reading = 1: from here on the handler accepts keys
SetReading ==
    /\ Goto("reading", "line_pos")
    /\ reading' = 1
    /\ echo' = <<>>
    /\ raced' = 0
    /\ UNCHANGED <<typed, line_pos, enter_pressed, shift, caps_lock, ctrl,
                   buf, rtn_cnt, held>>

\* line_pos = 0
ResetLinePos ==
    /\ Goto("line_pos", "enter_pressed")
    /\ line_pos' = 0
    /\ UNCHANGED <<typed, flags, buf, rtn_cnt, held, echo, raced>>

\* enter_pressed = 0
ResetEnter ==
    /\ Goto("enter_pressed", "wait")
    /\ enter_pressed' = 0
    /\ UNCHANGED <<typed, line_pos, shift, caps_lock, ctrl, reading,
                   buf, rtn_cnt, held, echo, raced>>

\* while(!enter_pressed) {} falls through; rtn_cnt = 0
EnterSeen ==
    /\ Goto("wait", "copy")
    /\ enter_pressed = 1
    /\ rtn_cnt' = 0
    /\ UNCHANGED <<typed, line_pos, flags, buf, held, echo, raced>>

MoreToCopy == typed[rtn_cnt] # NL /\ rtn_cnt < ReadCnt

\* one turn of the copy loop
CopyChar ==
    /\ Goto("copy", "copy")
    /\ MoreToCopy
    /\ buf' = [buf EXCEPT ![rtn_cnt] = typed[rtn_cnt]]
    /\ rtn_cnt' = rtn_cnt + 1
    /\ UNCHANGED <<typed, line_pos, flags, held, echo, raced>>

\* return rtn_cnt; buf[cnt] = '\0'
ReadReturn ==
    /\ Goto("copy", "typed")
    /\ ~MoreToCopy
    /\ buf' = [buf EXCEPT ![rtn_cnt] = NUL]
    /\ UNCHANGED <<typed, line_pos, flags, rtn_cnt, held, echo, raced>>

\* puts("Typed:    "); puts(buf); putc('\n')
PrintTyped ==
    /\ Goto("typed", "prompt")
    /\ UNCHANGED <<typed, line_pos, flags, buf, rtn_cnt, held, echo, raced>>

Main == \/ PrintPrompt \/ SetReading \/ ResetLinePos \/ ResetEnter
        \/ EnterSeen \/ CopyChar \/ ReadReturn \/ PrintTyped

-----------------------------------------------------------------------------
(* keyboard_input, called by the keyboard interrupt handler. *)

\* The table lookup for a key press.
kbd_data(k) == IF shift = 1 \/ caps_lock = 1 THEN shift_chars[k] ELSE chars[k]

\* The same lookup with the release bit of the scancode set runs off the end of
\* the 128-entry table: past chars[] the image holds shift_chars[], past
\* shift_chars[] it holds zeroes.
released_data(k) == IF shift = 1 \/ caps_lock = 1 THEN NUL ELSE shift_chars[k]

\* Mutants: backspace on an empty line; Enter taken while ctrl is down; a line
\* one character too long.
ScreenCall_NoEmptyCheck(c) ==
    IF ctrl = 1 /\ c = LetterL THEN "clear"
    ELSE IF ctrl = 0 /\ c = BS THEN "erase"
    ELSE IF ctrl = 0 /\ c = NL THEN "newline"
    ELSE IF ctrl = 0 /\ c \in Printable /\ line_pos < LineLimit THEN "put"
    ELSE "none"
ScreenCall_CtrlEnter(c) ==
    IF ctrl = 1 /\ c = LetterL THEN "clear"
    ELSE IF ctrl = 0 /\ c = BS /\ line_pos > 0 THEN "erase"
    ELSE IF c = NL THEN "newline"
    ELSE IF ctrl = 0 /\ c \in Printable /\ line_pos < LineLimit THEN "put"
    ELSE "none"
ScreenCall_LongLine(c) ==
    IF ctrl = 1 /\ c = LetterL THEN "clear"
    ELSE IF ctrl = 0 /\ c = BS /\ line_pos > 0 THEN "erase"
    ELSE IF ctrl = 0 /\ c = NL THEN "newline"
    ELSE IF ctrl = 0 /\ c \in Printable /\ line_pos <= LineLimit THEN "put"
    ELSE "none"

\* What the handler calls in lib.c for a table key, in the current state.
\* (The cursor and colour keys call scroll and the colour functions.)
ScreenCall(c) ==
    IF ctrl = 1 /\ c = LetterL THEN "clear"
    ELSE IF ctrl = 0 /\ c = BS /\ line_pos > 0 THEN "erase"
    ELSE IF ctrl = 0 /\ c = NL THEN "newline"
    ELSE IF ctrl = 0 /\ c \in Printable /\ line_pos < LineLimit THEN "put"
    ELSE "none"

\* The echoed line after that call.  A backspace that finds it empty has run
\* into the prompt.
EchoAfter(c) ==
    IF ScreenCall(c) = "clear" THEN <<>>
    ELSE IF ScreenCall(c) = "erase" /\ echo # <<>>
         THEN SubSeq(echo, 1, Len(echo) - 1)
    ELSE IF ScreenCall(c) = "put" THEN Append(echo, c)
    ELSE echo

\* A key that edits the line before line_pos is reset, or an Enter before
\* enter_pressed is reset, interferes with terminal_read's initialisation.
Interferes(c) ==
    \/ pc = "line_pos" /\ ScreenCall(c) \in {"erase", "put", "newline"}
    \/ pc = "enter_pressed" /\ ScreenCall(c) = "newline"

\* Mutant: clear forgets the line.
LinePosAfter_ClearKeeps(c) ==
    IF ScreenCall(c) = "erase" THEN line_pos - 1
    ELSE IF ScreenCall(c) = "put" THEN line_pos + 1
    ELSE line_pos

\* The line's variables after that call.
LinePosAfter(c) ==
    IF ScreenCall(c) = "clear" THEN 0
    ELSE IF ScreenCall(c) = "erase" THEN line_pos - 1
    ELSE IF ScreenCall(c) = "put" THEN line_pos + 1
    ELSE line_pos

\* Mutant: Enter does not terminate the line.
TypedAfter_NoTerminator(c) ==
    IF ScreenCall(c) = "put" THEN [typed EXCEPT ![line_pos] = c] ELSE typed

TypedAfter(c) ==
    IF ScreenCall(c) \in {"put", "newline"}
    THEN [typed EXCEPT ![line_pos] = c] ELSE typed

\* Mutant: Enter leaves reading set.
ReadingAfter_Kept(c) == 1

ReadingAfter(c) == IF ScreenCall(c) = "newline" THEN 0 ELSE 1

\* Mutant: Enter is not reported to the waiting read.
EnterAfter_Unset(c) == enter_pressed

EnterAfter(c) == IF ScreenCall(c) = "newline" THEN 1 ELSE enter_pressed

\* A key that reaches the tables is pressed (or repeats).
CharKey(k) ==
    LET c == kbd_data(k)
    IN  /\ reading = 1
        /\ line_pos' = LinePosAfter(c)
        /\ typed' = TypedAfter(c)
        /\ reading' = ReadingAfter(c)
        /\ enter_pressed' = EnterAfter(c)
        /\ echo' = EchoAfter(c)
        /\ raced' = IF Interferes(c) THEN 1 ELSE raced
        /\ UNCHANGED <<shift, caps_lock, ctrl, mainVars, held>>

\* A key that reaches the tables is released: only ctrl looks at the character.
CharKeyReleased(k) ==
    LET clears == ctrl = 1 /\ released_data(k) = LetterL
    IN  /\ reading = 1
        /\ line_pos' = IF clears THEN 0 ELSE line_pos
        /\ echo' = IF clears THEN <<>> ELSE echo
        /\ UNCHANGED <<typed, flags, mainVars, held, raced>>

\* Cursor keys, Page Up, Page Down, F7, F8: the screen changes, the line does
\* not.
ViewKey ==
    /\ reading = 1
    /\ UNCHANGED vars

CapsLock ==
    /\ reading = 1
    /\ caps_lock' = 1 - caps_lock
    /\ UNCHANGED <<typed, line_pos, enter_pressed, shift, ctrl, reading,
                   mainVars, held, echo, raced>>

\* The keyboard reports a modifier going down or coming up whatever the kernel
\* does; the handler drops the report unless reading = 1.
CtrlPressed(m) ==
    /\ held' = held \cup {m}
    /\ ctrl' = IF reading = 1 THEN 1 ELSE ctrl
    /\ UNCHANGED <<typed, line_pos, enter_pressed, shift, caps_lock, reading,
                   mainVars, echo, raced>>

CtrlReleased(m) ==
    /\ m \in held
    /\ held' = held \ {m}
    /\ ctrl' = IF reading = 1 THEN 0 ELSE ctrl
    /\ UNCHANGED <<typed, line_pos, enter_pressed, shift, caps_lock, reading,
                   mainVars, echo, raced>>

ShiftPressed(m) ==
    /\ held' = held \cup {m}
    /\ shift' = IF reading = 1 THEN 1 ELSE shift
    /\ UNCHANGED <<typed, line_pos, enter_pressed, caps_lock, ctrl, reading,
                   mainVars, echo, raced>>

ShiftReleased(m) ==
    /\ m \in held
    /\ held' = held \ {m}
    /\ shift' = IF reading = 1 THEN 0 ELSE shift
    /\ UNCHANGED <<typed, line_pos, enter_pressed, caps_lock, ctrl, reading,
                   mainVars, echo, raced>>

\* Every other scancode that arrives while no read is running is dropped.
Dropped ==
    /\ reading = 0
    /\ UNCHANGED vars

Keyboard ==
    \/ \E k \in CharKeys : CharKey(k) \/ CharKeyReleased(k)
    \/ \E m \in Ctrls  : CtrlPressed(m) \/ CtrlReleased(m)
    \/ \E m \in Shifts : ShiftPressed(m) \/ ShiftReleased(m)
    \/ CapsLock \/ ViewKey \/ Dropped

Next == Main \/ Keyboard

Spec == Init /\ [][Next]_vars

(***************************************************************************)
(* The main thread keeps running: nothing but the handlers preempts it.    *)
(* The user keeps pressing Enter and lets go of ctrl in the end.           *)
(***************************************************************************)
PressEnter == \E k \in CharKeys : CharKey(k) /\ ScreenCall(kbd_data(k)) = "newline"

Fairness ==
    /\ WF_vars(Main)
    /\ SF_vars(PressEnter)
    /\ \A m \in Ctrls : WF_vars(CtrlReleased(m))

FairSpec == Spec /\ Fairness

-----------------------------------------------------------------------------
(* Properties *)

\* Every variable stays in its domain; line_pos in particular never leaves the
\* part of typed[] that keyboard_input may write.
TypeOK ==
    /\ typed \in [Slots -> Codes]
    /\ line_pos \in 0 .. LineLimit
    /\ enter_pressed \in 0 .. 1 /\ shift \in 0 .. 1 /\ caps_lock \in 0 .. 1
    /\ ctrl \in 0 .. 1 /\ reading \in 0 .. 1
    /\ pc \in PCs
    /\ buf \in [BufSlots -> Codes]
    /\ rtn_cnt \in 0 .. LineLimit
    /\ held \in SUBSET Modifiers
    /\ echo \in Seq(Printable)
    /\ raced \in 0 .. 1

\* terminal_read's copy loop, which looks for the newline before it compares
\* rtn_cnt with cnt, always has one ahead of it: whatever was typed, erased,
\* cleared or left over from longer lines, it stops within the line limit.
CopyStops ==
    pc = "copy" => \E i \in rtn_cnt .. LineLimit : typed[i] = NL

\* lib.c's cursor and video memory have no lock.  What keeps the main thread's
\* printf and puts apart from the handler's putc, scroll and clear is reading:
\* it is 0 whenever the main thread is about to print.
ScreenExclusion == pc \in PrintPCs => reading = 0

\* The line terminal_read copies cannot change under it: typed is constant from
\* the Enter that ends the wait until the copy is finished.
LineStableWhileCopied ==
    [][pc = "copy" => typed' = typed /\ line_pos' = line_pos]_vars

\* ctrl is never stuck: when it is set a ctrl key is down, although the handler
\* drops every release that comes while no read runs (an Enter that would stop
\* the read is itself ignored while ctrl is set).
CtrlIsHeld == ctrl = 1 => held \cap Ctrls # {}

\* What terminal_read returns is what the user saw echoed after the prompt,
\* unless a key interfered with its initialisation.
ReadReturnsEcho ==
    pc = "typed" /\ raced = 0 =>
        /\ rtn_cnt = Len(echo)
        /\ \A i \in 1 .. rtn_cnt : buf[i - 1] = echo[i]
        /\ buf[rtn_cnt] = NUL

\* The wait can only be left hanging (no Enter recorded, and reading = 0 so
\* that every further key is dropped) by a key that interfered with
\* terminal_read's initialisation.
OnlyRaceHangs ==
    pc = "wait" /\ enter_pressed = 0 /\ reading = 0 => raced = 1

\* Every read that waits with keys accepted returns, in spite of any editing,
\* ctrl and shift keys, if the user keeps pressing Enter.
ReadReturns == (pc = "wait" /\ reading = 1) ~> (pc = "typed")

(* What the comments of terminal.c say, and the code does not do. *)

\* terminal.c:18: reading is "1 if read fn. is running, 0 otherwise".  Stated
\* for the wait, where keys are needed to get on.
ReadingWhileWaiting == pc = "wait" /\ enter_pressed = 0 => reading = 1

=============================================================================
