--------------------------- MODULE TerminalProofs ---------------------------
(***************************************************************************)
(* Proofs about Terminal, for every buffer size, line limit, keyboard      *)
(* table and set of modifier keys that satisfies its assumptions.          *)
(***************************************************************************)
EXTENDS Terminal, SequenceTheorems, TLAPS

-----------------------------------------------------------------------------
(* The inductive invariant *)

\* Reading gates the handler: it is clear before the read begins, while the
\* line is copied and while the main thread prints.
Gate == pc \in {"prompt", "reading", "copy", "typed"} => reading = 0

\* ctrl is only ever set while a read accepts keys, and then a ctrl key is down.
CtrlInv ==
    /\ reading = 0 => ctrl = 0
    /\ ctrl = 1 => held \cap Ctrls # {}

\* Once line_pos was reset the slots below it hold printable characters.
LineInv ==
    pc \in {"enter_pressed", "wait", "copy", "typed"} =>
        \A i \in 0 .. line_pos - 1 : typed[i] \in Printable

\* The Enter that ends the wait has closed the gate and terminated the line.
EnterInv ==
    /\ pc = "wait" /\ enter_pressed = 1 => reading = 0 /\ typed[line_pos] = NL
    /\ pc \in {"copy", "typed"} => typed[line_pos] = NL

\* Without interference the echo is the line.
EchoInv ==
    raced = 0 =>
        /\ pc = "line_pos" => echo = <<>>
        /\ pc \in {"enter_pressed", "wait", "copy", "typed"} =>
              /\ Len(echo) = line_pos
              /\ \A i \in 1 .. line_pos : typed[i - 1] = echo[i]

\* The copy is a prefix of the line; when the read returns it is all of it.
CopyInv ==
    /\ pc \in {"copy", "typed"} =>
          /\ rtn_cnt <= line_pos
          /\ \A i \in 0 .. rtn_cnt - 1 : buf[i] = typed[i]
    /\ pc = "typed" => rtn_cnt = line_pos /\ buf[rtn_cnt] = NUL

\* A gate that closed without the read seeing an Enter means interference.
HangInv ==
    /\ pc \in {"line_pos", "enter_pressed"} /\ reading = 0 => raced = 1
    /\ pc = "wait" /\ reading = 0 /\ enter_pressed = 0 => raced = 1

IInv == /\ TypeOK /\ Gate /\ CtrlInv /\ LineInv /\ EnterInv /\ EchoInv
        /\ CopyInv /\ HangInv

-----------------------------------------------------------------------------
(* What a key does *)

\* The five things keyboard_input can do with a character of the tables, each
\* with the conditions under which the code reaches it.
LEMMA CallCases ==
    ASSUME TypeOK, NEW c \in Codes
    PROVE  \/ ScreenCall(c) = "clear" /\ ctrl = 1
           \/ ScreenCall(c) = "erase" /\ ctrl = 0 /\ line_pos > 0
           \/ ScreenCall(c) = "newline" /\ ctrl = 0 /\ c = NL
           \/ ScreenCall(c) = "put" /\ ctrl = 0 /\ c \in Printable
                                    /\ line_pos < LineLimit
           \/ ScreenCall(c) = "none"
BY DEF ScreenCall, TypeOK

\* The table lookup yields a character code.
LEMMA LookupType ==
    ASSUME NEW k \in CharKeys PROVE kbd_data(k) \in Codes
BY TableAssumption DEF kbd_data

-----------------------------------------------------------------------------
(* Init and the steps of the main thread *)

\* The file-scope variables start as zeroes, before the first prompt.
LEMMA InitIInv == Init => IInv
<1> SUFFICES ASSUME Init PROVE IInv
    OBVIOUS
<1>1. TypeOK
    BY SizeAssumption DEF Init, TypeOK, Codes, Slots, BufSlots, PCs, PrintPCs, ReadPCs
<1> QED
    BY <1>1 DEF Init, IInv, Gate, CtrlInv, LineInv, EnterInv, EchoInv, CopyInv, HangInv

\* The main thread's statements keep every variable in its domain ...
LEMMA MainTypeOK ==
    ASSUME IInv, Main PROVE TypeOK'
<1> USE SizeAssumption DEF IInv, TypeOK, Slots, BufSlots, PCs, PrintPCs, ReadPCs, Goto
<1>1. CASE PrintPrompt BY <1>1 DEF PrintPrompt, flags
<1>2. CASE SetReading BY <1>2 DEF SetReading
<1>3. CASE ResetLinePos BY <1>3 DEF ResetLinePos, flags
<1>4. CASE ResetEnter BY <1>4 DEF ResetEnter
<1>5. CASE EnterSeen BY <1>5 DEF EnterSeen, flags
<1>6. CASE CopyChar
  <2>1. rtn_cnt < line_pos
      BY <1>6 DEF CopyChar, MoreToCopy, CopyInv, EnterInv
  <2>2. typed[rtn_cnt] \in Codes
      BY <2>1
  <2>3. buf' \in [BufSlots -> Codes]
      BY <1>6, <2>2 DEF CopyChar
  <2> QED
      BY <1>6, <2>1, <2>3 DEF CopyChar, flags
<1>7. CASE ReadReturn
  <2>1. buf' \in [BufSlots -> Codes]
      BY <1>7 DEF ReadReturn, Codes
  <2> QED
      BY <1>7, <2>1 DEF ReadReturn, flags
<1>8. CASE PrintTyped BY <1>8 DEF PrintTyped, flags
<1> QED
    BY <1>1, <1>2, <1>3, <1>4, <1>5, <1>6, <1>7, <1>8 DEF Main

\* ... and preserve the rest of the invariant.
LEMMA MainIInv ==
    ASSUME IInv, Main PROVE IInv'
<1>0. TypeOK'
    BY MainTypeOK
<1> SUFFICES /\ Gate' /\ CtrlInv' /\ LineInv' /\ EnterInv' /\ EchoInv'
             /\ CopyInv' /\ HangInv'
    BY <1>0 DEF IInv
<1> USE SizeAssumption DEF IInv, TypeOK, Goto, Gate, CtrlInv, LineInv, EnterInv,
                           EchoInv, CopyInv, HangInv, flags
<1>1. CASE PrintPrompt BY <1>1 DEF PrintPrompt
<1>2. CASE SetReading BY <1>2 DEF SetReading
<1>3. CASE ResetLinePos BY <1>3 DEF ResetLinePos
<1>4. CASE ResetEnter BY <1>4 DEF ResetEnter
<1>5. CASE EnterSeen BY <1>5 DEF EnterSeen
<1>6. CASE CopyChar
  <2>1. rtn_cnt < line_pos
      BY <1>6 DEF CopyChar, MoreToCopy
  <2>2. \A i \in 0 .. rtn_cnt' - 1 : buf'[i] = typed'[i]
      BY <1>6, <2>1 DEF CopyChar, BufSlots
  <2> QED
      BY <1>6, <2>1, <2>2 DEF CopyChar
<1>7. CASE ReadReturn
  <2>1. rtn_cnt = line_pos
    <3>1. CASE rtn_cnt < line_pos
      <4>1. typed[rtn_cnt] \in Printable
          BY <1>7, <3>1 DEF ReadReturn
      <4> QED
          BY <1>7, <3>1, <4>1, TableAssumption DEF ReadReturn, MoreToCopy
    <3> QED
        BY <1>7, <3>1 DEF ReadReturn
  <2>2. \A i \in 0 .. rtn_cnt' - 1 : buf'[i] = typed'[i]
      BY <1>7, <2>1 DEF ReadReturn, BufSlots
  <2>3. buf'[rtn_cnt'] = NUL
      BY <1>7 DEF ReadReturn, BufSlots
  <2> QED
      BY <1>7, <2>1, <2>2, <2>3 DEF ReadReturn
<1>8. CASE PrintTyped BY <1>8 DEF PrintTyped
<1> QED
    BY <1>1, <1>2, <1>3, <1>4, <1>5, <1>6, <1>7, <1>8 DEF Main

-----------------------------------------------------------------------------
(* The steps of the keyboard handler *)

\* While keys are accepted the main thread is in one of three places, and no
\* Enter has been seen by the wait.
LEMMA Accepting ==
    ASSUME IInv, reading = 1
    PROVE  /\ pc \in {"line_pos", "enter_pressed", "wait"}
           /\ pc = "wait" => enter_pressed = 0
BY DEF IInv, TypeOK, Gate, EnterInv, PCs, PrintPCs, ReadPCs

\* The handler's part of every table key: the line's variables, by the call
\* that the key leads to.
LEMMA KeyEffects ==
    ASSUME NEW c
    PROVE  /\ ScreenCall(c) = "clear" =>
                 /\ LinePosAfter(c) = 0 /\ TypedAfter(c) = typed
                 /\ ReadingAfter(c) = 1 /\ EnterAfter(c) = enter_pressed
                 /\ EchoAfter(c) = <<>> /\ ~Interferes(c)
           /\ ScreenCall(c) = "erase" =>
                 /\ LinePosAfter(c) = line_pos - 1 /\ TypedAfter(c) = typed
                 /\ ReadingAfter(c) = 1 /\ EnterAfter(c) = enter_pressed
                 /\ EchoAfter(c) = IF echo # <<>>
                                   THEN SubSeq(echo, 1, Len(echo) - 1) ELSE echo
                 /\ Interferes(c) <=> pc = "line_pos"
           /\ ScreenCall(c) = "newline" =>
                 /\ LinePosAfter(c) = line_pos
                 /\ TypedAfter(c) = [typed EXCEPT ![line_pos] = c]
                 /\ ReadingAfter(c) = 0 /\ EnterAfter(c) = 1
                 /\ EchoAfter(c) = echo
                 /\ Interferes(c) <=> pc \in {"line_pos", "enter_pressed"}
           /\ ScreenCall(c) = "put" =>
                 /\ LinePosAfter(c) = line_pos + 1
                 /\ TypedAfter(c) = [typed EXCEPT ![line_pos] = c]
                 /\ ReadingAfter(c) = 1 /\ EnterAfter(c) = enter_pressed
                 /\ EchoAfter(c) = Append(echo, c)
                 /\ Interferes(c) <=> pc = "line_pos"
           /\ ScreenCall(c) = "none" =>
                 /\ LinePosAfter(c) = line_pos /\ TypedAfter(c) = typed
                 /\ ReadingAfter(c) = 1 /\ EnterAfter(c) = enter_pressed
                 /\ EchoAfter(c) = echo /\ ~Interferes(c)
BY DEF LinePosAfter, TypedAfter, ReadingAfter, EnterAfter, EchoAfter, Interferes

\* A table key, by the five things keyboard_input can do with it.
LEMMA CharKeyIInv ==
    ASSUME IInv, NEW k \in CharKeys, CharKey(k) PROVE IInv'
<1> DEFINE c == kbd_data(k)
<1>1. c \in Codes
    BY LookupType
<1> HIDE DEF c
<1>2. /\ reading = 1
      /\ line_pos' = LinePosAfter(c) /\ typed' = TypedAfter(c)
      /\ reading' = ReadingAfter(c) /\ enter_pressed' = EnterAfter(c)
      /\ echo' = EchoAfter(c) /\ raced' = IF Interferes(c) THEN 1 ELSE raced
      /\ UNCHANGED <<shift, caps_lock, ctrl, pc, buf, rtn_cnt, held>>
    BY DEF CharKey, mainVars, c
<1>3. /\ pc \in {"line_pos", "enter_pressed", "wait"}
      /\ pc = "wait" => enter_pressed = 0
    BY <1>2, Accepting
<1> USE SizeAssumption DEF IInv, TypeOK, Gate, CtrlInv, LineInv, EnterInv,
                           EchoInv, CopyInv, HangInv
<1>4. CASE ScreenCall(c) = "clear"
  <2>1. echo' \in Seq(Printable) /\ Len(echo') = 0
    <3>1. echo' = <<>>
        BY <1>2, <1>4, KeyEffects
    <3> QED
        BY <3>1, EmptySeq
  <2> QED
      BY <1>2, <1>3, <1>4, <2>1, KeyEffects
<1>5. CASE ScreenCall(c) = "none"
    BY <1>2, <1>3, <1>5, KeyEffects
<1>6. CASE ScreenCall(c) = "erase"
  <2>1. line_pos > 0
      BY <1>1, <1>6, CallCases
  <2>2. echo' \in Seq(Printable)
      BY <1>2, <1>6, KeyEffects
  <2>3. echo # <<>> => /\ Len(echo') = Len(echo) - 1
                       /\ \A i \in 1 .. Len(echo) - 1 : echo'[i] = echo[i]
      BY <1>2, <1>6, KeyEffects
  <2>4. raced' = 0 => /\ pc # "line_pos" /\ raced = 0
                      /\ Len(echo) = line_pos /\ echo # <<>>
      BY <1>2, <1>3, <1>6, <2>1, KeyEffects
  <2> QED
      BY <1>2, <1>3, <1>6, <2>1, <2>2, <2>3, <2>4, KeyEffects
<1>7. CASE ScreenCall(c) = "newline"
  <2>1. ctrl = 0 /\ c = NL
      BY <1>1, <1>7, CallCases
  <2>2. typed' = [typed EXCEPT ![line_pos] = NL]
      BY <1>2, <1>7, <2>1, KeyEffects
  <2>3. /\ typed' \in [Slots -> Codes] /\ typed'[line_pos] = NL
        /\ \A i \in 0 .. line_pos - 1 : typed'[i] = typed[i]
      BY <2>2 DEF Slots, Codes
  <2> QED
      BY <1>2, <1>3, <1>7, <2>1, <2>3, KeyEffects
<1>8. CASE ScreenCall(c) = "put"
  <2>1. c \in Printable /\ line_pos < LineLimit
      BY <1>1, <1>8, CallCases
  <2>2. /\ typed' \in [Slots -> Codes] /\ typed'[line_pos] = c
        /\ \A i \in 0 .. line_pos - 1 : typed'[i] = typed[i]
      BY <1>1, <1>2, <1>8, <2>1, KeyEffects DEF Slots
  <2>3. /\ echo' \in Seq(Printable) /\ Len(echo') = Len(echo) + 1
        /\ echo'[Len(echo) + 1] = c
        /\ \A i \in 1 .. Len(echo) : echo'[i] = echo[i]
    <3>1. echo' = Append(echo, c)
        BY <1>2, <1>8, KeyEffects
    <3> QED
        BY <2>1, <3>1, AppendProperties
  <2>4. LineInv'
      BY <1>2, <1>3, <1>8, <2>1, <2>2, KeyEffects
  <2>5. EchoInv'
    <3> SUFFICES ASSUME raced' = 0
                 PROVE  /\ pc' # "line_pos" /\ Len(echo') = line_pos'
                        /\ \A i \in 1 .. line_pos' : typed'[i - 1] = echo'[i]
        OBVIOUS
    <3>1. raced = 0 /\ pc # "line_pos" /\ pc' = pc /\ line_pos' = line_pos + 1
        BY <1>2, <1>3, <1>8, KeyEffects
    <3>2. /\ Len(echo) = line_pos
          /\ \A i \in 1 .. line_pos : typed[i - 1] = echo[i]
        BY <1>3, <3>1
    <3>3. ASSUME NEW i \in 1 .. line_pos + 1 PROVE typed'[i - 1] = echo'[i]
      <4>1. CASE i = line_pos + 1
          BY <2>2, <2>3, <3>2, <4>1
      <4>2. CASE i \in 1 .. line_pos
          BY <2>2, <2>3, <3>2, <4>2
      <4> QED
          BY <4>1, <4>2
    <3> QED
        BY <2>3, <3>1, <3>2, <3>3
  <2> QED
      BY <1>2, <1>3, <1>8, <2>1, <2>2, <2>3, <2>4, <2>5, KeyEffects
<1> QED
    BY <1>1, <1>4, <1>5, <1>6, <1>7, <1>8, CallCases

\* The release of a table key could at most clear the line.
LEMMA CharKeyReleasedIInv ==
    ASSUME IInv, NEW k \in CharKeys, CharKeyReleased(k) PROVE IInv'
<1>1. /\ reading = 1
      /\ \/ line_pos' = 0 /\ echo' = <<>>
         \/ line_pos' = line_pos /\ echo' = echo
      /\ UNCHANGED <<typed, enter_pressed, shift, caps_lock, ctrl, reading,
                     pc, buf, rtn_cnt, held, raced>>
    BY DEF CharKeyReleased, flags, mainVars
<1>2. /\ pc \in {"line_pos", "enter_pressed", "wait"}
      /\ pc = "wait" => enter_pressed = 0
    BY <1>1, Accepting
<1>3. echo' \in Seq(Printable) /\ (echo' = <<>> => Len(echo') = 0)
    BY <1>1, EmptySeq DEF IInv, TypeOK
<1> QED
    BY <1>1, <1>2, <1>3, SizeAssumption
       DEF IInv, TypeOK, Gate, CtrlInv, LineInv, EnterInv, EchoInv, CopyInv, HangInv

\* Modifier, cursor and function keys leave the line, the echo and the main
\* thread alone.
LEMMA ModifierIInv ==
    ASSUME IInv,
           UNCHANGED <<typed, line_pos, enter_pressed, reading, pc, buf, rtn_cnt,
                       echo, raced>>,
           shift' \in 0 .. 1, caps_lock' \in 0 .. 1, ctrl' \in 0 .. 1,
           held' \in SUBSET Modifiers,
           CtrlInv'
    PROVE  IInv'
BY DEF IInv, TypeOK, Gate, LineInv, EnterInv, EchoInv, CopyInv, HangInv

\* Every keyboard interrupt preserves the invariant.
LEMMA KeyboardIInv ==
    ASSUME IInv, Keyboard PROVE IInv'
<1>1. ASSUME NEW k \in CharKeys, CharKey(k) \/ CharKeyReleased(k) PROVE IInv'
    BY <1>1, CharKeyIInv, CharKeyReleasedIInv
<1>2. ASSUME NEW m \in Ctrls, CtrlPressed(m) PROVE IInv'
    BY <1>2, ModifierIInv DEF CtrlPressed, mainVars, IInv, TypeOK, CtrlInv, Modifiers
<1>3. ASSUME NEW m \in Ctrls, CtrlReleased(m) PROVE IInv'
    BY <1>3, ModifierIInv DEF CtrlReleased, mainVars, IInv, TypeOK, CtrlInv, Modifiers
<1>4. ASSUME NEW m \in Shifts, ShiftPressed(m) PROVE IInv'
    BY <1>4, ModifierIInv DEF ShiftPressed, mainVars, IInv, TypeOK, CtrlInv, Modifiers
<1>5. ASSUME NEW m \in Shifts, ShiftReleased(m) PROVE IInv'
  <2>1. held' \cap Ctrls = held \cap Ctrls
      BY <1>5, ModifierAssumption DEF ShiftReleased
  <2> QED
      BY <1>5, <2>1, ModifierIInv DEF ShiftReleased, mainVars, IInv, TypeOK, CtrlInv
<1>6. CASE CapsLock
    BY <1>6, ModifierIInv DEF CapsLock, mainVars, IInv, TypeOK, CtrlInv
<1>7. CASE ViewKey \/ Dropped
    BY <1>7, ModifierIInv DEF ViewKey, Dropped, vars, flags, mainVars, IInv, TypeOK, CtrlInv
<1> QED
    BY <1>1, <1>2, <1>3, <1>4, <1>5, <1>6, <1>7 DEF Keyboard

\* A step that changes nothing preserves it.
LEMMA StutterIInv ==
    ASSUME IInv, UNCHANGED vars PROVE IInv'
BY ModifierIInv DEF vars, flags, mainVars, IInv, TypeOK, CtrlInv

-----------------------------------------------------------------------------
(* The theorems *)

\* Whatever the interleaving of the main loop and the keyboard handler, the
\* inductive invariant holds.
THEOREM Inductive == Spec => []IInv
<1>1. IInv /\ [Next]_vars => IInv'
    BY MainIInv, KeyboardIInv, StutterIInv DEF Next
<1> QED
    BY <1>1, InitIInv, PTL DEF Spec

\* Every variable of terminal.c keeps its domain: line_pos never leaves the part
\* of typed[] that keyboard_input may write.
THEOREM TypeCorrect == Spec => []TypeOK
<1>1. IInv => TypeOK
    BY DEF IInv
<1> QED
    BY <1>1, Inductive, PTL

\* terminal_read's copy loop always finds a newline within the line limit.
THEOREM CopyAlwaysStops == Spec => []CopyStops
<1>1. IInv => CopyStops
    BY SizeAssumption DEF IInv, TypeOK, EnterInv, CopyInv, CopyStops
<1> QED
    BY <1>1, Inductive, PTL

\* The main thread prints only while the handler drops every key.
THEOREM ScreenIsExclusive == Spec => []ScreenExclusion
<1>1. IInv => ScreenExclusion
    BY DEF IInv, Gate, ScreenExclusion, PrintPCs
<1> QED
    BY <1>1, Inductive, PTL

\* ctrl is set only while a ctrl key is down, although releases are dropped
\* between reads.
THEOREM CtrlNeverStuck == Spec => []CtrlIsHeld
<1>1. IInv => CtrlIsHeld
    BY DEF IInv, CtrlInv, CtrlIsHeld
<1> QED
    BY <1>1, Inductive, PTL

\* A read that no key raced returns exactly the echoed line.
THEOREM ReadIsEcho == Spec => []ReadReturnsEcho
<1>1. IInv => ReadReturnsEcho
  <2> SUFFICES ASSUME IInv, pc = "typed", raced = 0
               PROVE  /\ rtn_cnt = Len(echo)
                      /\ \A i \in 1 .. rtn_cnt : buf[i - 1] = echo[i]
                      /\ buf[rtn_cnt] = NUL
      BY DEF ReadReturnsEcho
  <2>1. rtn_cnt = line_pos /\ Len(echo) = line_pos /\ buf[rtn_cnt] = NUL
      BY DEF IInv, EchoInv, CopyInv
  <2>2. ASSUME NEW i \in 1 .. rtn_cnt PROVE buf[i - 1] = echo[i]
    <3>1. buf[i - 1] = typed[i - 1]
        BY <2>1 DEF IInv, TypeOK, CopyInv
    <3>2. typed[i - 1] = echo[i]
        BY <2>1 DEF IInv, TypeOK, EchoInv
    <3> QED
        BY <3>1, <3>2
  <2> QED
      BY <2>1, <2>2
<1> QED
    BY <1>1, Inductive, PTL

\* A wait that no key can end is always the work of a key that hit the three
\* initialising statements of terminal_read.
THEOREM HangNeedsRace == Spec => []OnlyRaceHangs
<1>1. IInv => OnlyRaceHangs
    BY DEF IInv, HangInv, OnlyRaceHangs
<1> QED
    BY <1>1, Inductive, PTL

\* The handler never touches the line that terminal_read is copying.
THEOREM LineIsStable == Spec => LineStableWhileCopied
<1>1. IInv /\ [Next]_vars => [pc = "copy" => typed' = typed /\ line_pos' = line_pos]_vars
  <2> SUFFICES ASSUME IInv, [Next]_vars, pc = "copy"
               PROVE  typed' = typed /\ line_pos' = line_pos
      OBVIOUS
  <2>1. reading = 0
      BY DEF IInv, Gate
  <2>2. CASE Main
      BY <2>2 DEF Main, PrintPrompt, SetReading, ResetLinePos, ResetEnter, EnterSeen,
                  CopyChar, ReadReturn, PrintTyped, Goto
  <2>3. CASE Keyboard
      BY <2>1, <2>3 DEF Keyboard, CharKey, CharKeyReleased, CtrlPressed, CtrlReleased,
                        ShiftPressed, ShiftReleased, CapsLock, ViewKey, Dropped, vars
  <2>4. CASE UNCHANGED vars
      BY <2>4 DEF vars
  <2> QED
      BY <2>2, <2>3, <2>4 DEF Next
<1> QED
    BY <1>1, Inductive, PTL DEF Spec, LineStableWhileCopied

=============================================================================
