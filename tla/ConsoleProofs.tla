---------------------------- MODULE ConsoleProofs ----------------------------
(***************************************************************************)
(* Proofs about Console: the keyboard handler and the main thread share    *)
(* the cursor and the video memory without a lock, for every prompt, line  *)
(* limit, keyboard table and size of the screen.                           *)
(***************************************************************************)
EXTENDS Console, SequenceTheorems, TLAPS

-----------------------------------------------------------------------------
(* The inductive invariant: the terminal's part *)

TerminalType ==
    /\ typed \in [T!Slots -> T!Codes]
    /\ line_pos \in 0 .. LineLimit
    /\ enter_pressed \in 0 .. 1 /\ reading \in 0 .. 1
    /\ pc \in T!PCs
    /\ buf \in [T!BufSlots -> T!Codes]
    /\ rtn_cnt \in 0 .. LineLimit

\* The handler ignores keys before the read begins, while it copies the line and
\* while the main thread prints.
Gate == pc \in {"prompt", "reading", "copy", "typed"} => reading = 0

\* Once line_pos was reset the line holds printable characters.
Line ==
    pc \in {"enter_pressed", "wait", "copy", "typed"} =>
        \A i \in 0 .. line_pos - 1 : typed[i] \in Printable

\* The Enter that ends the wait has closed the gate and ended the line.
Ended ==
    /\ pc = "wait" /\ enter_pressed = 1 => reading = 0
    /\ (pc = "wait" /\ enter_pressed = 1) \/ pc \in {"copy", "typed"} =>
          typed[line_pos] = T!NL

\* What terminal_read has copied so far is part of the line.
Copied ==
    pc \in {"copy", "typed"} =>
        rtn_cnt <= line_pos /\ \A i \in 0 .. rtn_cnt - 1 : buf[i] \in Printable

TerminalInv == TerminalType /\ Gate /\ Line /\ Ended /\ Copied

-----------------------------------------------------------------------------
(* The inductive invariant: the screen's part *)

Cells == [ch : Text \cup {S!Blank, S!Image}, attr : S!Attrs]

ScreenType ==
    /\ cursor_x \in S!Cols /\ cursor_y \in 0 .. MaxRow
    /\ ATTRIB \in S!Attrs
    /\ saved \in [S!MemRows \X S!Cols -> Cells]

-----------------------------------------------------------------------------
(* The inductive invariant: what ties them together *)

\* The line the main thread is printing, and how much of it is printed.
Current == IF pc = "prompt" THEN Prompt ELSE Report(buf, rtn_cnt)
Done    == Len(Current) - Len(out)

\* What is still to print is the end of that line; the cursor stands where the next
\* character goes and the row shows the rest of it.
Printing ==
    /\ out \in Seq(Text \cup {T!NL})
    /\ pc \notin T!PrintPCs => out = <<>>
    /\ pc \in T!PrintPCs =>
          /\ Len(out) <= Len(Current)
          /\ \A i \in 1 .. Len(out) : out[i] = Current[Done + i]
          /\ out # <<>> =>
                /\ cursor_x = Done
                /\ \A i \in 1 .. Done : saved[<<cursor_y, i - 1>>].ch = Current[i]
          /\ out = <<>> => cursor_x = IF pc = "prompt" THEN Len(Prompt) ELSE 0

\* The read starts after the prompt.  Until line_pos is reset the line of the read
\* before is still counted; keys typed then stay on the row when it is.
CursorInRow ==
    /\ pc = "reading" => cursor_x = Len(Prompt)
    /\ reading = 1 =>
          /\ line_pos <= cursor_x
          /\ cursor_x <= Len(Prompt) + line_pos + (IF pc = "line_pos" THEN 0 ELSE LineLimit)
    /\ (pc = "wait" /\ enter_pressed = 1) \/ pc = "copy" => cursor_x = 0

\* The characters before the cursor are the line.
LineShown ==
    pc \in {"enter_pressed", "wait"} /\ reading = 1 =>
        \A i \in 1 .. line_pos :
            saved[<<cursor_y, cursor_x - line_pos + i - 1>>].ch = typed[i - 1]

IInv == TerminalInv /\ ScreenType /\ Printing /\ CursorInRow /\ LineShown

-----------------------------------------------------------------------------
(* The constants *)

\* What the proofs use of the assumptions.
LEMMA Sizes ==
    /\ TypedSize \in Nat /\ LineLimit \in Nat /\ ReadCnt \in Nat
    /\ 0 < LineLimit /\ LineLimit < TypedSize /\ LineLimit < ReadCnt
    /\ NUM_ROWS \in Nat /\ NUM_ROWS > 0 /\ NUM_COLS \in Nat /\ NUM_COLS > 0
    /\ MaxRow \in Nat /\ Colors \in Nat /\ FirstFont \in 0 .. Colors - 1
    /\ Prompt \in Seq(Text) /\ Label \in Seq(Text)
    /\ Len(Prompt) \in Nat /\ Len(Label) \in Nat
    /\ LineLimit <= Len(Prompt)
    /\ Len(Prompt) + 2 * LineLimit < NUM_COLS
    /\ Len(Label) + LineLimit < NUM_COLS
    /\ Printable \subseteq Text /\ T!NL \notin Text
<1>1. T!SizeAssumption /\ S!ScreenAssumption
    BY ConsoleAssumption
<1> QED
    BY <1>1, ConsoleAssumption DEF T!SizeAssumption, S!ScreenAssumption

\* The tables hold character codes, and the shifted one has no 'l'.
LEMMA Tables ==
    ASSUME NEW k \in CharKeys
    PROVE  /\ T!kbd_data(k) \in T!Codes
           /\ T!released_data(k) # LetterL
<1>1. T!TableAssumption
    BY ConsoleAssumption
<1>2. /\ chars[k] \in T!Codes /\ shift_chars[k] \in T!Codes /\ shift_chars[k] # LetterL
      /\ T!NUL # LetterL
    BY <1>1 DEF T!TableAssumption
<1> QED
    BY <1>2 DEF T!kbd_data, T!released_data

\* The report: the label, the line and a newline, which is its last character only.
LEMMA ReportShape ==
    ASSUME NEW b, NEW n \in 0 .. LineLimit,
           \A i \in 0 .. n - 1 : b[i] \in Printable
    PROVE  /\ Report(b, n) \in Seq(Text \cup {T!NL})
           /\ Len(Report(b, n)) = Len(Label) + n + 1
           /\ \A i \in 1 .. Len(Label) + n : Report(b, n)[i] \in Text
           /\ Report(b, n)[Len(Label) + n + 1] = T!NL
<1> DEFINE l == [i \in 1 .. n |-> b[i - 1]]
           s == Label \o l
<1>1. /\ n \in Nat /\ Len(Label) \in Nat /\ Label \in Seq(Text)
      /\ \A i \in 1 .. n : i - 1 \in 0 .. n - 1
    BY Sizes
<1>2. l \in Seq(Text) /\ Len(l) = n
    BY <1>1, Sizes
<1> HIDE DEF l
<1>3. s \in Seq(Text) /\ Len(s) = Len(Label) + n
    BY <1>1, <1>2
<1>4. /\ s \in Seq(Text \cup {T!NL}) /\ <<T!NL>> \in Seq(Text \cup {T!NL})
      /\ Len(<<T!NL>>) = 1 /\ <<T!NL>>[1] = T!NL
      /\ \A i \in 1 .. Len(s) : s[i] \in Text
    BY <1>3
<1>5. Report(b, n) = s \o <<T!NL>>
    BY DEF Report, l
<1> HIDE DEF s
<1> QED
    BY <1>1, <1>3, <1>4, <1>5

-----------------------------------------------------------------------------
(* What the screen's operations do to the cursor and to saved memory *)

Put(y, x, cell) == [saved EXCEPT ![<<y, x>>] = cell]

\* One cell written in a row of saved memory, and the others of that row kept.
LEMMA PutCell ==
    ASSUME ScreenType, NEW y \in 0 .. MaxRow, NEW x \in S!Cols, NEW cell \in Cells,
           saved' = Put(y, x, cell)
    PROVE  /\ saved' \in [S!MemRows \X S!Cols -> Cells]
           /\ saved'[<<y, x>>] = cell
           /\ \A j \in S!Cols : j # x => saved'[<<y, j>>] = saved[<<y, j>>]
<1>1. y \in S!MemRows
    BY Sizes DEF S!MemRows
<1>2. <<y, x>> \in S!MemRows \X S!Cols
    BY <1>1
<1>3. saved \in [S!MemRows \X S!Cols -> Cells]
    BY DEF ScreenType
<1>4. saved' \in [S!MemRows \X S!Cols -> Cells] /\ saved'[<<y, x>>] = cell
    BY <1>2, <1>3 DEF Put
<1>5. ASSUME NEW j \in S!Cols, j # x PROVE saved'[<<y, j>>] = saved[<<y, j>>]
  <2>1. <<y, j>> \in S!MemRows \X S!Cols /\ <<y, j>> # <<y, x>>
      BY <1>1, <1>5
  <2> QED
      BY <1>3, <2>1 DEF Put
<1> QED
    BY <1>4, <1>5

\* A character inside the row moves the cursor one column.
LEMMA CharEffect ==
    ASSUME ScreenType, NEW c \in Text, cursor_x + 1 < NUM_COLS, S!PutChar(c)
    PROVE  /\ ScreenType'
           /\ cursor_y' = cursor_y /\ cursor_x' = cursor_x + 1
           /\ saved'[<<cursor_y, cursor_x>>].ch = c
           /\ \A j \in S!Cols :
                 j # cursor_x => saved'[<<cursor_y, j>>] = saved[<<cursor_y, j>>]
<1> DEFINE cell == [ch |-> c, attr |-> ATTRIB]
<1>0. cursor_x \in S!Cols /\ cursor_y \in 0 .. MaxRow /\ ATTRIB \in S!Attrs
    BY DEF ScreenType
<1>1. cursor_x \in Nat /\ cursor_x + 1 # NUM_COLS
    BY <1>0, Sizes DEF S!Cols
<1>2. S!Advance(cursor_y, cursor_x) = <<cursor_y, cursor_x + 1>>
    BY <1>1 DEF S!Advance
<1>3. /\ cursor_y' = cursor_y /\ cursor_x' = cursor_x + 1 /\ ATTRIB' = ATTRIB
      /\ saved' = Put(cursor_y, cursor_x, cell)
    BY <1>2 DEF S!PutChar, S!MoveTo, S!WriteSaved, Put
<1>4. cell \in Cells /\ cell.ch = c
    BY <1>0 DEF Cells
<1>5. cursor_x' \in S!Cols
    BY <1>0, <1>1, <1>3, Sizes DEF S!Cols
<1> HIDE DEF cell
<1>6. /\ saved' \in [S!MemRows \X S!Cols -> Cells]
      /\ saved'[<<cursor_y, cursor_x>>] = cell
      /\ \A j \in S!Cols :
            j # cursor_x => saved'[<<cursor_y, j>>] = saved[<<cursor_y, j>>]
    BY <1>0, <1>3, <1>4, PutCell
<1> QED
    BY <1>0, <1>3, <1>4, <1>5, <1>6 DEF ScreenType

\* A backspace inside the row moves the cursor back one column and blanks it.
LEMMA BackspaceEffect ==
    ASSUME ScreenType, cursor_x > 0, S!PutBackspace
    PROVE  /\ ScreenType'
           /\ cursor_y' = cursor_y /\ cursor_x' = cursor_x - 1
           /\ \A j \in S!Cols :
                 j # cursor_x - 1 => saved'[<<cursor_y, j>>] = saved[<<cursor_y, j>>]
<1> DEFINE cell == S!BlankIn(ATTRIB)
<1>0. cursor_x \in S!Cols /\ cursor_y \in 0 .. MaxRow /\ ATTRIB \in S!Attrs
    BY DEF ScreenType
<1>1. cursor_x \in Nat /\ cursor_x # 0 /\ cursor_x - 1 \in S!Cols
    BY <1>0, Sizes DEF S!Cols
<1>2. S!Retreat(cursor_y, cursor_x) = <<cursor_y, cursor_x - 1>>
    BY <1>1 DEF S!Retreat
<1>3. /\ cursor_y' = cursor_y /\ cursor_x' = cursor_x - 1 /\ ATTRIB' = ATTRIB
      /\ saved' = Put(cursor_y, cursor_x - 1, cell)
    BY <1>2 DEF S!PutBackspace, S!MoveTo, S!WriteSaved, Put
<1>4. cell \in Cells
    BY <1>0 DEF Cells, S!BlankIn
<1> HIDE DEF cell
<1>5. /\ saved' \in [S!MemRows \X S!Cols -> Cells]
      /\ \A j \in S!Cols :
            j # cursor_x - 1 => saved'[<<cursor_y, j>>] = saved[<<cursor_y, j>>]
    BY <1>0, <1>1, <1>3, <1>4, PutCell
<1> QED
    BY <1>0, <1>1, <1>3, <1>5 DEF ScreenType

\* A newline and clear put the cursor at the left edge of a row.
LEMMA NewRowEffect ==
    ASSUME ScreenType, S!PutNewline \/ S!Clear
    PROVE  ScreenType' /\ cursor_x' = 0
<1>0. 0 \in S!Cols
    BY Sizes DEF S!Cols
<1>1. CASE S!PutNewline
    BY <1>0, <1>1, Sizes DEF S!PutNewline, S!MoveTo, ScreenType
<1>2. CASE S!Clear
  <2> DEFINE y == S!ClearRow
  <2>1. /\ cursor_x' = 0 /\ cursor_y' = y /\ y <= MaxRow /\ ATTRIB' = ATTRIB
        /\ saved' = [p \in S!MemRows \X S!Cols |->
                        IF p[1] \in y .. y + NUM_ROWS - 1 THEN S!BlankIn(ATTRIB)
                                                          ELSE saved[p]]
      BY <1>2 DEF S!Clear
  <2>2. y \in 0 .. MaxRow
      BY <2>1, Sizes DEF S!ClearRow, ScreenType
  <2>3. S!BlankIn(ATTRIB) \in Cells
      BY DEF ScreenType, Cells, S!BlankIn
  <2> HIDE DEF y
  <2>4. saved' \in [S!MemRows \X S!Cols -> Cells]
      BY <2>1, <2>3 DEF ScreenType
  <2> QED
      BY <1>0, <2>1, <2>2, <2>4 DEF ScreenType
<1> QED
    BY <1>1, <1>2

\* Scrolling and changing colours move neither the cursor nor the characters.
LEMMA ViewEffect ==
    ASSUME ScreenType,
           (\E d \in Scrolls : S!Scroll(d)) \/ S!FontColor \/ S!BackgroundColor
    PROVE  /\ ScreenType' /\ cursor_x' = cursor_x /\ cursor_y' = cursor_y
           /\ \A p \in S!MemRows \X S!Cols : saved'[p].ch = saved[p].ch
<1>1. CASE \E d \in Scrolls : S!Scroll(d)
    BY <1>1 DEF S!Scroll, S!cursor, ScreenType
<1>2. ASSUME NEW a \in S!Attrs, S!update_color(a)
      PROVE  /\ ScreenType' /\ cursor_x' = cursor_x /\ cursor_y' = cursor_y
             /\ \A p \in S!MemRows \X S!Cols : saved'[p].ch = saved[p].ch
  <2>1. ATTRIB' = a /\ saved' = S!Recolored(a) /\ cursor_x' = cursor_x /\ cursor_y' = cursor_y
      BY <1>2 DEF S!update_color, S!cursor
  <2>2. ASSUME NEW p \in S!MemRows \X S!Cols
        PROVE  saved'[p] \in Cells /\ saved'[p].ch = saved[p].ch
    <3>1. saved[p] \in Cells
        BY DEF ScreenType
    <3>2. saved'[p] = IF S!InSaved(p) THEN [saved[p] EXCEPT !.attr = a] ELSE saved[p]
        BY <2>1 DEF S!Recolored
    <3>3. [saved[p] EXCEPT !.attr = a] = [ch |-> saved[p].ch, attr |-> a]
        BY <3>1 DEF Cells
    <3> QED
        BY <3>1, <3>2, <3>3 DEF Cells
  <2>3. saved' \in [S!MemRows \X S!Cols -> Cells]
      BY <2>1, <2>2 DEF S!Recolored
  <2> QED
      BY <2>1, <2>2, <2>3 DEF ScreenType
<1>3. /\ [ATTRIB EXCEPT !.fg = (ATTRIB.fg + 1) % Colors] \in S!Attrs
      /\ [ATTRIB EXCEPT !.bg = (ATTRIB.bg + 1) % Colors] \in S!Attrs
  <2>1. /\ ATTRIB = [fg |-> ATTRIB.fg, bg |-> ATTRIB.bg]
        /\ ATTRIB.fg \in 0 .. Colors - 1 /\ ATTRIB.bg \in 0 .. Colors - 1
      BY DEF ScreenType, S!Attrs
  <2>2. \A n \in 0 .. Colors - 1 : (n + 1) % Colors \in 0 .. Colors - 1
      BY Sizes
  <2>3. /\ (ATTRIB.fg + 1) % Colors \in 0 .. Colors - 1
        /\ (ATTRIB.bg + 1) % Colors \in 0 .. Colors - 1
      BY <2>1, <2>2
  <2> QED
      BY <2>1, <2>3 DEF S!Attrs
<1>4. CASE S!FontColor
    BY <1>2, <1>3, <1>4 DEF S!FontColor
<1>5. CASE S!BackgroundColor
    BY <1>2, <1>3, <1>5 DEF S!BackgroundColor
<1> QED
    BY <1>1, <1>4, <1>5

-----------------------------------------------------------------------------
(* The terminal's part *)

\* What keyboard_input does with a key, by the screen function it calls.  Keys are
\* taken only inside a read that has seen no Enter.
LEMMA KeyEffect ==
    ASSUME TerminalInv, NEW k \in CharKeys, T!CharKey(k)
    PROVE  LET c == T!kbd_data(k)
               call == T!ScreenCall(c)
           IN  /\ reading = 1 /\ pc \in {"line_pos", "enter_pressed", "wait"}
               /\ pc = "wait" => enter_pressed = 0
               /\ pc' = pc /\ buf' = buf /\ rtn_cnt' = rtn_cnt
               /\ IF call = "newline" THEN reading' = 0 /\ enter_pressed' = 1
                  ELSE reading' = 1 /\ enter_pressed' = enter_pressed
               /\ \/ call = "clear" /\ line_pos' = 0 /\ typed' = typed
                  \/ /\ call = "erase" /\ line_pos > 0
                     /\ line_pos' = line_pos - 1 /\ typed' = typed
                  \/ /\ call = "newline" /\ line_pos' = line_pos
                     /\ typed' = [typed EXCEPT ![line_pos] = T!NL]
                  \/ /\ call = "put" /\ c \in Printable /\ line_pos < LineLimit
                     /\ line_pos' = line_pos + 1
                     /\ typed' = [typed EXCEPT ![line_pos] = c]
                  \/ call = "none" /\ line_pos' = line_pos /\ typed' = typed
<1> DEFINE c == T!kbd_data(k)
           call == T!ScreenCall(c)
<1>1. /\ reading = 1
      /\ line_pos' = T!LinePosAfter(c) /\ typed' = T!TypedAfter(c)
      /\ reading' = T!ReadingAfter(c) /\ enter_pressed' = T!EnterAfter(c)
      /\ pc' = pc /\ buf' = buf /\ rtn_cnt' = rtn_cnt
    BY DEF T!CharKey, T!mainVars
<1>2. pc \in {"line_pos", "enter_pressed", "wait"} /\ (pc = "wait" => enter_pressed = 0)
    BY <1>1 DEF TerminalInv, TerminalType, Gate, Ended, T!PCs, T!PrintPCs, T!ReadPCs
<1>3. \/ call = "clear"
      \/ call = "erase" /\ line_pos > 0
      \/ call = "newline" /\ c = T!NL
      \/ call = "put" /\ c \in Printable /\ line_pos < LineLimit
      \/ call = "none"
    BY DEF T!ScreenCall
<1> HIDE DEF c, call
<1>4. /\ line_pos' = IF call = "clear" THEN 0
                     ELSE IF call = "erase" THEN line_pos - 1
                     ELSE IF call = "put" THEN line_pos + 1
                     ELSE line_pos
      /\ typed' = IF call \in {"put", "newline"} THEN [typed EXCEPT ![line_pos] = c]
                  ELSE typed
      /\ reading' = IF call = "newline" THEN 0 ELSE 1
      /\ enter_pressed' = IF call = "newline" THEN 1 ELSE enter_pressed
    BY <1>1 DEF T!LinePosAfter, T!TypedAfter, T!ReadingAfter, T!EnterAfter, call
<1>5. /\ \/ call = "clear" /\ line_pos' = 0 /\ typed' = typed
         \/ /\ call = "erase" /\ line_pos > 0
            /\ line_pos' = line_pos - 1 /\ typed' = typed
         \/ /\ call = "newline" /\ line_pos' = line_pos
            /\ typed' = [typed EXCEPT ![line_pos] = T!NL]
         \/ /\ call = "put" /\ c \in Printable /\ line_pos < LineLimit
            /\ line_pos' = line_pos + 1
            /\ typed' = [typed EXCEPT ![line_pos] = c]
         \/ call = "none" /\ line_pos' = line_pos /\ typed' = typed
      /\ IF call = "newline" THEN reading' = 0 /\ enter_pressed' = 1
         ELSE reading' = 1 /\ enter_pressed' = enter_pressed
    BY <1>3, <1>4
<1> QED
    BY <1>1, <1>2, <1>5 DEF c, call

\* A key preserves the terminal's part.
LEMMA KeyTerminal ==
    ASSUME TerminalInv, NEW k \in CharKeys, T!CharKey(k)
    PROVE  TerminalInv'
<1> DEFINE c == T!kbd_data(k)
           call == T!ScreenCall(c)
<1>1. /\ reading = 1 /\ pc \in {"line_pos", "enter_pressed", "wait"}
      /\ pc = "wait" => enter_pressed = 0
      /\ pc' = pc /\ buf' = buf /\ rtn_cnt' = rtn_cnt
      /\ IF call = "newline" THEN reading' = 0 /\ enter_pressed' = 1
         ELSE reading' = 1 /\ enter_pressed' = enter_pressed
      /\ \/ call = "clear" /\ line_pos' = 0 /\ typed' = typed
         \/ /\ call = "erase" /\ line_pos > 0
            /\ line_pos' = line_pos - 1 /\ typed' = typed
         \/ /\ call = "newline" /\ line_pos' = line_pos
            /\ typed' = [typed EXCEPT ![line_pos] = T!NL]
         \/ /\ call = "put" /\ c \in Printable /\ line_pos < LineLimit
            /\ line_pos' = line_pos + 1
            /\ typed' = [typed EXCEPT ![line_pos] = c]
         \/ call = "none" /\ line_pos' = line_pos /\ typed' = typed
    BY KeyEffect
<1> HIDE DEF c, call
<1>2. TerminalType
    BY DEF TerminalInv
<1>3. line_pos \in T!Slots
    BY <1>2, Sizes DEF TerminalType, T!Slots
<1>4. T!NL \in T!Codes /\ (c \in Printable => c \in T!Codes)
    BY DEF T!Codes
<1>5. line_pos' \in 0 .. LineLimit
    BY <1>1, <1>2, Sizes DEF TerminalType
<1>6. typed' \in [T!Slots -> T!Codes]
    BY <1>1, <1>2, <1>3, <1>4 DEF TerminalType
<1>7. TerminalType'
    BY <1>1, <1>2, <1>5, <1>6 DEF TerminalType
<1>8. Gate' /\ Copied'
    BY <1>1 DEF TerminalInv, Gate, Copied
<1>9. Line'
    BY <1>1, <1>2, <1>3, Sizes DEF TerminalInv, TerminalType, Line, T!Slots
<1>10. Ended'
  <2>1. typed'[line_pos] = T!NL \/ call # "newline"
      BY <1>1, <1>2, <1>3 DEF TerminalType
  <2> QED
      BY <1>1, <2>1 DEF Ended
<1> QED
    BY <1>7, <1>8, <1>9, <1>10 DEF TerminalInv

\* The releases, the modifiers and the keys that only change the view leave the line
\* and the main thread alone.
LEMMA OtherKeyTerminal ==
    ASSUME T!ViewKey \/ OtherKey
    PROVE  UNCHANGED <<typed, line_pos, enter_pressed, reading, pc, buf, rtn_cnt>>
<1>1. CASE T!ViewKey
    BY <1>1 DEF T!ViewKey, T!vars, T!flags, T!mainVars
<1>2. ASSUME NEW k \in CharKeys, T!CharKeyReleased(k)
      PROVE  UNCHANGED <<typed, line_pos, enter_pressed, reading, pc, buf, rtn_cnt>>
    BY <1>2, Tables DEF T!CharKeyReleased, T!flags, T!mainVars
<1>3. CASE OtherKey
    BY <1>2, <1>3
    DEF OtherKey, T!CtrlPressed, T!CtrlReleased, T!ShiftPressed, T!ShiftReleased,
        T!CapsLock, T!Dropped, T!vars, T!flags, T!mainVars
<1> QED
    BY <1>1, <1>3

\* A step that leaves the line and the main thread alone.
LEMMA SameTerminal ==
    ASSUME TerminalInv, UNCHANGED <<typed, line_pos, enter_pressed, reading, pc, buf, rtn_cnt>>
    PROVE  TerminalInv'
BY DEF TerminalInv, TerminalType, Gate, Line, Ended, Copied

\* The statements of the main thread preserve the terminal's part.
LEMMA MainTerminal ==
    ASSUME TerminalInv, T!Main
    PROVE  TerminalInv'
<1> USE Sizes DEF TerminalInv, TerminalType, Gate, Line, Ended, Copied, T!Goto, T!flags,
                  T!Slots, T!BufSlots, T!PCs, T!PrintPCs, T!ReadPCs
<1>1. CASE T!PrintPrompt BY <1>1 DEF T!PrintPrompt
<1>2. CASE T!SetReading BY <1>2 DEF T!SetReading
<1>3. CASE T!ResetLinePos BY <1>3 DEF T!ResetLinePos
<1>4. CASE T!ResetEnter BY <1>4 DEF T!ResetEnter
<1>5. CASE T!EnterSeen BY <1>5 DEF T!EnterSeen
<1>6. CASE T!CopyChar
  <2>1. rtn_cnt < line_pos /\ rtn_cnt \in T!BufSlots
      BY <1>6 DEF T!CopyChar, T!MoreToCopy
  <2>2. typed[rtn_cnt] \in Printable /\ typed[rtn_cnt] \in T!Codes
      BY <1>6, <2>1 DEF T!CopyChar
  <2>3. buf' \in [T!BufSlots -> T!Codes]
      BY <1>6, <2>2 DEF T!CopyChar
  <2>4. \A i \in 0 .. rtn_cnt : buf'[i] \in Printable
      BY <1>6, <2>1, <2>2 DEF T!CopyChar
  <2> QED
      BY <1>6, <2>1, <2>3, <2>4 DEF T!CopyChar
<1>7. CASE T!ReadReturn
  <2>1. buf' \in [T!BufSlots -> T!Codes]
      BY <1>7 DEF T!ReadReturn, T!Codes
  <2>2. \A i \in 0 .. rtn_cnt - 1 : buf'[i] = buf[i]
      BY <1>7 DEF T!ReadReturn
  <2> QED
      BY <1>7, <2>1, <2>2 DEF T!ReadReturn
<1>8. CASE T!PrintTyped BY <1>8 DEF T!PrintTyped
<1> QED
    BY <1>1, <1>2, <1>3, <1>4, <1>5, <1>6, <1>7, <1>8 DEF T!Main

-----------------------------------------------------------------------------
(* The main thread's steps *)

\* The line being printed fits in the row; only a report ends in a newline.
LEMMA CurrentShape ==
    ASSUME TerminalInv, pc \in T!PrintPCs
    PROVE  LET text == IF pc = "prompt" THEN Len(Prompt) ELSE Len(Label) + rtn_cnt
           IN  /\ Current \in Seq(Text \cup {T!NL})
               /\ text \in Nat /\ text < NUM_COLS
               /\ Len(Current) = IF pc = "prompt" THEN text ELSE text + 1
               /\ \A i \in 1 .. text : Current[i] \in Text
               /\ pc # "prompt" => Current[text + 1] = T!NL
<1>1. CASE pc = "prompt"
    BY <1>1, Sizes DEF Current
<1>2. CASE pc # "prompt"
  <2>1. rtn_cnt \in 0 .. LineLimit /\ \A i \in 0 .. rtn_cnt - 1 : buf[i] \in Printable
      BY <1>2 DEF TerminalInv, TerminalType, Copied, T!PrintPCs
  <2>2. /\ Current \in Seq(Text \cup {T!NL})
        /\ Len(Current) = Len(Label) + rtn_cnt + 1
        /\ \A i \in 1 .. Len(Label) + rtn_cnt : Current[i] \in Text
        /\ Current[Len(Label) + rtn_cnt + 1] = T!NL
      BY <1>2, <2>1, ReportShape DEF Current
  <2> HIDE DEF Current
  <2>3. Len(Label) + rtn_cnt \in Nat /\ Len(Label) + rtn_cnt < NUM_COLS
      BY <2>1, Sizes
  <2> QED
      BY <1>2, <2>2, <2>3
<1> QED
    BY <1>1, <1>2

\* Printing a character.  It runs with the gate closed.
LEMMA PrintStep ==
    ASSUME IInv, PrintChar
    PROVE  IInv'
<1> DEFINE text == IF pc = "prompt" THEN Len(Prompt) ELSE Len(Label) + rtn_cnt
           n == Done
<1>0. TerminalInv /\ ScreenType /\ Printing /\ CursorInRow /\ LineShown
    BY DEF IInv
<1>1. UNCHANGED <<typed, line_pos, enter_pressed, reading, pc, buf, rtn_cnt>>
    BY DEF PrintChar, terminal
<1>2. TerminalInv'
    BY <1>0, <1>1, SameTerminal
<1>3. pc \in T!PrintPCs /\ out # <<>> /\ out \in Seq(Text \cup {T!NL}) /\ out' = Tail(out)
    BY <1>0 DEF PrintChar, Printing
<1>4. pc \in {"prompt", "typed"} /\ reading = 0
    BY <1>0, <1>3 DEF T!PrintPCs, TerminalInv, Gate
<1>5. /\ Current \in Seq(Text \cup {T!NL})
      /\ text \in Nat /\ text < NUM_COLS
      /\ Len(Current) = IF pc = "prompt" THEN text ELSE text + 1
      /\ \A i \in 1 .. text : Current[i] \in Text
      /\ pc # "prompt" => Current[text + 1] = T!NL
    BY <1>0, <1>3, CurrentShape
<1>6. /\ out' \in Seq(Text \cup {T!NL}) /\ Len(out) \in Nat /\ Len(out) > 0
      /\ Len(out') = Len(out) - 1 /\ Head(out) = out[1]
      /\ \A i \in 1 .. Len(out') : out'[i] = out[i + 1]
    BY <1>3
<1>7. /\ Len(out) <= Len(Current) /\ cursor_x = n
      /\ \A i \in 1 .. Len(out) : out[i] = Current[n + i]
      /\ \A i \in 1 .. n : saved[<<cursor_y, i - 1>>].ch = Current[i]
    BY <1>0, <1>3 DEF Printing
<1>8. Current' = Current
    BY <1>1 DEF Current, Report, T!NL
<1>9. n \in Nat /\ n + Len(out) = Len(Current) /\ Head(out) = Current[n + 1]
    BY SMTT(30), <1>5, <1>6, <1>7 DEF Done
<1> HIDE DEF text, n
<1>10. Done' = n + 1
  <2>1. Done' = Len(Current) - Len(out') /\ Len(Current) \in Nat
      BY <1>5, <1>8 DEF Done
  <2>2. \A a, b, d \in Nat : d + b = a => a - (b - 1) = d + 1
      OBVIOUS
  <2>3. Len(Current) - (Len(out) - 1) = n + 1
      BY ZenonT(60), <1>6, <1>9, <2>1, <2>2
  <2> QED
      BY <1>6, <2>1, <2>3, Zenon
<1>11. /\ Len(out') <= Len(Current)
       /\ \A i \in 1 .. Len(out') : out'[i] = Current[(n + 1) + i]
  <2>1. \A i \in 1 .. Len(out') : i + 1 \in 1 .. Len(out) /\ n + (i + 1) = (n + 1) + i
      BY <1>6, <1>9
  <2>2. Len(out') <= Len(Current)
      BY <1>5, <1>6, <1>7
  <2> QED
      BY <1>6, <1>7, <2>1, <2>2
<1>12. CASE Head(out) = T!NL
  <2>1. S!PutNewline
      BY <1>12 DEF PrintChar
  <2>2. ScreenType' /\ cursor_x' = 0
      BY <1>0, <2>1, NewRowEffect
  <2>3. n + 1 \notin 1 .. text
      BY <1>5, <1>9, <1>12, Sizes
  <2>4. pc = "typed" /\ Len(out) = 1
      BY <1>4, <1>5, <1>6, <1>9, <2>3
  <2>5. out' = <<>>
      BY <1>6, <2>4
  <2>6. Printing'
      BY <1>1, <1>6, <1>8, <1>10, <1>11, <2>2, <2>4, <2>5 DEF Printing, T!PrintPCs
  <2>7. CursorInRow' /\ LineShown'
      BY <1>1, <1>4, <2>4 DEF CursorInRow, LineShown
  <2> QED
      BY <1>2, <2>2, <2>6, <2>7 DEF IInv
<1>13. CASE Head(out) # T!NL
  <2>1. S!PutChar(Head(out)) /\ Head(out) \in Text
      BY <1>3, <1>13 DEF PrintChar
  <2>2. n + 1 \in 1 .. text
      BY <1>4, <1>5, <1>6, <1>9, <1>13
  <2>3. cursor_x + 1 < NUM_COLS
      BY <1>5, <1>7, <1>9, <2>2, Sizes
  <2>4. /\ ScreenType' /\ cursor_y' = cursor_y /\ cursor_x' = n + 1
        /\ saved'[<<cursor_y, n>>].ch = Head(out)
        /\ \A j \in S!Cols : j # n => saved'[<<cursor_y, j>>] = saved[<<cursor_y, j>>]
      BY <1>0, <1>7, <2>1, <2>3, CharEffect
  <2>5. ASSUME NEW i \in 1 .. n + 1
        PROVE  saved'[<<cursor_y, i - 1>>].ch = Current[i]
    <3>1. CASE i = n + 1
      <4>1. i - 1 = n
          BY <1>9, <3>1
      <4> QED
          BY <1>9, <2>4, <3>1, <4>1
    <3>2. CASE i # n + 1
      <4>1. i \in 1 .. n /\ i - 1 \in S!Cols /\ i - 1 # n
          BY <1>5, <1>9, <2>2, <3>2, Sizes DEF S!Cols
      <4> QED
          BY <1>7, <2>4, <4>1
    <3> QED
        BY <3>1, <3>2
  <2>6. out' = <<>> => pc = "prompt" /\ n + 1 = Len(Prompt)
    <3>1. out' = <<>> => Len(out) = 1
        BY <1>6
    <3>2. Len(out) = 1 => pc = "prompt" /\ n + 1 = text
        BY <1>4, <1>5, <1>9, <2>2
    <3> QED
        BY <3>1, <3>2 DEF text
  <2>7. Printing'
      BY <1>1, <1>3, <1>6, <1>8, <1>10, <1>11, <2>4, <2>5, <2>6 DEF Printing
  <2>8. CursorInRow' /\ LineShown'
      BY <1>1, <1>4 DEF CursorInRow, LineShown
  <2> QED
      BY <1>2, <2>4, <2>7, <2>8 DEF IInv
<1> QED
    BY <1>12, <1>13

\* A line about to be printed, with the cursor at the left edge.
LEMMA StartLine ==
    ASSUME TerminalInv', pc' \in T!PrintPCs, out' = Current', cursor_x' = 0
    PROVE  Printing'
<1>1. /\ Current' \in Seq(Text \cup {T!NL}) /\ Len(Current') \in Nat /\ Len(Current') > 0
  <2>1. /\ Current' \in Seq(Text \cup {T!NL})
        /\ Len(Current') = IF pc' = "prompt" THEN Len(Prompt) ELSE Len(Label) + rtn_cnt' + 1
    <3>1. CASE pc' = "prompt"
        BY <3>1, Sizes DEF Current
    <3>2. CASE pc' # "prompt"
      <4>1. rtn_cnt' \in 0 .. LineLimit /\ \A i \in 0 .. rtn_cnt' - 1 : buf'[i] \in Printable
          BY <3>2 DEF TerminalInv, TerminalType, Copied, T!PrintPCs
      <4>2. Current' = Report(buf', rtn_cnt')
          BY <3>2 DEF Current, Report, T!NL
      <4> QED
          BY <3>2, <4>1, <4>2, ReportShape
    <3> QED
        BY <3>1, <3>2
  <2>2. rtn_cnt' \in Nat
      BY Sizes DEF TerminalInv, TerminalType
  <2> QED
      BY <2>1, <2>2, Sizes
<1>2. Done' = 0 /\ Len(out') = Len(Current')
    BY <1>1 DEF Done
<1>3. \A i \in 1 .. Len(out') : 0 + i = i
    BY <1>1, <1>2
<1>4. out' # <<>>
    BY <1>1
<1> QED
    BY <1>1, <1>2, <1>3, <1>4 DEF Printing

\* The main thread's statements other than printing leave the screen alone.
LEMMA StatementStep ==
    ASSUME IInv, PromptPrinted \/ ReadStep \/ ReadReturn \/ ReportPrinted
    PROVE  IInv'
<1>0. TerminalInv /\ ScreenType /\ Printing /\ CursorInRow /\ LineShown
    BY DEF IInv
<1>1. T!Main
    BY DEF PromptPrinted, ReadStep, ReadReturn, ReportPrinted, T!Main
<1>2. TerminalInv'
    BY <1>0, <1>1, MainTerminal
<1>3. cursor_x' = cursor_x /\ cursor_y' = cursor_y /\ saved' = saved /\ ATTRIB' = ATTRIB
    BY DEF PromptPrinted, ReadStep, ReadReturn, ReportPrinted, screen
<1>4. ScreenType'
    BY <1>0, <1>3 DEF ScreenType
<1>5. TerminalType /\ Gate /\ TerminalType' /\ Gate'
    BY <1>0, <1>2 DEF TerminalInv
<1>6. CASE PromptPrinted
  <2>1. /\ pc = "prompt" /\ pc' = "reading" /\ out = <<>> /\ out' = <<>>
        /\ reading' = reading /\ enter_pressed' = enter_pressed
      BY <1>6 DEF PromptPrinted, T!PrintPrompt, T!Goto, T!flags
  <2>2. cursor_x = Len(Prompt) /\ reading = 0
      BY <1>0, <1>5, <2>1 DEF Printing, T!PrintPCs, Gate
  <2>3. Printing' /\ CursorInRow' /\ LineShown'
      BY <1>3, <2>1, <2>2 DEF Printing, CursorInRow, LineShown, T!PrintPCs
  <2> QED
      BY <1>2, <1>4, <2>3 DEF IInv
<1>7. CASE ReportPrinted
  <2>1. /\ pc = "typed" /\ pc' = "prompt" /\ out = <<>> /\ out' = Prompt
      BY <1>7 DEF ReportPrinted, T!PrintTyped, T!Goto
  <2>2. cursor_x' = 0 /\ reading' = 0
      BY <1>0, <1>3, <1>5, <2>1 DEF Printing, T!PrintPCs, Gate
  <2>3. Printing'
      BY <1>2, <2>1, <2>2, StartLine DEF Current, T!PrintPCs
  <2>4. CursorInRow' /\ LineShown'
      BY <2>1, <2>2 DEF CursorInRow, LineShown
  <2> QED
      BY <1>2, <1>4, <2>3, <2>4 DEF IInv
<1>8. CASE ReadReturn
  <2>1. /\ pc = "copy" /\ pc' = "typed" /\ out' = Report(buf', rtn_cnt') /\ rtn_cnt' = rtn_cnt
      BY <1>8 DEF ReadReturn, T!ReadReturn, T!Goto
  <2>2. cursor_x' = 0 /\ reading' = 0
      BY <1>0, <1>3, <1>5, <2>1 DEF CursorInRow, Gate
  <2>3. out' = Current'
      BY <2>1 DEF Current, Report, T!NL
  <2>4. Printing'
      BY <1>2, <2>1, <2>2, <2>3, StartLine DEF T!PrintPCs
  <2>5. CursorInRow' /\ LineShown'
      BY <2>1, <2>2 DEF CursorInRow, LineShown
  <2> QED
      BY <1>2, <1>4, <2>4, <2>5 DEF IInv
<1>9. CASE ReadStep
  <2>1. out' = out /\ out = <<>> /\ pc \notin T!PrintPCs /\ pc' \notin T!PrintPCs
      BY <1>0, <1>9
      DEF ReadStep, Printing, T!PrintPCs, T!Goto, T!SetReading, T!ResetLinePos,
          T!ResetEnter, T!EnterSeen, T!CopyChar
  <2>2. Printing'
      BY <1>0, <2>1 DEF Printing
  <2>3. cursor_x \in Nat /\ line_pos \in 0 .. LineLimit /\ pc \in T!PCs
      BY <1>0, <1>5, Sizes DEF ScreenType, S!Cols, TerminalType
  <2>4. CursorInRow'
    <3> USE <1>0, <1>3, <1>5, <2>3, Sizes DEF CursorInRow, Gate, T!Goto, T!flags
    <3>1. CASE T!SetReading BY <3>1 DEF T!SetReading
    <3>2. CASE T!ResetLinePos BY <3>2 DEF T!ResetLinePos
    <3>3. CASE T!ResetEnter BY <3>3 DEF T!ResetEnter
    <3>4. CASE T!EnterSeen BY <3>4 DEF T!EnterSeen
    <3>5. CASE T!CopyChar BY <3>5 DEF T!CopyChar
    <3> QED
        BY <1>9, <3>1, <3>2, <3>3, <3>4, <3>5 DEF ReadStep
  <2>5. LineShown'
    <3> USE <1>0, <1>3, <1>5, <2>3 DEF LineShown, Gate, T!Goto, T!flags
    <3>1. CASE T!SetReading BY <3>1 DEF T!SetReading
    <3>2. CASE T!ResetLinePos BY <3>2 DEF T!ResetLinePos
    <3>3. CASE T!ResetEnter BY <3>3 DEF T!ResetEnter
    <3>4. CASE T!EnterSeen BY <3>4 DEF T!EnterSeen
    <3>5. CASE T!CopyChar BY <3>5 DEF T!CopyChar
    <3> QED
        BY <1>9, <3>1, <3>2, <3>3, <3>4, <3>5 DEF ReadStep
  <2> QED
      BY <1>2, <1>4, <2>2, <2>4, <2>5 DEF IInv
<1> QED
    BY <1>6, <1>7, <1>8, <1>9

-----------------------------------------------------------------------------
(* The handler's steps *)

\* The handler runs only where the main thread does not print.
LEMMA NotPrinting ==
    ASSUME IInv, pc \in {"line_pos", "enter_pressed", "wait"}, pc' = pc, out' = out
    PROVE  Printing'
BY DEF IInv, Printing, T!PrintPCs

\* A key that is echoed, erases, clears or ends the line: the cursor and the line
\* move together.
LEMMA KeyStep ==
    ASSUME IInv, NEW k \in CharKeys, KeyPressed(k)
    PROVE  IInv'
<1> DEFINE c == T!kbd_data(k)
           call == T!ScreenCall(c)
<1>0. TerminalInv /\ TerminalType /\ ScreenType /\ Printing /\ CursorInRow /\ LineShown
    BY DEF IInv, TerminalInv
<1>1. T!CharKey(k) /\ Call(c) /\ out' = out
    BY DEF KeyPressed
<1>2. /\ reading = 1 /\ pc \in {"line_pos", "enter_pressed", "wait"}
      /\ pc = "wait" => enter_pressed = 0
      /\ pc' = pc /\ buf' = buf /\ rtn_cnt' = rtn_cnt
      /\ IF call = "newline" THEN reading' = 0 /\ enter_pressed' = 1
         ELSE reading' = 1 /\ enter_pressed' = enter_pressed
      /\ \/ call = "clear" /\ line_pos' = 0 /\ typed' = typed
         \/ /\ call = "erase" /\ line_pos > 0
            /\ line_pos' = line_pos - 1 /\ typed' = typed
         \/ /\ call = "newline" /\ line_pos' = line_pos
            /\ typed' = [typed EXCEPT ![line_pos] = T!NL]
         \/ /\ call = "put" /\ c \in Printable /\ line_pos < LineLimit
            /\ line_pos' = line_pos + 1
            /\ typed' = [typed EXCEPT ![line_pos] = c]
         \/ call = "none" /\ line_pos' = line_pos /\ typed' = typed
    BY <1>0, <1>1, KeyEffect
<1>3. TerminalInv'
    BY <1>0, <1>1, KeyTerminal
<1>4. Printing'
    BY <1>1, <1>2, NotPrinting
<1>5. /\ call = "clear"   => S!Clear
      /\ call = "erase"   => S!PutBackspace
      /\ call = "newline" => S!PutNewline
      /\ call = "put"     => S!PutChar(c)
      /\ call = "none"    => UNCHANGED screen
    BY <1>1 DEF Call
<1> HIDE DEF c, call
<1>6. /\ line_pos \in 0 .. LineLimit /\ cursor_x \in S!Cols /\ cursor_x \in Nat
      /\ line_pos <= cursor_x
      /\ cursor_x <= Len(Prompt) + line_pos + (IF pc = "line_pos" THEN 0 ELSE LineLimit)
    BY <1>0, <1>2, Sizes DEF TerminalType, ScreenType, S!Cols, CursorInRow
<1>7. \A i \in 1 .. line_pos :
         pc # "line_pos" =>
            saved[<<cursor_y, cursor_x - line_pos + i - 1>>].ch = typed[i - 1]
    BY <1>0, <1>2 DEF LineShown
<1>8. CASE call \in {"clear", "newline"}
  <2>1. ScreenType' /\ cursor_x' = 0
      BY <1>0, <1>5, <1>8, NewRowEffect
  <2>2. CursorInRow' /\ LineShown'
      BY <1>2, <1>8, <2>1, Sizes DEF CursorInRow, LineShown
  <2> QED
      BY <1>3, <1>4, <2>1, <2>2 DEF IInv
<1>9. CASE call = "none"
  <2>1. /\ cursor_x' = cursor_x /\ cursor_y' = cursor_y /\ saved' = saved
        /\ ATTRIB' = ATTRIB /\ line_pos' = line_pos /\ typed' = typed
        /\ reading' = reading /\ enter_pressed' = enter_pressed
      BY <1>2, <1>5, <1>9 DEF screen
  <2>2. ScreenType' /\ CursorInRow' /\ LineShown'
      BY <1>0, <1>2, <2>1 DEF ScreenType, CursorInRow, LineShown
  <2> QED
      BY <1>3, <1>4, <2>2 DEF IInv
<1>10. CASE call = "erase"
  <2>1. /\ line_pos > 0 /\ line_pos' = line_pos - 1 /\ typed' = typed
        /\ reading' = 1 /\ enter_pressed' = enter_pressed
      BY <1>2, <1>10
  <2>2. cursor_x > 0
      BY <1>6, <2>1, Sizes
  <2>3. /\ ScreenType' /\ cursor_y' = cursor_y /\ cursor_x' = cursor_x - 1
        /\ \A j \in S!Cols :
              j # cursor_x - 1 => saved'[<<cursor_y, j>>] = saved[<<cursor_y, j>>]
      BY <1>0, <1>5, <1>10, <2>2, BackspaceEffect
  <2>4. CursorInRow'
      BY <1>2, <1>6, <2>1, <2>3, Sizes DEF CursorInRow
  <2>5. ASSUME NEW i \in 1 .. line_pos - 1, pc # "line_pos"
        PROVE  saved'[<<cursor_y, cursor_x' - line_pos' + i - 1>>].ch = typed[i - 1]
    <3> DEFINE j == cursor_x - line_pos + i - 1
    <3>1. /\ i \in 1 .. line_pos /\ j \in S!Cols /\ j # cursor_x - 1
          /\ cursor_x' - line_pos' + i - 1 = j
        BY <1>6, <2>1, <2>3, Sizes DEF S!Cols
    <3> HIDE DEF j
    <3>2. saved'[<<cursor_y, j>>] = saved[<<cursor_y, j>>]
        BY <2>3, <3>1
    <3>3. saved[<<cursor_y, j>>].ch = typed[i - 1]
        BY <1>7, <2>5, <3>1 DEF j
    <3> QED
        BY <3>1, <3>2, <3>3
  <2>6. LineShown'
      BY <1>2, <2>1, <2>3, <2>5 DEF LineShown
  <2> QED
      BY <1>3, <1>4, <2>3, <2>4, <2>6 DEF IInv
<1>11. CASE call = "put"
  <2>1. /\ c \in Text /\ line_pos < LineLimit /\ line_pos' = line_pos + 1
        /\ typed' = [typed EXCEPT ![line_pos] = c]
        /\ reading' = 1 /\ enter_pressed' = enter_pressed
      BY <1>2, <1>11, Sizes
  <2>2. cursor_x + 1 < NUM_COLS
      BY <1>6, <2>1, Sizes
  <2>3. /\ ScreenType' /\ cursor_y' = cursor_y /\ cursor_x' = cursor_x + 1
        /\ saved'[<<cursor_y, cursor_x>>].ch = c
        /\ \A j \in S!Cols : j # cursor_x => saved'[<<cursor_y, j>>] = saved[<<cursor_y, j>>]
      BY <1>0, <1>5, <1>11, <2>1, <2>2, CharEffect
  <2>4. CursorInRow'
      BY <1>2, <1>6, <2>1, <2>3, Sizes DEF CursorInRow
  <2>5. /\ typed'[line_pos] = c
        /\ \A i \in 1 .. line_pos : typed'[i - 1] = typed[i - 1]
      BY <1>0, <1>6, <2>1, Sizes DEF TerminalType, T!Slots
  <2>6. ASSUME NEW i \in 1 .. line_pos + 1, pc # "line_pos"
        PROVE  saved'[<<cursor_y, cursor_x' - line_pos' + i - 1>>].ch = typed'[i - 1]
    <3> DEFINE j == cursor_x - line_pos + i - 1
    <3>1. j \in S!Cols /\ cursor_x' - line_pos' + i - 1 = j
        BY <1>6, <2>1, <2>2, <2>3, Sizes DEF S!Cols
    <3>2. CASE i = line_pos + 1
      <4>1. j = cursor_x /\ i - 1 = line_pos
          BY <1>6, <3>2
      <4> QED
          BY <2>3, <2>5, <3>1, <4>1
    <3>3. CASE i # line_pos + 1
      <4>1. i \in 1 .. line_pos /\ j # cursor_x
          BY <1>6, <3>3
      <4> HIDE DEF j
      <4>2. saved'[<<cursor_y, j>>] = saved[<<cursor_y, j>>]
          BY <2>3, <3>1, <4>1
      <4>3. saved[<<cursor_y, j>>].ch = typed[i - 1]
          BY <1>7, <2>6, <4>1 DEF j
      <4> QED
          BY <2>5, <3>1, <4>1, <4>2, <4>3
    <3> QED
        BY <3>2, <3>3
  <2>7. LineShown'
      BY <1>2, <2>1, <2>3, <2>6 DEF LineShown
  <2> QED
      BY <1>3, <1>4, <2>3, <2>4, <2>7 DEF IInv
<1> QED
    BY <1>2, <1>8, <1>9, <1>10, <1>11

\* Keys that scroll or recolour the screen.
LEMMA ViewStep ==
    ASSUME IInv, ViewKeyPressed
    PROVE  IInv'
<1>0. TerminalInv /\ TerminalType /\ ScreenType /\ Printing /\ CursorInRow /\ LineShown
    BY DEF IInv, TerminalInv
<1>1. T!ViewKey /\ reading = 1 /\ out' = out
    BY DEF ViewKeyPressed, T!ViewKey
<1>2. UNCHANGED <<typed, line_pos, enter_pressed, reading, pc, buf, rtn_cnt>>
    BY <1>1, OtherKeyTerminal
<1>3. TerminalInv'
    BY <1>0, <1>2, SameTerminal
<1>4. pc \in {"line_pos", "enter_pressed", "wait"}
    BY <1>0, <1>1 DEF TerminalInv, TerminalType, Gate, T!PCs, T!PrintPCs, T!ReadPCs
<1>5. Printing'
    BY <1>1, <1>2, <1>4, NotPrinting
<1>6. /\ ScreenType' /\ cursor_x' = cursor_x /\ cursor_y' = cursor_y
      /\ \A p \in S!MemRows \X S!Cols : saved'[p].ch = saved[p].ch
    BY <1>0, ViewEffect DEF ViewKeyPressed
<1>7. CursorInRow'
    BY <1>0, <1>2, <1>6 DEF CursorInRow
<1>8. LineShown'
  <2>1. SUFFICES ASSUME NEW i \in 1 .. line_pos, pc # "line_pos"
                 PROVE  saved'[<<cursor_y, cursor_x - line_pos + i - 1>>].ch = typed[i - 1]
      BY <1>2, <1>6 DEF LineShown
  <2>2. <<cursor_y, cursor_x - line_pos + i - 1>> \in S!MemRows \X S!Cols
      BY <1>0, <1>1, Sizes
      DEF ScreenType, TerminalType, CursorInRow, S!MemRows, S!Cols
  <2> QED
      BY <1>0, <1>1, <1>4, <1>6, <2>1, <2>2 DEF LineShown
<1> QED
    BY <1>3, <1>5, <1>6, <1>7, <1>8 DEF IInv

\* Keys that touch neither the line nor the screen, and stuttering.
LEMMA QuietStep ==
    ASSUME IInv, OtherKey \/ UNCHANGED vars
    PROVE  IInv'
<1>0. TerminalInv /\ ScreenType /\ Printing /\ CursorInRow /\ LineShown
    BY DEF IInv
<1>1. UNCHANGED <<typed, line_pos, enter_pressed, reading, pc, buf, rtn_cnt>>
    BY OtherKeyTerminal DEF vars, terminal
<1>2. /\ cursor_x' = cursor_x /\ cursor_y' = cursor_y /\ saved' = saved
      /\ ATTRIB' = ATTRIB /\ out' = out
    BY DEF OtherKey, vars, screen
<1>3. TerminalInv'
    BY <1>0, <1>1, SameTerminal
<1>4. Current' = Current /\ Done' = Done
    BY <1>1, <1>2 DEF Current, Done, Report, T!NL
<1>5. ScreenType' /\ Printing' /\ CursorInRow' /\ LineShown'
    BY <1>0, <1>1, <1>2, <1>4 DEF ScreenType, Printing, CursorInRow, LineShown
<1> QED
    BY <1>3, <1>5 DEF IInv

-----------------------------------------------------------------------------
(* The theorems *)

\* The kernel starts with a blank screen and the prompt still to print.
LEMMA InitIInv == Init => IInv
<1> SUFFICES ASSUME Init PROVE IInv
    OBVIOUS
<1>1. TerminalInv
    BY Sizes
    DEF Init, T!Init, TerminalInv, TerminalType, Gate, Line, Ended, Copied, T!Slots,
        T!BufSlots, T!Codes, T!PCs, T!PrintPCs, T!ReadPCs
<1>2. ScreenType
  <2>1. cursor_x \in S!Cols /\ cursor_y \in 0 .. MaxRow /\ ATTRIB \in S!Attrs
      BY Sizes DEF Init, S!Init, S!Cols, S!Attrs
  <2>2. S!BlankIn(ATTRIB) \in Cells
      BY <2>1 DEF S!BlankIn, Cells
  <2>3. 0 \in 0 .. Colors - 1
      BY Sizes
  <2>4. S!KernelCell \in Cells
      BY <2>3 DEF S!KernelCell, Cells, S!Attrs
  <2>5. saved = [p \in S!MemRows \X S!Cols |-> IF S!InSaved(p) THEN S!BlankIn(ATTRIB)
                                                              ELSE S!KernelCell]
      BY DEF Init, S!Init
  <2>6. saved \in [S!MemRows \X S!Cols -> Cells]
      BY <2>2, <2>4, <2>5
  <2> QED
      BY <2>1, <2>6 DEF ScreenType
<1>3. pc = "prompt" /\ reading = 0 /\ cursor_x = 0 /\ out = Prompt
    BY DEF Init, T!Init, S!Init
<1>4. Printing
  <2>1. Current = Prompt /\ Done = 0
      BY <1>3, Sizes DEF Current, Done
  <2>2. \A i \in 1 .. Len(Prompt) : 0 + i = i
      BY Sizes
  <2>3. Prompt \in Seq(Text \cup {T!NL}) /\ Prompt # <<>>
      BY Sizes
  <2> QED
      BY <1>3, <2>1, <2>2, <2>3, Sizes DEF Printing, T!PrintPCs
<1>5. CursorInRow /\ LineShown
    BY <1>3 DEF CursorInRow, LineShown
<1> QED
    BY <1>1, <1>2, <1>4, <1>5 DEF IInv

\* Every step of the main thread and of the handler preserves the invariant.
LEMMA StepIInv == IInv /\ [Next]_vars => IInv'
BY PrintStep, StatementStep, KeyStep, ViewStep, QuietStep DEF Next

\* The invariant holds in every reachable state.
THEOREM Inductive == Spec => []IInv
BY InitIInv, StepIInv, PTL DEF Spec

\* printf and puts are never broken into by the handler, although nothing locks the
\* screen.
THEOREM OutputNeverBroken == Spec => []OutputUnbroken
<1>1. IInv => OutputUnbroken
  <2> SUFFICES ASSUME IInv, pc \in T!PrintPCs, out # <<>>
               PROVE  cursor_x = Len(Printed) /\ Shows(cursor_y, 0, Printed)
      BY DEF OutputUnbroken
  <2>1. /\ Len(out) <= Len(Current) /\ cursor_x = Done /\ Len(out) \in Nat
        /\ \A i \in 1 .. Done : saved[<<cursor_y, i - 1>>].ch = Current[i]
      BY DEF IInv, Printing
  <2>2. Current \in Seq(Text \cup {T!NL}) /\ Len(Current) \in Nat
      BY CurrentShape DEF IInv
  <2>3. Done \in 0 .. Len(Current)
      BY <2>1, <2>2 DEF Done
  <2>4. Printed = SubSeq(Current, 1, Done)
      BY DEF Printed, Current, Done
  <2> HIDE DEF Current, Done
  <2>5. Len(Printed) = Done /\ \A i \in 1 .. Done : Printed[i] = Current[i]
      BY <2>2, <2>3, <2>4
  <2>6. \A i \in 1 .. Done : (0 + i) - 1 = i - 1
      BY <2>3
  <2> QED
      BY <2>1, <2>5, <2>6 DEF Shows
<1> QED
    BY <1>1, Inductive, PTL

\* While a read waits, typed[] and the row on the screen agree.
THEOREM LineStaysOnScreen == Spec => []LineOnScreen
<1>1. IInv => LineOnScreen
  <2> SUFFICES ASSUME IInv, pc = "wait", reading = 1
               PROVE  /\ cursor_x >= line_pos
                      /\ Shows(cursor_y, cursor_x - line_pos,
                               [i \in 1 .. line_pos |-> typed[i - 1]])
      BY DEF LineOnScreen
  <2>1. line_pos \in Nat /\ cursor_x \in Nat /\ line_pos <= cursor_x
      BY Sizes DEF IInv, TerminalInv, TerminalType, ScreenType, S!Cols, CursorInRow
  <2>2. \A i \in 1 .. line_pos :
           saved[<<cursor_y, cursor_x - line_pos + i - 1>>].ch = typed[i - 1]
      BY DEF IInv, LineShown
  <2>3. Len([i \in 1 .. line_pos |-> typed[i - 1]]) = line_pos
      BY <2>1
  <2> QED
      BY <2>1, <2>2, <2>3 DEF Shows
<1> QED
    BY <1>1, Inductive, PTL

\* A backspace never leaves its row, also when keys hit terminal_read's first
\* statements.
THEOREM EraseInRow == Spec => []EraseStaysInRow
<1>1. IInv => EraseStaysInRow
    BY Sizes
    DEF IInv, TerminalInv, TerminalType, ScreenType, S!Cols, CursorInRow, EraseStaysInRow
<1> QED
    BY <1>1, Inductive, PTL

\* The terminal does nothing in the console that it does not do by itself, so what is
\* proved about it holds there.
THEOREM RunsTerminal == Spec => T!Spec
<1>1. Init => T!Init
    BY DEF Init
<1>2. [Next]_vars => [T!Next]_(T!vars)
  <2>1. UNCHANGED terminal => UNCHANGED T!vars
      BY DEF terminal, T!vars, T!flags, T!mainVars
  <2>2. PrintChar \/ UNCHANGED vars => UNCHANGED terminal
      BY DEF PrintChar, vars
  <2>3. PromptPrinted \/ ReadStep \/ ReadReturn \/ ReportPrinted => T!Main
      BY DEF PromptPrinted, ReadStep, ReadReturn, ReportPrinted, T!Main
  <2>4. (\E k \in CharKeys : KeyPressed(k)) \/ ViewKeyPressed \/ OtherKey => T!Keyboard
      BY DEF KeyPressed, ViewKeyPressed, OtherKey, T!Keyboard
  <2> QED
      BY <2>1, <2>2, <2>3, <2>4 DEF Next, T!Next
<1> QED
    BY <1>1, <1>2, PTL DEF Spec, T!Spec

\* The screen is only ever driven through its operations, with characters it can
\* show, so what is proved about it holds in the console.  (That the erase the handler
\* calls is never the one at the origin, which Screen leaves out, is EraseInRow.)
THEOREM RunsScreen == Spec => S!Spec
<1>1. Init => S!Init
    BY DEF Init
<1>2. IInv /\ [Next]_vars => [S!Next]_(S!vars)
  <2> SUFFICES ASSUME IInv, [Next]_vars PROVE [S!Next]_(S!vars)
      OBVIOUS
  <2>1. UNCHANGED screen => UNCHANGED S!vars
      BY DEF screen, S!vars, S!cursor, S!hardware
  <2>2. CASE UNCHANGED vars \/ PromptPrinted \/ ReadStep \/ ReadReturn \/ ReportPrinted
             \/ OtherKey
      BY <2>1, <2>2
      DEF vars, PromptPrinted, ReadStep, ReadReturn, ReportPrinted, OtherKey
  <2>3. CASE PrintChar
    <3>1. Head(out) \in Text \cup {T!NL}
        BY <2>3 DEF PrintChar, IInv, Printing
    <3> QED
        BY <2>3, <3>1 DEF PrintChar, S!Next
  <2>4. ASSUME NEW k \in CharKeys, KeyPressed(k) PROVE [S!Next]_(S!vars)
    <3> DEFINE c == T!kbd_data(k)
               call == T!ScreenCall(c)
    <3>1. \/ call \in {"clear", "erase", "newline", "none"}
          \/ call = "put" /\ c \in Text
        BY Sizes DEF T!ScreenCall
    <3>2. /\ call = "clear"   => S!Clear
          /\ call = "erase"   => S!PutBackspace
          /\ call = "newline" => S!PutNewline
          /\ call = "put"     => S!PutChar(c)
          /\ call = "none"    => UNCHANGED screen
        BY <2>4 DEF KeyPressed, Call
    <3> QED
        BY <2>1, <3>1, <3>2 DEF S!Next
  <2>5. CASE ViewKeyPressed
      BY <2>5 DEF ViewKeyPressed, S!Next
  <2> QED
      BY <2>2, <2>3, <2>4, <2>5 DEF Next
<1> QED
    BY <1>1, <1>2, Inductive, PTL DEF Spec, S!Spec
=============================================================================
