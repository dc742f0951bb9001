------------------------------- MODULE Console -------------------------------
(***************************************************************************)
(* The terminal and the screen together, as the kernel runs them: the main *)
(* thread prints a character at a time with printf, puts and putc, and     *)
(* keyboard_input calls putc, clear, scroll and the colour functions from  *)
(* the interrupt handler between any two of those characters.              *)
(***************************************************************************)
EXTENDS Integers, Sequences

CONSTANTS TypedSize, LineLimit, ReadCnt, Printable, LetterL, CharKeys, chars,
          shift_chars, Ctrls, Shifts
CONSTANTS NUM_ROWS, NUM_COLS, SavedRows, SavedTail, Text, Colors,
          FirstFont, WORD, Scrolls, MaxRow
CONSTANTS Prompt,   \* "Reading-> ", as a sequence of characters
          Label     \* "Typed:    "

VARIABLES typed, line_pos, enter_pressed, shift, caps_lock, ctrl, reading,
          pc, buf, rtn_cnt, held, echo, raced
VARIABLES cursor_x, cursor_y, screen_offset, cursor_enabled, ATTRIB, video,
          saved, csr, position
VARIABLE  out       \* what the main thread's current statements still print

T == INSTANCE Terminal
S == INSTANCE Screen

\* The components' own assumptions; and a line with its prompt, even one typed twice
\* over, fits in a row.
ASSUME ConsoleAssumption ==
    /\ T!SizeAssumption /\ T!TableAssumption /\ S!ScreenAssumption
    /\ Prompt \in Seq(Text) /\ Label \in Seq(Text)
    /\ Printable \subseteq Text /\ T!NL \notin Text
    /\ LineLimit <= Len(Prompt)
    /\ Len(Prompt) + 2 * LineLimit < NUM_COLS
    /\ Len(Label) + LineLimit < NUM_COLS

terminal == <<typed, line_pos, enter_pressed, shift, caps_lock, ctrl, reading,
              pc, buf, rtn_cnt, held, echo, raced>>
screen   == <<cursor_x, cursor_y, screen_offset, cursor_enabled, ATTRIB, video,
              saved, csr, position>>
vars     == <<terminal, screen, out>>

Init == T!Init /\ S!Init /\ out = Prompt

-----------------------------------------------------------------------------
(* The main thread *)

\* putc of the next character of printf("Reading-> "), puts("Typed:    "),
\* puts(buf) or putc('\n')
PrintChar ==
    /\ out # <<>>
    /\ IF Head(out) = T!NL THEN S!PutNewline ELSE S!PutChar(Head(out))
    /\ out' = Tail(out)
    /\ UNCHANGED terminal

\* The line the main loop prints for what terminal_read returned.
Report(b, n) == Label \o [i \in 1 .. n |-> b[i - 1]] \o <<T!NL>>

ReadReturn ==
    /\ T!ReadReturn
    /\ out' = Report(buf', rtn_cnt)
    /\ UNCHANGED screen

PromptPrinted ==
    /\ out = <<>>
    /\ T!PrintPrompt
    /\ UNCHANGED <<screen, out>>

ReportPrinted ==
    /\ out = <<>>
    /\ T!PrintTyped
    /\ out' = Prompt
    /\ UNCHANGED screen

\* The statements of terminal_read do not touch the screen.
ReadStep ==
    /\ T!SetReading \/ T!ResetLinePos \/ T!ResetEnter \/ T!EnterSeen \/ T!CopyChar
    /\ UNCHANGED <<screen, out>>

-----------------------------------------------------------------------------
(* The keyboard handler *)

\* The screen function keyboard_input calls for a character.
Call(c) ==
    LET call == T!ScreenCall(c) IN
    /\ call = "clear"   => S!Clear
    /\ call = "erase"   => S!PutBackspace
    /\ call = "newline" => S!PutNewline
    /\ call = "put"     => S!PutChar(c)
    /\ call = "none"    => UNCHANGED screen

KeyPressed(k) ==
    /\ T!CharKey(k)
    /\ Call(T!kbd_data(k))
    /\ UNCHANGED out

ViewKeyPressed ==
    /\ T!ViewKey
    /\ \/ \E d \in Scrolls : S!Scroll(d)
       \/ S!FontColor
       \/ S!BackgroundColor
    /\ UNCHANGED out

\* The release of a table key does not reach clear: the shifted table has no 'l'.
OtherKey ==
    /\ \/ \E k \in CharKeys : T!CharKeyReleased(k)
       \/ \E m \in Ctrls : T!CtrlPressed(m) \/ T!CtrlReleased(m)
       \/ \E m \in Shifts : T!ShiftPressed(m) \/ T!ShiftReleased(m)
       \/ T!CapsLock
       \/ T!Dropped
    /\ UNCHANGED <<screen, out>>

Next ==
    \/ PrintChar \/ PromptPrinted \/ ReadStep \/ ReadReturn \/ ReportPrinted
    \/ \E k \in CharKeys : KeyPressed(k)
    \/ ViewKeyPressed
    \/ OtherKey

Spec == Init /\ [][Next]_vars

-----------------------------------------------------------------------------
(* Properties *)

Shows(row, col, str) ==
    \A i \in 1 .. Len(str) : saved[<<row, col + i - 1>>].ch = str[i]

\* What the main thread has printed of the line it is on.
Printed ==
    LET all == IF pc = "prompt" THEN Prompt ELSE Report(buf, rtn_cnt)
    IN  SubSeq(all, 1, Len(all) - Len(out))

\* The handler never breaks into the main thread's output: the row it is
\* printing holds exactly what it has printed of it, and the cursor follows.
OutputUnbroken ==
    pc \in T!PrintPCs /\ out # <<>> =>
        /\ cursor_x = Len(Printed)
        /\ Shows(cursor_y, 0, Printed)

\* While a read waits the screen shows, up to the cursor, the line the read
\* will return: typed[] and saved video memory stay in step through editing,
\* clearing and scrolling.
LineOnScreen ==
    pc = "wait" /\ reading = 1 /\ raced = 0 =>
        /\ cursor_x >= line_pos
        /\ Shows(cursor_y, cursor_x - line_pos,
                 [i \in 1 .. line_pos |-> typed[i - 1]])

\* Whatever keys arrive, and also when they interfere with terminal_read's
\* initialisation, keyboard_input never erases across the left edge of the
\* row: cursor_y-- in putc, which wraps at the origin, is not reached.
EraseStaysInRow == reading = 1 /\ line_pos > 0 => cursor_x > 0

=============================================================================
