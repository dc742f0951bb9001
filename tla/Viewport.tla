------------------------------ MODULE Viewport ------------------------------
(***************************************************************************)
(* What the screen of lib.c promises: a typewriter over an unbounded page, *)
(* looked at through a window of NUM_ROWS rows.                            *)
(*                                                                         *)
(* The page is text; typing happens at pos and nothing else changes it.    *)
(* The window is at row top.  After every operation the user sees exactly  *)
(* that window, in one colour, with a caret when pos is inside it.  Typing *)
(* brings the window back to pos; scrolling keeps it between the top of    *)
(* the page and pos.                                                       *)
(***************************************************************************)
EXTENDS Integers

CONSTANTS NUM_ROWS, NUM_COLS, Text, Colours, FirstColour, Scrolls, MaxRow

VARIABLES
    text,     \* the page: a character for every cell
    pos,      \* <<row, column>> of the next character
    top,      \* row of the page in the first row of the window
    colour,
    display,  \* what the user sees
    caret     \* where the caret is shown, or Hidden

page == <<text, pos, top, colour>>
view == <<display, caret>>
vars == <<page, view>>

Blank  == " "
Hidden == <<>>

Cols    == 0 .. NUM_COLS - 1
ScrRows == 0 .. NUM_ROWS - 1
MemRows == 0 .. MaxRow + NUM_ROWS

Visible(row, t) == row \in t .. t + NUM_ROWS - 1

\* The view of a page.
Shown(tx, t, col) ==
    [p \in ScrRows \X Cols |-> [ch |-> tx[<<t + p[1], p[2]>>], attr |-> col]]

CaretFor(p, t) ==
    IF Visible(p[1], t) THEN <<p[1] - t, p[2]>> ELSE Hidden

Refresh ==
    /\ display' = Shown(text', top', colour')
    /\ caret' = CaretFor(pos', top')

Init ==
    /\ text = [p \in MemRows \X Cols |-> Blank]
    /\ pos = <<0, 0>>
    /\ top = 0
    /\ colour = FirstColour
    /\ display = Shown(text, top, colour)
    /\ caret = CaretFor(pos, top)

Before(p) == IF p[2] = 0 THEN <<p[1] - 1, NUM_COLS - 1>> ELSE <<p[1], p[2] - 1>>
After(p)  == IF p[2] = NUM_COLS - 1 THEN <<p[1] + 1, 0>> ELSE <<p[1], p[2] + 1>>

\* The window, moved no more than needed for the row to be its last one.
Reveal(row) ==
    IF Visible(row, top) THEN top
    ELSE IF row >= NUM_ROWS THEN row - NUM_ROWS + 1 ELSE 0

TypeAt(cell, c, next) ==
    /\ text' = [text EXCEPT ![cell] = c]
    /\ pos' = next
    /\ top' = Reveal(next[1])
    /\ UNCHANGED colour
    /\ Refresh

TypeChar(c) == After(pos)[1] <= MaxRow /\ TypeAt(pos, c, After(pos))

Erase == pos # <<0, 0>> /\ TypeAt(Before(pos), Blank, Before(pos))

NewLine ==
    /\ pos[1] < MaxRow
    /\ pos' = <<pos[1] + 1, 0>>
    /\ top' = Reveal(pos[1] + 1)
    /\ UNCHANGED <<text, colour>>
    /\ Refresh

\* A new page starts on the row after pos and everything before it is kept.
NewPage ==
    /\ pos[1] < MaxRow
    /\ pos' = <<pos[1] + 1, 0>>
    /\ top' = pos[1] + 1
    /\ UNCHANGED <<text, colour>>
    /\ Refresh

Clamp(row) == IF row < 0 THEN 0 ELSE IF row > pos[1] THEN pos[1] ELSE row

Look(d) ==
    /\ top' = Clamp(top + d)
    /\ UNCHANGED <<text, pos, colour>>
    /\ Refresh

Recolour ==
    /\ colour' \in Colours
    /\ UNCHANGED <<text, pos, top>>
    /\ Refresh

Next ==
    \/ \E c \in Text : TypeChar(c)
    \/ Erase \/ NewLine \/ NewPage \/ Recolour
    \/ \E d \in Scrolls : Look(d)

Spec == Init /\ [][Next]_vars
=============================================================================
