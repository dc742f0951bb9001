------------------------------- MODULE Screen -------------------------------
(***************************************************************************)
(* The text screen of student-distrib/lib.c: NUM_ROWS x NUM_COLS cells of  *)
(* displayed video memory over a long saved video memory, a cursor that    *)
(* lives in the saved memory, a window (screen_offset) that can be         *)
(* scrolled away from it, the VGA hardware cursor, and one colour for the  *)
(* whole screen.                                                           *)
(*                                                                         *)
(* A cell of either memory is addressed by <<row, column>>, which stands   *)
(* for the byte pair at 2 * (NUM_COLS * row + column).  cursor_y and       *)
(* screen_offset are 32-bit unsigned; their difference wraps.              *)
(***************************************************************************)
EXTENDS Integers

CONSTANTS
    NUM_ROWS, NUM_COLS,    \* 25, 80
    SavedRows, SavedTail,  \* saved video memory: this many rows and a part of
                           \* one more (19660 rows and 64 cells); the kernel
                           \* image follows it in memory
    Text,                  \* characters other than newline and backspace
    Colors, FirstFont,     \* 8 of them, 2 at first
    WORD,                  \* 2^32
    Scrolls,               \* offsets keyboard_input passes to scroll
    MaxRow                 \* bound: rows below this are not reached

Blank == " "
Image == "image"           \* a byte of the kernel image

ASSUME ScreenAssumption ==
    /\ NUM_ROWS \in Nat /\ NUM_ROWS > 0
    /\ NUM_COLS \in Nat /\ NUM_COLS > 0
    /\ SavedRows \in Nat /\ NUM_ROWS <= SavedRows
    /\ SavedTail \in 0 .. NUM_COLS - 1
    /\ Colors \in Nat /\ FirstFont \in 0 .. Colors - 1
    /\ MaxRow \in Nat
    /\ WORD \in Nat /\ 4 * (MaxRow + NUM_ROWS + 1) < WORD
    /\ Scrolls \subseteq Int
    /\ \A d \in Scrolls : d < WORD \div 4 /\ -d < WORD \div 4
    /\ Image \notin Text /\ Image # Blank

VARIABLES
    cursor_x, cursor_y,  \* next character goes here in saved memory
    screen_offset,       \* saved row shown in the top row of the screen
    cursor_enabled,
    ATTRIB,              \* current colours
    video, saved,        \* displayed and saved video memory
    csr,                 \* bits 5..7 of CRTC register 0x0A; bit 5 hides the cursor
    position             \* CRTC registers 0x0E, 0x0F: where the cursor is shown

cursor   == <<cursor_x, cursor_y>>
hardware == <<cursor_enabled, csr, position>>
vars     == <<cursor, screen_offset, ATTRIB, video, saved, hardware>>

Cols    == 0 .. NUM_COLS - 1
ScrRows == 0 .. NUM_ROWS - 1
MemRows == 0 .. MaxRow + NUM_ROWS
Attrs   == [fg : 0 .. Colors - 1, bg : 0 .. Colors - 1]

InSaved(p) == p[1] < SavedRows \/ (p[1] = SavedRows /\ p[2] < SavedTail)

BlankIn(a) == [ch |-> Blank, attr |-> a]
KernelCell == [ch |-> Image, attr |-> [fg |-> 0, bg |-> 0]]

-----------------------------------------------------------------------------
(* Helpers of lib.c *)

\* screen_y() for a cursor in row y and a window at row so
screen_y(y, so) == IF y >= so THEN y - so ELSE y - so + WORD

\* Mutant: the argument of scroll taken as unsigned.
Signed_Unsigned(n) == n

\* the conversion of a 32-bit value to int32_t
Signed(n) == IF n < WORD \div 2 THEN n ELSE n - WORD

OnScreen(y, so) == screen_y(y, so) < NUM_ROWS

\* What scroll copies into displayed memory.
Window(mem, so) ==
    [p \in ScrRows \X Cols |-> mem[<<so + p[1], p[2]>>]]

\* Mutant: the hide bit is added or removed without looking at cursor_enabled.
update_cursor_NoCheck(y, x, so) ==
    IF OnScreen(y, so)
    THEN /\ csr' = (csr - 1) % 8
         /\ cursor_enabled' = 1
         /\ position' = <<screen_y(y, so), x>>
    ELSE /\ csr' = (csr + 1) % 8
         /\ cursor_enabled' = 0
         /\ UNCHANGED position

\* update_cursor() with the cursor in row y, column x and the window at so.
update_cursor(y, x, so) ==
    IF OnScreen(y, so)
    THEN /\ csr' = IF cursor_enabled = 0 THEN (csr - 1) % 8 ELSE csr
         /\ cursor_enabled' = 1
         /\ position' = <<screen_y(y, so), x>>
    ELSE /\ csr' = IF cursor_enabled # 0 THEN (csr + 1) % 8 ELSE csr
         /\ cursor_enabled' = 0
         /\ UNCHANGED position

\* The clamped window position of scroll(d), and whether scroll returns early.
ScrollTarget(d, y) ==
    IF d + screen_offset < 0 THEN 0
    ELSE IF screen_offset + d > y THEN y
    ELSE screen_offset + d

ScrollStays(d, y) ==
    \/ d + screen_offset < 0 /\ screen_offset = 0
    \/ d + screen_offset >= 0 /\ screen_offset + d > y /\ screen_offset = y

\* scroll(d) called with the cursor at y, x, saved memory mem and displayed
\* memory vid.
ScrollBy(d, y, x, mem, vid) ==
    IF ScrollStays(d, y)
    THEN /\ video' = vid
         /\ UNCHANGED <<screen_offset, hardware>>
    ELSE /\ screen_offset' = ScrollTarget(d, y)
         /\ video' = Window(mem, ScrollTarget(d, y))
         /\ update_cursor(y, x, ScrollTarget(d, y))

\* Mutants: a backspace blanks the screen only; displayed memory is addressed
\* with the cursor's row in saved memory.
WriteSaved_SkipBlank(y, x, cell) ==
    IF cell.ch = Blank THEN saved ELSE [saved EXCEPT ![<<y, x>>] = cell]
WriteVideo_Absolute(y, x, cell) ==
    IF y < NUM_ROWS THEN [video EXCEPT ![<<y, x>>] = cell] ELSE video

\* The cell under the cursor in saved memory, and in displayed memory when the
\* window shows it.
WriteSaved(y, x, cell) == [saved EXCEPT ![<<y, x>>] = cell]
WriteVideo(y, x, cell) ==
    IF OnScreen(y, screen_offset)
    THEN [video EXCEPT ![<<screen_y(y, screen_offset), x>>] = cell]
    ELSE video

\* The end of putc: bring the cursor's row back into the window, or just move
\* the hardware cursor.
Follow(y, x, mem, vid) ==
    IF OnScreen(y, screen_offset)
    THEN /\ video' = vid
         /\ update_cursor(y, x, screen_offset)
         /\ UNCHANGED screen_offset
    ELSE ScrollBy(Signed(screen_y(y, screen_offset) - NUM_ROWS + 1), y, x, mem, vid)

\* The cursor after a printed character, and after a backspace.
Advance(y, x) ==
    IF x + 1 = NUM_COLS THEN <<y + 1, 0>> ELSE <<y, x + 1>>
Retreat(y, x) ==
    IF x = 0 THEN <<y - 1, NUM_COLS - 1>> ELSE <<y, x - 1>>

MoveTo(y, x, mem, vid) ==
    /\ cursor_y' = y
    /\ cursor_x' = x
    /\ saved' = mem
    /\ Follow(y, x, mem, vid)
    /\ UNCHANGED ATTRIB

-----------------------------------------------------------------------------
(* Operations *)

\* screen_init; the VGA cursor is visible when the kernel starts.
Init ==
    /\ cursor_x = 0
    /\ cursor_y = 0
    /\ screen_offset = 0
    /\ cursor_enabled = 1
    /\ ATTRIB = [fg |-> FirstFont, bg |-> 0]
    /\ video = [p \in ScrRows \X Cols |-> BlankIn(ATTRIB)]
    /\ saved = [p \in MemRows \X Cols |-> IF InSaved(p) THEN BlankIn(ATTRIB)
                                                        ELSE KernelCell]
    /\ csr = 0
    /\ position = <<0, 0>>

\* putc('\n') and putc('\r')
PutNewline ==
    /\ cursor_y < MaxRow
    /\ MoveTo(cursor_y + 1, 0, saved, video)

\* putc('\b').  No caller backspaces at the origin, where cursor_y would wrap.
PutBackspace ==
    LET to == Retreat(cursor_y, cursor_x)
        cell == BlankIn(ATTRIB)
    IN  /\ cursor # <<0, 0>>
        /\ MoveTo(to[1], to[2], WriteSaved(to[1], to[2], cell),
                               WriteVideo(to[1], to[2], cell))

\* putc(c) for every other character
PutChar(c) ==
    LET to == Advance(cursor_y, cursor_x)
        cell == [ch |-> c, attr |-> ATTRIB]
    IN  /\ to[1] <= MaxRow
        /\ MoveTo(to[1], to[2], WriteSaved(cursor_y, cursor_x, cell),
                               WriteVideo(cursor_y, cursor_x, cell))

\* Mutant: clear blanks the row the cursor is in.
ClearRow_Same == cursor_y

\* The row on which clear starts a fresh page: below everything written so far.
ClearRow == cursor_y + 1

\* clear
Clear ==
    LET y == ClearRow IN
    /\ y <= MaxRow
    /\ cursor_x' = 0
    /\ cursor_y' = y
    /\ screen_offset' = y
    /\ update_cursor(y, 0, y)
    /\ video' = [p \in ScrRows \X Cols |-> BlankIn(ATTRIB)]
    /\ saved' = [p \in MemRows \X Cols |->
                    IF p[1] \in y .. y + NUM_ROWS - 1 THEN BlankIn(ATTRIB)
                                                      ELSE saved[p]]
    /\ UNCHANGED ATTRIB

\* scroll, from the cursor keys and Page Up / Page Down
Scroll(d) ==
    /\ ScrollBy(d, cursor_y, cursor_x, saved, video)
    /\ UNCHANGED <<cursor, ATTRIB, saved>>

\* update_color: recolour all of saved memory, then repaint with scroll(0)
Recolored(a) ==
    [p \in MemRows \X Cols |-> IF InSaved(p) THEN [saved[p] EXCEPT !.attr = a]
                                             ELSE saved[p]]

update_color(a) ==
    /\ ATTRIB' = a
    /\ saved' = Recolored(a)
    /\ ScrollBy(0, cursor_y, cursor_x, Recolored(a), video)
    /\ UNCHANGED cursor

FontColor == update_color([ATTRIB EXCEPT !.fg = (@ + 1) % Colors])

BackgroundColor == update_color([ATTRIB EXCEPT !.bg = (@ + 1) % Colors])

Next ==
    \/ PutNewline
    \/ PutBackspace
    \/ \E c \in Text : PutChar(c)
    \/ Clear
    \/ \E d \in Scrolls : Scroll(d)
    \/ FontColor
    \/ BackgroundColor

Spec == Init /\ [][Next]_vars

-----------------------------------------------------------------------------
(* Properties *)

\* The screen shows exactly the part of saved memory at screen_offset, however
\* writes, scrolls, clears and colour changes are mixed: putc writes the two
\* memories separately.
Mirror == video = Window(saved, screen_offset)

\* The window never passes below the cursor, so that screen_y(), an unsigned
\* difference, is the true distance between operations (inside putc's backspace
\* it does wrap).  The VGA cursor agrees with the software: it is hidden, by one
\* and only one addition of 0x20 to its register, exactly while the cursor's row
\* is scrolled off the screen, and shown at the right place otherwise.
HardwareCursor ==
    /\ screen_offset <= cursor_y
    /\ csr = 1 - cursor_enabled
    /\ cursor_enabled = 1 <=> OnScreen(cursor_y, screen_offset)
    /\ cursor_enabled = 1 =>
          position = <<screen_y(cursor_y, screen_offset), cursor_x>>

\* Nothing is ever left at or after the cursor.
BlankAhead ==
    \A p \in MemRows \X Cols :
        /\ InSaved(p)
        /\ p[1] > cursor_y \/ (p[1] = cursor_y /\ p[2] >= cursor_x)
        => saved[p].ch = Blank

\* Text that was written is kept in saved memory, through scrolling, clearing
\* and recolouring, until a backspace moves the cursor onto it.
TextKept ==
    [][\A p \in MemRows \X Cols :
          saved'[p].ch # saved[p].ch /\ saved[p].ch # Blank =>
             /\ p = <<cursor_y', cursor_x'>>
             /\ saved'[p].ch = Blank]_vars

\* lib.c:12, lib.c:14: cursor_y is the "cursor ofset from beginning of saved video
\* memory", and saved_video_mem holds what is "stored".  The memory behind saved
\* video memory (the kernel image at 0x400000) is never written.
KernelImageKept ==
    \A p \in MemRows \X Cols : ~InSaved(p) => saved[p] = KernelCell
=============================================================================
