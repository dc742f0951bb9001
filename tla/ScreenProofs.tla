---------------------------- MODULE ScreenProofs ----------------------------
(***************************************************************************)
(* Proofs about Screen, Format and Panic: the screen for every size of its *)
(* window and memories, the numbers printf puts for every word width, and  *)
(* the exception screen for every banner and message that fit.             *)
(***************************************************************************)
EXTENDS ScreenImpl, Panic, SequenceTheorems, WellFoundedInduction, TLAPS

-----------------------------------------------------------------------------
(* The inductive invariant *)

Chars == Text \cup {Blank, Image}
Cells == [ch : Chars, attr : Attrs]

TypeOK ==
    /\ cursor_x \in Cols /\ cursor_y \in 0 .. MaxRow
    /\ screen_offset \in 0 .. MaxRow
    /\ cursor_enabled \in 0 .. 1 /\ csr \in 0 .. 7
    /\ ATTRIB \in Attrs
    /\ video \in [ScrRows \X Cols -> Cells]
    /\ saved \in [MemRows \X Cols -> Cells]

IInv == TypeOK /\ HardwareCursor /\ Mirror /\ BlankAhead

-----------------------------------------------------------------------------
(* What the helpers of lib.c do *)

\* The hardware cursor shows a cursor in row y, column x of a window at so.
Agrees(y, x, so) ==
    /\ csr = 1 - cursor_enabled
    /\ cursor_enabled = 1 <=> OnScreen(y, so)
    /\ cursor_enabled = 1 => position = <<screen_y(y, so), x>>

\* While no window is below the cursor screen_y is a plain difference.
LEMMA RowOnScreen ==
    ASSUME NEW y \in 0 .. MaxRow, NEW so \in 0 .. MaxRow
    PROVE  /\ so <= y => screen_y(y, so) = y - so
           /\ y < so => screen_y(y, so) = y - so + WORD
           /\ OnScreen(y, so) <=> so <= y /\ y < so + NUM_ROWS
BY ScreenAssumption DEF screen_y, OnScreen

\* update_cursor keeps the hide bit a bit.
LEMMA UpdateCursor ==
    ASSUME cursor_enabled \in 0 .. 1, csr = 1 - cursor_enabled,
           NEW y, NEW x, NEW so, update_cursor(y, x, so)
    PROVE  /\ cursor_enabled' \in 0 .. 1 /\ csr' \in 0 .. 7
           /\ csr' = 1 - cursor_enabled'
           /\ cursor_enabled' = 1 <=> OnScreen(y, so)
           /\ cursor_enabled' = 1 => position' = <<screen_y(y, so), x>>
BY DEF update_cursor

\* The window of a memory is a screen.
LEMMA WindowType ==
    ASSUME NEW mem \in [MemRows \X Cols -> Cells], NEW so \in 0 .. MaxRow
    PROVE  Window(mem, so) \in [ScrRows \X Cols -> Cells]
<1>1. ASSUME NEW p \in ScrRows \X Cols PROVE mem[<<so + p[1], p[2]>>] \in Cells
    BY ScreenAssumption DEF ScrRows, MemRows, Cols
<1> QED
    BY <1>1 DEF Window

\* scroll: the window moves by d as far as it may, shows memory mem there, and the
\* hardware cursor follows.
LEMMA ScrollEffect ==
    ASSUME TypeOK, NEW d \in Int,
           NEW y \in 0 .. MaxRow, NEW x, NEW mem, NEW vid,
           csr = 1 - cursor_enabled,
           ScrollStays(d, y) => /\ Agrees(y, x, screen_offset)
                                /\ vid = Window(mem, screen_offset),
           ScrollBy(d, y, x, mem, vid)
    PROVE  /\ screen_offset' = ScrollTarget(d, y)
           /\ ScrollTarget(d, y) \in 0 .. y
           /\ video' = Window(mem, screen_offset')
           /\ cursor_enabled' \in 0 .. 1 /\ csr' \in 0 .. 7
           /\ csr' = 1 - cursor_enabled'
           /\ cursor_enabled' = 1 <=> OnScreen(y, screen_offset')
           /\ cursor_enabled' = 1 => position' = <<screen_y(y, screen_offset'), x>>
<1>1. ScrollTarget(d, y) \in 0 .. y
    BY DEF ScrollTarget, TypeOK
<1>2. CASE ScrollStays(d, y)
  <2>1. ScrollTarget(d, y) = screen_offset
      BY <1>2 DEF ScrollStays, ScrollTarget, TypeOK
  <2> QED
      BY <1>1, <1>2, <2>1 DEF ScrollBy, Agrees, hardware, TypeOK
<1>3. CASE ~ScrollStays(d, y)
  <2>1. update_cursor(y, x, ScrollTarget(d, y))
      BY <1>3 DEF ScrollBy
  <2> QED
      BY <1>1, <1>3, <2>1, UpdateCursor DEF ScrollBy, TypeOK
<1> QED
    BY <1>2, <1>3

\* The end of putc, for a cursor that is at most one row above the window: the
\* window ends up where Viewport says, over memory mem.
Revealed(y) ==
    IF screen_offset <= y /\ y < screen_offset + NUM_ROWS THEN screen_offset
    ELSE IF y >= NUM_ROWS THEN y - NUM_ROWS + 1 ELSE 0

\* The end of putc brings the cursor's row back and keeps the window true.
LEMMA FollowEffect ==
    ASSUME TypeOK, csr = 1 - cursor_enabled,
           NEW y \in 0 .. MaxRow, NEW x, NEW mem, NEW vid,
           screen_offset <= y + 1,
           vid = Window(mem, screen_offset),
           Follow(y, x, mem, vid)
    PROVE  /\ screen_offset' = Revealed(y)
           /\ Revealed(y) \in 0 .. y
           /\ video' = Window(mem, screen_offset')
           /\ cursor_enabled' \in 0 .. 1 /\ csr' \in 0 .. 7
           /\ csr' = 1 - cursor_enabled'
           /\ cursor_enabled' = 1 <=> OnScreen(y, screen_offset')
           /\ cursor_enabled' = 1 => position' = <<screen_y(y, screen_offset'), x>>
<1> USE ScreenAssumption
<1>0. /\ OnScreen(y, screen_offset) <=> screen_offset <= y /\ y < screen_offset + NUM_ROWS
      /\ Revealed(y) \in 0 .. y
    BY RowOnScreen DEF TypeOK, Revealed
<1>1. CASE OnScreen(y, screen_offset)
  <2>1. update_cursor(y, x, screen_offset)
      BY <1>1 DEF Follow
  <2> QED
      BY <1>0, <1>1, <2>1, UpdateCursor DEF Follow, Revealed, TypeOK
<1>2. CASE ~OnScreen(y, screen_offset)
  <2> DEFINE d == Signed(screen_y(y, screen_offset) - NUM_ROWS + 1)
  <2>1. d = IF y < screen_offset THEN 0 - NUM_ROWS ELSE y - screen_offset - NUM_ROWS + 1
      BY <1>0, <1>2, RowOnScreen DEF Signed, TypeOK
  <2>2. d \in Int /\ ~ScrollStays(d, y) /\ ScrollTarget(d, y) = Revealed(y)
      BY <1>0, <1>2, <2>1 DEF ScrollStays, ScrollTarget, Revealed, TypeOK
  <2>3. ScrollBy(d, y, x, mem, vid)
      BY <1>2 DEF Follow
  <2> HIDE DEF d
  <2> QED
      BY <1>0, <2>2, <2>3, ScrollEffect
<1> QED
    BY <1>1, <1>2

\* A write that goes to both memories keeps the screen a window of saved memory.
LEMMA WriteBoth ==
    ASSUME TypeOK, Mirror, NEW y \in 0 .. MaxRow, NEW x \in Cols, NEW cell \in Cells
    PROVE  /\ WriteSaved(y, x, cell) \in [MemRows \X Cols -> Cells]
           /\ WriteVideo(y, x, cell) = Window(WriteSaved(y, x, cell), screen_offset)
<1> USE ScreenAssumption
<1> DEFINE m == WriteSaved(y, x, cell)
           v == WriteVideo(y, x, cell)
           r == screen_y(y, screen_offset)
<1>1. m \in [MemRows \X Cols -> Cells] /\ m = [saved EXCEPT ![<<y, x>>] = cell]
    BY DEF WriteSaved, TypeOK
<1>2. /\ screen_offset \in 0 .. MaxRow /\ NUM_ROWS \in Nat
      /\ saved \in [MemRows \X Cols -> Cells]
      /\ video = [p \in ScrRows \X Cols |-> saved[<<screen_offset + p[1], p[2]>>]]
    BY DEF TypeOK, Mirror, Window
<1>3. ASSUME NEW p \in ScrRows \X Cols
      PROVE  /\ <<screen_offset + p[1], p[2]>> \in MemRows \X Cols
             /\ v[p] = m[<<screen_offset + p[1], p[2]>>]
  <2>1. PICK i \in ScrRows, j \in Cols : p = <<i, j>>
      OBVIOUS
  <2>2. screen_offset + i \in MemRows /\ i \in Int
      BY <1>2 DEF ScrRows, MemRows
  <2>3. m[<<screen_offset + i, j>>] =
          IF screen_offset + i = y /\ j = x THEN cell ELSE saved[<<screen_offset + i, j>>]
      BY <1>1, <1>2, <2>2
  <2>4. video[<<i, j>>] = saved[<<screen_offset + i, j>>]
      BY <1>2
  <2>5. CASE OnScreen(y, screen_offset)
    <3>1. r = y - screen_offset
        BY <1>2, <2>5, RowOnScreen
    <3>2. v[<<i, j>>] = IF i = r /\ j = x THEN cell ELSE video[<<i, j>>]
        BY <1>2, <2>5 DEF WriteVideo
    <3> QED
        BY <1>2, <2>1, <2>2, <2>3, <2>4, <3>1, <3>2
  <2>6. CASE ~OnScreen(y, screen_offset)
    <3>1. screen_offset + i # y
        BY <1>2, <2>2, <2>6, RowOnScreen DEF ScrRows
    <3> QED
        BY <2>1, <2>2, <2>3, <2>4, <2>6, <3>1 DEF WriteVideo
  <2> QED
      BY <2>5, <2>6
<1>4. v = [p \in ScrRows \X Cols |-> v[p]]
    BY <1>2 DEF WriteVideo
<1> HIDE DEF m, v
<1>5. v = [p \in ScrRows \X Cols |-> m[<<screen_offset + p[1], p[2]>>]]
    BY <1>3, <1>4
<1> QED
    BY <1>1, <1>5 DEF Window, m, v

-----------------------------------------------------------------------------
(* One lemma per operation *)

\* putc, once it has written its cell.
LEMMA MoveStep ==
    ASSUME IInv, NEW y \in 0 .. MaxRow, NEW x \in Cols, screen_offset <= y + 1,
           NEW mem \in [MemRows \X Cols -> Cells], NEW vid,
           vid = Window(mem, screen_offset),
           MoveTo(y, x, mem, vid)
    PROVE  /\ TypeOK' /\ HardwareCursor' /\ Mirror'
           /\ screen_offset' = Revealed(y)
<1>1. Follow(y, x, mem, vid) /\ saved' = mem /\ cursor_y' = y /\ cursor_x' = x
    BY DEF MoveTo
<1>2. csr = 1 - cursor_enabled /\ TypeOK
    BY DEF IInv, HardwareCursor
<1>3. /\ screen_offset' = Revealed(y) /\ screen_offset' \in 0 .. y
      /\ video' = Window(mem, screen_offset')
      /\ cursor_enabled' \in 0 .. 1 /\ csr' \in 0 .. 7
      /\ csr' = 1 - cursor_enabled'
      /\ cursor_enabled' = 1 <=> OnScreen(y, screen_offset')
      /\ cursor_enabled' = 1 => position' = <<screen_y(y, screen_offset'), x>>
    BY <1>1, <1>2, FollowEffect
<1>4. screen_offset' \in 0 .. MaxRow
    BY <1>3, ScreenAssumption
<1>5. video' \in [ScrRows \X Cols -> Cells]
    BY <1>3, <1>4, WindowType
<1>6. TypeOK'
    BY <1>1, <1>3, <1>4, <1>5 DEF TypeOK, MoveTo, IInv
<1>7. HardwareCursor'
    BY <1>1, <1>3 DEF HardwareCursor, OnScreen, screen_y
<1> QED
    BY <1>1, <1>3, <1>6, <1>7 DEF Mirror, Window

\* putc('\n')
LEMMA NewlineStep ==
    ASSUME IInv, PutNewline
    PROVE  IInv' /\ screen_offset' = Revealed(cursor_y + 1)
<1> USE ScreenAssumption
<1>1. /\ cursor_y + 1 \in 0 .. MaxRow /\ 0 \in Cols
      /\ screen_offset <= cursor_y + 1 + 1
      /\ saved \in [MemRows \X Cols -> Cells]
      /\ video = Window(saved, screen_offset)
      /\ MoveTo(cursor_y + 1, 0, saved, video)
    BY DEF IInv, PutNewline, TypeOK, HardwareCursor, Mirror, Cols
<1>2. TypeOK' /\ HardwareCursor' /\ Mirror' /\ screen_offset' = Revealed(cursor_y + 1)
    BY <1>1, MoveStep
<1>3. BlankAhead'
    BY DEF BlankAhead, IInv, MoveTo, PutNewline, MemRows, Cols, TypeOK
<1> QED
    BY <1>2, <1>3 DEF IInv

\* putc('\b'): the cell before the cursor is a cell of the page, and blanking it
\* leaves nothing after the new cursor.
LEMMA BackspaceStep ==
    ASSUME IInv, PutBackspace
    PROVE  /\ IInv'
           /\ LET to == Retreat(cursor_y, cursor_x) IN
                 /\ to \in (0 .. MaxRow) \X Cols
                 /\ saved' = [saved EXCEPT ![to] = BlankIn(ATTRIB)]
                 /\ <<cursor_y', cursor_x'>> = to
                 /\ screen_offset' = Revealed(to[1])
<1> USE ScreenAssumption
<1> DEFINE to == Retreat(cursor_y, cursor_x)
           y  == to[1]
           x  == to[2]
           cell == BlankIn(ATTRIB)
<1>1. /\ y \in 0 .. MaxRow /\ x \in Cols /\ to = <<y, x>>
      /\ y = IF cursor_x = 0 THEN cursor_y - 1 ELSE cursor_y
      /\ x = IF cursor_x = 0 THEN NUM_COLS - 1 ELSE cursor_x - 1
      /\ screen_offset <= y + 1
    BY DEF IInv, TypeOK, HardwareCursor, PutBackspace, Retreat, Cols, cursor
<1>2. cell \in Cells
    BY DEF IInv, TypeOK, BlankIn, Cells, Chars
<1>3. MoveTo(y, x, WriteSaved(y, x, cell), WriteVideo(y, x, cell))
    BY DEF PutBackspace
<1>4. TypeOK /\ Mirror
    BY DEF IInv
<1> HIDE DEF to, y, x, cell
<1>5. /\ WriteSaved(y, x, cell) \in [MemRows \X Cols -> Cells]
      /\ WriteVideo(y, x, cell) = Window(WriteSaved(y, x, cell), screen_offset)
    BY <1>1, <1>2, <1>4, WriteBoth
<1>6. TypeOK' /\ HardwareCursor' /\ Mirror' /\ screen_offset' = Revealed(y)
    BY <1>1, <1>3, <1>5, MoveStep
<1>7. saved' = [saved EXCEPT ![<<y, x>>] = cell] /\ cursor_y' = y /\ cursor_x' = x
    BY <1>3 DEF MoveTo, WriteSaved
<1>8. BlankAhead'
  <2> SUFFICES ASSUME NEW i \in MemRows, NEW j \in Cols, InSaved(<<i, j>>),
                      i > y \/ (i = y /\ j >= x)
               PROVE  saved'[<<i, j>>].ch = Blank
      BY <1>7 DEF BlankAhead, InSaved
  <2>1. CASE i = y /\ j = x
      BY <1>4, <1>7, <2>1 DEF cell, BlankIn, TypeOK
  <2>2. CASE ~(i = y /\ j = x)
    <3>1. saved'[<<i, j>>] = saved[<<i, j>>]
        BY <1>4, <1>7, <2>2 DEF TypeOK
    <3>2. i > cursor_y \/ (i = cursor_y /\ j >= cursor_x)
        BY <1>1, <1>4, <2>2 DEF TypeOK, MemRows, Cols
    <3> QED
        BY <3>1, <3>2 DEF IInv, BlankAhead
  <2> QED
      BY <2>1, <2>2
<1> QED
    BY <1>1, <1>6, <1>7, <1>8 DEF IInv, to, y, x, cell

\* putc of any other character
LEMMA CharStep ==
    ASSUME IInv, NEW c \in Text, PutChar(c)
    PROVE  /\ IInv'
           /\ LET to == Advance(cursor_y, cursor_x) IN
                 /\ to \in (0 .. MaxRow) \X Cols
                 /\ saved' = [saved EXCEPT ![<<cursor_y, cursor_x>>]
                                              = [ch |-> c, attr |-> ATTRIB]]
                 /\ <<cursor_y', cursor_x'>> = to
                 /\ screen_offset' = Revealed(to[1])
<1> USE ScreenAssumption
<1> DEFINE to == Advance(cursor_y, cursor_x)
           y  == to[1]
           x  == to[2]
           cell == [ch |-> c, attr |-> ATTRIB]
<1>1. /\ y \in 0 .. MaxRow /\ x \in Cols /\ to = <<y, x>>
      /\ y = IF cursor_x + 1 = NUM_COLS THEN cursor_y + 1 ELSE cursor_y
      /\ x = IF cursor_x + 1 = NUM_COLS THEN 0 ELSE cursor_x + 1
      /\ screen_offset <= y + 1
    BY DEF IInv, TypeOK, HardwareCursor, PutChar, Advance, Cols
<1>2. cell \in Cells
    BY DEF IInv, TypeOK, Cells, Chars
<1>3. MoveTo(y, x, WriteSaved(cursor_y, cursor_x, cell),
                   WriteVideo(cursor_y, cursor_x, cell))
    BY DEF PutChar
<1>4. TypeOK /\ Mirror /\ cursor_y \in 0 .. MaxRow /\ cursor_x \in Cols
    BY DEF IInv, TypeOK
<1> HIDE DEF to, y, x, cell
<1>5. /\ WriteSaved(cursor_y, cursor_x, cell) \in [MemRows \X Cols -> Cells]
      /\ WriteVideo(cursor_y, cursor_x, cell)
            = Window(WriteSaved(cursor_y, cursor_x, cell), screen_offset)
    BY <1>2, <1>4, WriteBoth
<1>6. TypeOK' /\ HardwareCursor' /\ Mirror' /\ screen_offset' = Revealed(y)
    BY <1>1, <1>3, <1>5, MoveStep
<1>7. /\ saved' = [saved EXCEPT ![<<cursor_y, cursor_x>>] = cell]
      /\ cursor_y' = y /\ cursor_x' = x
    BY <1>3 DEF MoveTo, WriteSaved
<1>8. BlankAhead'
  <2> SUFFICES ASSUME NEW i \in MemRows, NEW j \in Cols, InSaved(<<i, j>>),
                      i > y \/ (i = y /\ j >= x)
               PROVE  saved'[<<i, j>>].ch = Blank
      BY <1>7 DEF BlankAhead, InSaved
  <2>1. /\ i > cursor_y \/ (i = cursor_y /\ j >= cursor_x)
        /\ <<i, j>> # <<cursor_y, cursor_x>>
      BY <1>1, <1>4 DEF MemRows, Cols
  <2>2. saved'[<<i, j>>] = saved[<<i, j>>]
      BY <1>4, <1>7, <2>1 DEF TypeOK
  <2> QED
      BY <2>1, <2>2 DEF IInv, BlankAhead
<1> QED
    BY <1>1, <1>6, <1>7, <1>8 DEF IInv, to, y, x, cell

\* clear
LEMMA ClearStep ==
    ASSUME IInv, Clear
    PROVE  IInv'
<1> USE ScreenAssumption
<1> DEFINE y == cursor_y + 1
<1>1. /\ y \in 0 .. MaxRow /\ y > cursor_y
      /\ cursor_y' = y /\ cursor_x' = 0 /\ screen_offset' = y /\ 0 \in Cols
      /\ update_cursor(y, 0, y)
      /\ ATTRIB' = ATTRIB /\ ATTRIB \in Attrs
      /\ TypeOK /\ cursor_enabled \in 0 .. 1 /\ csr = 1 - cursor_enabled
    BY DEF Clear, ClearRow, IInv, TypeOK, HardwareCursor, Cols
<1>2. BlankIn(ATTRIB) \in Cells
    BY <1>1 DEF BlankIn, Cells, Chars
<1>3. /\ video' = [p \in ScrRows \X Cols |-> BlankIn(ATTRIB)]
      /\ saved' = [p \in MemRows \X Cols |->
                      IF p[1] \in y .. y + NUM_ROWS - 1 THEN BlankIn(ATTRIB) ELSE saved[p]]
    BY DEF Clear, ClearRow
<1>4. /\ cursor_enabled' \in 0 .. 1 /\ csr' \in 0 .. 7
      /\ csr' = 1 - cursor_enabled'
      /\ cursor_enabled' = 1 <=> OnScreen(y, y)
      /\ cursor_enabled' = 1 => position' = <<screen_y(y, y), 0>>
    BY <1>1, UpdateCursor
<1> HIDE DEF y
<1>5. TypeOK'
  <2>1. video' \in [ScrRows \X Cols -> Cells]
      BY <1>2, <1>3
  <2>2. saved' \in [MemRows \X Cols -> Cells]
      BY <1>1, <1>2, <1>3 DEF TypeOK
  <2> QED
      BY <1>1, <1>4, <2>1, <2>2 DEF TypeOK
<1>6. HardwareCursor'
    BY <1>1, <1>4 DEF HardwareCursor, OnScreen, screen_y
<1>7. Mirror'
  <2>1. ASSUME NEW p \in ScrRows \X Cols
        PROVE  saved'[<<y + p[1], p[2]>>] = BlankIn(ATTRIB)
      BY <1>1, <1>3 DEF ScrRows, MemRows
  <2> QED
      BY <1>1, <1>3, <2>1 DEF Mirror, Window
<1>8. BlankAhead'
  <2> SUFFICES ASSUME NEW p \in MemRows \X Cols, InSaved(p), p[1] >= y
               PROVE  saved'[p].ch = Blank
      BY <1>1 DEF BlankAhead, InSaved, MemRows
  <2>1. saved[p].ch = Blank
      BY <1>1 DEF IInv, BlankAhead, TypeOK, MemRows
  <2> QED
      BY <1>3, <2>1 DEF BlankIn
<1> QED
    BY <1>5, <1>6, <1>7, <1>8 DEF IInv

\* scroll
LEMMA ScrollStep ==
    ASSUME IInv, NEW d \in Int, NEW mem \in [MemRows \X Cols -> Cells],
           ScrollStays(d, cursor_y) => mem = saved,
           ScrollBy(d, cursor_y, cursor_x, mem, video),
           saved' = mem, UNCHANGED cursor, ATTRIB' \in Attrs
    PROVE  /\ TypeOK' /\ HardwareCursor' /\ Mirror'
           /\ screen_offset' = ScrollTarget(d, cursor_y)
<1> USE ScreenAssumption
<1>1. /\ TypeOK /\ cursor_y \in 0 .. MaxRow /\ csr = 1 - cursor_enabled
      /\ Agrees(cursor_y, cursor_x, screen_offset)
      /\ video = Window(saved, screen_offset)
    BY DEF IInv, TypeOK, HardwareCursor, Agrees, Mirror
<1>2. cursor_y' = cursor_y /\ cursor_x' = cursor_x
    BY DEF cursor
<1>3. /\ screen_offset' = ScrollTarget(d, cursor_y)
      /\ screen_offset' \in 0 .. cursor_y
      /\ video' = Window(mem, screen_offset')
      /\ cursor_enabled' \in 0 .. 1 /\ csr' \in 0 .. 7
      /\ csr' = 1 - cursor_enabled'
      /\ cursor_enabled' = 1 <=> OnScreen(cursor_y, screen_offset')
      /\ cursor_enabled' = 1 =>
            position' = <<screen_y(cursor_y, screen_offset'), cursor_x>>
    BY <1>1, ScrollEffect
<1>4. screen_offset' \in 0 .. MaxRow
    BY <1>1, <1>3
<1>5. video' \in [ScrRows \X Cols -> Cells]
    BY <1>3, <1>4, WindowType
<1>6. TypeOK'
    BY <1>1, <1>2, <1>3, <1>4, <1>5 DEF TypeOK
<1>7. HardwareCursor'
    BY <1>1, <1>2, <1>3 DEF HardwareCursor, OnScreen, screen_y
<1> QED
    BY <1>3, <1>6, <1>7 DEF Mirror, Window

\* update_color: recolouring keeps the characters and scroll(0) repaints the whole
\* screen, because it never returns early.
LEMMA ColorStep ==
    ASSUME IInv, NEW a \in Attrs, update_color(a)
    PROVE  /\ IInv' /\ screen_offset' = screen_offset
           /\ \A p \in MemRows \X Cols : saved'[p].ch = saved[p].ch
<1> USE ScreenAssumption
<1> DEFINE mem == Recolored(a)
<1>1. TypeOK /\ screen_offset <= cursor_y
    BY DEF IInv, HardwareCursor
<1>2. \A p \in MemRows \X Cols : mem[p] \in Cells /\ mem[p].ch = saved[p].ch
    BY <1>1 DEF Recolored, TypeOK, Cells
<1>3. mem \in [MemRows \X Cols -> Cells]
    BY <1>2 DEF Recolored
<1>4. ~ScrollStays(0, cursor_y) /\ ScrollTarget(0, cursor_y) = screen_offset
    BY <1>1 DEF ScrollStays, ScrollTarget, TypeOK
<1>5. /\ ScrollBy(0, cursor_y, cursor_x, mem, video)
      /\ saved' = mem /\ UNCHANGED cursor /\ ATTRIB' \in Attrs
    BY DEF update_color
<1> HIDE DEF mem
<1>6. /\ TypeOK' /\ HardwareCursor' /\ Mirror'
      /\ screen_offset' = ScrollTarget(0, cursor_y)
  <2> 0 \in Int
      OBVIOUS
  <2> QED
    BY <1>3, <1>4, <1>5, ScrollStep
<1>7. BlankAhead'
    BY <1>2, <1>5 DEF BlankAhead, IInv, InSaved, cursor
<1> QED
    BY <1>2, <1>4, <1>5, <1>6, <1>7 DEF IInv

\* The colour functions cycle through the colours.
LEMMA NextColor ==
    ASSUME IInv
    PROVE  /\ [ATTRIB EXCEPT !.fg = (@ + 1) % Colors] \in Attrs
           /\ [ATTRIB EXCEPT !.bg = (@ + 1) % Colors] \in Attrs
<1>1. ATTRIB \in Attrs /\ Colors \in Nat \ {0}
    BY ScreenAssumption DEF IInv, TypeOK
<1>2. \A n \in 0 .. Colors - 1 : (n + 1) % Colors \in 0 .. Colors - 1
    BY <1>1
<1> QED
    BY <1>1, <1>2 DEF Attrs

-----------------------------------------------------------------------------
(* The theorems *)

\* screen_init establishes the invariant
LEMMA InitIInv == Init => IInv
<1> SUFFICES ASSUME Init PROVE IInv
    OBVIOUS
<1> USE ScreenAssumption
<1>1. /\ cursor_x = 0 /\ cursor_y = 0 /\ screen_offset = 0 /\ cursor_enabled = 1
      /\ csr = 0 /\ position = <<0, 0>>
      /\ ATTRIB \in Attrs
      /\ video = [p \in ScrRows \X Cols |-> BlankIn(ATTRIB)]
      /\ saved = [p \in MemRows \X Cols |-> IF InSaved(p) THEN BlankIn(ATTRIB)
                                                          ELSE KernelCell]
    BY DEF Init, Attrs
<1>2. BlankIn(ATTRIB) \in Cells /\ KernelCell \in Cells
    BY <1>1 DEF BlankIn, KernelCell, Cells, Chars, Attrs
<1>3. TypeOK
    BY <1>1, <1>2 DEF TypeOK, Cols
<1>4. HardwareCursor
    BY <1>1 DEF HardwareCursor, OnScreen, screen_y
<1>5. Mirror
  <2>1. ASSUME NEW p \in ScrRows \X Cols
        PROVE  saved[<<0 + p[1], p[2]>>] = BlankIn(ATTRIB)
      BY <1>1 DEF ScrRows, MemRows, InSaved
  <2> QED
      BY <1>1, <2>1 DEF Mirror, Window
<1>6. BlankAhead
    BY <1>1 DEF BlankAhead, BlankIn
<1> QED
    BY <1>3, <1>4, <1>5, <1>6 DEF IInv

\* Every operation preserves it.
LEMMA StepIInv == IInv /\ [Next]_vars => IInv'
<1> SUFFICES ASSUME IInv, [Next]_vars PROVE IInv'
    OBVIOUS
<1>1. CASE PutNewline
    BY <1>1, NewlineStep
<1>2. CASE PutBackspace
    BY <1>2, BackspaceStep
<1>3. ASSUME NEW c \in Text, PutChar(c) PROVE IInv'
    BY <1>3, CharStep
<1>4. CASE Clear
    BY <1>4, ClearStep
<1>5. ASSUME NEW d \in Scrolls, Scroll(d) PROVE IInv'
  <2>1. d \in Int /\ saved \in [MemRows \X Cols -> Cells] /\ ATTRIB \in Attrs
      BY ScreenAssumption DEF IInv, TypeOK
  <2>2. TypeOK' /\ HardwareCursor' /\ Mirror'
      BY <1>5, <2>1, ScrollStep DEF Scroll
  <2> QED
      BY <1>5, <2>2 DEF Scroll, IInv, BlankAhead, InSaved, cursor
<1>6. CASE FontColor
    BY <1>6, ColorStep, NextColor DEF FontColor
<1>7. CASE BackgroundColor
    BY <1>7, ColorStep, NextColor DEF BackgroundColor
<1>8. CASE UNCHANGED vars
    BY <1>8 DEF vars, cursor, hardware, IInv, TypeOK, HardwareCursor, Mirror,
                BlankAhead, Window, OnScreen, screen_y, InSaved
<1> QED
    BY <1>1, <1>2, <1>3, <1>4, <1>5, <1>6, <1>7, <1>8 DEF Next

\* The invariant holds in every reachable state.
THEOREM Inductive == Spec => []IInv
BY InitIInv, StepIInv, PTL DEF Spec

\* putc, clear, scroll and the colour functions keep displayed memory equal to the
\* window of saved memory at screen_offset, whatever the size of either.
THEOREM ScreenMirrorsMemory == Spec => []Mirror
BY Inductive, PTL DEF IInv

\* The CRTC registers agree with the software cursor: one addition of 0x20 hides it,
\* one subtraction shows it, and the unsigned screen_y() never wraps between
\* operations.
THEOREM CursorAgrees == Spec => []HardwareCursor
BY Inductive, PTL DEF IInv

\* Nothing is left at or after the cursor, which is what lets clear move one row
\* down instead of erasing.
THEOREM NothingAhead == Spec => []BlankAhead
BY Inductive, PTL DEF IInv

-----------------------------------------------------------------------------
(* Under the hypothesis that saved memory is never overrun: no text is lost, *)
(* and the screen is a Viewport                                              *)

\* The rows the cursor may reach, and the page clear blanks below it, lie in saved
\* memory.  (lib.c checks nothing of the kind: MCScreen_overrun shows what happens
\* otherwise.)
HistoryFits == MaxRow + NUM_ROWS < SavedRows

\* Then every row the model knows is one of saved memory.
LEMMA Fits ==
    ASSUME HistoryFits
    PROVE  \A p \in MemRows \X Cols : InSaved(p)
BY ScreenAssumption DEF HistoryFits, InSaved, MemRows

\* All of saved memory has the current colour.
Uniform == \A p \in MemRows \X Cols : saved[p].attr = ATTRIB

\* screen_init paints all of it in one colour ...
LEMMA InitUniform ==
    ASSUME HistoryFits, Init
    PROVE  Uniform
BY Fits DEF Init, Uniform, BlankIn

\* ... and no operation leaves a cell in another one.
LEMMA StepUniform ==
    ASSUME HistoryFits, IInv, Uniform, [Next]_vars
    PROVE  Uniform'
<1>0. saved \in [MemRows \X Cols -> Cells] /\ ATTRIB \in Attrs
    BY DEF IInv, TypeOK
<1>1. CASE PutNewline
    BY <1>1 DEF PutNewline, MoveTo, Uniform
<1>2. CASE PutBackspace
  <2>1. PICK p \in MemRows \X Cols : saved' = [saved EXCEPT ![p] = BlankIn(ATTRIB)]
      BY <1>2, BackspaceStep, ScreenAssumption DEF MemRows
  <2>2. ATTRIB' = ATTRIB
      BY <1>2 DEF PutBackspace, MoveTo
  <2> QED
      BY <1>0, <2>1, <2>2 DEF Uniform, BlankIn
<1>3. ASSUME NEW c \in Text, PutChar(c) PROVE Uniform'
  <2>1. saved' = [saved EXCEPT ![<<cursor_y, cursor_x>>] = [ch |-> c, attr |-> ATTRIB]]
      BY <1>3, CharStep
  <2>2. ATTRIB' = ATTRIB
      BY <1>3 DEF PutChar, MoveTo
  <2> QED
      BY <1>0, <2>1, <2>2 DEF Uniform
<1>4. CASE Clear
    BY <1>0, <1>4 DEF Clear, Uniform, BlankIn
<1>5. ASSUME NEW d \in Scrolls, Scroll(d) PROVE Uniform'
    BY <1>5 DEF Scroll, Uniform
<1>6. ASSUME NEW a \in Attrs, update_color(a) PROVE Uniform'
    BY <1>0, <1>6, Fits DEF update_color, Recolored, Uniform, Cells
<1>7. CASE UNCHANGED vars
    BY <1>7 DEF vars, Uniform
<1> QED
    BY <1>1, <1>2, <1>3, <1>4, <1>5, <1>6, <1>7, NextColor
    DEF Next, FontColor, BackgroundColor

\* A written character leaves saved memory only when a backspace moves the cursor
\* onto it: putc writes, and clear blanks, where nothing was written.
THEOREM WrittenTextKept ==
    ASSUME HistoryFits
    PROVE  Spec => TextKept
<1> DEFINE Kept ==
        \A p \in MemRows \X Cols :
            saved'[p].ch # saved[p].ch /\ saved[p].ch # Blank =>
               /\ p = <<cursor_y', cursor_x'>>
               /\ saved'[p].ch = Blank
<1>1. IInv /\ [Next]_vars => [Kept]_vars
  <2> SUFFICES ASSUME IInv, Next PROVE Kept
      OBVIOUS
  <2>0. /\ saved \in [MemRows \X Cols -> Cells]
        /\ cursor_y \in 0 .. MaxRow /\ cursor_x \in Cols
      BY DEF IInv, TypeOK
  <2>1. CASE PutNewline
      BY <2>1 DEF PutNewline, MoveTo
  <2>2. CASE PutBackspace
    <3>1. /\ saved' = [saved EXCEPT ![Retreat(cursor_y, cursor_x)] = BlankIn(ATTRIB)]
          /\ <<cursor_y', cursor_x'>> = Retreat(cursor_y, cursor_x)
        BY <2>2, BackspaceStep
    <3> QED
        BY <2>0, <3>1 DEF BlankIn
  <2>3. ASSUME NEW c \in Text, PutChar(c) PROVE Kept
    <3>1. saved' = [saved EXCEPT ![<<cursor_y, cursor_x>>] = [ch |-> c, attr |-> ATTRIB]]
        BY <2>3, CharStep
    <3>2. <<cursor_y, cursor_x>> \in MemRows \X Cols
        BY <2>0, ScreenAssumption DEF MemRows
    <3>3. saved[<<cursor_y, cursor_x>>].ch = Blank
        BY <2>0, <3>2, Fits DEF IInv, BlankAhead, Cols
    <3> QED
        BY <2>0, <3>1, <3>3
  <2>4. CASE Clear
    <3>1. ASSUME NEW p \in MemRows \X Cols, p[1] >= cursor_y + 1
          PROVE  saved[p].ch = Blank
        BY <2>0, <3>1, Fits DEF IInv, BlankAhead, MemRows
    <3> QED
        BY <2>0, <2>4, <3>1 DEF Clear, ClearRow
  <2>5. ASSUME NEW d \in Scrolls, Scroll(d) PROVE Kept
      BY <2>5 DEF Scroll
  <2>6. ASSUME NEW a \in Attrs, update_color(a) PROVE Kept
      BY <2>6, ColorStep
  <2> QED
      BY <2>1, <2>2, <2>3, <2>4, <2>5, <2>6, NextColor
      DEF Next, FontColor, BackgroundColor
<1> QED
    BY <1>1, Inductive, PTL DEF Spec, TextKept

\* After a step the displayed memory and the caret are what Viewport shows.
LEMMA Refreshed ==
    ASSUME IInv', Uniform'
    PROVE  View!Refresh
<1> USE ScreenAssumption
<1>1. /\ cursor_x' \in Cols /\ cursor_y' \in 0 .. MaxRow
      /\ screen_offset' \in 0 .. MaxRow /\ screen_offset' <= cursor_y'
      /\ cursor_enabled' \in 0 .. 1 /\ csr' = 1 - cursor_enabled'
      /\ cursor_enabled' = 1 <=> OnScreen(cursor_y', screen_offset')
      /\ cursor_enabled' = 1 =>
            position' = <<screen_y(cursor_y', screen_offset'), cursor_x'>>
      /\ saved' \in [MemRows \X Cols -> Cells]
    BY DEF IInv, TypeOK, HardwareCursor, OnScreen, screen_y
<1>2. video' = View!Shown([p \in MemRows \X Cols |-> saved'[p].ch], screen_offset', ATTRIB')
  <2> DEFINE text == [p \in MemRows \X Cols |-> saved'[p].ch]
  <2>1. video' = [p \in ScrRows \X Cols |-> saved'[<<screen_offset' + p[1], p[2]>>]]
      BY DEF IInv, Mirror, Window
  <2>2. ASSUME NEW p \in ScrRows \X Cols
        PROVE  saved'[<<screen_offset' + p[1], p[2]>>]
                 = [ch |-> text[<<screen_offset' + p[1], p[2]>>], attr |-> ATTRIB']
    <3>1. <<screen_offset' + p[1], p[2]>> \in MemRows \X Cols
        BY <1>1 DEF ScrRows, MemRows
    <3>2. ASSUME NEW q \in MemRows \X Cols
          PROVE  saved'[q] = [ch |-> saved'[q].ch, attr |-> ATTRIB']
      <4>1. saved'[q] \in Cells /\ saved'[q].attr = ATTRIB'
          BY <1>1 DEF Uniform
      <4> QED
          BY <4>1 DEF Cells
    <3> QED
        BY <3>1, <3>2
  <2> QED
      BY <2>1, <2>2 DEF View!Shown, View!ScrRows, View!Cols, ScrRows, Cols
<1>3. Caret' = View!CaretFor(<<cursor_y', cursor_x'>>, screen_offset')
  <2>1. /\ OnScreen(cursor_y', screen_offset') <=> cursor_y' < screen_offset' + NUM_ROWS
        /\ screen_y(cursor_y', screen_offset') = cursor_y' - screen_offset'
      BY <1>1, RowOnScreen
  <2>2. ASSUME NEW y \in Nat, NEW so \in Nat, so <= y
        PROVE  View!Visible(y, so) <=> y < so + NUM_ROWS
      BY <2>2 DEF View!Visible
  <2>3. ASSUME NEW n \in 0 .. 1 PROVE (1 - n) % 2 = 0 <=> n = 1
      BY <2>3
  <2>4. cursor_y' \in Nat /\ screen_offset' \in Nat
      BY <1>1
  <2>5. View!Visible(cursor_y', screen_offset') <=> OnScreen(cursor_y', screen_offset')
      BY <1>1, <2>1, <2>2, <2>4
  <2>6. csr' % 2 = 0 <=> cursor_enabled' = 1
      BY <1>1, <2>3
  <2> QED
      BY <1>1, <2>1, <2>5, <2>6 DEF Caret, View!CaretFor, View!Hidden
<1> QED
    BY <1>2, <1>3 DEF View!Refresh

\* Viewport moves its window where putc does.
LEMMA RevealedIsReveal ==
    ASSUME IInv, NEW y \in 0 .. MaxRow
    PROVE  Revealed(y) = View!Reveal(y)
BY ScreenAssumption DEF Revealed, View!Reveal, View!Visible, IInv, TypeOK

\* screen_init starts with an empty page.
LEMMA ViewInit ==
    ASSUME HistoryFits, Init
    PROVE  View!Init
<1> USE ScreenAssumption
<1>1. \A p \in MemRows \X Cols : InSaved(p)
    BY Fits
<1>2. [p \in MemRows \X Cols |-> saved[p].ch] = [p \in MemRows \X Cols |-> Blank]
    BY <1>1 DEF Init, BlankIn
<1>3. \A p \in ScrRows \X Cols : <<0 + p[1], p[2]>> \in MemRows \X Cols
    BY DEF ScrRows, MemRows
<1>4. video = View!Shown([p \in MemRows \X Cols |-> saved[p].ch], screen_offset, ATTRIB)
    BY <1>2, <1>3 DEF Init, BlankIn, View!Shown, View!ScrRows, View!Cols, ScrRows, Cols
<1>5. Caret = View!CaretFor(<<cursor_y, cursor_x>>, screen_offset)
    BY DEF Init, Caret, View!CaretFor, View!Visible
<1> QED
    BY <1>2, <1>4, <1>5
    DEF Init, View!Init, View!Blank, Blank, View!MemRows, View!Cols, MemRows, Cols

\* Each operation of lib.c is an operation of Viewport.
LEMMA ViewStep ==
    ASSUME HistoryFits, IInv, Uniform, [Next]_vars
    PROVE  [View!Next]_(View!vars)
<1> USE ScreenAssumption
<1> DEFINE text == [p \in MemRows \X Cols |-> saved[p].ch]
<1>0. /\ saved \in [MemRows \X Cols -> Cells] /\ ATTRIB \in Attrs
      /\ cursor_y \in 0 .. MaxRow /\ cursor_x \in Cols
      /\ screen_offset \in 0 .. MaxRow
    BY DEF IInv, TypeOK
<1>r. View!Refresh
    BY StepIInv, StepUniform, Refreshed
<1>k. ASSUME \A p \in MemRows \X Cols : saved'[p].ch = saved[p].ch
      PROVE  text' = text
    BY <1>k
<1>1. CASE PutNewline
  <2>1. /\ cursor_y < MaxRow /\ cursor_y' = cursor_y + 1 /\ cursor_x' = 0
        /\ saved' = saved /\ ATTRIB' = ATTRIB
      BY <1>1 DEF PutNewline, MoveTo
  <2>2. screen_offset' = View!Reveal(cursor_y + 1)
      BY <1>0, <1>1, <2>1, NewlineStep, RevealedIsReveal
  <2>3. View!NewLine
      BY <1>r, <2>1, <2>2 DEF View!NewLine
  <2> QED
      BY <2>3 DEF View!Next
<1>2. CASE PutBackspace
  <2> DEFINE to == Retreat(cursor_y, cursor_x)
  <2>1. /\ to \in (0 .. MaxRow) \X Cols
        /\ saved' = [saved EXCEPT ![to] = BlankIn(ATTRIB)]
        /\ <<cursor_y', cursor_x'>> = to
        /\ screen_offset' = Revealed(to[1])
      BY <1>2, BackspaceStep
  <2>2. to = View!Before(<<cursor_y, cursor_x>>)
      BY DEF Retreat, View!Before
  <2>3. <<cursor_y, cursor_x>> # <<0, 0>> /\ ATTRIB' = ATTRIB
      BY <1>2 DEF PutBackspace, MoveTo, cursor
  <2> HIDE DEF to
  <2>4. text' = [text EXCEPT ![to] = Blank]
    <3>1. to \in MemRows \X Cols
        BY <2>1 DEF MemRows
    <3> QED
        BY <1>0, <2>1, <3>1 DEF BlankIn
  <2>5. screen_offset' = View!Reveal(to[1])
      BY <2>1, RevealedIsReveal
  <2>6. View!Erase
      BY <1>r, <2>1, <2>2, <2>3, <2>4, <2>5
      DEF View!Erase, View!TypeAt, View!Blank, Blank
  <2> QED
      BY <2>6 DEF View!Next
<1>3. ASSUME NEW c \in Text, PutChar(c) PROVE View!Next
  <2> DEFINE to == Advance(cursor_y, cursor_x)
             at == <<cursor_y, cursor_x>>
  <2>1. /\ to \in (0 .. MaxRow) \X Cols
        /\ saved' = [saved EXCEPT ![at] = [ch |-> c, attr |-> ATTRIB]]
        /\ <<cursor_y', cursor_x'>> = to
        /\ screen_offset' = Revealed(to[1])
      BY <1>3, CharStep
  <2>2. to = View!After(at)
      BY <1>0 DEF Advance, View!After, Cols
  <2>3. to[1] <= MaxRow /\ ATTRIB' = ATTRIB
      BY <1>3 DEF PutChar, MoveTo
  <2>4. text' = [text EXCEPT ![at] = c]
    <3>1. at \in MemRows \X Cols
        BY <1>0 DEF MemRows
    <3> QED
        BY <1>0, <2>1, <3>1
  <2> HIDE DEF to
  <2>5. screen_offset' = View!Reveal(to[1])
      BY <2>1, RevealedIsReveal
  <2>6. View!TypeChar(c)
      BY <1>r, <2>1, <2>2, <2>3, <2>4, <2>5 DEF View!TypeChar, View!TypeAt
  <2> QED
      BY <1>3, <2>6 DEF View!Next
<1>4. CASE Clear
  <2>1. ASSUME NEW p \in MemRows \X Cols, p[1] >= cursor_y + 1
        PROVE  saved[p].ch = Blank
      BY <1>0, <2>1, Fits DEF IInv, BlankAhead, MemRows
  <2>2. text' = text
      BY <1>0, <1>4, <1>k, <2>1 DEF Clear, ClearRow, BlankIn
  <2>3. View!NewPage
      BY <1>0, <1>4, <1>r, <2>2 DEF View!NewPage, Clear, ClearRow
  <2> QED
      BY <2>3 DEF View!Next
<1>5. ASSUME NEW d \in Scrolls, Scroll(d) PROVE View!Next
  <2>1. d \in Int /\ saved' = saved /\ ATTRIB' = ATTRIB /\ UNCHANGED cursor
      BY <1>5 DEF Scroll
  <2>2. screen_offset' = ScrollTarget(d, cursor_y)
      BY <1>0, <1>5, <2>1, ScrollStep DEF Scroll
  <2>3. View!Look(d)
      BY <1>0, <1>r, <2>1, <2>2 DEF View!Look, View!Clamp, ScrollTarget, cursor
  <2> QED
      BY <1>5, <2>3 DEF View!Next
<1>6. ASSUME NEW a \in Attrs, update_color(a) PROVE View!Next
  <2>1. text' = text /\ screen_offset' = screen_offset
      BY <1>6, <1>k, ColorStep
  <2>2. View!Recolour
      BY <1>6, <1>r, <2>1 DEF View!Recolour, update_color, cursor
  <2> QED
      BY <2>2 DEF View!Next
<1>7. CASE UNCHANGED vars
    BY <1>7 DEF vars, cursor, hardware, View!vars, View!page, View!view, Caret
<1> QED
    BY <1>1, <1>2, <1>3, <1>4, <1>5, <1>6, <1>7, NextColor
    DEF Next, FontColor, BackgroundColor

\* While saved memory is not overrun, the screen library implements the typewriter:
\* the initial state of screen_init is its initial state, and every call of putc,
\* clear, scroll and the colour functions is one of its steps or changes nothing.
THEOREM ScreenIsViewport ==
    ASSUME HistoryFits
    PROVE  Spec => ImplementsViewport
<1>1. Init => View!Init /\ Uniform
    BY ViewInit, InitUniform
<1>2. IInv /\ Uniform /\ [Next]_vars => Uniform' /\ [View!Next]_(View!vars)
    BY StepUniform, ViewStep
<1> QED
    BY <1>1, <1>2, Inductive, PTL DEF Spec, ImplementsViewport, View!Spec

-----------------------------------------------------------------------------
(* The numbers of lib.c: itoa and printf, for every radix and every number *)

\* A set of natural numbers has a least element.
LEMMA Least ==
    ASSUME NEW S \in SUBSET Nat, S # {}
    PROVE  \E n \in S : \A m \in S : n <= m
<1> DEFINE R == OpToRel(<, Nat)
<1>1. IsWellFoundedOn(R, Nat)
    BY NatLessThanWellFounded
<1>2. \A x, y \in Nat : <<y, x>> \in R <=> y < x
    BY DEF OpToRel
<1> HIDE DEF R
<1>3. PICK n \in S : \A y \in S : ~(<<y, n>> \in R)
    BY <1>1, WFMin
<1>4. n \in Nat /\ \A y \in S : y \in Nat /\ ~(y < n)
    BY <1>2, <1>3, Zenon
<1>5. \A y \in S : n <= y
    BY <1>4
<1> QED
    BY <1>5

\* The equation of a recursion that goes down to 0, for the arguments up to n.
Solves(g, n, S, a, step, down) ==
    /\ g \in [0 .. n -> S]
    /\ \A v \in 0 .. n : g[v] = IF v = 0 THEN a ELSE step[<<v, g[down[v]]>>]

Descends(down) == down \in [Nat -> Nat] /\ \A v \in Nat \ {0} : down[v] < v

\* Two solutions are the same where both are defined.
LEMMA SolutionUnique ==
    ASSUME NEW S, NEW a, NEW step, NEW down, Descends(down),
           NEW n \in Nat, NEW m \in Nat, n <= m,
           NEW g, NEW h, Solves(g, n, S, a, step, down), Solves(h, m, S, a, step, down)
    PROVE  \A v \in 0 .. n : g[v] = h[v]
<1> DEFINE D == {v \in 0 .. n : g[v] # h[v]}
<1> SUFFICES ASSUME D # {} PROVE FALSE
    OBVIOUS
<1>1. D \in SUBSET Nat
    OBVIOUS
<1>2. PICK v \in D : \A w \in D : v <= w
    BY <1>1, Least
<1>3. v \in 0 .. n /\ v \in 0 .. m /\ g[v] # h[v]
    BY <1>2
<1>4. v # 0
    BY <1>3 DEF Solves
<1>5. down[v] \in Nat /\ down[v] < v
    BY <1>3, <1>4 DEF Descends
<1>6. down[v] \in 0 .. n /\ ~(v <= down[v])
    BY <1>3, <1>5
<1>7. g[down[v]] = h[down[v]]
    BY <1>2, <1>6
<1> QED
    BY <1>3, <1>4, <1>7 DEF Solves

\* There is a solution up to every n.
LEMMA SolutionExists ==
    ASSUME NEW S, NEW a \in S, NEW step \in [Nat \X S -> S], NEW down, Descends(down),
           NEW n \in Nat
    PROVE  \E g : Solves(g, n, S, a, step, down)
<1> DEFINE B == {m \in Nat : ~\E g : Solves(g, m, S, a, step, down)}
<1> SUFFICES ASSUME B # {} PROVE FALSE
    OBVIOUS
<1>1. B \in SUBSET Nat
    OBVIOUS
<1>2. PICK m \in B : \A w \in B : m <= w
    BY <1>1, Least
<1>3. m \in Nat /\ ~\E g : Solves(g, m, S, a, step, down)
    BY <1>2
<1>4. CASE m = 0
  <2>1. Solves([v \in 0 .. 0 |-> a], 0, S, a, step, down)
    <3>1. 0 .. 0 = {0}
        OBVIOUS
    <3> QED
        BY <3>1 DEF Solves
  <2> QED
      BY <1>3, <1>4, <2>1
<1>5. CASE m # 0
  <2>1. m - 1 \in Nat /\ ~(m <= m - 1)
      BY <1>3, <1>5
  <2>2. m - 1 \notin B
      BY <1>2, <2>1
  <2>3. PICK g : Solves(g, m - 1, S, a, step, down)
      BY <2>1, <2>2
  <2> DEFINE h == [v \in 0 .. m |-> IF v = m THEN step[<<m, g[down[m]]>>] ELSE g[v]]
  <2>4. \A v \in 0 .. m : v # 0 => down[v] \in 0 .. m - 1
      BY <1>3, <1>5 DEF Descends
  <2>5. g \in [0 .. m - 1 -> S] /\ \A v \in 0 .. m : v # m => v \in 0 .. m - 1
      BY <1>3, <2>3 DEF Solves
  <2>6. g[down[m]] \in S /\ step[<<m, g[down[m]]>>] \in S
    <3>1. down[m] \in 0 .. m - 1
        BY <1>3, <1>5, <2>4
    <3> QED
        BY <1>3, <2>5, <3>1
  <2>7. h \in [0 .. m -> S]
      BY <2>5, <2>6
  <2>8. ASSUME NEW v \in 0 .. m
        PROVE  h[v] = IF v = 0 THEN a ELSE step[<<v, h[down[v]]>>]
    <3>1. v # 0 => h[down[v]] = g[down[v]]
      <4>1. v # 0 => down[v] \in 0 .. m - 1 /\ down[v] \in 0 .. m /\ down[v] # m
          BY <1>3, <2>4
      <4> QED
          BY <4>1
    <3>2. CASE v = m
        BY <1>5, <3>1, <3>2
    <3>3. CASE v # m
      <4>1. v \in 0 .. m - 1 /\ h[v] = g[v]
          BY <2>5, <3>3
      <4>2. g[v] = IF v = 0 THEN a ELSE step[<<v, g[down[v]]>>]
          BY <2>3, <4>1 DEF Solves
      <4> HIDE DEF h
      <4> QED
          BY <3>1, <4>1, <4>2
    <3> QED
        BY <3>2, <3>3
  <2> HIDE DEF h
  <2>9. Solves(h, m, S, a, step, down)
      BY <2>7, <2>8 DEF Solves
  <2> QED
      BY <1>3, <2>9
<1> QED
    BY <1>4, <1>5

Follows(g, S, a, step, down) ==
    /\ g \in [Nat -> S]
    /\ \A v \in Nat : g[v] = IF v = 0 THEN a ELSE step[<<v, g[down[v]]>>]

\* Recursion that goes down to 0 defines a function.
LEMMA Recursion ==
    ASSUME NEW S, NEW a \in S, NEW step \in [Nat \X S -> S], NEW down, Descends(down)
    PROVE  \E g : Follows(g, S, a, step, down)
<1> DEFINE sol(n) == CHOOSE g : Solves(g, n, S, a, step, down)
           G == [n \in Nat |-> sol(n)[n]]
<1>1. \A n \in Nat : Solves(sol(n), n, S, a, step, down)
    BY SolutionExists
<1> HIDE DEF sol
<1>2. G \in [Nat -> S]
  <2>1. ASSUME NEW n \in Nat PROVE sol(n)[n] \in S
      BY <1>1 DEF Solves
  <2> QED
      BY <2>1
<1>3. ASSUME NEW v \in Nat PROVE G[v] = IF v = 0 THEN a ELSE step[<<v, G[down[v]]>>]
  <2>1. sol(v)[v] = IF v = 0 THEN a ELSE step[<<v, sol(v)[down[v]]>>]
    <3>1. v \in 0 .. v
        OBVIOUS
    <3> QED
        BY <1>1, <3>1 DEF Solves
  <2>2. v # 0 => sol(v)[down[v]] = sol(down[v])[down[v]] /\ down[v] \in Nat
    <3> SUFFICES ASSUME v # 0
                 PROVE  sol(v)[down[v]] = sol(down[v])[down[v]] /\ down[v] \in Nat
        OBVIOUS
    <3>1. down[v] \in Nat /\ down[v] <= v /\ down[v] \in 0 .. down[v]
        BY DEF Descends
    <3>2. \A w \in 0 .. down[v] : sol(down[v])[w] = sol(v)[w]
        BY <1>1, <3>1, SolutionUnique
    <3> QED
        BY <3>1, <3>2
  <2> QED
      BY <2>1, <2>2
<1> HIDE DEF G
<1>4. Follows(G, S, a, step, down)
    BY <1>2, <1>3 DEF Follows
<1> QED
    BY <1>4

-----------------------------------------------------------------------------
(* Digits *)

Digits == {lookup[d] : d \in 1 .. 16}

\* Every digit of lookup means its place there.
LEMMA DigitIs ==
    ASSUME NEW d \in 0 .. 15
    PROVE  /\ lookup[d + 1] \in Digits /\ Digit(lookup[d + 1]) = d
           /\ lookup[d + 1] = "0" <=> d = 0
<1>1. \A i, j \in 1 .. 16 : lookup[i] = lookup[j] => i = j
    BY DEF lookup
<1>2. d + 1 \in 1 .. 16 /\ (d + 1) - 1 = d
    OBVIOUS
<1>3. (CHOOSE e \in 1 .. 16 : lookup[e] = lookup[d + 1]) = d + 1
    BY <1>1, <1>2
<1>4. lookup[1] = "0" /\ 1 \in 1 .. 16
    BY DEF lookup
<1>5. lookup[d + 1] = "0" <=> d = 0
    BY <1>1, <1>2, <1>4
<1> QED
    BY <1>2, <1>3, <1>5 DEF Digits, Digit

\* A digit is the one lookup has at its value.
LEMMA DigitType ==
    ASSUME NEW ch \in Digits
    PROVE  Digit(ch) \in 0 .. 15 /\ ch = lookup[Digit(ch) + 1]
<1>1. PICK i \in 1 .. 16 : ch = lookup[i]
    BY DEF Digits
<1>2. i - 1 \in 0 .. 15 /\ (i - 1) + 1 = i
    OBVIOUS
<1>3. Digit(lookup[(i - 1) + 1]) = i - 1
    BY <1>2, DigitIs
<1> QED
    BY <1>1, <1>2, <1>3

-----------------------------------------------------------------------------
(* What a string of digits means *)

Reads(u, s, radix) ==
    /\ u \in [0 .. Len(s) -> Nat] /\ u[0] = 0
    /\ \A n \in 1 .. Len(s) : u[n] = u[n - 1] * radix + Digit(s[n])

\* The value of a string of digits, digit by digit.
LEMMA ValueIs ==
    ASSUME NEW s \in Seq(Digits), NEW radix \in Nat
    PROVE  \E u : Reads(u, s, radix) /\ Value(s, radix) = u[Len(s)]
<1> DEFINE k == Len(s)
           F(g) == [n \in 0 .. k |-> IF n = 0 THEN 0 ELSE g[n - 1] * radix + Digit(s[n])]
           step == [p \in Nat \X Nat |->
                      IF p[1] \in 1 .. k THEN p[2] * radix + Digit(s[p[1]]) ELSE 0]
           down == [n \in Nat |-> IF n = 0 THEN 0 ELSE n - 1]
<1>0. k \in Nat /\ \A n \in 1 .. k : s[n] \in Digits /\ Digit(s[n]) \in 0 .. 15
    BY DigitType
<1>1. step \in [Nat \X Nat -> Nat]
  <2>1. ASSUME NEW n \in Nat, NEW x \in Nat, n \in 1 .. k
        PROVE  x * radix + Digit(s[n]) \in Nat
    <3>1. x * radix \in Nat /\ Digit(s[n]) \in Nat
        BY <1>0, <2>1
    <3> QED
        BY <3>1
  <2> HIDE DEF k
  <2> QED
      BY <2>1
<1>2. Descends(down)
    BY DEF Descends
<1>3. \A n \in 1 .. k : down[n] = n - 1 /\ n \in Nat
    BY <1>0
<1>4. \A n \in 1 .. k, x \in Nat : step[<<n, x>>] = x * radix + Digit(s[n])
    BY <1>0
<1> HIDE DEF step, down
<1>r. PICK f : Follows(f, Nat, 0, step, down)
  <2>1. 0 \in Nat
      OBVIOUS
  <2> QED
      BY <1>1, <1>2, <2>1, Recursion
<1>5. /\ f \in [Nat -> Nat]
      /\ \A n \in Nat : f[n] = IF n = 0 THEN 0 ELSE step[<<n, f[down[n]]>>]
    BY <1>r DEF Follows
<1> DEFINE u == [n \in 0 .. k |-> f[n]]
<1>6. ASSUME NEW n \in 1 .. k PROVE f[n] = f[n - 1] * radix + Digit(s[n])
  <2>1. n \in Nat /\ n # 0 /\ n - 1 \in Nat /\ down[n] = n - 1 /\ f[n - 1] \in Nat
      BY <1>0, <1>3, <1>5
  <2>2. f[n] = step[<<n, f[n - 1]>>]
      BY <1>5, <2>1
  <2> QED
      BY <1>4, <2>1, <2>2
<1>7. u = F(u)
  <2>1. f[0] = 0
      BY <1>5
  <2> SUFFICES ASSUME NEW n \in 0 .. k PROVE u[n] = F(u)[n]
      OBVIOUS
  <2>2. n # 0 => n \in 1 .. k /\ n - 1 \in 0 .. k
      BY <1>0
  <2> QED
      BY <1>6, <2>1, <2>2
<1> DEFINE upto == CHOOSE h : h = F(h)
<1>8. upto = F(upto)
  <2> HIDE DEF u
  <2> QED
      BY <1>7
<1>9. Value(s, radix) = upto[k]
    BY DEF Value
<1> HIDE DEF upto
<1>10. \A n \in 0 .. k : upto[n] = u[n]
  <2> DEFINE D == {n \in 0 .. k : upto[n] # u[n]}
  <2> SUFFICES ASSUME D # {} PROVE FALSE
      OBVIOUS
  <2>1. D \in SUBSET Nat
      OBVIOUS
  <2>2. PICK m \in D : \A n \in D : m <= n
      BY <2>1, Least
  <2>3. m \in 0 .. k /\ upto[m] # u[m]
      BY <2>2
  <2> HIDE DEF u
  <2>4. upto[m] = F(upto)[m] /\ u[m] = F(u)[m]
      BY <1>7, <1>8
  <2>5. m # 0
      BY <2>3, <2>4
  <2>6. m - 1 \in 0 .. k /\ ~(m <= m - 1)
      BY <1>0, <2>3, <2>5
  <2>7. upto[m - 1] = u[m - 1]
      BY <2>2, <2>6
  <2> QED
      BY <2>3, <2>4, <2>5, <2>7
<1>11. Reads(u, s, radix)
  <2>1. u \in [0 .. k -> Nat] /\ u[0] = 0
    <3>1. f[0] = 0
        BY <1>5
    <3>2. 0 \in 0 .. k /\ \A n \in 0 .. k : n \in Nat
        BY <1>0
    <3>3. \A n \in 0 .. k : f[n] \in Nat
        BY <1>5, <3>2
    <3> QED
        BY <3>1, <3>2, <3>3
  <2>2. ASSUME NEW n \in 1 .. k PROVE u[n] = u[n - 1] * radix + Digit(s[n])
    <3>1. n \in 0 .. k /\ n - 1 \in 0 .. k
        BY <1>0
    <3> QED
        BY <1>6, <3>1
  <2> QED
      BY <2>1, <2>2 DEF Reads
<1>12. Value(s, radix) = u[Len(s)]
    BY <1>0, <1>9, <1>10
<1> HIDE DEF u
<1> QED
    BY <1>11, <1>12

\* The value of the first digits does not depend on what follows.
LEMMA ReadsSame ==
    ASSUME NEW u, NEW w, NEW s \in Seq(Digits), NEW t \in Seq(Digits), NEW radix \in Nat,
           Reads(u, s, radix), Reads(w, t, radix),
           NEW k \in Nat, k <= Len(s), k <= Len(t), \A n \in 1 .. k : s[n] = t[n]
    PROVE  u[k] = w[k]
<1> DEFINE D == {n \in 0 .. k : u[n] # w[n]}
<1>0. Len(s) \in Nat /\ Len(t) \in Nat
    OBVIOUS
<1> SUFFICES ASSUME D # {} PROVE FALSE
    OBVIOUS
<1>1. D \in SUBSET Nat
    OBVIOUS
<1>2. PICK m \in D : \A n \in D : m <= n
    BY <1>1, Least
<1>3. m \in 0 .. k /\ u[m] # w[m]
    BY <1>2
<1>4. m # 0
    BY <1>3 DEF Reads
<1>5. m - 1 \in 0 .. k /\ ~(m <= m - 1) /\ m \in 1 .. k /\ m \in 1 .. Len(s) /\ m \in 1 .. Len(t)
    BY <1>0, <1>3, <1>4
<1>6. u[m - 1] = w[m - 1]
    BY <1>2, <1>5
<1> QED
    BY <1>3, <1>5, <1>6 DEF Reads

\* One more digit.
LEMMA ValueAppend ==
    ASSUME NEW s \in Seq(Digits), NEW ch \in Digits, NEW radix \in Nat
    PROVE  /\ Value(s, radix) \in Nat
           /\ Value(Append(s, ch), radix) = Value(s, radix) * radix + Digit(ch)
<1> DEFINE t == Append(s, ch)
<1>1. /\ t \in Seq(Digits) /\ Len(t) = Len(s) + 1 /\ t[Len(s) + 1] = ch /\ Len(s) \in Nat
      /\ \A n \in 1 .. Len(s) : t[n] = s[n]
    OBVIOUS
<1> HIDE DEF t
<1>2. PICK u : Reads(u, s, radix) /\ Value(s, radix) = u[Len(s)]
    BY ValueIs
<1>3. PICK w : Reads(w, t, radix) /\ Value(t, radix) = w[Len(t)]
    BY <1>1, ValueIs
<1>4. u[Len(s)] = w[Len(s)]
  <2>1. Len(s) <= Len(s) /\ Len(s) <= Len(t) /\ \A n \in 1 .. Len(s) : s[n] = t[n]
      BY <1>1
  <2> QED
      BY <1>1, <1>2, <1>3, <2>1, ReadsSame
<1>5. Value(s, radix) \in Nat
    BY <1>1, <1>2 DEF Reads
<1>6. w[Len(s) + 1] = w[Len(s)] * radix + Digit(ch)
  <2>1. Len(s) + 1 \in 1 .. Len(t) /\ (Len(s) + 1) - 1 = Len(s)
      BY <1>1
  <2> QED
      BY <1>1, <1>3, <2>1 DEF Reads
<1> QED
    BY <1>1, <1>2, <1>3, <1>4, <1>5, <1>6 DEF t

\* No digits are worth nothing.
LEMMA ValueEmpty ==
    ASSUME NEW radix \in Nat PROVE Value(<<>>, radix) = 0
<1>1. <<>> \in Seq(Digits) /\ Len(<<>>) = 0
    OBVIOUS
<1>2. PICK u : Reads(u, <<>>, radix) /\ Value(<<>>, radix) = u[Len(<<>>)]
    BY <1>1, ValueIs
<1> QED
    BY <1>1, <1>2 DEF Reads

-----------------------------------------------------------------------------
(* itoa *)

\* The loop of itoa comes to an end.
LEMMA DivLess ==
    ASSUME NEW v \in Nat, NEW radix \in 2 .. 16
    PROVE  /\ v \div radix \in Nat /\ v % radix \in 0 .. radix - 1
           /\ v = ((v \div radix) * radix) + (v % radix)
           /\ v # 0 => v \div radix < v
<1> DEFINE q == v \div radix
           r == v % radix
<1>1. q \in Nat /\ r \in 0 .. radix - 1 /\ v = q * radix + r
    OBVIOUS
<1> HIDE DEF q, r
<1>2. q * radix >= q * 2
    BY <1>1
<1>3. v # 0 => q < v
    BY <1>1, <1>2
<1>4. q \in Nat /\ r \in 0 .. radix - 1 /\ v = q * radix + r /\ (v # 0 => q < v)
    BY <1>1, <1>3
<1> QED
    BY <1>4 DEF q, r

\* What the loop of itoa writes.
LEMMA LowFirstIs ==
    ASSUME NEW radix \in 2 .. 16
    PROVE  /\ LowFirst(0, radix) = <<>>
           /\ \A v \in Nat : LowFirst(v, radix) \in Seq(Digits)
           /\ \A v \in Nat \ {0} :
                 LowFirst(v, radix)
                    = <<lookup[(v % radix) + 1]>> \o LowFirst(v \div radix, radix)
<1> DEFINE F(g) == [v \in Nat |-> IF v = 0 THEN <<>>
                                  ELSE <<lookup[(v % radix) + 1]>> \o g[v \div radix]]
           S == Seq(Digits)
           step == [p \in Nat \X S |-> <<lookup[(p[1] % radix) + 1]>> \o p[2]]
           down == [v \in Nat |-> v \div radix]
<1>0. radix \in Nat /\ radix > 0 /\ radix <= 16
    OBVIOUS
<1>1. \A v \in Nat : lookup[(v % radix) + 1] \in Digits
  <2> SUFFICES ASSUME NEW v \in Nat PROVE lookup[(v % radix) + 1] \in Digits
      OBVIOUS
  <2>1. v % radix \in 0 .. 15
      BY <1>0
  <2> QED
      BY <2>1, DigitIs
<1>2. step \in [Nat \X S -> S]
  <2>1. ASSUME NEW v \in Nat, NEW q \in S PROVE <<lookup[(v % radix) + 1]>> \o q \in S
    <3> DEFINE x == lookup[(v % radix) + 1]
    <3>1. x \in Digits
        BY <1>1
    <3> HIDE DEF x
    <3>2. <<x>> \o q \in S
        BY <3>1
    <3> QED
        BY <3>2 DEF x
  <2> HIDE DEF S
  <2> QED
      BY <2>1
<1>3. Descends(down)
  <2>1. ASSUME NEW v \in Nat PROVE v \div radix \in Nat /\ (v # 0 => v \div radix < v)
      BY DivLess
  <2> QED
      BY <2>1 DEF Descends
<1>4. <<>> \in S
    OBVIOUS
<1>5. /\ \A v \in Nat : down[v] = v \div radix
      /\ \A v \in Nat, q \in S : step[<<v, q>>] = <<lookup[(v % radix) + 1]>> \o q
    OBVIOUS
<1> HIDE DEF step, down, S
<1>6. PICK f : Follows(f, S, <<>>, step, down)
    BY <1>2, <1>3, <1>4, Recursion
<1>7. ASSUME NEW v \in Nat
      PROVE  /\ f[v] \in S
             /\ f[v] = IF v = 0 THEN <<>> ELSE <<lookup[(v % radix) + 1]>> \o f[v \div radix]
  <2>1. v \div radix \in Nat
      BY DivLess
  <2> QED
      BY <1>5, <1>6, <2>1 DEF Follows
<1>8. f = F(f)
  <2>1. DOMAIN f = Nat /\ f = [v \in Nat |-> f[v]]
      BY <1>6 DEF Follows
  <2> QED
      BY <1>7, <2>1
<1> DEFINE digits == CHOOSE h : h = F(h)
<1>9. digits = F(digits)
    BY <1>8
<1>10. \A v \in Nat : LowFirst(v, radix) = digits[v]
    BY DEF LowFirst
<1> HIDE DEF digits
<1>11. \A v \in Nat : digits[v] = f[v]
  <2> DEFINE D == {v \in Nat : digits[v] # f[v]}
  <2> SUFFICES ASSUME D # {} PROVE FALSE
      OBVIOUS
  <2>1. D \in SUBSET Nat
      OBVIOUS
  <2>2. PICK m \in D : \A n \in D : m <= n
      BY <2>1, Least
  <2>3. m \in Nat /\ digits[m] # f[m]
      BY <2>2
  <2>4. digits[m] = F(digits)[m] /\ f[m] = F(f)[m]
      BY <1>8, <1>9
  <2>5. m # 0
      BY <2>3, <2>4
  <2>6. m \div radix \in Nat /\ ~(m <= m \div radix)
      BY <2>3, <2>5, DivLess
  <2>7. digits[m \div radix] = f[m \div radix]
      BY <2>2, <2>6
  <2> QED
      BY <2>3, <2>4, <2>5, <2>7
<1>12. ASSUME NEW v \in Nat PROVE LowFirst(v, radix) = f[v]
    BY <1>10, <1>11
<1>13. ASSUME NEW v \in Nat \ {0}
       PROVE  LowFirst(v, radix) = <<lookup[(v % radix) + 1]>> \o LowFirst(v \div radix, radix)
  <2>1. v \div radix \in Nat
      BY DivLess
  <2> QED
      BY <1>7, <1>12, <2>1
<1> QED
    BY <1>7, <1>12, <1>13 DEF S

\* strrev turns the first digit into the last.
LEMMA Reversed ==
    ASSUME NEW q \in Seq(Digits)
    PROVE  /\ strrev(q) \in Seq(Digits) /\ Len(strrev(q)) = Len(q)
           /\ \A i \in 1 .. Len(q) : strrev(q)[i] = q[Len(q) + 1 - i]
           /\ \A d \in Digits : strrev(<<d>> \o q) = Append(strrev(q), d)
<1>1. ASSUME NEW s \in Seq(Digits)
      PROVE  /\ strrev(s) \in Seq(Digits) /\ Len(strrev(s)) = Len(s)
             /\ \A i \in 1 .. Len(s) : strrev(s)[i] = s[Len(s) + 1 - i]
  <2>1. Len(s) \in Nat /\ DOMAIN s = 1 .. Len(s)
      OBVIOUS
  <2>2. \A i \in 1 .. Len(s) : Len(s) + 1 - i \in 1 .. Len(s)
      BY <2>1
  <2>3. \A i \in 1 .. Len(s) : s[Len(s) + 1 - i] \in Digits
      BY <2>1, <2>2
  <2>4. strrev(s) = [i \in 1 .. Len(s) |-> s[Len(s) + 1 - i]]
      BY <2>1 DEF strrev
  <2> QED
      BY <2>1, <2>3, <2>4
<1>2. ASSUME NEW d \in Digits PROVE strrev(<<d>> \o q) = Append(strrev(q), d)
  <2> DEFINE s == <<d>> \o q
             a == strrev(s)
             b == Append(strrev(q), d)
             k == Len(q)
  <2>1. /\ s \in Seq(Digits) /\ Len(s) = k + 1 /\ s[1] = d /\ k \in Nat
        /\ \A i \in 1 .. k : s[i + 1] = q[i]
      OBVIOUS
  <2> HIDE DEF s
  <2>2. /\ a \in Seq(Digits) /\ Len(a) = k + 1
        /\ \A i \in 1 .. k + 1 : a[i] = s[k + 1 + 1 - i]
      BY <1>1, <2>1
  <2>3. strrev(q) \in Seq(Digits) /\ Len(strrev(q)) = k
        /\ \A i \in 1 .. k : strrev(q)[i] = q[k + 1 - i]
      BY <1>1
  <2>4. /\ b \in Seq(Digits) /\ Len(b) = k + 1 /\ b[k + 1] = d
        /\ \A i \in 1 .. k : b[i] = strrev(q)[i]
      BY <2>1, <2>3
  <2> HIDE DEF a, b, k
  <2>5. ASSUME NEW i \in 1 .. k + 1 PROVE a[i] = b[i]
    <3>1. CASE i = k + 1
      <4>1. k + 1 + 1 - i = 1
          BY <2>1, <3>1
      <4> QED
          BY <2>1, <2>2, <2>4, <3>1, <4>1
    <3>2. CASE i # k + 1
      <4> DEFINE j == k + 1 - i
      <4>1. i \in 1 .. k /\ j \in 1 .. k /\ k + 1 + 1 - i = j + 1
          BY <2>1, <3>2
      <4>2. b[i] = q[j]
          BY <2>3, <2>4, <4>1
      <4>3. a[i] = s[k + 1 + 1 - i]
          BY <2>2
      <4> HIDE DEF j
      <4>4. s[j + 1] = q[j]
          BY <2>1, <4>1
      <4> QED
          BY <4>1, <4>2, <4>3, <4>4
    <3> QED
        BY <3>1, <3>2
  <2>6. a = b
      BY <2>1, <2>2, <2>4, <2>5
  <2> QED
      BY <2>6 DEF a, b, s
<1> QED
    BY <1>1, <1>2

\* The digits of a number above 0, the highest first.
HighFirst(v, radix) == strrev(LowFirst(v, radix))

\* The digits of a number are those of its quotient and its last one.
LEMMA HighFirstIs ==
    ASSUME NEW radix \in 2 .. 16
    PROVE  /\ HighFirst(0, radix) = <<>>
           /\ \A v \in Nat : HighFirst(v, radix) \in Seq(Digits)
           /\ \A v \in Nat \ {0} :
                 HighFirst(v, radix)
                    = Append(HighFirst(v \div radix, radix), lookup[(v % radix) + 1])
<1>1. /\ LowFirst(0, radix) = <<>>
      /\ \A v \in Nat : LowFirst(v, radix) \in Seq(Digits)
      /\ \A v \in Nat \ {0} :
            LowFirst(v, radix)
               = <<lookup[(v % radix) + 1]>> \o LowFirst(v \div radix, radix)
    BY LowFirstIs
<1>2. HighFirst(0, radix) = <<>>
  <2>1. <<>> \in Seq(Digits) /\ Len(<<>>) = 0
      OBVIOUS
  <2>2. strrev(<<>>) \in Seq(Digits) /\ Len(strrev(<<>>)) = 0
      BY <2>1, Reversed
  <2>3. strrev(<<>>) = <<>>
      BY <2>2
  <2> QED
      BY <1>1, <2>3 DEF HighFirst
<1>3. ASSUME NEW v \in Nat PROVE HighFirst(v, radix) \in Seq(Digits)
    BY <1>1, Reversed DEF HighFirst
<1>4. ASSUME NEW v \in Nat \ {0}
      PROVE  HighFirst(v, radix)
                = Append(HighFirst(v \div radix, radix), lookup[(v % radix) + 1])
  <2> DEFINE d == lookup[(v % radix) + 1]
             q == LowFirst(v \div radix, radix)
  <2>1. v \div radix \in Nat /\ v % radix \in 0 .. 15
      BY DivLess
  <2>2. d \in Digits /\ q \in Seq(Digits)
      BY <1>1, <2>1, DigitIs
  <2>3. LowFirst(v, radix) = <<d>> \o q
      BY <1>1
  <2> HIDE DEF d, q
  <2>4. strrev(<<d>> \o q) = Append(strrev(q), d)
      BY <2>2, Reversed
  <2> QED
      BY <2>3, <2>4 DEF HighFirst, d, q
<1> QED
    BY <1>2, <1>3, <1>4

Numeral(s, v, radix) ==
    /\ s \in Seq(Digits) /\ \A i \in 1 .. Len(s) : Digit(s[i]) < radix
    /\ Value(s, radix) = v
    /\ v # 0 => Len(s) > 0 /\ s[1] # "0"

\* The digits mean the number, and the first of them is not zero.
LEMMA HighFirstNumeral ==
    ASSUME NEW radix \in 2 .. 16, NEW n \in Nat
    PROVE  Numeral(HighFirst(n, radix), n, radix)
<1> DEFINE D == {v \in Nat : ~Numeral(HighFirst(v, radix), v, radix)}
<1>0. radix \in Nat
    OBVIOUS
<1> SUFFICES ASSUME D # {} PROVE FALSE
    OBVIOUS
<1>1. D \in SUBSET Nat
    OBVIOUS
<1>2. PICK v \in D : \A w \in D : v <= w
    BY <1>1, Least
<1>3. v \in Nat /\ ~Numeral(HighFirst(v, radix), v, radix)
    BY <1>2
<1>4. v # 0
  <2>1. <<>> \in Seq(Digits) /\ Len(<<>>) = 0 /\ Value(<<>>, radix) = 0
      BY <1>0, ValueEmpty
  <2>2. Numeral(<<>>, 0, radix)
      BY <2>1 DEF Numeral
  <2> QED
      BY <1>3, <2>2, HighFirstIs
<1> DEFINE w == v \div radix
           x == v % radix
           s == HighFirst(w, radix)
           ch == lookup[x + 1]
<1>5. /\ w \in Nat /\ x \in 0 .. radix - 1 /\ x \in 0 .. 15
      /\ v = (w * radix) + x /\ ~(v <= w)
    BY <1>3, <1>4, DivLess
<1>6. Numeral(s, w, radix)
    BY <1>2, <1>5
<1>7. HighFirst(v, radix) = Append(s, ch)
    BY <1>3, <1>4, HighFirstIs
<1>8. ch \in Digits /\ Digit(ch) = x /\ (ch = "0" <=> x = 0)
    BY <1>5, DigitIs
<1> HIDE DEF w, x, s, ch
<1>9. s \in Seq(Digits) /\ Value(Append(s, ch), radix) = Value(s, radix) * radix + Digit(ch)
    BY <1>0, <1>6, <1>8, ValueAppend DEF Numeral
<1> DEFINE t == Append(s, ch)
<1>10. /\ t \in Seq(Digits) /\ Len(t) = Len(s) + 1 /\ t[Len(s) + 1] = ch /\ Len(s) \in Nat
       /\ \A i \in 1 .. Len(s) : t[i] = s[i]
    BY <1>8, <1>9
<1>11. Value(t, radix) = v
    BY <1>5, <1>6, <1>8, <1>9 DEF Numeral
<1> HIDE DEF t
<1>12. ASSUME NEW i \in 1 .. Len(t) PROVE Digit(t[i]) < radix
  <2>1. CASE i = Len(s) + 1
      BY <1>5, <1>8, <1>10, <2>1
  <2>2. CASE i # Len(s) + 1
    <3>1. i \in 1 .. Len(s)
        BY <1>10, <2>2
    <3> QED
        BY <1>6, <1>10, <3>1 DEF Numeral
  <2> QED
      BY <2>1, <2>2
<1>13. t[1] # "0"
  <2>1. CASE w = 0
    <3>1. s = <<>>
        BY <2>1, HighFirstIs DEF s
    <3>3. x # 0
        BY <1>0, <1>4, <1>5, <2>1
    <3>2. Len(s) + 1 = 1
        BY <3>1
    <3> QED
        BY <1>8, <1>10, <3>2, <3>3
  <2>2. CASE w # 0
    <3>1. 1 \in 1 .. Len(s) /\ s[1] # "0"
        BY <1>6, <1>10, <2>2 DEF Numeral
    <3> QED
        BY <1>10, <3>1
  <2> QED
      BY <2>1, <2>2
<1>14. Numeral(t, v, radix)
    BY <1>10, <1>11, <1>12, <1>13 DEF Numeral
<1> QED
    BY <1>3, <1>7, <1>14 DEF t

\* itoa writes every number as its numeral in the radix, zero included.
THEOREM ItoaIsNumeral ==
    ASSUME NEW v \in Nat, NEW radix \in 2 .. 16
    PROVE  IsNumeral(itoa(v, radix), v, radix)
<1>0. radix \in Nat /\ radix >= 2
    OBVIOUS
<1>1. CASE v = 0
  <2> DEFINE s == <<"0">>
  <2>1. "0" \in Digits /\ Digit("0") = 0
    <3>1. 0 \in 0 .. 15 /\ lookup[0 + 1] = "0"
        BY DEF lookup
    <3> QED
        BY <3>1, DigitIs
  <2>2. Value(s, radix) = 0
    <3>1. <<>> \in Seq(Digits) /\ s = Append(<<>>, "0")
        OBVIOUS
    <3>2. Value(Append(<<>>, "0"), radix) = Value(<<>>, radix) * radix + Digit("0")
        BY <1>0, <2>1, <3>1, ValueAppend
    <3>3. Value(<<>>, radix) = 0
        BY <1>0, ValueEmpty
    <3> HIDE DEF s
    <3> QED
        BY <1>0, <2>1, <3>1, <3>2, <3>3
  <2>3. s # <<>> /\ Len(s) = 1 /\ DOMAIN s = {1} /\ s[1] = "0"
      OBVIOUS
  <2>4. itoa(v, radix) = s
      BY <1>1 DEF itoa
  <2> HIDE DEF s
  <2> QED
      BY <1>0, <1>1, <2>1, <2>2, <2>3, <2>4 DEF IsNumeral
<1>2. CASE v # 0
  <2> DEFINE s == HighFirst(v, radix)
  <2>1. Numeral(s, v, radix)
      BY HighFirstNumeral
  <2>2. itoa(v, radix) = s
      BY <1>2 DEF itoa, HighFirst
  <2> HIDE DEF s
  <2>3. DOMAIN s = 1 .. Len(s) /\ s # <<>>
      BY <1>2, <2>1 DEF Numeral
  <2> QED
      BY <1>2, <2>1, <2>2, <2>3 DEF Numeral, IsNumeral
<1> QED
    BY <1>1, <1>2

-----------------------------------------------------------------------------
(* %#x *)

\* Zeros in front change nothing.
LEMMA ValuePadded ==
    ASSUME NEW s \in Seq(Digits), NEW k \in Nat, NEW radix \in Nat
    PROVE  LET t == [i \in 1 .. k |-> "0"] \o s
           IN  /\ t \in Seq(Digits) /\ Len(t) = k + Len(s)
               /\ Value(t, radix) = Value(s, radix)
<1> DEFINE z == [i \in 1 .. k |-> "0"]
           t == z \o s
<1>1. "0" \in Digits /\ Digit("0") = 0
  <2>1. 0 \in 0 .. 15 /\ lookup[0 + 1] = "0"
      BY DEF lookup
  <2> QED
      BY <2>1, DigitIs
<1>2. z \in Seq(Digits) /\ Len(z) = k /\ \A i \in 1 .. k : z[i] = "0"
    BY <1>1
<1> HIDE DEF z
<1>3. /\ t \in Seq(Digits) /\ Len(t) = k + Len(s) /\ Len(s) \in Nat
      /\ \A i \in 1 .. k : t[i] = "0"
      /\ \A i \in 1 .. Len(s) : t[k + i] = s[i]
    BY <1>2
<1> HIDE DEF t
<1>4. PICK u : Reads(u, s, radix) /\ Value(s, radix) = u[Len(s)]
    BY ValueIs
<1>5. PICK w : Reads(w, t, radix) /\ Value(t, radix) = w[Len(t)]
    BY <1>3, ValueIs
<1>6. w[k] = 0
  <2> DEFINE D == {n \in 0 .. k : w[n] # 0}
  <2> SUFFICES ASSUME D # {} PROVE FALSE
      OBVIOUS
  <2>1. D \in SUBSET Nat
      OBVIOUS
  <2>2. PICK m \in D : \A n \in D : m <= n
      BY <2>1, Least
  <2>3. m \in 0 .. k /\ w[m] # 0
      BY <2>2
  <2>4. m # 0
      BY <1>5, <2>3 DEF Reads
  <2>5. m - 1 \in 0 .. k /\ ~(m <= m - 1) /\ m \in 1 .. k /\ m \in 1 .. Len(t)
      BY <1>3, <2>3, <2>4
  <2>6. w[m - 1] = 0
      BY <2>2, <2>5
  <2>7. w[m] = w[m - 1] * radix + Digit(t[m])
      BY <1>5, <2>5 DEF Reads
  <2> QED
      BY <1>1, <1>3, <2>3, <2>5, <2>6, <2>7
<1>7. w[k + Len(s)] = u[Len(s)]
  <2> DEFINE D == {n \in 0 .. Len(s) : w[k + n] # u[n]}
  <2> SUFFICES ASSUME D # {} PROVE FALSE
      BY <1>3
  <2>1. D \in SUBSET Nat
      OBVIOUS
  <2>2. PICK m \in D : \A n \in D : m <= n
      BY <2>1, Least
  <2>3. m \in 0 .. Len(s) /\ w[k + m] # u[m]
      BY <2>2
  <2>4. m # 0
      BY <1>4, <1>6, <2>3 DEF Reads
  <2>5. /\ m - 1 \in 0 .. Len(s) /\ ~(m <= m - 1) /\ m \in 1 .. Len(s)
        /\ k + m \in 1 .. Len(t) /\ (k + m) - 1 = k + (m - 1)
      BY <1>3, <2>3, <2>4
  <2>6. w[k + (m - 1)] = u[m - 1]
      BY <2>2, <2>5
  <2>7. w[k + m] = w[k + (m - 1)] * radix + Digit(t[k + m])
      BY <1>5, <2>5 DEF Reads
  <2>8. u[m] = u[m - 1] * radix + Digit(s[m])
      BY <1>4, <2>5 DEF Reads
  <2>9. t[k + m] = s[m]
      BY <1>3, <2>5
  <2> QED
      BY <2>3, <2>6, <2>7, <2>8, <2>9
<1>8. Value(t, radix) = Value(s, radix)
    BY <1>3, <1>4, <1>5, <1>7
<1> QED
    BY <1>3, <1>8 DEF t, z

\* The greatest number with k hexadecimal digits.
AllOnes(k) == Value([i \in 1 .. k |-> "F"], 16)

\* The largest number of k hexadecimal digits is a number.
LEMMA OnesType == ASSUME NEW k \in Nat PROVE AllOnes(k) \in Nat
<1> DEFINE s == [i \in 1 .. k |-> "F"]
<1>1. "F" \in Digits
  <2>1. 15 \in 0 .. 15 /\ lookup[15 + 1] = "F"
      BY DEF lookup
  <2> QED
      BY <2>1, DigitIs
<1>2. s \in Seq(Digits) /\ 16 \in Nat
    BY <1>1
<1>3. AllOnes(k) = Value(s, 16)
    BY DEF AllOnes
<1> HIDE DEF s
<1>4. PICK u : Reads(u, s, 16) /\ Value(s, 16) = u[Len(s)]
    BY <1>2, ValueIs
<1>5. Len(s) \in 0 .. Len(s)
    BY <1>2
<1> QED
    BY <1>3, <1>4, <1>5 DEF Reads

\* A number that is not above it has at most k digits.
LEMMA HexDigits ==
    ASSUME NEW k \in Nat, NEW v \in Nat, v <= AllOnes(k)
    PROVE  Len(HighFirst(v, 16)) <= k
<1> DEFINE s == [i \in 1 .. k |-> "F"]
<1>0. 16 \in 2 .. 16 /\ 16 \in Nat
    OBVIOUS
<1>1. "F" \in Digits /\ Digit("F") = 15
  <2>1. 15 \in 0 .. 15 /\ lookup[15 + 1] = "F"
      BY DEF lookup
  <2> QED
      BY <2>1, DigitIs
<1>2. s \in Seq(Digits) /\ Len(s) = k /\ \A i \in 1 .. k : s[i] = "F"
    BY <1>1
<1>3. AllOnes(k) = Value(s, 16)
    BY DEF AllOnes
<1> HIDE DEF s
<1>4. PICK u : Reads(u, s, 16) /\ Value(s, 16) = u[Len(s)]
    BY <1>0, <1>2, ValueIs
<1>5. /\ u[0] = 0 /\ \A n \in 0 .. k : u[n] \in Nat
      /\ \A n \in 1 .. k : u[n] = u[n - 1] * 16 + 15
    BY <1>1, <1>2, <1>4 DEF Reads
<1> DEFINE Short(n) == \A x \in Nat : x <= u[n] => Len(HighFirst(x, 16)) <= n
           D == {n \in 0 .. k : ~Short(n)}
<1>6. D = {}
  <2> SUFFICES ASSUME D # {} PROVE FALSE
      OBVIOUS
  <2>1. D \in SUBSET Nat
      OBVIOUS
  <2>2. PICK m \in D : \A n \in D : m <= n
      BY <2>1, Least
  <2>3. m \in 0 .. k /\ ~Short(m)
      BY <2>2
  <2>4. PICK x \in Nat : x <= u[m] /\ ~(Len(HighFirst(x, 16)) <= m)
      BY <2>3
  <2>5. x # 0
    <3>1. HighFirst(0, 16) = <<>> /\ Len(<<>>) = 0
        BY <1>0, HighFirstIs
    <3> QED
        BY <2>3, <2>4, <3>1
  <2>6. m # 0
      BY <1>5, <2>4, <2>5
  <2>7. m - 1 \in 0 .. k /\ ~(m <= m - 1) /\ m \in 1 .. k /\ m \in Nat
      BY <2>3, <2>6
  <2>8. Short(m - 1)
      BY <2>2, <2>7
  <2> DEFINE y == x \div 16
             q == HighFirst(y, 16)
             d == lookup[(x % 16) + 1]
  <2>9. y \in Nat /\ x % 16 \in 0 .. 15 /\ x = (y * 16) + (x % 16)
      BY <1>0, DivLess
  <2>10. HighFirst(x, 16) = Append(q, d) /\ q \in Seq(Digits)
      BY <1>0, <2>5, <2>9, HighFirstIs
  <2>11. u[m - 1] \in Nat /\ u[m] = u[m - 1] * 16 + 15
      BY <1>5, <2>7
  <2> HIDE DEF q, d, y
  <2>12. y <= u[m - 1]
    <3> DEFINE r == x % 16
               a == u[m - 1]
               b == u[m]
    <3>1. y \in Nat /\ r \in 0 .. 15 /\ x = (y * 16) + r /\ a \in Nat /\ b = a * 16 + 15 /\ x <= b
        BY <2>4, <2>9, <2>11
    <3> HIDE DEF r, a, b
    <3>2. y <= a
        BY <3>1
    <3> QED
        BY <3>2 DEF a
  <2>13. Len(q) <= m - 1
      BY <2>8, <2>9, <2>12 DEF q
  <2>14. Len(Append(q, d)) = Len(q) + 1 /\ Len(q) \in Nat
      BY <2>10
  <2> QED
      BY <2>4, <2>7, <2>10, <2>13, <2>14
<1>7. Short(k)
  <2>1. k \in 0 .. k
      OBVIOUS
  <2> QED
      BY <1>6, <2>1
<1> QED
    BY <1>2, <1>3, <1>4, <1>7

-----------------------------------------------------------------------------
(* printf *)

\* The conversion of a % at buf, and what printf puts from buf on.
SpecAt(format, buf) ==
    CHOOSE n \in buf + 1 .. Len(format) :
        format[n] # "#" /\ \A m \in buf + 1 .. n - 1 : format[m] = "#"

Takes(ch) == ch \in {"x", "u", "d", "c", "s"}

After(format, buf, esp) ==
    IF format[buf] # "%" THEN <<buf + 1, esp>>
    ELSE <<SpecAt(format, buf) + 1, IF Takes(format[SpecAt(format, buf)]) THEN esp + 1 ELSE esp>>

Puts(format, args, buf, esp) ==
    IF format[buf] # "%" THEN <<format[buf]>>
    ELSE Converted(format[SpecAt(format, buf)], SpecAt(format, buf) > buf + 1,
                   IF Takes(format[SpecAt(format, buf)]) THEN args[esp] ELSE 0)

Prints(out, format, args) ==
    \A buf \in 1 .. Len(format) + 1, esp \in Nat :
        out[<<buf, esp>>] = IF buf > Len(format) THEN <<>>
                            ELSE Puts(format, args, buf, esp) \o out[After(format, buf, esp)]

\* No % stands alone at the end.
Formatted(format) ==
    /\ Len(format) \in Nat
    /\ \A buf \in 1 .. Len(format) :
          format[buf] = "%" => \E n \in buf + 1 .. Len(format) : format[n] # "#"

\* Behind a % there is a conversion.
LEMMA SpecAtIs ==
    ASSUME NEW format, Formatted(format), NEW buf \in 1 .. Len(format), format[buf] = "%"
    PROVE  /\ SpecAt(format, buf) \in buf + 1 .. Len(format)
           /\ format[SpecAt(format, buf)] # "#"
           /\ \A m \in buf + 1 .. SpecAt(format, buf) - 1 : format[m] = "#"
<1> DEFINE S == {n \in buf + 1 .. Len(format) : format[n] # "#"}
<1>0. Len(format) \in Nat /\ buf \in Nat
    BY DEF Formatted
<1>1. S \in SUBSET Nat /\ S # {}
    BY <1>0 DEF Formatted
<1>2. PICK n \in S : \A m \in S : n <= m
    BY <1>1, Least
<1>3. /\ n \in buf + 1 .. Len(format) /\ format[n] # "#"
      /\ \A m \in buf + 1 .. n - 1 : m \in buf + 1 .. Len(format) /\ ~(n <= m)
    BY <1>0, <1>2
<1>4. \A m \in buf + 1 .. n - 1 : format[m] = "#"
    BY <1>2, <1>3
<1> QED
    BY <1>3, <1>4 DEF SpecAt

\* printf goes forward in the format.
LEMMA AfterIs ==
    ASSUME NEW format, Formatted(format), NEW buf \in 1 .. Len(format), NEW esp \in Nat
    PROVE  \E b \in buf + 1 .. Len(format) + 1, e \in Nat : After(format, buf, esp) = <<b, e>>
<1>0. Len(format) \in Nat /\ buf \in Nat
    BY DEF Formatted
<1>1. CASE format[buf] # "%"
  <2>1. buf + 1 \in buf + 1 .. Len(format) + 1
      BY <1>0
  <2> QED
      BY <1>1, <2>1 DEF After
<1>2. CASE format[buf] = "%"
  <2>1. SpecAt(format, buf) \in buf + 1 .. Len(format)
      BY <1>2, SpecAtIs
  <2>2. SpecAt(format, buf) + 1 \in buf + 1 .. Len(format) + 1
      BY <1>0, <2>1
  <2>3. (IF Takes(format[SpecAt(format, buf)]) THEN esp + 1 ELSE esp) \in Nat
      OBVIOUS
  <2> QED
      BY <1>2, <2>2, <2>3 DEF After
<1> QED
    BY <1>1, <1>2

\* From the end of the format backwards there is always one way to go on.
PrintsFrom(out, format, args, b) ==
    \A buf \in 1 .. Len(format) + 1, esp \in Nat :
        buf >= b =>
        out[<<buf, esp>>] = IF buf > Len(format) THEN <<>>
                            ELSE Puts(format, args, buf, esp) \o out[After(format, buf, esp)]

\* There is such a function for every format.
LEMMA PrintsExists ==
    ASSUME NEW format, NEW args, Formatted(format)
    PROVE  \E out : Prints(out, format, args)
<1> DEFINE k == Len(format)
           Dom == (1 .. k + 1) \X Nat
           D == {n \in 0 .. k : ~\E out : PrintsFrom(out, format, args, k + 1 - n)}
<1>0. k \in Nat
    BY DEF Formatted
<1>1. D = {}
  <2> SUFFICES ASSUME D # {} PROVE FALSE
      OBVIOUS
  <2>1. D \in SUBSET Nat
      OBVIOUS
  <2>2. PICK n \in D : \A m \in D : n <= m
      BY <2>1, Least
  <2>3. n \in 0 .. k /\ ~\E out : PrintsFrom(out, format, args, k + 1 - n)
      BY <2>2
  <2>4. CASE n = 0
    <3> DEFINE out == [p \in Dom |-> <<>>]
    <3>1. PrintsFrom(out, format, args, k + 1 - 0)
      <4> SUFFICES ASSUME NEW buf \in 1 .. k + 1, NEW esp \in Nat, buf >= k + 1 - 0
                   PROVE  out[<<buf, esp>>] = IF buf > Len(format) THEN <<>>
                             ELSE Puts(format, args, buf, esp) \o out[After(format, buf, esp)]
          BY DEF PrintsFrom
      <4>1. buf > Len(format)
          BY <1>0
      <4> QED
          BY <4>1
    <3> HIDE DEF out
    <3> QED
        BY <2>3, <2>4, <3>1
  <2>5. CASE n # 0
    <3>1. n - 1 \in 0 .. k /\ ~(n <= n - 1) /\ k + 1 - (n - 1) = (k + 1 - n) + 1
        BY <1>0, <2>3, <2>5
    <3>2. n - 1 \notin D
        BY <2>2, <3>1
    <3> DEFINE b == k + 1 - n
    <3>3. PICK old : PrintsFrom(old, format, args, b + 1)
        BY <3>1, <3>2
    <3>4. b \in 1 .. k
        BY <1>0, <2>3, <2>5
    <3> DEFINE new == [p \in Dom |->
                         IF p[1] = b THEN Puts(format, args, b, p[2]) \o old[After(format, b, p[2])]
                         ELSE old[p]]
    <3>5. \A x \in 1 .. k + 1, e \in Nat :
            /\ new[<<x, e>>] = IF x = b THEN Puts(format, args, b, e) \o old[After(format, b, e)]
                               ELSE old[<<x, e>>]
        OBVIOUS
    <3> HIDE DEF new, b
    <3>6. PrintsFrom(new, format, args, b)
      <4> SUFFICES ASSUME NEW buf \in 1 .. k + 1, NEW esp \in Nat, buf >= b
                   PROVE  new[<<buf, esp>>] = IF buf > k THEN <<>>
                             ELSE Puts(format, args, buf, esp) \o new[After(format, buf, esp)]
          BY DEF PrintsFrom
      <4>1. ASSUME buf <= k
            PROVE  new[After(format, buf, esp)] = old[After(format, buf, esp)]
        <5>1. buf \in 1 .. Len(format)
            BY <1>0, <4>1
        <5>2. PICK x \in buf + 1 .. Len(format) + 1, e \in Nat : After(format, buf, esp) = <<x, e>>
            BY <5>1, AfterIs
        <5>3. x \in 1 .. k + 1 /\ x # b
            BY <1>0, <3>4, <5>2
        <5> QED
            BY <3>5, <5>2, <5>3
      <4>2. CASE buf = b
          BY <1>0, <3>4, <3>5, <4>1, <4>2
      <4>3. CASE buf # b
        <5>1. new[<<buf, esp>>] = old[<<buf, esp>>] /\ buf >= b + 1
            BY <1>0, <3>4, <3>5, <4>3
        <5>2. old[<<buf, esp>>] = IF buf > k THEN <<>>
                             ELSE Puts(format, args, buf, esp) \o old[After(format, buf, esp)]
            BY <3>3, <5>1 DEF PrintsFrom
        <5> QED
            BY <1>0, <4>1, <5>1, <5>2
      <4> QED
          BY <4>2, <4>3
    <3> QED
        BY <2>3, <3>6 DEF b
  <2> QED
      BY <2>4, <2>5
<1>2. k \in 0 .. k /\ k + 1 - k = 1
    BY <1>0
<1>3. PICK out : PrintsFrom(out, format, args, 1)
    BY <1>1, <1>2
<1>4. \A buf \in 1 .. k + 1 : buf >= 1
    BY <1>0
<1>5. Prints(out, format, args)
    BY <1>3, <1>4 DEF Prints, PrintsFrom
<1> QED
    BY <1>5

\* printf is that function.
LEMMA PrintfIs ==
    ASSUME NEW format, NEW args, Formatted(format)
    PROVE  \E out : Prints(out, format, args) /\ printf(format, args) = out[<<1, 1>>]
<1> DEFINE k == Len(format)
           Dom == (1 .. k + 1) \X Nat
           F(g) == [p \in Dom |->
                     LET buf == p[1]
                         esp == p[2]
                     IN  IF buf > k THEN <<>>
                         ELSE IF format[buf] # "%" THEN <<format[buf]>> \o g[<<buf + 1, esp>>]
                         ELSE LET at == CHOOSE n \in buf + 1 .. k :
                                           /\ format[n] # "#"
                                           /\ \A m \in buf + 1 .. n - 1 : format[m] = "#"
                                  takes == format[at] \in {"x", "u", "d", "c", "s"}
                              IN  Converted(format[at], at > buf + 1,
                                            IF takes THEN args[esp] ELSE 0)
                                     \o g[<<at + 1, IF takes THEN esp + 1 ELSE esp>>]]
           G(g) == [p \in Dom |-> IF p[1] > k THEN <<>>
                                  ELSE Puts(format, args, p[1], p[2]) \o g[After(format, p[1], p[2])]]
<1>0. k \in Nat
    BY DEF Formatted
<1>1. \A g : F(g) = G(g)
  <2> SUFFICES ASSUME NEW g PROVE F(g) = G(g)
      OBVIOUS
  <2>1. ASSUME NEW p \in Dom PROVE F(g)[p] = G(g)[p]
      BY DEF Puts, After, SpecAt, Takes
  <2> QED
      BY <2>1
<1>2. PICK o : Prints(o, format, args)
    BY PrintsExists
<1> DEFINE h == [p \in Dom |-> o[p]]
<1>3. h = G(h)
  <2>0. ASSUME NEW buf \in 1 .. k + 1, NEW esp \in Nat
        PROVE  h[<<buf, esp>>] = G(h)[<<buf, esp>>]
    <3>1. o[<<buf, esp>>] = IF buf > k THEN <<>>
                            ELSE Puts(format, args, buf, esp) \o o[After(format, buf, esp)]
        BY <1>2 DEF Prints
    <3>2. CASE buf > k
        BY <3>1, <3>2
    <3>3. CASE ~(buf > k)
      <4>1. buf \in 1 .. Len(format)
          BY <1>0, <3>3
      <4>2. PICK x \in buf + 1 .. Len(format) + 1, e \in Nat : After(format, buf, esp) = <<x, e>>
          BY <4>1, AfterIs
      <4>3. x \in 1 .. k + 1
          BY <1>0, <4>2
      <4>4. h[After(format, buf, esp)] = o[After(format, buf, esp)]
          BY <4>2, <4>3
      <4> QED
          BY <3>1, <3>3, <4>4
    <3> QED
        BY <3>2, <3>3
  <2>1. ASSUME NEW p \in Dom PROVE h[p] = G(h)[p]
    <3>1. p = <<p[1], p[2]>> /\ p[1] \in 1 .. k + 1 /\ p[2] \in Nat
        OBVIOUS
    <3> HIDE DEF h, G
    <3>2. h[<<p[1], p[2]>>] = G(h)[<<p[1], p[2]>>]
        BY <2>0, <3>1
    <3> QED
        BY <3>1, <3>2
  <2>2. /\ h = [p \in Dom |-> h[p]] /\ G(h) = [p \in Dom |-> G(h)[p]]
      OBVIOUS
  <2> HIDE DEF h, G
  <2> QED
      BY <2>1, <2>2
<1> DEFINE out == CHOOSE g : g = F(g)
<1>4. out = F(out)
  <2>1. h = F(h)
      BY <1>1, <1>3
  <2> HIDE DEF h, F
  <2> QED
      BY <2>1
<1>5. printf(format, args) = out[<<1, 1>>]
    BY DEF printf
<1>6. Prints(out, format, args)
  <2>1. out = G(out)
    <3> HIDE DEF F, G, out
    <3> QED
        BY <1>1, <1>4
  <2> HIDE DEF out
  <2> SUFFICES ASSUME NEW buf \in 1 .. k + 1, NEW esp \in Nat
               PROVE  out[<<buf, esp>>] = IF buf > k THEN <<>>
                          ELSE Puts(format, args, buf, esp) \o out[After(format, buf, esp)]
      BY DEF Prints
  <2>2. out[<<buf, esp>>] = G(out)[<<buf, esp>>]
      BY <2>1
  <2> QED
      BY <2>2
<1> HIDE DEF out
<1> QED
    BY <1>5, <1>6

\* itoa writes digits, at least one.
LEMMA ItoaDigits ==
    ASSUME NEW v \in Nat, NEW radix \in 2 .. 16
    PROVE  /\ itoa(v, radix) \in Seq(Digits) /\ Len(itoa(v, radix)) >= 1
           /\ Value(itoa(v, radix), radix) = v
<1>1. CASE v = 0
  <2>1. "0" \in Digits
    <3>1. 0 \in 0 .. 15 /\ lookup[0 + 1] = "0"
        BY DEF lookup
    <3> QED
        BY <3>1, DigitIs
  <2>2. itoa(v, radix) = <<"0">>
      BY <1>1 DEF itoa
  <2>3. Value(itoa(v, radix), radix) = v
      BY ItoaIsNumeral DEF IsNumeral
  <2> QED
      BY <2>1, <2>2, <2>3
<1>2. CASE v # 0
  <2> DEFINE s == HighFirst(v, radix)
  <2>1. Numeral(s, v, radix)
      BY HighFirstNumeral
  <2>2. itoa(v, radix) = s
      BY <1>2 DEF itoa, HighFirst
  <2> HIDE DEF s
  <2>3. s \in Seq(Digits) /\ Len(s) > 0 /\ Len(s) \in Nat /\ Value(s, radix) = v
      BY <1>2, <2>1 DEF Numeral
  <2> QED
      BY <2>2, <2>3
<1> QED
    BY <1>1, <1>2

\* One conversion with its argument.
LEMMA PrintsOne ==
    ASSUME NEW ch \in {"x", "u", "d"}, NEW v
    PROVE  printf(<<"%", ch>>, <<v>>) = Converted(ch, FALSE, v) \o <<>>
<1> DEFINE f == <<"%", ch>>
           args == <<v>>
<1>1. Len(f) = 2 /\ f[1] = "%" /\ f[2] = ch /\ ch # "#" /\ ch # "%" /\ args[1] = v
    OBVIOUS
<1> HIDE DEF f, args
<1>2. Formatted(f)
  <2> SUFFICES ASSUME NEW buf \in 1 .. 2, f[buf] = "%" PROVE 2 \in buf + 1 .. 2
      BY <1>1 DEF Formatted
  <2>1. buf = 1 \/ buf = 2
      OBVIOUS
  <2> QED
      BY <1>1, <2>1
<1>3. SpecAt(f, 1) = 2
  <2>1. 1 \in 1 .. Len(f)
      BY <1>1
  <2>2. SpecAt(f, 1) \in 1 + 1 .. Len(f)
      BY <1>1, <1>2, <2>1, SpecAtIs
  <2> QED
      BY <1>1, <2>2
<1>4. PICK out : Prints(out, f, args) /\ printf(f, args) = out[<<1, 1>>]
    BY <1>2, PrintfIs
<1>5. 1 \in 1 .. Len(f) + 1 /\ 3 \in 1 .. Len(f) + 1 /\ 3 > Len(f) /\ ~(1 > Len(f)) /\ 1 \in Nat /\ 2 \in Nat
    BY <1>1
<1>6. After(f, 1, 1) = <<3, 2>>
    BY <1>1, <1>3 DEF After, Takes
<1>7. Puts(f, args, 1, 1) = Converted(ch, FALSE, v)
  <2>1. (2 > 1 + 1) = FALSE
      OBVIOUS
  <2> QED
      BY <1>1, <1>3, <2>1 DEF Puts, Takes
<1>8. out[<<1, 1>>] = Puts(f, args, 1, 1) \o out[After(f, 1, 1)] /\ out[<<3, 2>>] = <<>>
    BY <1>4, <1>5 DEF Prints
<1> QED
    BY <1>4, <1>6, <1>7, <1>8 DEF f, args

\* %#x with its argument.
LEMMA PrintsAlternate ==
    ASSUME NEW v
    PROVE  printf(<<"%", "#", "x">>, <<v>>) = Converted("x", TRUE, v) \o <<>>
<1> DEFINE f == <<"%", "#", "x">>
           args == <<v>>
<1>1. Len(f) = 3 /\ f[1] = "%" /\ f[2] = "#" /\ f[3] = "x" /\ args[1] = v
    OBVIOUS
<1> HIDE DEF f, args
<1>2. Formatted(f)
  <2> SUFFICES ASSUME NEW buf \in 1 .. 3, f[buf] = "%" PROVE 3 \in buf + 1 .. 3
      BY <1>1 DEF Formatted
  <2>1. buf = 1 \/ buf = 2 \/ buf = 3
      OBVIOUS
  <2> QED
      BY <1>1, <2>1
<1>3. SpecAt(f, 1) = 3
  <2>1. 1 \in 1 .. Len(f)
      BY <1>1
  <2>2. SpecAt(f, 1) \in 1 + 1 .. Len(f) /\ f[SpecAt(f, 1)] # "#"
      BY <1>1, <1>2, <2>1, SpecAtIs
  <2>3. SpecAt(f, 1) = 2 \/ SpecAt(f, 1) = 3
      BY <1>1, <2>2
  <2> QED
      BY <1>1, <2>2, <2>3
<1>4. PICK out : Prints(out, f, args) /\ printf(f, args) = out[<<1, 1>>]
    BY <1>2, PrintfIs
<1>5. 1 \in 1 .. Len(f) + 1 /\ 4 \in 1 .. Len(f) + 1 /\ 4 > Len(f) /\ ~(1 > Len(f)) /\ 1 \in Nat /\ 2 \in Nat
    BY <1>1
<1>6. After(f, 1, 1) = <<4, 2>>
    BY <1>1, <1>3 DEF After, Takes
<1>7. Puts(f, args, 1, 1) = Converted("x", TRUE, v)
  <2>1. (3 > 1 + 1) = TRUE
      OBVIOUS
  <2> QED
      BY <1>1, <1>3, <2>1 DEF Puts, Takes
<1>8. out[<<1, 1>>] = Puts(f, args, 1, 1) \o out[After(f, 1, 1)] /\ out[<<4, 2>>] = <<>>
    BY <1>4, <1>5 DEF Prints
<1> QED
    BY <1>4, <1>6, <1>7, <1>8 DEF f, args

\* A text without % in front of %x is put as it is, and then the numeral.
LEMMA PrintsFault ==
    ASSUME NEW A, NEW f \in Seq(A), Len(f) >= 2, \A n \in 1 .. Len(f) - 2 : f[n] # "%",
           f[Len(f) - 1] = "%", f[Len(f)] = "x", NEW v \in Nat
    PROVE  /\ SubSeq(printf(f, <<v>>), Len(f) - 1, Len(printf(f, <<v>>))) = itoa(v, 16)
           /\ Len(printf(f, <<v>>)) = Len(f) - 2 + Len(itoa(v, 16))
           /\ \E S : printf(f, <<v>>) \in Seq(S)
<1> DEFINE k == Len(f)
           args == <<v>>
           N == itoa(v, 16)
<1>00. PICK B : B = A \cup Digits
    OBVIOUS
<1>0. k \in Nat /\ k >= 2 /\ args[1] = v /\ 16 \in 2 .. 16
    OBVIOUS
<1>1. N \in Seq(Digits)
    BY <1>0, ItoaDigits
<1>2. Formatted(f)
  <2> SUFFICES ASSUME NEW buf \in 1 .. k, f[buf] = "%" PROVE k \in buf + 1 .. k
      BY <1>0 DEF Formatted
  <2>1. buf # k
      OBVIOUS
  <2> QED
      BY <1>0, <2>1
<1>3. SpecAt(f, k - 1) = k
  <2>1. k - 1 \in 1 .. k
      BY <1>0
  <2>2. SpecAt(f, k - 1) \in (k - 1) + 1 .. k
      BY <1>2, <2>1, SpecAtIs
  <2> QED
      BY <1>0, <2>2
<1>4. PICK out : Prints(out, f, args) /\ printf(f, args) = out[<<1, 1>>]
    BY <1>2, PrintfIs
<1>5. out[<<k - 1, 1>>] = N
  <2>1. /\ k - 1 \in 1 .. k + 1 /\ ~(k - 1 > k) /\ k + 1 \in 1 .. k + 1 /\ k + 1 > k
        /\ 1 \in Nat /\ 2 \in Nat /\ 1 + 1 = 2
      BY <1>0
  <2>2. After(f, k - 1, 1) = <<k + 1, 2>>
      BY <1>3, <2>1 DEF After, Takes
  <2>3. Puts(f, args, k - 1, 1) = Converted("x", FALSE, v)
    <3>1. (k > (k - 1) + 1) = FALSE
        BY <1>0
    <3> QED
        BY <1>0, <1>3, <3>1 DEF Puts, Takes
  <2>4. Converted("x", FALSE, v) = N
      BY DEF Converted
  <2>5. out[<<k - 1, 1>>] = Puts(f, args, k - 1, 1) \o out[<<k + 1, 2>>] /\ out[<<k + 1, 2>>] = <<>>
      BY <1>4, <2>1, <2>2 DEF Prints
  <2> HIDE DEF N
  <2>6. N \o <<>> = N
      BY <1>1
  <2> QED
      BY <2>3, <2>4, <2>5, <2>6
<1> HIDE DEF N
<1> DEFINE Ends(n) == \E pre \in Seq(B) : Len(pre) = n /\ out[<<k - 1 - n, 1>>] = pre \o N
           D == {n \in 0 .. k - 2 : ~Ends(n)}
<1>6. D = {}
  <2> SUFFICES ASSUME D # {} PROVE FALSE
      OBVIOUS
  <2>1. D \in SUBSET Nat
      OBVIOUS
  <2>2. PICK n \in D : \A m \in D : n <= m
      BY <2>1, Least
  <2>3. n \in 0 .. k - 2 /\ ~Ends(n)
      BY <2>2
  <2>4. CASE n = 0
    <3>1. <<>> \in Seq(B) /\ Len(<<>>) = 0 /\ <<>> \o N = N /\ k - 1 - 0 = k - 1
        BY <1>0, <1>1
    <3>2. Ends(0)
        BY <1>5, <3>1
    <3> QED
        BY <2>3, <2>4, <3>2
  <2>5. CASE n # 0
    <3>1. n - 1 \in 0 .. k - 2 /\ ~(n <= n - 1)
        BY <1>0, <2>3, <2>5
    <3>2. Ends(n - 1)
        BY <2>2, <3>1
    <3> DEFINE b == k - 1 - n
    <3>3. /\ k - 1 - (n - 1) = b + 1 /\ b \in 1 .. k - 2 /\ b \in 1 .. k /\ b \in 1 .. k + 1
          /\ ~(b > k) /\ b \in Nat
        BY <1>0, <2>3, <2>5
    <3>4. PICK pre \in Seq(B) : Len(pre) = n - 1 /\ out[<<b + 1, 1>>] = pre \o N
        BY <3>2, <3>3
    <3> HIDE DEF b
    <3>5. f[b] # "%" /\ f[b] \in B
        BY <1>00, <3>3
    <3>6. out[<<b, 1>>] = <<f[b]>> \o out[<<b + 1, 1>>]
      <4>1. After(f, b, 1) = <<b + 1, 1>> /\ Puts(f, args, b, 1) = <<f[b]>>
          BY <3>5 DEF After, Puts
      <4> QED
          BY <1>4, <3>3, <4>1 DEF Prints
    <3>7. <<f[b]>> \o (pre \o N) = (<<f[b]>> \o pre) \o N
      <4>1. N \in Seq(B) /\ <<f[b]>> \in Seq(B)
          BY <1>00, <1>1, <3>5
      <4>2. PICK x : x = <<f[b]>>
          OBVIOUS
      <4>3. PICK y : y = N
          OBVIOUS
      <4>4. x \in Seq(B) /\ y \in Seq(B) /\ pre \in Seq(B)
          BY <4>1, <4>2, <4>3
      <4> HIDE DEF D, Ends, k, args
      <4>5. (x \o pre) \o y = x \o (pre \o y)
          BY <4>4, ConcatAssociative
      <4> QED
          BY <4>2, <4>3, <4>5
    <3>8. <<f[b]>> \o pre \in Seq(B) /\ Len(<<f[b]>> \o pre) = n
        BY <2>3, <3>4, <3>5
    <3>9. out[<<b, 1>>] = (<<f[b]>> \o pre) \o N
        BY <3>4, <3>6, <3>7
    <3>10. Ends(n)
        BY <3>8, <3>9 DEF b
    <3> QED
        BY <2>3, <3>10
  <2> QED
      BY <2>4, <2>5
<1>7. Ends(k - 2) /\ k - 1 - (k - 2) = 1
  <2>1. k - 2 \in 0 .. k - 2 /\ k - 1 - (k - 2) = 1
      BY <1>0
  <2> QED
      BY <1>6, <2>1
<1>8. PICK pre \in Seq(B) : Len(pre) = k - 2 /\ out[<<1, 1>>] = pre \o N
    BY <1>7
<1>9. SubSeq(pre \o N, k - 1, Len(pre \o N)) = N
  <2> DEFINE t == pre \o N
             q == SubSeq(t, k - 1, Len(t))
             l == Len(N)
  <2>1. N \in Seq(B) /\ l \in Nat
      BY <1>00, <1>1
  <2>2. /\ t \in Seq(B) /\ Len(t) = k - 2 + l
        /\ \A i \in 1 .. l : t[k - 2 + i] = N[i]
    <3> HIDE DEF k, l
    <3>1. Len(pre) = k - 2
        BY <1>8
    <3>2. pre \in Seq(B) /\ N \in Seq(B)
        BY <1>8, <2>1
    <3> DEFINE p == Len(pre)
    <3>3. /\ t \in Seq(B) /\ Len(t) = p + l /\ p \in Nat
          /\ \A i \in 1 .. p + l : t[i] = IF i <= p THEN pre[i] ELSE N[i - p]
        BY <3>2, ConcatProperties DEF l
    <3> HIDE DEF t, p
    <3>4. ASSUME NEW i \in 1 .. l PROVE t[p + i] = N[i]
      <4>1. p + i \in 1 .. p + l /\ ~(p + i <= p) /\ (p + i) - p = i
          BY <2>1, <3>3
      <4> QED
          BY <3>3, <4>1
    <3>5. p = k - 2
        BY <3>1 DEF p
    <3> QED
        BY <3>3, <3>4, <3>5
  <2> HIDE DEF t, l
  <2>3. /\ q \in Seq(B) /\ Len(q) = l
        /\ \A i \in 1 .. l : q[i] = t[(k - 1) + i - 1]
      BY <1>0, <2>1, <2>2
  <2>4. ASSUME NEW i \in 1 .. l PROVE q[i] = N[i]
    <3>1. (k - 1) + i - 1 = k - 2 + i
        BY <1>0, <2>1
    <3> QED
        BY <2>2, <2>3, <3>1
  <2> HIDE DEF q
  <2>5. q = N
      BY <2>1, <2>3, <2>4 DEF l
  <2> QED
      BY <2>5 DEF q, t
<1>10. pre \o N \in Seq(B) /\ Len(pre \o N) = k - 2 + Len(N)
  <2>1. N \in Seq(B) /\ pre \in Seq(B) /\ Len(pre) = k - 2
      BY <1>00, <1>1, <1>8
  <2> HIDE DEF k, args, D, Ends
  <2>2. PICK y : y = N
      OBVIOUS
  <2>3. y \in Seq(B) /\ pre \in Seq(B)
      BY <2>1, <2>2
  <2>4. pre \o y \in Seq(B) /\ Len(pre \o y) = Len(pre) + Len(y)
      BY <2>3
  <2> QED
      BY <2>1, <2>2, <2>4
<1> QED
    BY <1>4, <1>8, <1>9, <1>10 DEF N

\* A word has at most HexWidth hexadecimal digits.
LEMMA WordDigits ==
    ASSUME NEW v \in 0 .. WORD - 1
    PROVE  Len(itoa(v, 16)) <= HexWidth
<1>1. /\ WORD \in Nat /\ WORD > 1 /\ v \in Nat /\ v <= WORD - 1
      /\ HexWidth \in Nat /\ WORD - 1 <= AllOnes(HexWidth)
  <2>1. WORD \in Nat /\ WORD > 1
      BY ScreenAssumption
  <2>2. HexWidth \in Nat /\ WORD - 1 <= AllOnes(HexWidth)
      BY FormatAssumption DEF AllOnes
  <2> QED
      BY <2>1, <2>2
<1>2. AllOnes(HexWidth) \in Nat
    BY <1>1, OnesType
<1>3. v <= AllOnes(HexWidth) /\ 1 <= AllOnes(HexWidth)
    BY <1>1, <1>2
<1>4. CASE v # 0
  <2>1. Len(HighFirst(v, 16)) <= HexWidth
      BY <1>1, <1>3, HexDigits
  <2> QED
      BY <1>4, <2>1 DEF itoa, HighFirst
<1>5. CASE v = 0
  <2>1. Len(HighFirst(1, 16)) <= HexWidth
      BY <1>1, <1>3, HexDigits
  <2>2. Numeral(HighFirst(1, 16), 1, 16)
      BY HighFirstNumeral
  <2>3. Len(HighFirst(1, 16)) > 0 /\ Len(HighFirst(1, 16)) \in Nat
      BY <2>2 DEF Numeral
  <2>4. Len(itoa(v, 16)) = 1
      BY <1>5 DEF itoa
  <2> DEFINE l == Len(HighFirst(1, 16))
  <2> HIDE DEF l
  <2>5. 1 <= HexWidth
    <3>1. l <= HexWidth /\ l > 0 /\ l \in Nat
        BY <2>1, <2>3 DEF l
    <3> QED
        BY <1>1, <3>1
  <2> QED
      BY <2>4, <2>5
<1> QED
    BY <1>4, <1>5

\* The %u, %d and %#x of a word read back as the word.
LEMMA WordReads ==
    ASSUME NEW v \in 0 .. WORD - 1
    PROVE  LET d == printf(<<"%", "d">>, <<v>>)
               h == printf(<<"%", "#", "x">>, <<v>>)
           IN  /\ IsNumeral(printf(<<"%", "u">>, <<v>>), v, 10)
               /\ IF v < WORD \div 2 THEN IsNumeral(d, v, 10)
                  ELSE d[1] = "-" /\ IsNumeral(Tail(d), WORD - v, 10)
               /\ Len(h) = HexWidth /\ Value(h, 16) = v
<1> DEFINE d == printf(<<"%", "d">>, <<v>>)
           h == printf(<<"%", "#", "x">>, <<v>>)
           n == WORD - v
<1>0. /\ WORD \in Nat /\ WORD > 1 /\ v \in Nat /\ n \in Nat /\ WORD \div 2 \in Nat
      /\ 10 \in 2 .. 16 /\ 16 \in 2 .. 16 /\ 16 \in Nat
  <2>1. WORD \in Nat /\ WORD > 1
      BY ScreenAssumption
  <2> QED
      BY <2>1
<1>1. IsNumeral(printf(<<"%", "u">>, <<v>>), v, 10)
  <2> DEFINE s == itoa(v, 10)
  <2>1. Converted("u", FALSE, v) = s
      BY DEF Converted
  <2>2. s \in Seq(Digits) /\ IsNumeral(s, v, 10)
      BY <1>0, ItoaDigits, ItoaIsNumeral
  <2>3. printf(<<"%", "u">>, <<v>>) = s \o <<>>
      BY <2>1, PrintsOne
  <2> HIDE DEF s
  <2>4. s \o <<>> = s
      BY <2>2, ConcatEmptySeq
  <2> QED
      BY <2>2, <2>3, <2>4
<1>2. d = Converted("d", FALSE, v) \o <<>>
    BY PrintsOne
<1>3. ASSUME v < WORD \div 2 PROVE IsNumeral(d, v, 10)
  <2> DEFINE s == itoa(v, 10)
  <2>1. ~(v >= WORD \div 2)
      BY <1>0, <1>3
  <2>2. Converted("d", FALSE, v) = s
      BY <2>1 DEF Converted
  <2>3. s \in Seq(Digits) /\ IsNumeral(s, v, 10)
      BY <1>0, ItoaDigits, ItoaIsNumeral
  <2> HIDE DEF s, d
  <2>4. s \o <<>> = s
      BY <2>3, ConcatEmptySeq
  <2> QED
      BY <1>2, <2>2, <2>3, <2>4
<1>4. ASSUME ~(v < WORD \div 2) PROVE d[1] = "-" /\ IsNumeral(Tail(d), n, 10)
  <2> DEFINE s == itoa(n, 10)
             t == <<"-">> \o s
  <2>1. v >= WORD \div 2
      BY <1>0, <1>4
  <2>2. Converted("d", FALSE, v) = t
      BY <2>1 DEF Converted
  <2>3. s \in Seq(Digits) /\ IsNumeral(s, n, 10)
      BY <1>0, ItoaDigits, ItoaIsNumeral
  <2> HIDE DEF s, d, n
  <2>4. t \in Seq(Digits \cup {"-"}) /\ t[1] = "-" /\ Tail(t) = s
    <3>1. s \in Seq(Digits \cup {"-"}) /\ <<"-">> \in Seq(Digits \cup {"-"})
        BY <2>3
    <3> QED
        BY <3>1
  <2> HIDE DEF t
  <2>5. t \o <<>> = t
      BY <2>4, ConcatEmptySeq
  <2>6. d[1] = "-" /\ Tail(d) = s
      BY <1>2, <2>2, <2>4, <2>5
  <2> QED
      BY <2>3, <2>6
<1>5. Len(h) = HexWidth /\ Value(h, 16) = v
  <2> DEFINE s == itoa(v, 16)
             k == HexWidth - Len(s)
             z == [i \in 1 .. k |-> "0"]
  <2>1. s \in Seq(Digits) /\ Len(s) \in Nat /\ Value(s, 16) = v
      BY <1>0, ItoaDigits
  <2>2. HexWidth \in Nat /\ Len(s) <= HexWidth
      BY FormatAssumption, WordDigits
  <2>3. h = Padded(s) \o <<>>
    <3>1. Converted("x", TRUE, v) = Padded(s)
        BY DEF Converted
    <3> QED
        BY <3>1, PrintsAlternate
  <2> HIDE DEF s, h
  <2>4. k \in Nat /\ k + Len(s) = HexWidth
      BY <2>1, <2>2
  <2>5. Padded(s) = z \o s
      BY DEF Padded
  <2> HIDE DEF k
  <2>6. z \o s \in Seq(Digits) /\ Len(z \o s) = k + Len(s) /\ Value(z \o s, 16) = Value(s, 16)
      BY <1>0, <2>1, <2>4, ValuePadded
  <2> HIDE DEF z
  <2>7. h = z \o s
      BY <2>3, <2>5, <2>6, ConcatEmptySeq
  <2> QED
      BY <2>1, <2>4, <2>6, <2>7
<1> QED
    BY <1>1, <1>3, <1>4, <1>5

\* What page_fault says is its format with the address that faulted.
Says ==
    \/ said.address = -1
    \/ said.address \in 0 .. WORD - 1 /\ said.text = printf(FaultFormat, <<said.address>>)

\* Only page_fault says an address, and it says it with its format.
LEMMA SaysNext == Says /\ [PanicNext]_allVars => Says'
<1> SUFFICES ASSUME Says, [PanicNext]_allVars PROVE Says'
    OBVIOUS
<1>1. CASE Message
  <2>1. CASE \E m \in Messages : said' = [text |-> printf(m, <<>>), address |-> -1]
      BY <2>1 DEF Says
  <2>2. CASE \E a \in 0 .. WORD - 1 :
                said' = [text |-> printf(FaultFormat, <<a>>), address |-> a]
      BY <2>2 DEF Says
  <2> QED
      BY <1>1, <2>1, <2>2 DEF Message
<1>2. CASE UNCHANGED said
    BY <1>2 DEF Says
<1> QED
    BY <1>1, <1>2 DEF PanicNext, Running, Exception, Put, NextLine, Spin, allVars, panicVars

\* What it says can be read back.
LEMMA SaysReads == Says => NumbersRead
<1> SUFFICES ASSUME Says, said.address >= 0 PROVE NumbersRead
    BY DEF NumbersRead
<1> DEFINE v == said.address
           f == FaultFormat
<1>1. v \in 0 .. WORD - 1 /\ said.text = printf(f, <<v>>)
    BY DEF Says
<1>2. v \in Nat /\ 16 \in 2 .. 16
    BY <1>1
<1>3. PICK A : f \in Seq(A)
    BY FormatAssumption
<1>4. SubSeq(said.text, Len(f) - 1, Len(said.text)) = itoa(v, 16)
  <2> HIDE DEF v
  <2>1. /\ Len(f) >= 2 /\ \A n \in 1 .. Len(f) - 2 : f[n] # "%"
        /\ f[Len(f) - 1] = "%" /\ f[Len(f)] = "x"
      BY FormatAssumption
  <2> HIDE DEF f
  <2>2. SubSeq(printf(f, <<v>>), Len(f) - 1, Len(printf(f, <<v>>))) = itoa(v, 16)
      BY <1>2, <1>3, <2>1, PrintsFault
  <2> QED
      BY <1>1, <2>2
<1>5. IsNumeral(itoa(v, 16), v, 16)
    BY <1>2, ItoaIsNumeral
<1> QED
    BY <1>1, <1>4, <1>5, WordReads DEF NumbersRead

\* The address in a page fault's message is the address that faulted, and %u, %d
\* and %#x of a word read back as its unsigned, its signed and its full-width
\* hexadecimal value: for every width of a word, not only for those TLC counts
\* through.
THEOREM NumbersAreRead == PanicSpec => []NumbersRead
<1>1. PanicInit => Says
    BY DEF PanicInit, Says
<1> QED
    BY <1>1, SaysNext, SaysReads, PTL DEF PanicSpec

-----------------------------------------------------------------------------
(* The exception screen *)

\* Cell p lies in the first l characters of the banner's line m, which puts there:
OnLine(p, m, l) == p[1] = RowOf(m) /\ p[2] \in Banner[m].x .. Banner[m].x + l - 1

LineCell(p, m) == [ch |-> Banner[m].text[p[2] - Banner[m].x + 1], attr |-> BlueText]

\* Lines 1 to n - 1 of the banner have been put and k characters of line n: what
\* cell p then holds.
BannerAt(p, cell, n, k) ==
    LET put(m) == OnLine(p, m, IF m < n THEN Len(Banner[m].text) ELSE k)
    IN  /\ \A m \in 1 .. n : put(m) => cell = LineCell(p, m)
        /\ (\A m \in 1 .. n : ~put(m)) => cell = BlankIn(BlueBlank)

\* The same when k characters of the message have been put over the banner.
MessageAt(p, cell, text, k) ==
    IF p[1] = MessageRow /\ p[2] \in MessageCol .. MessageCol + k - 1
    THEN cell = [ch |-> text[p[2] - MessageCol + 1], attr |-> MessageInk]
    ELSE BannerAt(p, cell, Len(Banner), Len(Banner[Len(Banner)].text))

\* All but the first k characters of a text.
Rest(rest, text, k) ==
    /\ rest \in Seq({rest[i] : i \in DOMAIN rest})
    /\ k \in 0 .. Len(text) /\ Len(rest) = Len(text) - k
    /\ \A i \in 1 .. Len(rest) : rest[i] = text[k + i]

\* What fills the window.
IsScreen(v) == v = [p \in ScrRows \X Cols |-> v[p]]

\* The cursor is in the window, behind k characters of a text.
Putting(text, y, x, k) ==
    /\ Rest(todo, text, k)
    /\ screen_offset \in 0 .. MaxRow
    /\ cursor_y = screen_offset + y /\ cursor_x = x + k
    /\ IsScreen(video)

PuttingBanner(k) ==
    LET b == Banner[line]
    IN  /\ line \in 1 .. Len(Banner) /\ ATTRIB = BlueText
        /\ Putting(b.text, RowOf(line), b.x, k)
        /\ \A p \in ScrRows \X Cols : BannerAt(p, video[p], line, k)

PuttingMessage(k) ==
    /\ InRow(said.text, MessageCol) /\ ATTRIB = MessageInk
    /\ Putting(said.text, MessageRow, MessageCol, k)
    /\ \A p \in ScrRows \X Cols : MessageAt(p, video[p], said.text, k)

\* Before an exception the screen's own invariant holds; from then on the screen is
\* what k characters of the current text make of it.
PanicInv ==
    \/ pc = "running" /\ todo = <<>> /\ IInv
    \/ pc = "banner" /\ \E k \in 0 .. NUM_COLS : PuttingBanner(k)
    \/ pc = "message" /\ \E k \in 0 .. NUM_COLS : PuttingMessage(k)

\* Once the last character has been put the screen is the picture: the safety part
\* of PanicVisible.
PictureComplete == pc = "message" /\ todo = <<>> => video = Picture

\* A format without conversions is printed as it is.
LEMMA PrintsLiteral ==
    ASSUME NEW A, NEW f \in Seq(A), \A n \in 1 .. Len(f) : f[n] # "%", NEW args
    PROVE  printf(f, args) = f
<1> DEFINE k == Len(f)
<1>0. k \in Nat
    OBVIOUS
<1>1. Formatted(f)
    BY <1>0 DEF Formatted
<1>2. PICK out : Prints(out, f, args) /\ printf(f, args) = out[<<1, 1>>]
    BY <1>1, PrintfIs
<1> DEFINE Ends(n) == /\ out[<<k + 1 - n, 1>>] \in Seq(A) /\ Len(out[<<k + 1 - n, 1>>]) = n
                      /\ \A i \in 1 .. n : out[<<k + 1 - n, 1>>][i] = f[k - n + i]
           D == {n \in 0 .. k : ~Ends(n)}
<1>3. D = {}
  <2> SUFFICES ASSUME D # {} PROVE FALSE
      OBVIOUS
  <2>1. D \in SUBSET Nat
      OBVIOUS
  <2>2. PICK n \in D : \A m \in D : n <= m
      BY <2>1, Least
  <2>3. n \in 0 .. k /\ ~Ends(n)
      BY <2>2
  <2>4. CASE n = 0
    <3>1. k + 1 - 0 = k + 1 /\ k + 1 \in 1 .. k + 1 /\ k + 1 > k /\ 1 \in Nat
        BY <1>0
    <3>2. out[<<k + 1, 1>>] = <<>>
      <4> HIDE DEF D, Ends
      <4> QED
          BY <1>2, <3>1 DEF Prints
    <3>3. <<>> \in Seq(A) /\ Len(<<>>) = 0 /\ \A i \in 1 .. 0 : FALSE
        OBVIOUS
    <3>4. Ends(0)
        BY <3>1, <3>2, <3>3
    <3> QED
        BY <2>3, <2>4, <3>4
  <2>5. CASE n # 0
    <3>1. n - 1 \in 0 .. k /\ ~(n <= n - 1)
        BY <1>0, <2>3, <2>5
    <3>2. Ends(n - 1)
        BY <2>2, <3>1
    <3> DEFINE b == k + 1 - n
               r == out[<<b + 1, 1>>]
    <3>3. /\ k + 1 - (n - 1) = b + 1 /\ b \in 1 .. k /\ b \in 1 .. k + 1 /\ ~(b > k)
          /\ b \in Nat /\ k - (n - 1) = b /\ k - n = b - 1
        BY <1>0, <2>3, <2>5
    <3>4. r \in Seq(A) /\ Len(r) = n - 1 /\ \A i \in 1 .. n - 1 : r[i] = f[b + i]
        BY <3>2, <3>3
    <3> HIDE DEF b
    <3>5. f[b] # "%" /\ f[b] \in A
        BY <3>3
    <3>6. out[<<b, 1>>] = <<f[b]>> \o out[<<b + 1, 1>>]
      <4>1. After(f, b, 1) = <<b + 1, 1>> /\ Puts(f, args, b, 1) = <<f[b]>>
          BY <3>5 DEF After, Puts
      <4> HIDE DEF D, Ends, r
      <4>2. b \in 1 .. Len(f) + 1 /\ ~(b > Len(f)) /\ 1 \in Nat
          BY <3>3
      <4>3. out[<<b, 1>>] = Puts(f, args, b, 1) \o out[After(f, b, 1)]
          BY <1>2, <4>2 DEF Prints
      <4> QED
          BY <4>1, <4>3
    <3> DEFINE t == <<f[b]>> \o r
    <3> HIDE DEF r
    <3>7. t \in Seq(A) /\ Len(t) = n /\ t[1] = f[b] /\ \A i \in 2 .. n : t[i] = r[i - 1]
        BY <2>3, <2>5, <3>4, <3>5
    <3> HIDE DEF t
    <3>8. ASSUME NEW i \in 1 .. n PROVE t[i] = f[(b - 1) + i]
      <4>1. CASE i = 1
          BY <3>3, <3>7, <4>1
      <4>2. CASE i # 1
        <5>1. i \in 2 .. n /\ i - 1 \in 1 .. n - 1 /\ b + (i - 1) = (b - 1) + i
            BY <2>3, <3>3, <4>2
        <5> QED
            BY <3>4, <3>7, <5>1
      <4> QED
          BY <4>1, <4>2
    <3>9. out[<<b, 1>>] = t
        BY <3>6 DEF t, r
    <3>10. Ends(n)
        BY <3>3, <3>7, <3>8, <3>9 DEF b
    <3> QED
        BY <2>3, <3>10
  <2> QED
      BY <2>4, <2>5
<1>4. k \in 0 .. k /\ k + 1 - k = 1 /\ k - k = 0
    BY <1>0
<1>5. Ends(k)
    BY <1>3, <1>4
<1> DEFINE o == out[<<1, 1>>]
<1>6. o \in Seq(A) /\ Len(o) = k /\ \A i \in 1 .. k : o[i] = f[i]
  <2>1. o \in Seq(A) /\ Len(o) = k /\ \A i \in 1 .. k : o[i] = f[0 + i]
      BY <1>4, <1>5
  <2>2. \A i \in 1 .. k : 0 + i = i
      BY <1>0
  <2> QED
      BY <2>1, <2>2
<1> HIDE DEF o
<1>7. o = f
    BY <1>6
<1> QED
    BY <1>2, <1>7 DEF o

\* The rows of the banner's lines follow from each other.
LEMMA Rows ==
    /\ RowOf(1) = FirstRow
    /\ \A n \in 1 .. Len(Banner) : RowOf(n) \in Int
    /\ \A n \in 2 .. Len(Banner) : RowOf(n) = RowOf(n - 1) + Banner[n].down
<1> DEFINE N == Len(Banner)
           step == [p \in Nat \X Int |-> IF p[1] + 1 \in 1 .. N THEN p[2] + Banner[p[1] + 1].down
                                         ELSE p[2]]
           down == [v \in Nat |-> IF v = 0 THEN 0 ELSE v - 1]
<1>0. /\ N \in Nat \ {0} /\ FirstRow \in Int
      /\ \A n \in 1 .. N : Banner[n].down \in Int
    BY LayoutAssumption
<1> HIDE DEF N
<1>1. step \in [Nat \X Int -> Int] /\ Descends(down)
  <2>1. step \in [Nat \X Int -> Int]
      BY <1>0
  <2>2. Descends(down)
      BY DEF Descends
  <2> QED
      BY <2>1, <2>2
<1>2. /\ \A v \in Nat \ {0} : down[v] = v - 1
      /\ \A v \in Nat \ {0}, x \in Int :
            v + 1 \in 1 .. N => step[<<v, x>>] = x + Banner[v + 1].down
    OBVIOUS
<1> HIDE DEF step, down
<1>3. PICK g : Follows(g, Int, FirstRow, step, down)
    BY <1>0, <1>1, Recursion
<1>4. g \in [Nat -> Int] /\ g[0] = FirstRow
    BY <1>3 DEF Follows
<1>5. ASSUME NEW n \in 2 .. N PROVE g[n - 1] = g[n - 2] + Banner[n].down
  <2>1. n - 1 \in Nat \ {0} /\ (n - 1) - 1 = n - 2 /\ n - 2 \in Nat /\ (n - 1) + 1 = n /\ n \in 1 .. N
      BY <1>0
  <2>2. g[n - 1] = step[<<n - 1, g[down[n - 1]]>>]
      BY <1>3, <2>1 DEF Follows
  <2>3. down[n - 1] = n - 2 /\ g[n - 2] \in Int
      BY <1>2, <1>4, <2>1
  <2> QED
      BY <1>2, <2>1, <2>2, <2>3
<1>6. ASSUME NEW n \in 1 .. N PROVE RowOf(n) = g[n - 1]
  <2> DEFINE F(f) == [i \in 1 .. n |-> IF i = 1 THEN FirstRow ELSE f[i - 1] + Banner[i].down]
             h == [i \in 1 .. n |-> g[i - 1]]
             r == CHOOSE f : f = F(f)
  <2>1. h = F(h)
    <3>1. ASSUME NEW i \in 1 .. n PROVE h[i] = F(h)[i]
      <4>1. CASE i = 1
          BY <1>4, <4>1
      <4>2. CASE i # 1
        <5>1. i \in 2 .. N /\ i - 1 \in 1 .. n /\ (i - 1) - 1 = i - 2
            BY <1>0, <4>2
        <5> QED
            BY <1>5, <4>2, <5>1
      <4> QED
          BY <4>1, <4>2
    <3> QED
        BY <3>1
  <2>2. r = F(r)
    <3> HIDE DEF h, F
    <3> QED
        BY <2>1
  <2>3. RowOf(n) = r[n]
      BY DEF RowOf
  <2> HIDE DEF r, h
  <2>4. \A i \in 1 .. n : r[i] = IF i = 1 THEN FirstRow ELSE r[i - 1] + Banner[i].down
      BY <2>2
  <2> DEFINE D == {i \in 1 .. n : r[i] # g[i - 1]}
  <2>5. D = {}
    <3> SUFFICES ASSUME D # {} PROVE FALSE
        OBVIOUS
    <3>1. D \in SUBSET Nat
        OBVIOUS
    <3>2. PICK i \in D : \A m \in D : i <= m
        BY <3>1, Least
    <3>3. i \in 1 .. n /\ r[i] # g[i - 1]
        BY <3>2
    <3>4. i # 1
        BY <1>4, <2>4, <3>3
    <3>5. i \in 2 .. N /\ i - 1 \in 1 .. n /\ (i - 1) - 1 = i - 2 /\ ~(i <= i - 1)
        BY <1>0, <3>3, <3>4
    <3>6. r[i - 1] = g[i - 2]
        BY <3>2, <3>5
    <3> QED
        BY <1>5, <2>4, <3>3, <3>4, <3>5, <3>6
  <2>6. n \in 1 .. n
      OBVIOUS
  <2> QED
      BY <2>3, <2>5, <2>6
<1>7. RowOf(1) = FirstRow
  <2>1. 1 \in 1 .. N /\ 1 - 1 = 0
      BY <1>0
  <2> QED
      BY <1>4, <1>6, <2>1
<1>8. ASSUME NEW n \in 1 .. N PROVE RowOf(n) \in Int
  <2>1. n - 1 \in Nat
      BY <1>0
  <2> QED
      BY <1>4, <1>6, <2>1
<1>9. ASSUME NEW n \in 2 .. N PROVE RowOf(n) = RowOf(n - 1) + Banner[n].down
  <2>1. n \in 1 .. N /\ n - 1 \in 1 .. N /\ (n - 1) - 1 = n - 2
      BY <1>0
  <2> QED
      BY <1>5, <1>6, <2>1
<1> QED
    BY <1>7, <1>8, <1>9 DEF N

\* Every line is below those before it, and all are in the window.
LEMMA RowsApart ==
    ASSUME NEW n \in 1 .. Len(Banner)
    PROVE  /\ RowOf(n) \in ScrRows
           /\ \A m \in 1 .. n - 1 : RowOf(m) < RowOf(n)
<1> DEFINE N == Len(Banner)
           B == {k \in 1 .. N : RowOf(k) < 0}
           A == {k \in 1 .. N : \E m \in 1 .. k - 1 : ~(RowOf(m) < RowOf(k))}
<1>0. /\ N \in Nat \ {0} /\ FirstRow \in Nat /\ NUM_ROWS \in Nat
      /\ \A k \in 1 .. N : RowOf(k) < NUM_ROWS
    BY LayoutAssumption, ScreenAssumption
<1>1. /\ RowOf(1) = FirstRow /\ \A k \in 1 .. N : RowOf(k) \in Int
      /\ \A k \in 2 .. N : RowOf(k) = RowOf(k - 1) + Banner[k].down
    BY Rows
<1>2. \A k \in 2 .. N : Banner[k].down \in Nat /\ Banner[k].down > 0
  <2>1. \A k \in 2 .. N : k \in 1 .. N /\ k > 1
      BY <1>0
  <2> QED
      BY <2>1, LayoutAssumption
<1> HIDE DEF N
<1>3. \A k \in 2 .. N : /\ RowOf(k - 1) < RowOf(k) /\ k - 1 \in 1 .. N /\ k - 1 < k
                        /\ RowOf(k) \in Int /\ RowOf(k - 1) \in Int
  <2> SUFFICES ASSUME NEW k \in 2 .. N
               PROVE  /\ RowOf(k - 1) < RowOf(k) /\ k - 1 \in 1 .. N /\ k - 1 < k
                      /\ RowOf(k) \in Int /\ RowOf(k - 1) \in Int
      OBVIOUS
  <2>1. k \in 1 .. N /\ k - 1 \in 1 .. N /\ k - 1 < k
      BY <1>0
  <2>2. RowOf(k) \in Int /\ RowOf(k - 1) \in Int
      BY <1>1, <2>1
  <2> QED
      BY <1>1, <1>2, <2>1, <2>2
<1>4. B = {}
  <2> SUFFICES ASSUME B # {} PROVE FALSE
      OBVIOUS
  <2>1. B \in SUBSET Nat
      BY <1>0
  <2>2. PICK k \in B : \A m \in B : k <= m
      BY <2>1, Least
  <2>3. k \in 1 .. N /\ RowOf(k) < 0 /\ k # 1
      BY <1>0, <1>1, <2>2
  <2>4. k \in 2 .. N
      BY <1>0, <2>3
  <2>5. RowOf(k - 1) < 0 /\ k - 1 \in 1 .. N /\ ~(k <= k - 1)
      BY <1>3, <2>3, <2>4
  <2> QED
      BY <2>2, <2>5
<1>5. A = {}
  <2> SUFFICES ASSUME A # {} PROVE FALSE
      OBVIOUS
  <2>1. A \in SUBSET Nat
      BY <1>0
  <2>2. PICK k \in A : \A m \in A : k <= m
      BY <2>1, Least
  <2>3. PICK m \in 1 .. k - 1 : ~(RowOf(m) < RowOf(k))
      BY <2>2
  <2>4. k \in 2 .. N /\ m \in 1 .. N
      BY <1>0, <2>2, <2>3
  <2>5. /\ RowOf(k - 1) < RowOf(k) /\ k - 1 \in 1 .. N /\ ~(k <= k - 1)
        /\ RowOf(m) \in Int /\ RowOf(k) \in Int /\ RowOf(k - 1) \in Int
      BY <1>1, <1>3, <2>4
  <2>6. m # k - 1
      BY <2>3, <2>5
  <2>7. m \in 1 .. (k - 1) - 1
      BY <2>3, <2>4, <2>6
  <2>8. RowOf(m) < RowOf(k - 1)
      BY <2>2, <2>5, <2>7
  <2> QED
      BY <2>3, <2>5, <2>8
<1>6. RowOf(n) \in ScrRows
  <2>1. n \in 1 .. N /\ RowOf(n) \in Int /\ RowOf(n) < NUM_ROWS /\ ~(RowOf(n) < 0)
      BY <1>0, <1>1, <1>4 DEF N
  <2> QED
      BY <1>0, <2>1 DEF ScrRows
<1> QED
    BY <1>5, <1>6 DEF N

\* A sequence is a sequence over what it holds.
LEMMA InOwn ==
    ASSUME NEW S, NEW s \in Seq(S)
    PROVE  s \in Seq({s[i] : i \in DOMAIN s})
<1>1. Len(s) \in Nat /\ DOMAIN s = 1 .. Len(s) /\ s \in [1 .. Len(s) -> S]
    OBVIOUS
<1> DEFINE T == {s[i] : i \in DOMAIN s}
<1>2. s \in [1 .. Len(s) -> T]
    BY <1>1
<1> HIDE DEF T
<1>3. s \in Seq(T)
    BY <1>1, <1>2, SeqDef
<1> QED
    BY <1>3 DEF T

\* Put writes the cell under the cursor, which is on the screen, and moves the cursor on
\* within its row; nothing scrolls.
LEMMA PutEffect ==
    ASSUME NEW r \in ScrRows, screen_offset \in 0 .. MaxRow, cursor_y = screen_offset + r,
           cursor_x \in Nat, cursor_x + 1 < NUM_COLS, Put
    PROVE  /\ todo # <<>> /\ todo' = Tail(todo)
           /\ video' = [video EXCEPT ![<<r, cursor_x>>] = [ch |-> Head(todo), attr |-> ATTRIB]]
           /\ cursor_y' = cursor_y /\ cursor_x' = cursor_x + 1
           /\ UNCHANGED <<screen_offset, ATTRIB, pc, line, said>>
<1>0. /\ NUM_ROWS \in Nat /\ NUM_COLS \in Nat /\ screen_offset \in Int /\ r \in Int
      /\ 0 <= r /\ r < NUM_ROWS /\ cursor_y \in Int
    BY ScreenAssumption DEF ScrRows
<1>1. screen_y(cursor_y, screen_offset) = r /\ OnScreen(cursor_y, screen_offset)
    BY <1>0 DEF screen_y, OnScreen
<1>2. Advance(cursor_y, cursor_x) = <<cursor_y, cursor_x + 1>>
    BY <1>0 DEF Advance
<1> DEFINE cell == [ch |-> Head(todo), attr |-> ATTRIB]
           mem  == WriteSaved(cursor_y, cursor_x, cell)
           vid  == WriteVideo(cursor_y, cursor_x, cell)
<1>3. vid = [video EXCEPT ![<<r, cursor_x>>] = cell]
    BY <1>1 DEF WriteVideo
<1>4. /\ todo # <<>> /\ todo' = Tail(todo)
      /\ MoveTo(Advance(cursor_y, cursor_x)[1], Advance(cursor_y, cursor_x)[2], mem, vid)
      /\ UNCHANGED <<pc, ops, line, said>>
    BY Zenon DEF Put
<1> HIDE DEF cell, mem, vid
<1>5. MoveTo(cursor_y, cursor_x + 1, mem, vid)
    BY <1>2, <1>4
<1>6. video' = vid /\ UNCHANGED screen_offset
    BY <1>1, <1>5 DEF MoveTo, Follow
<1> QED
    BY <1>3, <1>4, <1>5, <1>6 DEF MoveTo, cell

\* Putting one character more of a text.
LEMMA RestStep ==
    ASSUME NEW rest, NEW text, Len(text) \in Nat, NEW k, Rest(rest, text, k), rest # <<>>
    PROVE  /\ Rest(Tail(rest), text, k + 1) /\ Head(rest) = text[k + 1]
           /\ k \in 0 .. Len(text) - 1
<1> DEFINE S == {rest[i] : i \in DOMAIN rest}
           n == Len(text)
<1>1. /\ rest \in Seq(S) /\ k \in 0 .. n /\ Len(rest) = n - k /\ n \in Nat
      /\ \A i \in 1 .. Len(rest) : rest[i] = text[k + i]
    BY DEF Rest
<1> HIDE DEF S, n
<1>2. Len(rest) \in Nat \ {0} /\ Head(rest) = rest[1]
    BY <1>1
<1>3. k \in 0 .. n - 1 /\ Head(rest) = text[k + 1]
    BY <1>1, <1>2
<1> DEFINE t == Tail(rest)
<1>4. t \in Seq(S) /\ Len(t) = Len(rest) - 1 /\ \A i \in 1 .. Len(rest) - 1 : t[i] = rest[i + 1]
    BY <1>1, <1>2
<1> HIDE DEF t
<1>5. t \in Seq({t[i] : i \in DOMAIN t})
    BY <1>4, InOwn
<1>6. ASSUME NEW i \in 1 .. Len(t) PROVE t[i] = text[(k + 1) + i]
  <2>1. i \in 1 .. Len(rest) - 1 /\ i + 1 \in 1 .. Len(rest) /\ k + (i + 1) = (k + 1) + i
      BY <1>1, <1>2, <1>4
  <2> QED
      BY <1>1, <1>4, <2>1
<1>7. k + 1 \in 0 .. n /\ Len(t) = n - (k + 1)
    BY <1>1, <1>3, <1>4
<1>8. Rest(t, text, k + 1)
    BY <1>5, <1>6, <1>7 DEF Rest, n
<1> QED
    BY <1>3, <1>8 DEF t, n

\* Nothing of a text, and all of it, has been put.
LEMMA RestEnds ==
    ASSUME NEW S, NEW text \in Seq(S)
    PROVE  /\ Rest(text, text, 0)
           /\ \A k : Rest(<<>>, text, k) => k = Len(text)
<1>1. Len(text) \in Nat /\ text \in Seq({text[i] : i \in DOMAIN text})
    BY InOwn
<1>2. Rest(text, text, 0)
    BY <1>1 DEF Rest
<1>3. ASSUME NEW k, Rest(<<>>, text, k) PROVE k = Len(text)
  <2>1. k \in 0 .. Len(text) /\ 0 = Len(text) - k
      BY <1>3 DEF Rest
  <2> QED
      BY <1>1, <2>1
<1> QED
    BY <1>2, <1>3

\* A line of the banner: its text, its place and its length.
LEMMA LineIs ==
    ASSUME NEW n \in 1 .. Len(Banner)
    PROVE  /\ Len(Banner[n].text) \in Nat /\ Banner[n].x \in Nat
           /\ Banner[n].x + Len(Banner[n].text) < NUM_COLS
           /\ \E S : Banner[n].text \in Seq(S)
           /\ RowOf(n) \in ScrRows /\ RowOf(n) \in Int /\ NUM_COLS \in Nat
<1>1. InRow(Banner[n].text, Banner[n].x)
    BY LayoutAssumption
<1>2. /\ \E S : Banner[n].text \in Seq(S)
      /\ Banner[n].x \in Nat /\ Banner[n].x + Len(Banner[n].text) < NUM_COLS
    BY <1>1, Zenon DEF InRow
<1>3. Len(Banner[n].text) \in Nat
    BY <1>2
<1>4. RowOf(n) \in ScrRows /\ RowOf(n) \in Int /\ NUM_COLS \in Nat
    BY RowsApart, ScreenAssumption DEF ScrRows
<1> QED
    BY <1>2, <1>3, <1>4

\* A cell of the banner after one character more of line n.
LEMMA BannerGrows ==
    ASSUME NEW n \in 1 .. Len(Banner), NEW k \in 0 .. Len(Banner[n].text) - 1,
           NEW p \in ScrRows \X Cols, NEW cell, NEW cell2, BannerAt(p, cell, n, k),
           cell2 = IF p = <<RowOf(n), Banner[n].x + k>>
                   THEN [ch |-> Banner[n].text[k + 1], attr |-> BlueText] ELSE cell
    PROVE  BannerAt(p, cell2, n, k + 1)
<1> DEFINE x == Banner[n].x
           Puts1(m) == OnLine(p, m, IF m < n THEN Len(Banner[m].text) ELSE k)
           Puts2(m) == OnLine(p, m, IF m < n THEN Len(Banner[m].text) ELSE k + 1)
<1>0. /\ x \in Nat /\ k \in Nat /\ n \in Nat /\ p[1] \in Int /\ p[2] \in Int /\ p = <<p[1], p[2]>>
      /\ RowOf(n) \in Int /\ n \in 1 .. n /\ ~(n < n)
    BY LineIs, ScreenAssumption DEF ScrRows, Cols
<1>1. /\ \A m \in 1 .. n : Puts1(m) => cell = LineCell(p, m)
      /\ (\A m \in 1 .. n : ~Puts1(m)) => cell = BlankIn(BlueBlank)
    BY Zenon DEF BannerAt
<1>2. \A m \in 1 .. n : m # n => (Puts1(m) <=> Puts2(m))
    BY <1>0
<1> HIDE DEF Puts1, Puts2
<1>3. CASE p = <<RowOf(n), x + k>>
  <2>1. p[1] = RowOf(n) /\ p[2] = x + k /\ cell2 = LineCell(p, n)
    <3>1. p[1] = RowOf(n) /\ p[2] = x + k
        BY <1>3
    <3>2. p[2] - x + 1 = k + 1
        BY <1>0, <3>1
    <3> QED
        BY <1>3, <3>1, <3>2 DEF LineCell
  <2>2. Puts2(n)
      BY <1>0, <2>1 DEF Puts2, OnLine
  <2>3. ASSUME NEW m \in 1 .. n, Puts2(m) PROVE m = n
    <3> SUFFICES ASSUME m # n PROVE FALSE
        OBVIOUS
    <3>1. m \in 1 .. n - 1
        BY <1>0
    <3>2. RowOf(m) < RowOf(n)
        BY <3>1, RowsApart
    <3>3. p[1] = RowOf(m)
        BY <2>3 DEF Puts2, OnLine
    <3> QED
        BY <1>0, <2>1, <3>2, <3>3
  <2>4. /\ \A m \in 1 .. n : Puts2(m) => cell2 = LineCell(p, m)
        /\ (\A m \in 1 .. n : ~Puts2(m)) => cell2 = BlankIn(BlueBlank)
      BY <1>0, <2>1, <2>2, <2>3
  <2> QED
      BY <2>4, Zenon DEF BannerAt, Puts2
<1>4. CASE p # <<RowOf(n), x + k>>
  <2>1. Puts1(n) <=> Puts2(n)
    <3>1. ~(p[1] = RowOf(n) /\ p[2] = x + k)
        BY <1>0, <1>4
    <3>2. p[1] = RowOf(n) => (p[2] \in x .. x + k - 1 <=> p[2] \in x .. x + (k + 1) - 1)
        BY SMTT(30), <1>0, <3>1
    <3> QED
        BY <1>0, <3>2 DEF Puts1, Puts2, OnLine
  <2>2. cell2 = cell /\ \A m \in 1 .. n : Puts1(m) <=> Puts2(m)
      BY <1>2, <1>4, <2>1
  <2>3. /\ \A m \in 1 .. n : Puts2(m) => cell2 = LineCell(p, m)
        /\ (\A m \in 1 .. n : ~Puts2(m)) => cell2 = BlankIn(BlueBlank)
      BY <1>1, <2>2
  <2> QED
      BY <2>3, Zenon DEF BannerAt, Puts2
<1> QED
    BY <1>3, <1>4

\* A cell of the banner when the next line begins.
LEMMA BannerNextLine ==
    ASSUME NEW n \in 1 .. Len(Banner), n + 1 \in 1 .. Len(Banner), NEW p \in ScrRows \X Cols,
           NEW cell, BannerAt(p, cell, n, Len(Banner[n].text))
    PROVE  BannerAt(p, cell, n + 1, 0)
<1> DEFINE Puts1(m) == OnLine(p, m, IF m < n THEN Len(Banner[m].text) ELSE Len(Banner[n].text))
           Puts2(m) == OnLine(p, m, IF m < n + 1 THEN Len(Banner[m].text) ELSE 0)
<1>0. /\ n \in Nat /\ p[2] \in Int /\ Banner[n + 1].x \in Int
    BY LineIs, ScreenAssumption DEF Cols
<1>1. /\ \A m \in 1 .. n : Puts1(m) => cell = LineCell(p, m)
      /\ (\A m \in 1 .. n : ~Puts1(m)) => cell = BlankIn(BlueBlank)
    BY Zenon DEF BannerAt
<1>2. ~Puts2(n + 1)
    BY <1>0 DEF OnLine
<1>3. \A m \in 1 .. n : Puts1(m) <=> Puts2(m)
  <2> SUFFICES ASSUME NEW m \in 1 .. n PROVE Puts1(m) <=> Puts2(m)
      OBVIOUS
  <2>1. m < n + 1 /\ (m < n \/ m = n)
      BY <1>0
  <2> QED
      BY <2>1
<1> HIDE DEF Puts1, Puts2
<1>4. 1 .. n + 1 = (1 .. n) \union {n + 1}
    BY <1>0
<1>5. /\ \A m \in 1 .. n + 1 : Puts2(m) => cell = LineCell(p, m)
      /\ (\A m \in 1 .. n + 1 : ~Puts2(m)) => cell = BlankIn(BlueBlank)
    BY <1>1, <1>2, <1>3, <1>4
<1> QED
    BY <1>5, Zenon DEF BannerAt, Puts2

\* A cell of the message after one character more.
LEMMA MessageGrows ==
    ASSUME NEW text, Len(text) \in Nat, NEW k \in 0 .. Len(text) - 1,
           NEW p \in ScrRows \X Cols, NEW cell, NEW cell2, MessageAt(p, cell, text, k),
           cell2 = IF p = <<MessageRow, MessageCol + k>>
                   THEN [ch |-> text[k + 1], attr |-> MessageInk] ELSE cell
    PROVE  MessageAt(p, cell2, text, k + 1)
<1>0. /\ MessageRow \in Int /\ MessageCol \in Nat /\ k \in Nat
      /\ p[1] \in Int /\ p[2] \in Int /\ p = <<p[1], p[2]>>
    BY LayoutAssumption, ScreenAssumption DEF ScrRows, Cols
<1>1. CASE p = <<MessageRow, MessageCol + k>>
  <2>1. p[1] = MessageRow /\ p[2] = MessageCol + k
      BY <1>1
  <2>2. p[2] \in MessageCol .. MessageCol + (k + 1) - 1 /\ p[2] - MessageCol + 1 = k + 1
      BY <1>0, <2>1
  <2> QED
      BY <1>1, <2>1, <2>2 DEF MessageAt
<1>2. CASE p # <<MessageRow, MessageCol + k>>
  <2>1. ~(p[1] = MessageRow /\ p[2] = MessageCol + k)
      BY <1>0, <1>2
  <2>2. p[1] = MessageRow =>
           (p[2] \in MessageCol .. MessageCol + k - 1
              <=> p[2] \in MessageCol .. MessageCol + (k + 1) - 1)
      BY <1>0, <2>1
  <2> QED
      BY <1>2, <2>2 DEF MessageAt
<1> QED
    BY <1>1, <1>2

\* The screen when an exception begins: blue, with nothing of the banner on it yet.
LEMMA ExceptionStep == IInv /\ Exception => pc' = "banner" /\ PuttingBanner(0)'
<1> SUFFICES ASSUME IInv, Exception PROVE pc' = "banner" /\ PuttingBanner(0)'
    OBVIOUS
<1>1. /\ pc' = "banner" /\ ATTRIB' = BlueText /\ line' = 1
      /\ video' = [p \in ScrRows \X Cols |-> BlankIn(BlueBlank)]
      /\ cursor_y' = screen_offset + FirstRow /\ cursor_x' = Banner[1].x
      /\ todo' = Banner[1].text /\ screen_offset' = screen_offset
    BY DEF Exception, BannerTop
<1>2. 1 \in 1 .. Len(Banner)
    BY LayoutAssumption
<1>3. /\ Banner[1].x \in Nat /\ RowOf(1) = FirstRow
      /\ \E S : Banner[1].text \in Seq(S)
    BY <1>2, LineIs, Rows
<1>4. Rest(Banner[1].text, Banner[1].text, 0)
    BY <1>3, RestEnds
<1>5. screen_offset \in 0 .. MaxRow
    BY DEF IInv, TypeOK
<1>6. ASSUME NEW p \in ScrRows \X Cols PROVE BannerAt(p, BlankIn(BlueBlank), 1, 0)
  <2>1. p[2] \in Int
      BY ScreenAssumption DEF Cols
  <2>2. ~OnLine(p, 1, 0)
      BY <1>3, <2>1 DEF OnLine
  <2>3. \A m \in 1 .. 1 : m = 1 /\ ~(m < 1)
      OBVIOUS
  <2> QED
      BY <2>2, <2>3 DEF BannerAt
<1>7. IsScreen(video') /\ \A p \in ScrRows \X Cols : video'[p] = BlankIn(BlueBlank)
    BY <1>1 DEF IsScreen
<1>8. Banner[1].x = Banner[1].x + 0
    BY <1>3
<1> DEFINE c == BlankIn(BlueBlank)
<1> HIDE DEF c
<1>9. Putting(Banner[1].text, RowOf(1), Banner[1].x, 0)'
    BY <1>1, <1>3, <1>4, <1>5, <1>7, <1>8 DEF Putting
<1>10. \A p \in ScrRows \X Cols : BannerAt(p, video'[p], 1, 0)
    BY <1>6, <1>7
<1> QED
    BY <1>1, <1>2, <1>9, <1>10 DEF PuttingBanner

\* The column behind k + 1 characters of a text that fits.
LEMMA InRowArith ==
    ASSUME NEW x \in Nat, NEW l \in Nat, NEW w \in Nat, x + l < w, NEW k \in 0 .. l - 1
    PROVE  /\ x + k \in Nat /\ (x + k) + 1 < w /\ (x + k) + 1 = x + (k + 1)
           /\ k + 1 \in 0 .. w
OBVIOUS

\* One character of the banner.
LEMMA BannerPut ==
    ASSUME NEW k, PuttingBanner(k), Put
    PROVE  /\ PuttingBanner(k + 1)' /\ k + 1 \in 0 .. NUM_COLS
           /\ pc' = pc
<1> DEFINE b == Banner[line]
           r == RowOf(line)
           text == b.text
<1>1. /\ line \in 1 .. Len(Banner) /\ ATTRIB = BlueText /\ Putting(text, r, b.x, k)
      /\ \A p \in ScrRows \X Cols : BannerAt(p, video[p], line, k)
    BY DEF PuttingBanner
<1>2. /\ Rest(todo, text, k) /\ screen_offset \in 0 .. MaxRow /\ cursor_y = screen_offset + r
      /\ cursor_x = b.x + k /\ IsScreen(video)
    BY <1>1 DEF Putting
<1>3. /\ Len(text) \in Nat /\ b.x \in Nat /\ b.x + Len(text) < NUM_COLS
      /\ r \in ScrRows /\ NUM_COLS \in Nat
    BY <1>1, LineIs
<1>4. todo # <<>>
    BY DEF Put
<1> HIDE DEF b, r, text
<1>5. /\ Rest(Tail(todo), text, k + 1) /\ Head(todo) = text[k + 1] /\ k \in 0 .. Len(text) - 1
    BY <1>2, <1>3, <1>4, RestStep
<1>6. /\ cursor_x \in Nat /\ cursor_x + 1 < NUM_COLS /\ cursor_x + 1 = b.x + (k + 1)
      /\ k + 1 \in 0 .. NUM_COLS
    BY <1>2, <1>3, <1>5, InRowArith
<1>7. /\ todo' = Tail(todo)
      /\ video' = [video EXCEPT ![<<r, cursor_x>>] = [ch |-> Head(todo), attr |-> ATTRIB]]
      /\ cursor_y' = cursor_y /\ cursor_x' = cursor_x + 1
      /\ screen_offset' = screen_offset /\ ATTRIB' = ATTRIB /\ pc' = pc /\ line' = line
    BY <1>2, <1>3, <1>6, PutEffect
<1>8. /\ IsScreen(video')
      /\ \A p \in ScrRows \X Cols :
            video'[p] = IF p = <<r, b.x + k>> THEN [ch |-> text[k + 1], attr |-> BlueText]
                        ELSE video[p]
    BY <1>1, <1>2, <1>5, <1>7 DEF IsScreen
<1>9. Putting(text, r, b.x, k + 1)'
    BY <1>2, <1>5, <1>6, <1>7, <1>8 DEF Putting, text, r, b
<1>10. ASSUME NEW p \in ScrRows \X Cols PROVE BannerAt(p, video'[p], line, k + 1)
  <2>1. BannerAt(p, video[p], line, k)
      BY <1>1
  <2>2. video'[p] = IF p = <<RowOf(line), Banner[line].x + k>>
                    THEN [ch |-> Banner[line].text[k + 1], attr |-> BlueText] ELSE video[p]
      BY <1>8 DEF text, r, b
  <2>3. k \in 0 .. Len(Banner[line].text) - 1
      BY <1>5 DEF text, b
  <2> QED
      BY <1>1, <2>1, <2>2, <2>3, BannerGrows
<1>11. PuttingBanner(k + 1)'
    BY <1>1, <1>7, <1>9, <1>10 DEF PuttingBanner, text, r, b
<1> QED
    BY <1>6, <1>7, <1>11

\* When nothing is left of a line, all of it is on the screen.
LEMMA LinePut ==
    ASSUME NEW k, PuttingBanner(k), todo = <<>>
    PROVE  k = Len(Banner[line].text)
<1>1. line \in 1 .. Len(Banner) /\ Rest(<<>>, Banner[line].text, k)
    BY DEF PuttingBanner, Putting
<1>2. PICK S : Banner[line].text \in Seq(S)
    BY <1>1, LineIs
<1> QED
    BY <1>1, <1>2, RestEnds

\* The next line of the banner.
LEMMA NextLineStep ==
    ASSUME NEW k, PuttingBanner(k), NextLine
    PROVE  PuttingBanner(0)' /\ pc' = pc
<1>0. PICK n : n = line + 1
    OBVIOUS
<1> DEFINE b == Banner[n]
<1>1. /\ line \in 1 .. Len(Banner) /\ ATTRIB = BlueText
      /\ Putting(Banner[line].text, RowOf(line), Banner[line].x, k)
      /\ \A p \in ScrRows \X Cols : BannerAt(p, video[p], line, k)
    BY DEF PuttingBanner
<1>2. /\ todo = <<>> /\ line < Len(Banner) /\ line' = n /\ cursor_y' = cursor_y + b.down
      /\ cursor_x' = b.x /\ todo' = b.text /\ pc' = pc /\ screen_offset' = screen_offset
      /\ ATTRIB' = ATTRIB /\ video' = video
    BY <1>0 DEF NextLine
<1>3. Len(Banner) \in Nat
    BY LayoutAssumption
<1>4. n \in 1 .. Len(Banner) /\ n \in 2 .. Len(Banner) /\ n - 1 = line
    BY <1>0, <1>1, <1>2, <1>3
<1>5. /\ b.x \in Nat /\ RowOf(n) = RowOf(line) + b.down /\ RowOf(line) \in Int
      /\ b.down \in Nat
  <2>1. RowOf(n) = RowOf(n - 1) + Banner[n].down /\ RowOf(line) \in Int
      BY <1>1, <1>4, Rows
  <2>2. b.x \in Nat
      BY <1>4, LineIs
  <2>3. b.down \in Nat
      BY <1>4, LayoutAssumption
  <2> QED
      BY <1>4, <2>1, <2>2, <2>3
<1>6. Rest(b.text, b.text, 0)
  <2>1. PICK S : Banner[n].text \in Seq(S)
      BY <1>4, LineIs
  <2> QED
      BY <2>1, RestEnds
<1>7. /\ screen_offset \in 0 .. MaxRow /\ cursor_y = screen_offset + RowOf(line)
      /\ IsScreen(video)
    BY <1>1 DEF Putting
<1>8. \A p \in ScrRows \X Cols : BannerAt(p, video'[p], n, 0)
  <2> SUFFICES ASSUME NEW p \in ScrRows \X Cols PROVE BannerAt(p, video'[p], n, 0)
      OBVIOUS
  <2>1. BannerAt(p, video[p], line, Len(Banner[line].text))
      BY <1>1, <1>2, LinePut
  <2>2. BannerAt(p, video[p], n, 0)
      BY <1>0, <1>1, <1>4, <2>1, BannerNextLine
  <2> QED
      BY <1>2, <2>2
<1> HIDE DEF b
<1>9. cursor_y' = screen_offset' + RowOf(n) /\ cursor_x' = b.x + 0
  <2>1. screen_offset \in Int
      BY <1>7
  <2> QED
      BY <1>2, <1>5, <1>7, <2>1
<1>10. Putting(b.text, RowOf(n), b.x, 0)'
    BY <1>2, <1>6, <1>7, <1>9 DEF Putting, b
<1> QED
    BY <1>1, <1>2, <1>4, <1>8, <1>10 DEF PuttingBanner, b

\* What printf puts fits into the message's row.
LEMMA MessageFits ==
    /\ \A m \in Messages : InRow(printf(m, <<>>), MessageCol)
    /\ \A a \in 0 .. WORD - 1 : InRow(printf(FaultFormat, <<a>>), MessageCol)
<1>1. ASSUME NEW m \in Messages PROVE InRow(printf(m, <<>>), MessageCol)
  <2>1. InRow(m, MessageCol) /\ \A i \in DOMAIN m : m[i] # "%"
      BY LayoutAssumption
  <2>2. PICK S : m \in Seq(S)
      BY <2>1, Zenon DEF InRow
  <2>3. \A i \in 1 .. Len(m) : m[i] # "%"
      BY <2>1, <2>2
  <2>4. printf(m, <<>>) = m
      BY <2>2, <2>3, PrintsLiteral
  <2> QED
      BY <2>1, <2>4
<1>2. ASSUME NEW a \in 0 .. WORD - 1 PROVE InRow(printf(FaultFormat, <<a>>), MessageCol)
  <2> DEFINE s == printf(FaultFormat, <<a>>)
             l == Len(itoa(a, 16))
             f == Len(FaultFormat)
  <2>1. /\ Len(s) = f - 2 + l /\ \E S : s \in Seq(S)
    <3>1. WORD \in Nat /\ a \in Nat
        BY ScreenAssumption
    <3>2. /\ FaultFormat \in Seq({FaultFormat[n] : n \in DOMAIN FaultFormat})
          /\ Len(FaultFormat) >= 2
          /\ \A n \in 1 .. Len(FaultFormat) - 2 : FaultFormat[n] # "%"
          /\ FaultFormat[Len(FaultFormat) - 1] = "%" /\ FaultFormat[Len(FaultFormat)] = "x"
        BY FormatAssumption
    <3> QED
        BY <3>1, <3>2, PrintsFault
  <2>2. l <= HexWidth
      BY WordDigits
  <2>3. s \in Seq({s[i] : i \in DOMAIN s})
      BY <2>1, InOwn
  <2>4. l \in Nat
    <3>1. WORD \in Nat /\ a \in Nat
        BY ScreenAssumption
    <3>2. itoa(a, 16) \in Seq(Digits)
        BY <3>1, ItoaDigits
    <3> QED
        BY <3>2
  <2>5. /\ f \in Nat /\ HexWidth \in Nat /\ NUM_COLS \in Nat /\ MessageCol \in Nat
        /\ MessageCol + f - 2 + HexWidth < NUM_COLS
    <3>1. f \in Nat /\ HexWidth \in Nat
        BY FormatAssumption
    <3> QED
        BY <3>1, ScreenAssumption, LayoutAssumption
  <2> HIDE DEF s, l, f
  <2>6. MessageCol + Len(s) < NUM_COLS
      BY <2>1, <2>2, <2>4, <2>5
  <2> QED
      BY <2>3, <2>5, <2>6 DEF InRow, s
<1> QED
    BY <1>1, <1>2

\* The message begins over the finished banner.
LEMMA MessageStep ==
    ASSUME NEW k, PuttingBanner(k), Message
    PROVE  PuttingMessage(0)' /\ pc' = "message"
<1>1. /\ line \in 1 .. Len(Banner)
      /\ Putting(Banner[line].text, RowOf(line), Banner[line].x, k)
      /\ \A p \in ScrRows \X Cols : BannerAt(p, video[p], line, k)
    BY DEF PuttingBanner
<1>2. /\ todo = <<>> /\ line = Len(Banner) /\ pc' = "message" /\ todo' = said'.text
      /\ cursor_y' = screen_offset + MessageRow /\ cursor_x' = MessageCol
      /\ ATTRIB' = MessageInk /\ screen_offset' = screen_offset /\ video' = video
    BY DEF Message
<1>3. InRow(said'.text, MessageCol)
  <2>1. \/ \E m \in Messages : said' = [text |-> printf(m, <<>>), address |-> -1]
        \/ \E a \in 0 .. WORD - 1 :
              said' = [text |-> printf(FaultFormat, <<a>>), address |-> a]
      BY DEF Message
  <2>2. \/ \E m \in Messages : said'.text = printf(m, <<>>)
        \/ \E a \in 0 .. WORD - 1 : said'.text = printf(FaultFormat, <<a>>)
    <3> DEFINE Said(f, a) == printf(f, a)
    <3> HIDE DEF Said
    <3>1. \/ \E m \in Messages : said' = [text |-> Said(m, <<>>), address |-> -1]
          \/ \E a \in 0 .. WORD - 1 :
                said' = [text |-> Said(FaultFormat, <<a>>), address |-> a]
        BY <2>1 DEF Said
    <3>2. \/ \E m \in Messages : said'.text = Said(m, <<>>)
          \/ \E a \in 0 .. WORD - 1 : said'.text = Said(FaultFormat, <<a>>)
        BY <3>1
    <3> QED
        BY <3>2 DEF Said
  <2> QED
      BY <2>2, MessageFits, Zenon
<1>4. PICK t : t = said'.text
    OBVIOUS
<1>5. Rest(t, t, 0)
  <2>1. PICK S : t \in Seq(S)
      BY <1>3, <1>4, Zenon DEF InRow
  <2> QED
      BY <2>1, RestEnds
<1>6. screen_offset \in 0 .. MaxRow /\ IsScreen(video)
    BY <1>1 DEF Putting
<1>7. MessageCol = MessageCol + 0 /\ MessageCol \in Nat
    BY LayoutAssumption
<1>8. Putting(t, MessageRow, MessageCol, 0)'
    BY <1>2, <1>4, <1>5, <1>6, <1>7 DEF Putting
<1>9. ASSUME NEW p \in ScrRows \X Cols PROVE MessageAt(p, video'[p], t, 0)
  <2>1. BannerAt(p, video[p], Len(Banner), Len(Banner[Len(Banner)].text))
      BY <1>1, <1>2, LinePut
  <2>2. p[2] \in Int
      BY ScreenAssumption DEF Cols
  <2>3. ~(p[2] \in MessageCol .. MessageCol + 0 - 1)
      BY <1>7, <2>2
  <2> QED
      BY <1>2, <2>1, <2>3 DEF MessageAt
<1> QED
    BY <1>2, <1>3, <1>4, <1>8, <1>9 DEF PuttingMessage

\* One character of the message.
LEMMA MessagePut ==
    ASSUME NEW k, PuttingMessage(k), Put
    PROVE  /\ PuttingMessage(k + 1)' /\ k + 1 \in 0 .. NUM_COLS
           /\ pc' = pc
<1>0. PICK text : text = said.text
    OBVIOUS
<1>1. /\ InRow(text, MessageCol) /\ ATTRIB = MessageInk
      /\ Putting(text, MessageRow, MessageCol, k)
      /\ \A p \in ScrRows \X Cols : MessageAt(p, video[p], text, k)
    BY <1>0 DEF PuttingMessage
<1>2. /\ Rest(todo, text, k) /\ screen_offset \in 0 .. MaxRow
      /\ cursor_y = screen_offset + MessageRow
      /\ cursor_x = MessageCol + k /\ IsScreen(video)
    BY <1>1 DEF Putting
<1>3. /\ Len(text) \in Nat /\ MessageCol \in Nat /\ MessageCol + Len(text) < NUM_COLS
      /\ MessageRow \in ScrRows /\ NUM_COLS \in Nat
  <2>1. /\ \E S : text \in Seq(S)
        /\ MessageCol \in Nat /\ MessageCol + Len(text) < NUM_COLS
      BY <1>1, Zenon DEF InRow
  <2>2. MessageRow \in ScrRows /\ NUM_COLS \in Nat
      BY LayoutAssumption, ScreenAssumption DEF ScrRows
  <2> QED
      BY <2>1, <2>2
<1>4. todo # <<>>
    BY DEF Put
<1>5. /\ Rest(Tail(todo), text, k + 1) /\ Head(todo) = text[k + 1] /\ k \in 0 .. Len(text) - 1
    BY <1>2, <1>3, <1>4, RestStep
<1>6. /\ cursor_x \in Nat /\ cursor_x + 1 < NUM_COLS /\ cursor_x + 1 = MessageCol + (k + 1)
      /\ k + 1 \in 0 .. NUM_COLS
    BY <1>2, <1>3, <1>5, InRowArith
<1>7. /\ todo' = Tail(todo)
      /\ video' = [video EXCEPT ![<<MessageRow, cursor_x>>] =
                                    [ch |-> Head(todo), attr |-> ATTRIB]]
      /\ cursor_y' = cursor_y /\ cursor_x' = cursor_x + 1
      /\ screen_offset' = screen_offset /\ ATTRIB' = ATTRIB /\ pc' = pc /\ said' = said
    BY <1>2, <1>3, <1>6, PutEffect
<1>8. /\ IsScreen(video')
      /\ \A p \in ScrRows \X Cols :
            video'[p] = IF p = <<MessageRow, MessageCol + k>>
                        THEN [ch |-> text[k + 1], attr |-> MessageInk] ELSE video[p]
    BY <1>1, <1>2, <1>5, <1>7 DEF IsScreen
<1>9. Putting(text, MessageRow, MessageCol, k + 1)'
    BY <1>2, <1>5, <1>6, <1>7, <1>8 DEF Putting
<1>10. \A p \in ScrRows \X Cols : MessageAt(p, video'[p], text, k + 1)
    BY <1>1, <1>3, <1>5, <1>8, MessageGrows
<1>11. PuttingMessage(k + 1)'
    BY <1>0, <1>1, <1>7, <1>9, <1>10 DEF PuttingMessage
<1> QED
    BY <1>6, <1>7, <1>11

\* The kernel starts without an exception.
LEMMA PanicInvInit == PanicInit => PanicInv
BY InitIInv DEF PanicInit, PanicInv

\* Every step keeps what has been put of the banner and of the message on the screen.
LEMMA PanicInvStep == PanicInv /\ [PanicNext]_allVars => PanicInv'
<1> SUFFICES ASSUME PanicInv, [PanicNext]_allVars PROVE PanicInv'
    OBVIOUS
<1>0. 0 \in 0 .. NUM_COLS
    BY ScreenAssumption
<1>1. CASE UNCHANGED allVars
  <2>1. /\ UNCHANGED vars /\ pc' = pc /\ todo' = todo /\ line' = line /\ said' = said
      BY <1>1 DEF allVars, panicVars
  <2>2. /\ cursor_x' = cursor_x /\ cursor_y' = cursor_y /\ screen_offset' = screen_offset
        /\ ATTRIB' = ATTRIB /\ video' = video
      BY <2>1 DEF vars, cursor
  <2>3. IInv => IInv'
      BY <2>1, StepIInv
  <2>4. ASSUME NEW k, PuttingBanner(k) PROVE PuttingBanner(k)'
      BY <2>1, <2>2, <2>4 DEF PuttingBanner, Putting
  <2>5. ASSUME NEW k, PuttingMessage(k) PROVE PuttingMessage(k)'
      BY <2>1, <2>2, <2>5 DEF PuttingMessage, Putting
  <2> QED
      BY <2>1, <2>3, <2>4, <2>5 DEF PanicInv
<1>2. CASE Running
  <2>1. pc = "running" /\ Next /\ UNCHANGED <<pc, todo>>
      BY <1>2 DEF Running
  <2>2. IInv /\ todo = <<>>
      BY <2>1 DEF PanicInv
  <2>3. IInv'
      BY <2>1, <2>2, StepIInv
  <2> QED
      BY <2>1, <2>2, <2>3 DEF PanicInv
<1>3. CASE Exception
  <2>1. pc = "running"
      BY <1>3 DEF Exception
  <2>2. IInv
      BY <2>1 DEF PanicInv
  <2>3. pc' = "banner" /\ PuttingBanner(0)'
      BY <1>3, <2>2, ExceptionStep
  <2> QED
      BY <1>0, <2>3 DEF PanicInv
<1>4. CASE Put
  <2>1. todo # <<>>
      BY <1>4 DEF Put
  <2>2. \/ pc = "banner" /\ \E k \in 0 .. NUM_COLS : PuttingBanner(k)
        \/ pc = "message" /\ \E k \in 0 .. NUM_COLS : PuttingMessage(k)
      BY <2>1 DEF PanicInv
  <2>3. ASSUME pc = "banner", NEW k, PuttingBanner(k) PROVE PanicInv'
      BY <1>4, <2>3, BannerPut DEF PanicInv
  <2>4. ASSUME pc = "message", NEW k, PuttingMessage(k) PROVE PanicInv'
      BY <1>4, <2>4, MessagePut DEF PanicInv
  <2> QED
      BY <2>2, <2>3, <2>4
<1>5. CASE NextLine
  <2>1. pc = "banner"
      BY <1>5 DEF NextLine
  <2>2. PICK k : PuttingBanner(k)
      BY <2>1 DEF PanicInv
  <2>3. PuttingBanner(0)' /\ pc' = "banner"
      BY <1>5, <2>1, <2>2, NextLineStep
  <2> QED
      BY <1>0, <2>3 DEF PanicInv
<1>6. CASE Message
  <2>1. pc = "banner"
      BY <1>6 DEF Message
  <2>2. PICK k : PuttingBanner(k)
      BY <2>1 DEF PanicInv
  <2>3. PuttingMessage(0)' /\ pc' = "message"
      BY <1>6, <2>2, MessageStep
  <2> QED
      BY <1>0, <2>3 DEF PanicInv
<1>7. CASE Spin
    BY <1>1, <1>7 DEF Spin
<1> QED
    BY <1>1, <1>2, <1>3, <1>4, <1>5, <1>6, <1>7 DEF PanicNext

\* The whole banner and the whole message are the picture.
LEMMA InvIsPicture == PanicInv => PictureComplete
<1> SUFFICES ASSUME PanicInv, pc = "message", todo = <<>> PROVE video = Picture
    BY DEF PictureComplete
<1>1. PICK k : PuttingMessage(k)
    BY DEF PanicInv
<1>2. PICK text : text = said.text
    OBVIOUS
<1>3. /\ InRow(text, MessageCol) /\ Rest(<<>>, text, k) /\ IsScreen(video)
      /\ \A p \in ScrRows \X Cols : MessageAt(p, video[p], text, k)
    BY <1>1, <1>2 DEF PuttingMessage, Putting
<1>4. k = Len(text)
  <2>1. PICK S : text \in Seq(S)
      BY <1>3, Zenon DEF InRow
  <2> QED
      BY <1>3, <2>1, RestEnds
<1> DEFINE N == Len(Banner)
           On(p, n) == Written(p, RowOf(n), Banner[n].x, Banner[n].text)
<1>5. ASSUME NEW p \in ScrRows \X Cols PROVE video[p] = Picture[p]
  <2>1. MessageAt(p, video[p], text, Len(text))
      BY <1>3, <1>4
  <2>2. CASE Written(p, MessageRow, MessageCol, text)
    <3>1. video[p] = [ch |-> text[p[2] - MessageCol + 1], attr |-> MessageInk]
        BY <2>1, <2>2 DEF MessageAt, Written
    <3>2. Picture[p] = [ch |-> text[p[2] - MessageCol + 1], attr |-> MessageInk]
        BY <1>2, <2>2 DEF Picture
    <3> QED
        BY <3>1, <3>2
  <2>3. CASE ~Written(p, MessageRow, MessageCol, text)
    <3>1. BannerAt(p, video[p], N, Len(Banner[N].text))
        BY <2>1, <2>3 DEF MessageAt, Written
    <3>2. /\ \A m \in 1 .. N : On(p, m) => video[p] = LineCell(p, m)
          /\ (\A m \in 1 .. N : ~On(p, m)) => video[p] = BlankIn(BlueBlank)
      <4> DEFINE Shown(m) == OnLine(p, m, IF m < N THEN Len(Banner[m].text) ELSE Len(Banner[N].text))
      <4>1. /\ \A m \in 1 .. N : Shown(m) => video[p] = LineCell(p, m)
            /\ (\A m \in 1 .. N : ~Shown(m)) => video[p] = BlankIn(BlueBlank)
          BY <3>1, Zenon DEF BannerAt
      <4>2. \A m \in 1 .. N : Shown(m) <=> On(p, m)
        <5> SUFFICES ASSUME NEW m \in 1 .. N PROVE Shown(m) <=> On(p, m)
            OBVIOUS
        <5>1. N \in Nat
            BY LayoutAssumption
        <5>2. m < N \/ m = N
            BY <5>1
        <5> QED
            BY <5>2 DEF OnLine, Written
      <4> HIDE DEF Shown, On
      <4> QED
          BY <4>1, <4>2
    <3>3. CASE \E n \in 1 .. N : On(p, n)
      <4> DEFINE n == CHOOSE n \in 1 .. N : On(p, n)
      <4>1. n \in 1 .. N /\ On(p, n)
          BY <3>3
      <4>2. Picture[p] = LineCell(p, n)
          BY <1>2, <2>3, <3>3 DEF Picture, LineCell
      <4> HIDE DEF n
      <4> QED
          BY <3>2, <4>1, <4>2
    <3>4. CASE ~\E n \in 1 .. N : On(p, n)
      <4>1. Picture[p] = BlankIn(BlueBlank)
          BY <1>2, <2>3, <3>4 DEF Picture
      <4> QED
          BY <3>2, <3>4, <4>1
    <3> QED
        BY <3>3, <3>4
  <2> QED
      BY <2>2, <2>3
<1>6. DOMAIN Picture = ScrRows \X Cols /\ Picture = [p \in ScrRows \X Cols |-> Picture[p]]
    BY DEF Picture
<1>7. video = [p \in ScrRows \X Cols |-> video[p]]
    BY <1>3 DEF IsScreen
<1> QED
    BY <1>5, <1>6, <1>7

\* Whatever was on the screen, and however far the window was scrolled back, once an
\* exception handler has put its last character the screen shows the whole banner and
\* the whole message and nothing else (BSOD and the printf of the handlers).
THEOREM PanicPictureComplete == PanicSpec => []PictureComplete
<1>1. PanicSpec => []PanicInv
    BY PanicInvInit, PanicInvStep, PTL DEF PanicSpec
<1> QED
    BY <1>1, InvIsPicture, PTL
=============================================================================
