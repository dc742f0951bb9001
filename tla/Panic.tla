-------------------------------- MODULE Panic --------------------------------
(***************************************************************************)
(* The exception handlers of student-distrib/idthandlers.c and the screen  *)
(* they leave behind: cli, BSOD, a message, and an endless loop.  An       *)
(* exception may come in any state the screen functions leave: with the    *)
(* window scrolled away from the cursor, the hardware cursor hidden, any   *)
(* text shown.  (One that comes inside putc finds the same states but for  *)
(* the cell being written.)                                                *)
(*                                                                         *)
(* The texts and their places are constants.  In lib.c the window has 25   *)
(* rows and 80 columns; the banner has its lines in rows 10, 11, 13, 14,   *)
(* 15 and 17 from columns 10, 10, 10, 12, 10 and 26 and none reaches       *)
(* column 72; the message starts at row 8, column 20 and the longest, an   *)
(* address included, has 43 characters.                                    *)
(***************************************************************************)
EXTENDS Screen, Sequences

CONSTANTS
    Banner,                  \* sequence of [down, x, text]
    FirstRow,                \* window row of the banner's first line
    MessageRow, MessageCol,
    Messages,                \* literal messages of the other handlers
    FaultFormat,             \* page_fault's format
    HexWidth,                \* digits that %#x prints (8)
    MaxOps                   \* bound: screen operations before the exception

INSTANCE Format

\* The window row of a line of the banner.
RowOf(n) ==
    LET down[i \in 1 .. n] ==
            IF i = 1 THEN FirstRow ELSE down[i - 1] + Banner[i].down
    IN  down[n]

\* A string that fits into a row from column x on, without reaching its last cell.
InRow(text, x) ==
    /\ text \in Seq({text[i] : i \in DOMAIN text})
    /\ x \in Nat /\ x + Len(text) < NUM_COLS

\* What the texts of lib.c and idthandlers.c satisfy on the screen of lib.c: every
\* line of the banner is below the one before it and in the window, a literal
\* message has no conversion, and page_fault's has room for HexWidth digits.
ASSUME LayoutAssumption ==
    /\ Len(Banner) \in Nat \ {0} /\ FirstRow \in Nat
    /\ \A n \in 1 .. Len(Banner) :
          /\ InRow(Banner[n].text, Banner[n].x)
          /\ Banner[n].down \in Nat /\ (n > 1 => Banner[n].down > 0)
          /\ RowOf(n) < NUM_ROWS
    /\ MessageRow \in 0 .. NUM_ROWS - 1
    /\ \A m \in Messages :
          InRow(m, MessageCol) /\ \A i \in DOMAIN m : m[i] # "%"
    /\ MessageCol \in Nat /\ MessageCol + Len(FaultFormat) - 2 + HexWidth < NUM_COLS

\* HexWidth hexadecimal digits hold a word, and page_fault's text ends in its only
\* conversion, a %x.
ASSUME FormatAssumption ==
    /\ HexWidth \in Nat /\ WORD - 1 <= Value([i \in 1 .. HexWidth |-> "F"], 16)
    /\ FaultFormat \in Seq({FaultFormat[n] : n \in DOMAIN FaultFormat})
    /\ Len(FaultFormat) >= 2
    /\ \A n \in 1 .. Len(FaultFormat) - 2 : FaultFormat[n] # "%"
    /\ FaultFormat[Len(FaultFormat) - 1] = "%" /\ FaultFormat[Len(FaultFormat)] = "x"

VARIABLES
    pc, ops,
    line,              \* lines of the banner that have been started
    todo,              \* characters puts or printf has still to put
    said               \* ghost: the message, and its address for a page fault

panicVars == <<pc, ops, line, todo, said>>
allVars   == <<vars, panicVars>>

BlueBlank  == [fg |-> 0, bg |-> 1]     \* 0x10
BlueText   == [fg |-> 7, bg |-> 1]     \* 0x17
MessageInk == [fg |-> 1, bg |-> 15]    \* 0xF1

PanicInit ==
    /\ Init
    /\ pc = "running" /\ ops = 0 /\ line = 0
    /\ todo = <<>>
    /\ said = [text |-> <<>>, address |-> -1]

\* Any operation of the kernel on the screen.
Running ==
    /\ pc = "running" /\ ops < MaxOps
    /\ Next
    /\ ops' = ops + 1
    /\ UNCHANGED <<pc, line, todo, said>>

\* Mutant: the banner's place does not follow the window.
BannerTop_Absolute == FirstRow

\* The saved row of the banner's first line.
BannerTop == screen_offset + FirstRow

\* cli, and BSOD up to its first puts
Exception ==
    /\ pc = "running" /\ pc' = "banner"
    /\ video' = [p \in ScrRows \X Cols |-> BlankIn(BlueBlank)]
    /\ ATTRIB' = BlueText
    /\ cursor_y' = BannerTop
    /\ cursor_x' = Banner[1].x
    /\ line' = 1 /\ todo' = Banner[1].text
    /\ UNCHANGED <<screen_offset, saved, hardware, ops, said>>

\* putc inside puts or printf; the texts have neither newline nor backspace
Put ==
    LET to == Advance(cursor_y, cursor_x)
        cell == [ch |-> Head(todo), attr |-> ATTRIB]
    IN  /\ todo # <<>> /\ todo' = Tail(todo)
        /\ MoveTo(to[1], to[2], WriteSaved(cursor_y, cursor_x, cell),
                               WriteVideo(cursor_y, cursor_x, cell))
        /\ UNCHANGED <<pc, ops, line, said>>

NextLine ==
    /\ pc = "banner" /\ todo = <<>> /\ line < Len(Banner)
    /\ line' = line + 1
    /\ cursor_y' = cursor_y + Banner[line + 1].down
    /\ cursor_x' = Banner[line + 1].x
    /\ todo' = Banner[line + 1].text
    /\ UNCHANGED <<pc, ops, said, screen_offset, ATTRIB, video, saved, hardware>>

\* The end of BSOD, which hides the cursor, and the call of printf: page_fault
\* reads the address from %cr2, the others have a literal message.
Message ==
    /\ pc = "banner" /\ todo = <<>> /\ line = Len(Banner) /\ pc' = "message"
    /\ cursor_y' = screen_offset + MessageRow
    /\ cursor_x' = MessageCol
    /\ ATTRIB' = MessageInk
    /\ csr' = IF cursor_enabled # 0 THEN (csr + 1) % 8 ELSE csr
    /\ cursor_enabled' = 0
    /\ \/ \E m \in Messages : said' = [text |-> printf(m, <<>>), address |-> -1]
       \/ \E a \in 0 .. WORD - 1 :
             said' = [text |-> printf(FaultFormat, <<a>>), address |-> a]
    /\ todo' = said'.text
    /\ UNCHANGED <<ops, line, screen_offset, video, saved, position>>

\* while(1), with interrupts off
Spin == pc = "message" /\ todo = <<>> /\ UNCHANGED allVars

PanicNext == Running \/ Exception \/ Put \/ NextLine \/ Message \/ Spin

\* After the exception the processor runs on, undisturbed.
PanicSpec ==
    /\ PanicInit /\ [][PanicNext]_allVars
    /\ WF_allVars(Put \/ NextLine \/ Message)

-----------------------------------------------------------------------------
(* Properties *)

\* The cells of a text that starts at row r, column x.
Written(p, r, x, text) == p[1] = r /\ p[2] \in x .. x + Len(text) - 1

\* What a user is meant to see.
Picture ==
    [p \in ScrRows \X Cols |->
        IF Written(p, MessageRow, MessageCol, said.text)
        THEN [ch |-> said.text[p[2] - MessageCol + 1], attr |-> MessageInk]
        ELSE IF \E n \in 1 .. Len(Banner) :
                    Written(p, RowOf(n), Banner[n].x, Banner[n].text)
        THEN LET n == CHOOSE n \in 1 .. Len(Banner) :
                    Written(p, RowOf(n), Banner[n].x, Banner[n].text)
             IN  [ch |-> Banner[n].text[p[2] - Banner[n].x + 1], attr |-> BlueText]
        ELSE BlankIn(BlueBlank)]

\* Whatever was on the screen, and however far the window was scrolled back, an
\* exception ends with the whole banner and the whole message in the window and
\* nothing else, although putc may scroll and writes two memories.
PanicVisible == (pc = "banner") ~> [](video = Picture)

\* The address in a page fault's message is the address that faulted; and %u, %d
\* and %#x of the same word read back as its unsigned value, its signed value
\* (the most negative one included) and its full-width hexadecimal value.
NumbersRead ==
    LET v == said.address
        d == printf(<<"%", "d">>, <<v>>)
        h == printf(<<"%", "#", "x">>, <<v>>)
    IN  v >= 0 =>
        /\ IsNumeral(SubSeq(said.text, Len(FaultFormat) - 1, Len(said.text)), v, 16)
        /\ IsNumeral(printf(<<"%", "u">>, <<v>>), v, 10)
        /\ IF v < WORD \div 2 THEN IsNumeral(d, v, 10)
           ELSE d[1] = "-" /\ IsNumeral(Tail(d), WORD - v, 10)
        /\ Len(h) = HexWidth /\ Value(h, 16) = v
=============================================================================
