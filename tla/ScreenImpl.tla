----------------------------- MODULE ScreenImpl -----------------------------
(***************************************************************************)
(* The screen of lib.c implements Viewport: the page is the characters of  *)
(* saved memory, the display is the displayed memory, the caret is the VGA *)
(* hardware cursor.                                                        *)
(***************************************************************************)
EXTENDS Screen

\* The caret the hardware shows: bit 5 of CRTC register 0x0A hides it.
Caret == IF csr % 2 = 0 THEN position ELSE <<>>

View == INSTANCE Viewport WITH
    Colours     <- Attrs,
    FirstColour <- [fg |-> FirstFont, bg |-> 0],
    text        <- [p \in MemRows \X Cols |-> saved[p].ch],
    pos         <- <<cursor_y, cursor_x>>,
    top         <- screen_offset,
    colour      <- ATTRIB,
    display     <- video,
    caret       <- Caret

\* Every behaviour of putc, clear, scroll and the colour functions, on the two
\* video memories and the CRTC registers, is a behaviour of the typewriter.
ImplementsViewport == View!Spec
=============================================================================
