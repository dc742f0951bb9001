---------------------------- MODULE MCInterrupts ----------------------------
(* Up to three interrupt frames on the stack. *)
EXTENDS Interrupts
=============================================================================
