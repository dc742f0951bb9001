------------------------------ MODULE MCScreen ------------------------------
(* The cfg takes negative scroll offsets from here. *)
EXTENDS ScreenImpl

MCScrolls == {-2, -1, 1, 2}
=============================================================================
