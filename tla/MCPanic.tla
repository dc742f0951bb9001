------------------------------- MODULE MCPanic -------------------------------
(* A window of three rows and four columns, words of six bits. *)
EXTENDS Panic

MCBanner   == <<[down |-> 0, x |-> 1, text |-> <<"B", "C">>],
                [down |-> 1, x |-> 2, text |-> <<"D">>]>>
MCMessages == {<<"E">>}
MCFault    == <<"@", "%", "x">>
MCScrolls  == {-1, 1}
=============================================================================
