------------------------------- MODULE MCGrep -------------------------------
(* A buffer of three bytes, two patterns, files of up to six bytes. *)
EXTENDS Grep

File(t)    == [dot |-> FALSE, opens |-> TRUE, text |-> t]
Dot        == [dot |-> TRUE, opens |-> TRUE, text |-> <<>>]
Missing    == [dot |-> FALSE, opens |-> FALSE, text |-> <<>>]
Texts(S, max) == UNION {[1 .. n -> S] : n \in 0 .. max}

MCPatterns == {<<"a">>, <<"a", "b">>}
MCDirectories ==
    {<<Dot, File(t), File(<<"a", "b">>)>> : t \in Texts({"a", "b", NL}, 6)}
    \cup {<<File(t)>> : t \in Texts({"a", NUL, NL}, 5)}
    \cup {<<File(<<"a">>), Missing, File(<<"a">>)>>}
=============================================================================
