------------------------------- MODULE MCFish -------------------------------
(* Frames of at most three characters on a screen of two columns. *)
EXTENDS Fish

Files(S, max) == UNION {[1 .. n -> S \cup {Space, NL}] : n \in 0 .. max}
MCTexts0    == Files({"x"}, 3)
MCTexts1    == Files({"y"}, 2)
MCExtra    == {[location |-> l, on_char |-> "I", off_char |-> "M",
                on_length |-> 2, off_length |-> 1] : l \in {3, 5}}
MCLocations == {1, 3, 5}
=============================================================================
