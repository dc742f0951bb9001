----------------------------- MODULE MCConsole -----------------------------
(* One letter, a prompt as long as the longest line, room on a row for the   *)
(* prompt and two lines, and memory for two turns of the main loop.          *)
EXTENDS Console

MCCharKeys == {"k_l", "k_bksp", "k_enter"}
MCchars ==
    [k \in MCCharKeys |-> CASE k = "k_l"    -> "l"
                            [] k = "k_bksp" -> "BS"
                            [] OTHER        -> "NL"]
MCshift_chars == [MCchars EXCEPT !["k_l"] = "L"]
MCPrompt == <<">">>
MCLabel == <<"=">>
MCScrolls == {-1, 1}
=============================================================================
