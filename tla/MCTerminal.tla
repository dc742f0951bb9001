----------------------------- MODULE MCTerminal -----------------------------
(* A keyboard with one letter, Backspace, Enter and a dead key, two line     *)
(* slots, one ctrl and one shift key.                                        *)
EXTENDS Terminal

MCCharKeys == {"k_l", "k_bksp", "k_enter", "k_alt"}
MCchars ==
    [k \in MCCharKeys |-> CASE k = "k_l"     -> "l"
                            [] k = "k_bksp"  -> "BS"
                            [] k = "k_enter" -> "NL"
                            [] OTHER         -> "NUL"]
MCshift_chars == [MCchars EXCEPT !["k_l"] = "L"]
=============================================================================
