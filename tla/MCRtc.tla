------------------------------- MODULE MCRtc -------------------------------
(* The slowest frequency and a faster one, and arguments outside the table.   *)
EXTENDS Rtc

MCCounts == {-1, 0, 1, 3, 11}
=============================================================================
