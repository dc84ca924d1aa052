--------------------------- MODULE MCCoocCounter ---------------------------
(* Small instances of CoocCounter for TLC. *)
EXTENDS CoocCounter

MCWords == 1..3
MCCounts == {1, 2}
=============================================================================
