---------------------------- MODULE MCInflights ----------------------------
(***************************************************************************)
(* Inflights for TLC: no room at all, sizes the doubling reaches (1, 2 and *)
(* 4) and sizes it has to be cut down to (3 and 5).                        *)
(***************************************************************************)
EXTENDS Inflights

MCSizes == 0 .. 5
MCIndexes == 1 .. 3
=============================================================================
