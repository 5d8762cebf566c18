--------------------------- MODULE MCEntryArrays ---------------------------
(* EntryArrays for TLC. *)
EXTENDS EntryArrays

MCArrays == 1 .. 9
=============================================================================
