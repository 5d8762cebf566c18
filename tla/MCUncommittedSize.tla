------------------------- MODULE MCUncommittedSize -------------------------
(* UncommittedSize for TLC. *)
EXTENDS UncommittedSize

MCLimits == 1 .. 5
MCPayloads == 0 .. 7
=============================================================================
