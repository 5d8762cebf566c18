--------------------------- MODULE MCReplication ---------------------------
(***************************************************************************)
(* Replication for TLC.                                                    *)
(***************************************************************************)
EXTENDS Replication
MCTerms == {1, 2, 3}
MCLeaderLog == <<<<1, 1, 1>>, <<1, 2>>, <<1, 2, 3>>>>
MCDecided == <<1, 2>>
MCDecidedOne == <<1>>
=============================================================================
