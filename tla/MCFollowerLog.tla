--------------------------- MODULE MCFollowerLog ---------------------------
(***************************************************************************)
(* FollowerLog for TLC, with two histories of the cluster.                 *)
(* Three leaders: the entries 2 and 3 of the first lose against entry 2 of *)
(* the second, whose entry 3 loses against that of the third.              *)
(* Two leaders: the entries 2 and 3 of the first lose against entry 2 of   *)
(* the second, so the log that lost is the longer one.                     *)
(***************************************************************************)
EXTENDS FollowerLog

MCTerms == {1, 2, 3}
MCLeaderLog == <<<<1, 1, 1>>, <<1, 2, 2>>, <<1, 2, 3>>>>
MCDecided == <<1, 2, 3>>

MC2Terms == {1, 2}
MC2LeaderLog == <<<<1, 1, 1>>, <<1, 2>>>>
MC2Decided == <<1, 2>>
=============================================================================
