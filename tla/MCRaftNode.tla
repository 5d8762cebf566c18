----------------------------- MODULE MCRaftNode -----------------------------
(***************************************************************************)
(* RaftNode for TLC: one leader, of term 1, whose first entry is a decided *)
(* change of the configuration, and two candidates in the terms 2 and 3,   *)
(* one of them with a log that is too old at first, the other the target   *)
(* of a leader transfer in term 3.                                         *)
(***************************************************************************)
EXTENDS RaftNode

MCTerms == {1}
MCLeaderLog == <<<<1, 1>>>>
MCDecided == <<1>>
MCLeaderId == <<"n2">>

MCVoteRequests ==
  {[from |-> "n2", term |-> 2, index |-> 2, logTerm |-> 1, transfer |-> FALSE],
   [from |-> "n3", term |-> 2, index |-> 0, logTerm |-> 0, transfer |-> FALSE],
   [from |-> "n2", term |-> 3, index |-> 2, logTerm |-> 1, transfer |-> FALSE],
   [from |-> "n3", term |-> 3, index |-> 1, logTerm |-> 1, transfer |-> TRUE]}

\* Voters and learners, before an election or a pre-election, with a tracker that
\* has been filled in; and the voter that newRaft makes.
MCConfigs ==
  [checkQuorum : {TRUE}, preVote : BOOLEAN, learner : {FALSE}, tracked : {TRUE}]
    \cup [checkQuorum : {FALSE}, preVote : {FALSE}, learner : BOOLEAN, tracked : {TRUE}]
    \cup [checkQuorum : {FALSE}, preVote : {FALSE}, learner : {FALSE}, tracked : {FALSE}]
MCVoter == [checkQuorum : {TRUE}, preVote : {FALSE}, learner : {FALSE}, tracked : {TRUE}]
=============================================================================
