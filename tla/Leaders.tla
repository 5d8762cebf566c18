------------------------------ MODULE Leaders ------------------------------
(***************************************************************************)
(* The rest of the cluster, as one follower sees it.                       *)
(*                                                                         *)
(* The program is a library for ONE node: what reaches a follower's log is *)
(* MsgApp messages built by maybeSendAppend (raft.go) of other nodes.  A   *)
(* follower may receive any slice of the log of any leader there ever was, *)
(* late, twice or never, in any order; Step in this program drops no       *)
(* message for its Term, so the messages of deposed leaders count as well. *)
(* That is why the messages are one constant set here, computed from the   *)
(* logs of the leaders, and not a queue.                                   *)
(*                                                                         *)
(* An Entry is represented by its Term: its Index is its position, and     *)
(* Raft's Term/Index pair determines Type and Data.                        *)
(***************************************************************************)
EXTENDS Integers, Sequences

CONSTANTS
  Terms,      \* the terms that had a leader
  LeaderLog,  \* LeaderLog[t][i] is the term of entry i in the log of the leader of t
  Decided     \* the entries the cluster commits

\* Two leaders' logs with the same entry are equal up to it, and an entry was
\* first appended by the leader of its term: Raft's log matching property.
LogMatching ==
  \A t \in Terms : \A i \in 1 .. Len(LeaderLog[t]) :
    LET u == LeaderLog[t][i] IN
    /\ i <= Len(LeaderLog[u])
    /\ \A j \in 1 .. i : LeaderLog[u][j] = LeaderLog[t][j]

\* What is committed was in the log of the leader that appended it.
DecidedByLeaders ==
  \A i \in 1 .. Len(Decided) :
    LET u == Decided[i] IN
    /\ i <= Len(LeaderLog[u])
    /\ \A j \in 1 .. i : LeaderLog[u][j] = Decided[j]

ASSUME LeadersAssumption ==
  /\ Terms \subseteq Nat \ {0}
  /\ LeaderLog \in [Terms -> Seq(Terms)]
  /\ Decided \in Seq(Terms)
  /\ LogMatching
  /\ DecidedByLeaders

\* The Commit values the leader of t may announce: it commits a prefix of its
\* own log, which is then a prefix of the decided log.
CommitsOf(t) ==
  {c \in 0 .. Len(Decided) :
     c <= Len(LeaderLog[t]) /\ \A i \in 1 .. c : LeaderLog[t][i] = Decided[i]}

\* The term a leader finds at index i of its own log, 0 before the first entry.
LeaderTerm(t, i) == IF i = 0 THEN 0 ELSE LeaderLog[t][i]

\* The message maybeSendAppend builds: the entries after prev = Next - 1, as
\* many as MaxSizePerMsg lets through, with the leader's commit index.
MsgApp(t, prev, last, c) ==
  [from    |-> t,
   index   |-> prev,
   logTerm |-> LeaderTerm(t, prev),
   ents    |-> SubSeq(LeaderLog[t], prev + 1, last),
   commit  |-> c]
=============================================================================
