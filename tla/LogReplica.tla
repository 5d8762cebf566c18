----------------------------- MODULE LogReplica -----------------------------
(***************************************************************************)
(* What a follower's log promises: one sequence of entries, a commit index *)
(* and a state machine that has executed a prefix of what is committed.    *)
(* There is no storage, no unstable part, no snapshot and no compaction    *)
(* here: in an implementation those must never show.                       *)
(***************************************************************************)
EXTENDS Leaders

VARIABLES
  entries,    \* the terms of the entries 1, 2, ...
  committed,
  machine     \* the entries the state machine has executed

vars == <<entries, committed, machine>>

Prefix(s, n) == SubSeq(s, 1, n)
Holds(s, t, n) == n <= Len(s) /\ Prefix(s, n) = Prefix(LeaderLog[t], n)

\* A log in which every entry comes with what its leader had before it.
Coherent(s) == \A i \in 1 .. Len(s) : i <= Len(LeaderLog[s[i]]) /\ Holds(s, s[i], i)

Init ==
  \E n \in 0 .. Len(Decided) :
    /\ entries = Prefix(Decided, n)
    /\ committed = n
    /\ machine = Prefix(Decided, n)

\* The entries prev + 1 .. last of the leader of t arrive, with its commit
\* index c.  A log that already holds them keeps what follows them.
Accept(t, prev, last, c) ==
  /\ committed <= prev /\ prev <= last
  /\ committed' = IF c <= last THEN (IF c > committed THEN c ELSE committed)
                  ELSE (IF last > committed THEN last ELSE committed)
  /\ UNCHANGED machine
  /\ Holds(entries, t, prev)
  /\ entries' = IF Holds(entries, t, last) THEN entries ELSE Prefix(LeaderLog[t], last)

\* The next committed entries are executed, in order.
Execute ==
  /\ \E n \in Len(machine) + 1 .. committed :
       machine' = machine \o SubSeq(entries, Len(machine) + 1, n)
  /\ UNCHANGED <<entries, committed>>

\* A crash may lose entries, or bring back ones that had been replaced, and it
\* may take the machine back; never an entry the machine had executed.
Crash ==
  /\ committed' \in Len(machine) .. committed
  /\ \E n \in 0 .. Len(machine) : machine' = Prefix(machine, n)
  /\ entries' \in Seq(Terms)
  /\ Coherent(entries')
  /\ committed' <= Len(entries')
  /\ Prefix(entries', committed') = Prefix(entries, committed')

Next ==
  \/ \E t \in Terms : \E prev, last \in 0 .. Len(LeaderLog[t]), c \in CommitsOf(t) :
       Accept(t, prev, last, c)
  \/ Execute
  \/ Crash

Spec == Init /\ [][Next]_vars
=============================================================================
