------------------------------ MODULE Progress ------------------------------
(***************************************************************************)
(* tracker/progress.go and state.go: what a leader knows of one follower.  *)
(*                                                                         *)
(* A Progress is a record of Match, Next, State, PendingSnapshot,          *)
(* RecentActive, ProbeSent and the window, which is here the queue that    *)
(* InflightsQueue says the ring buffer of Inflights is.  IsLearner is left *)
(* out: the leader's answers do not look at it.                            *)
(*                                                                         *)
(* BecomeProbe and BecomeReplicate have empty bodies and BecomeSnapshot    *)
(* leaves State alone, so a Progress stays in the state it was made in.    *)
(***************************************************************************)
EXTENDS Integers, Sequences

CONSTANT MaxInflight  \* ProgressTracker.MaxInflight

ASSUME ProgressAssumption == MaxInflight \in Nat

NewProgress(next, state) ==
  [match |-> 0, next |-> next, state |-> state, pendingSnapshot |-> 0,
   recentActive |-> FALSE, probeSent |-> FALSE, inflights |-> <<>>]

\* MaybeUpdate(n): the follower has everything up to n.  Mutants: the probe that
\* was answered still counts as unanswered; Next is left behind.
Updates(pr, n) == pr.match < n
MaybeUpdateKeepingProbe(pr, n) ==
  [pr EXCEPT !.match = IF @ < n THEN n ELSE @, !.next = IF @ < n + 1 THEN n + 1 ELSE @]
MaybeUpdateMatchOnly(pr, n) ==
  [pr EXCEPT !.match = IF @ < n THEN n ELSE @, !.probeSent = @ /\ ~Updates(pr, n)]
MaybeUpdate(pr, n) ==
  [pr EXCEPT !.match     = IF @ < n THEN n ELSE @,
             !.next      = IF @ < n + 1 THEN n + 1 ELSE @,
             !.probeSent = @ /\ ~Updates(pr, n)]

Full(pr) == Len(pr.inflights) = MaxInflight
\* Mutant: does not look at the window.
IsPausedWithoutWindow(pr) == (pr.state = "Probe" /\ pr.probeSent) \/ pr.state = "Snapshot"
IsPaused(pr) ==
  \/ pr.state = "Probe" /\ pr.probeSent
  \/ pr.state = "Replicate" /\ Full(pr)
  \/ pr.state = "Snapshot"

\* MaybeDecrTo(rejected, last): the follower, whose log ends at last, refused
\* what follows `rejected`.
RejectionIsStale(pr, rejected) ==
  IF pr.state = "Replicate" THEN rejected <= pr.match ELSE pr.next - 1 # rejected
MaybeDecrTo(pr, rejected, last) ==
  LET hint == IF rejected > last + 1 THEN last + 1 ELSE rejected IN
  IF RejectionIsStale(pr, rejected) THEN pr
  ELSE IF pr.state = "Replicate" THEN [pr EXCEPT !.next = pr.match + 1]
  ELSE [pr EXCEPT !.next = IF hint < 1 THEN 1 ELSE hint, !.probeSent = FALSE]

\* Mutant: one entry too far.
OptimisticUpdateTooFar(pr, n) == [pr EXCEPT !.next = n + 2]
OptimisticUpdate(pr, n) == [pr EXCEPT !.next = n + 1]

BecomeSnapshot(pr, i) == [pr EXCEPT !.probeSent = FALSE, !.pendingSnapshot = i]

\* Inflights.Add, which panics on a full window, and Inflights.FreeLE.
InflightsAdd(pr, n) == [pr EXCEPT !.inflights = Append(@, n)]
FreeLE(pr, to) ==
  LET freed == CHOOSE i \in 0 .. Len(pr.inflights) :
                 /\ \A k \in 1 .. i : pr.inflights[k] <= to
                 /\ i < Len(pr.inflights) => pr.inflights[i + 1] > to
  IN  [pr EXCEPT !.inflights = SubSeq(@, freed + 1, Len(@))]
=============================================================================
