---------------------------- MODULE FollowerLog ----------------------------
(***************************************************************************)
(* The log of a follower at work: the raft goroutine handles the MsgApps   *)
(* of the leaders (handleAppendEntries in raft.go), while the application  *)
(* writes the unstable entries to the storage, applies the committed ones, *)
(* takes snapshots, compacts the storage, crashes and restarts.            *)
(*                                                                         *)
(* The application is not part of the repository.  What it does is read    *)
(* off the calls raftLog and MemoryStorage offer it: one batch at a time,  *)
(*   TakeReady  reads the unstable entries, nextEnts() and committed,      *)
(*   Persist    calls Storage.Append and saves the HardState,              *)
(*   Apply      hands the entries of nextEnts() to the state machine,      *)
(*   Advance    calls stableTo and appliedTo,                              *)
(* and MsgApps may be handled between any two of these steps.              *)
(***************************************************************************)
EXTENDS Leaders, RaftLog

CONSTANTS
  MaxNextEnts,  \* raftLog.maxNextEntsSize
  MaxRestarts   \* bound on the crashes of a behaviour

ASSUME FollowerAssumption == MaxNextEnts \in Nat /\ MaxRestarts \in Nat

VARIABLES
  storage,    \* the MemoryStorage; it survives a crash
  hardState,  \* HardState.Commit as the application saved it, 0 if never
  log,        \* the raftLog
  ready,      \* the application's current batch
  machine,    \* the entries the state machine has applied
  panicked,   \* the process died of a panic
  restarts

vars == <<storage, hardState, log, ready, machine, panicked, restarts>>

NoReady == [stage |-> "none", first |-> 0, ents |-> <<>>, apply |-> <<>>, commit |-> 0]

Panic == panicked' = TRUE /\ UNCHANGED <<storage, hardState, log, ready, machine, restarts>>

\* A node is created on a storage that is new or into which the application
\* has put a snapshot of the state machine.
Init ==
  /\ \E n \in 0 .. Len(Decided) :
       LET snap == [index |-> n, term |-> IF n = 0 THEN 0 ELSE Decided[n]] IN
       /\ storage = IF n = 0 THEN NewMemoryStorage ELSE ApplySnapshot(NewMemoryStorage, snap)
       /\ machine = SubSeq(Decided, 1, n)
  /\ hardState = 0
  /\ log = NewLog(storage)
  /\ ready = NoReady
  /\ panicked = FALSE
  /\ restarts = 0
-----------------------------------------------------------------------------
(* The raft goroutine. *)

\* Mutant: the early return for messages below the commit index is missing.
NeverAlreadyCommitted(m) == FALSE
\* The three ways handleAppendEntries goes.
AlreadyCommitted(m) == m.index < log.committed
Matches(m) == ~AlreadyCommitted(m) /\ MatchTerm(storage, log, m.index, m.logTerm)

\* Mutant: acknowledges the whole log, not what the message matched.
AnswerWithLastIndex(m) ==
  IF AlreadyCommitted(m) THEN [reject |-> FALSE, index |-> log.committed, hint |-> 0]
  ELSE IF Matches(m)
    THEN [reject |-> FALSE, index |-> LastIndex(storage, log), hint |-> 0]
  ELSE [reject |-> TRUE, index |-> m.index, hint |-> LastIndex(storage, log)]

\* The MsgAppResp it sends.  Nothing in this module reads the answers, so they
\* are a function of message and state and not kept.
Answer(m) ==
  IF AlreadyCommitted(m) THEN [reject |-> FALSE, index |-> log.committed, hint |-> 0]
  ELSE IF Matches(m) THEN [reject |-> FALSE, index |-> m.index + Len(m.ents), hint |-> 0]
  ELSE [reject |-> TRUE, index |-> m.index, hint |-> LastIndex(storage, log)]

AppendMatching(m) ==
  /\ Matches(m)
  /\ IF MaybeAppendPanics(storage, log, m.index, m.commit, m.ents)
       THEN Panic
       ELSE /\ log' = MaybeAppend(storage, log, m.index, m.commit, m.ents)
            /\ UNCHANGED <<storage, hardState, ready, machine, panicked, restarts>>

\* The two other ways change nothing; the logging of a rejection may panic.
AnswerOnly(m) ==
  /\ ~Matches(m)
  /\ IF ~AlreadyCommitted(m) /\ TermPanics(storage, log, m.index)
       THEN Panic
       ELSE UNCHANGED vars

HandleAppendEntries(m) == AppendMatching(m) \/ AnswerOnly(m)
-----------------------------------------------------------------------------
(* The application. *)

TakeReady ==
  /\ ready.stage = "none"
  /\ log.unstable # <<>> \/ HasNextEnts(storage, log)
  /\ IF NextEntsPanics(storage, log)
       THEN Panic
       ELSE /\ ready' = [stage  |-> "taken",
                         first  |-> log.offset,
                         ents   |-> log.unstable,
                         apply  |-> NextEnts(storage, log, MaxNextEnts),
                         commit |-> log.committed]
            /\ UNCHANGED <<storage, hardState, log, machine, panicked, restarts>>

\* Mutant: the HardState is not saved with the entries.
PersistWithoutHardState ==
  /\ ready.stage = "taken"
  /\ storage' = MSAppend(storage, ready.first, ready.ents)
  /\ ready' = [ready EXCEPT !.stage = "stored"]
  /\ UNCHANGED <<hardState, log, machine, panicked, restarts>>

Persist ==
  /\ ready.stage = "taken"
  /\ IF MSAppendPanics(storage, ready.first, ready.ents)
       THEN Panic
       ELSE /\ storage' = MSAppend(storage, ready.first, ready.ents)
            /\ hardState' = ready.commit
            /\ ready' = [ready EXCEPT !.stage = "stored"]
            /\ UNCHANGED <<log, machine, panicked, restarts>>

Apply ==
  /\ ready.stage = "stored"
  /\ machine' = machine \o ready.apply
  /\ ready' = [ready EXCEPT !.stage = "applied"]
  /\ UNCHANGED <<storage, hardState, log, panicked, restarts>>

\* stableTo is given the last entry of the batch, appliedTo the last applied one.
StabilizedLog ==
  IF ready.ents = <<>> THEN log
  ELSE StableTo(log, ready.first + Len(ready.ents) - 1, ready.ents[Len(ready.ents)])
AppliedIndex == IF ready.apply = <<>> THEN 0 ELSE Len(machine)

Advance ==
  /\ ready.stage = "applied"
  /\ IF AppliedToPanics(StabilizedLog, AppliedIndex)
       THEN Panic
       ELSE /\ log' = AppliedTo(StabilizedLog, AppliedIndex)
            /\ ready' = NoReady
            /\ UNCHANGED <<storage, hardState, machine, panicked, restarts>>

\* A snapshot of the state machine as it is.
TakeSnapshot ==
  /\ ~CreateSnapshotRefused(storage, Len(machine))
  /\ IF CreateSnapshotPanics(storage, Len(machine))
       THEN Panic
       ELSE /\ storage' = CreateSnapshot(storage, Len(machine))
            /\ UNCHANGED <<hardState, log, ready, machine, panicked, restarts>>

\* The application compacts no further than its last snapshot.
CompactStorage(i) ==
  /\ i <= storage.snap.index
  /\ ~CompactRefused(storage, i)
  /\ IF CompactPanics(storage, i)
       THEN Panic
       ELSE /\ storage' = Compact(storage, i)
            /\ UNCHANGED <<hardState, log, ready, machine, panicked, restarts>>

\* newRaft on what the storage holds, with Config.Applied at the snapshot from
\* which the state machine is restored.  hardState 0 stands for the empty
\* HardState, which newRaft does not load; a saved one with Commit 0 means the
\* same, since then nothing is compacted.
LoadStatePanics ==
  hardState # 0 /\ (hardState < NewLog(storage).committed \/ hardState > MSLastIndex(storage))
\* Mutant: newRaft does not load the HardState.
LoadedLogWithoutHardState == NewLog(storage)
LoadedLog ==
  IF hardState = 0 THEN NewLog(storage)
  ELSE [NewLog(storage) EXCEPT !.committed = hardState]

Restart ==
  /\ restarts < MaxRestarts
  /\ restarts' = restarts + 1
  /\ panicked' = (LoadStatePanics \/ AppliedToPanics(LoadedLog, storage.snap.index))
  /\ log' = AppliedTo(LoadedLog, storage.snap.index)
  /\ machine' = SubSeq(machine, 1, storage.snap.index)
  /\ ready' = NoReady
  /\ UNCHANGED <<storage, hardState>>

Receive ==
  \E t \in Terms :
    \E prev, last \in 0 .. Len(LeaderLog[t]), c \in CommitsOf(t) :
      HandleAppendEntries(MsgApp(t, prev, last, c))

\* What Step(MsgHup) reads before it campaigns; an error there is a panic.
UnappliedPanics ==
  \/ SliceCompacted(storage, log, log.applied + 1)
  \/ SlicePanics(storage, log, log.applied + 1, log.committed + 1)

Next ==
  /\ ~panicked
  /\ \/ Receive
     \/ TakeReady \/ Persist \/ Apply \/ Advance
     \/ TakeSnapshot
     \/ \E i \in 1 .. Len(Decided) : CompactStorage(i)
     \/ Restart

Spec == Init /\ [][Next]_vars

\* The application keeps processing batches; nothing forces a message to be
\* delivered, a snapshot to be taken or a crash to happen.
FairSpec ==
  /\ Spec
  /\ WF_vars(~panicked /\ TakeReady) /\ WF_vars(~panicked /\ Persist)
  /\ WF_vars(~panicked /\ Apply) /\ WF_vars(~panicked /\ Advance)
-----------------------------------------------------------------------------
(* What the log holds. *)

\* Entry i as the raft goroutine sees it, and as the storage holds it.  What
\* was compacted is in the snapshot, and so was decided.
EntryAt(s, l, i) == IF i <= s.index THEN Decided[i] ELSE Term(s, l, i)
LogAt(i) == EntryAt(storage, log, i)
StoredAt(i) ==
  IF i <= storage.index THEN Decided[i] ELSE storage.ents[i - storage.index + 1]
LogLast == LastIndex(storage, log)
StoredLast == MSLastIndex(storage)

\* Up to entry n, the sequence f(1), f(2), ... is what the leader of f(n) had.
LeaderHad(f(_), n) ==
  /\ f(n) \in Terms
  /\ n <= Len(LeaderLog[f(n)])
  /\ \A j \in 1 .. n : f(j) = LeaderLog[f(n)][j]
DecidedUpTo(f(_), n) == \A j \in 1 .. n : f(j) = Decided[j]

\* The commit index a restart begins with.
RestartCommit == Max2(hardState, storage.index)
-----------------------------------------------------------------------------
(* Properties. *)

TypeOK ==
  /\ storage \in [index : Nat, ents : Seq(Terms \cup {0}), snap : [index : Nat, term : Nat]]
  /\ storage.ents # <<>>
  /\ hardState \in Nat
  /\ log \in [offset : Nat \ {0}, unstable : Seq(Terms), committed : Nat, applied : Nat]
  /\ ready \in [stage : {"none", "taken", "stored", "applied"}, first : Nat,
                ents : Seq(Terms), apply : Seq(Terms), commit : Nat]
  /\ machine \in Seq(Terms)
  /\ panicked \in BOOLEAN
  /\ restarts \in 0 .. MaxRestarts

\* No order of messages, batches, snapshots, compactions and crashes reaches a
\* Panic of log.go, log_unstable.go or storage.go.
NoPanic == ~panicked

\* Log matching (log.go maybeAppend): whatever mixture of leaders the messages
\* came from, an entry of the log stands on exactly what its leader had.
LogCoherent == \A i \in 1 .. LogLast : LeaderHad(LogAt, i)

\* What the node believes committed is what the cluster decided.
CommittedIsDecided == log.committed <= LogLast /\ DecidedUpTo(LogAt, log.committed)

\* nextEnts hands the state machine the decided entries in order, without gap
\* or repetition, across batches of every size, compaction and restarts.
AppliedInOrder ==
  /\ Len(machine) <= log.committed
  /\ machine = SubSeq(Decided, 1, Len(machine))

\* A crash at this very moment would bring the node back with everything its
\* state machine has applied in the storage and committed.
AppliedIsDurable ==
  /\ Len(machine) <= RestartCommit
  /\ RestartCommit <= StoredLast
  /\ DecidedUpTo(StoredAt, RestartCommit)

\* Once nothing is unstable the storage ends where the log ended: entries of a
\* deposed leader that it still held past the end do not come back to life.
NoResurrection == log.unstable = <<>> => StoredLast = log.offset - 1

\* slice returns the entries it was asked for, from wherever they are, as many
\* as the limit allows and at least one.
SliceIsLog ==
  \A lo \in FirstIndex(storage, log) .. LogLast :
    \A hi \in lo + 1 .. LogLast + 1 :
      \A maxSize \in 0 .. hi - lo :
        Slice(storage, log, lo, hi, maxSize) =
          [k \in 1 .. Min2(hi - lo, Max2(1, maxSize)) |-> LogAt(lo + k - 1)]

\* Persisting, stabilizing, applying, snapshots and compaction change no entry
\* of the log the raft goroutine sees, and not its end.
BookkeepingIsInvisible ==
  [][TakeReady \/ Persist \/ Apply \/ Advance \/ TakeSnapshot
       \/ (\E i \in 1 .. Len(Decided) : CompactStorage(i))
     => LogLast' = LogLast /\ \A i \in 1 .. LogLast : LogAt(i)' = LogAt(i)]_vars

\* A MsgAppResp that accepts entries tells the truth: the log then holds what
\* the leader of the message holds, up to the index acknowledged.
AckIsTrue ==
  \A t \in Terms : \A prev, last \in 0 .. Len(LeaderLog[t]), c \in CommitsOf(t) :
    LET m == MsgApp(t, prev, last, c)
        appended == MaybeAppend(storage, log, m.index, m.commit, m.ents)
    IN  Matches(m) => /\ Answer(m).index <= LastIndex(storage, appended)
                      /\ \A j \in 1 .. Answer(m).index :
                           EntryAt(storage, appended, j) = LeaderLog[t][j]

\* Every batch gets done: what is committed is eventually applied, for good.
CommittedIsApplied == <>[](Len(machine) = log.committed)

\* raft.go, Step: an error "getting unapplied entries" is "unexpected".  The
\* election timer may run out at any time, so this has to hold at any time.
UnappliedIsReadable == ~panicked => ~UnappliedPanics

\* To its user the whole is one sequence of entries: LogReplica.
Replica ==
  INSTANCE LogReplica WITH
    entries   <- [i \in 1 .. LogLast |-> LogAt(i)],
    committed <- log.committed
ReplicaSpec == Replica!Spec
=============================================================================
