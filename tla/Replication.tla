---------------------------- MODULE Replication ----------------------------
(***************************************************************************)
(* One leader and its followers over a network that loses, repeats and     *)
(* reorders messages, with followers that crash: stepLeader and            *)
(* maybeSendAppend on one side, handleAppendEntries on the other.          *)
(*                                                                         *)
(* becomeLeader installs stepCandidate, so in the program as it is nobody  *)
(* calls stepLeader, and newRaft makes no Progress; this module is the     *)
(* code behind those two gaps.  It has the others: maybeCommit answers     *)
(* TRUE and commits nothing, MsgProp appends nothing, a Progress never     *)
(* changes its State, a follower ignores MsgSnap, and MsgHeartbeat as well *)
(* unless HeartbeatsHandled says that it calls handleHeartbeat, which is   *)
(* written and has no caller.                                              *)
(***************************************************************************)
EXTENDS Leaders, RaftLog, Progress, Bags

CONSTANTS
  Me,                \* the leader's term; its log is LeaderLog[Me]
  Followers,
  States,            \* the States a Progress may have been made in
  StartTerms,        \* whose log a follower may start with a part of
  LeaderCommit,      \* the leader's commit index
  OldTerms,          \* the deposed leaders of whom a MsgApp is still under way
  HeartbeatsHandled, \* whether a follower calls handleHeartbeat
  CheckQuorumOn,     \* raft.checkQuorum
  Compacts,          \* whether the leader's user compacts its log
  MaxSizePerMsg,
  ProposalSizes,     \* the numbers of entries of a MsgProp
  MaxBeats,          \* bound on a follower's heartbeats and answers under way
  MaxLost, MaxRepeated, MaxRestarts, MaxFaults  \* bounds on the faults of each kind, and of all

LeaderLast == Len(LeaderLog[Me])

ASSUME ReplicationAssumption ==
  /\ Me \in Terms /\ StartTerms \subseteq Terms /\ OldTerms \subseteq Terms
  /\ LeaderLast > 0 /\ LeaderLog[Me][LeaderLast] = Me
  /\ LeaderCommit \in CommitsOf(Me) /\ LeaderCommit < LeaderLast
  /\ States \subseteq {"Probe", "Replicate"}
  /\ {HeartbeatsHandled, CheckQuorumOn, Compacts} \subseteq BOOLEAN
  /\ {MaxSizePerMsg, MaxBeats, MaxLost, MaxRepeated, MaxRestarts, MaxFaults}
       \subseteq Nat
  /\ ProposalSizes \subseteq Nat \ {0}

\* Leader completeness, which Raft's elections give: whatever an earlier leader
\* may announce as committed, this one has.
ASSUME LeaderIsComplete ==
  \A t \in StartTerms \cup OldTerms : CommitsOf(t) \subseteq CommitsOf(Me)

VARIABLES
  leading,        \* raft.state is StateLeader
  progress,       \* ProgressTracker.Progress, without the leader's own
  leaderStorage,
  storage, hardCommit,  \* of the followers: what survives a crash
  log, outbox,          \* of the followers: raftLog, and the answers in r.msgs
  network,
  lost, repeated, restarts,
  panicked

faults == <<lost, repeated, restarts>>
leader == <<leading, progress, leaderStorage>>
followers == <<storage, hardCommit, log, outbox>>
vars == <<leader, followers, network, faults, panicked>>

Panic ==
  panicked' = TRUE /\ UNCHANGED <<leader, followers, network, faults>>
-----------------------------------------------------------------------------
(* The leader. *)

\* The empty entry of becomeLeader is still unstable; nothing is appended later.
LeaderRaftLog ==
  [offset |-> LeaderLast, unstable |-> <<Me>>,
   committed |-> LeaderCommit, applied |-> LeaderCommit]

\* raftLog.entries(i, MaxSizePerMsg), and whether it panics or answers ErrCompacted.
EntriesPanics(s, i) == i <= LeaderLast /\ SlicePanics(s, LeaderRaftLog, i, LeaderLast + 1)
EntriesCompacted(s, i) == i <= LeaderLast /\ SliceCompacted(s, LeaderRaftLog, i)
EntriesFrom(s, i) ==
  IF i > LeaderLast THEN <<>>
  ELSE Slice(s, LeaderRaftLog, i, LeaderLast + 1, MaxSizePerMsg)

AppendMessage(s, pr, f) ==
  [type |-> "MsgApp", to |-> f, index |-> pr.next - 1,
   logTerm |-> Term(s, LeaderRaftLog, pr.next - 1),
   ents |-> EntriesFrom(s, pr.next), commit |-> LeaderCommit]

\* Mutant: a probe is not remembered.
ProgressAfterUnremembered(pr, last) ==
  IF pr.state = "Replicate" THEN InflightsAdd(OptimisticUpdate(pr, last), last) ELSE pr
\* What a message whose last entry is `last` makes of the Progress.
ProgressAfter(pr, last) ==
  IF pr.state = "Replicate"
    THEN InflightsAdd(OptimisticUpdate(pr, last), last)
    ELSE [pr EXCEPT !.probeSent = TRUE]

\* maybeSendAppend(f, true): the Progress afterwards and what is sent.
SendAppend(s, pr, f) ==
  LET nothing == [progress |-> pr, messages |-> {}]
      m == AppendMessage(s, pr, f)
  IN
  IF IsPaused(pr) THEN nothing
  ELSE IF EntriesCompacted(s, pr.next)
    THEN IF ~pr.recentActive THEN nothing
         ELSE [progress |-> BecomeSnapshot(pr, s.snap.index),
               messages |-> {[type |-> "MsgSnap", to |-> f, index |-> s.snap.index]}]
  ELSE [progress |-> IF m.ents = <<>> THEN pr ELSE ProgressAfter(pr, m.index + Len(m.ents)),
        messages |-> {m}]

\* A slice out of range, an empty snapshot, or one message more than the window holds.
SendAppendPanics(s, pr, f) ==
  /\ ~IsPaused(pr)
  /\ \/ EntriesPanics(s, pr.next)
     \/ IF EntriesCompacted(s, pr.next)
          THEN pr.recentActive /\ s.snap.index = 0
          ELSE pr.state = "Replicate" /\ Full(pr) /\ EntriesFrom(s, pr.next) # <<>>

\* sendAppend to every f in fs, with the Progresses prs, net being the network.
SendAppends(prs, fs, net) ==
  IF \E f \in fs : SendAppendPanics(leaderStorage, prs[f], f) THEN Panic
  ELSE /\ progress' = [f \in Followers |->
             IF f \in fs THEN SendAppend(leaderStorage, prs[f], f).progress ELSE prs[f]]
       /\ network' = net (+) SetToBag(UNION {SendAppend(leaderStorage, prs[f], f).messages : f \in fs})
       /\ UNCHANGED <<leading, leaderStorage, followers, faults, panicked>>

\* A follower starts with a part of the log of an earlier leader.
StartStorages ==
  UNION {{MSAppend(NewMemoryStorage, 1, SubSeq(LeaderLog[t], 1, n)) : n \in 0 .. Len(LeaderLog[t])} :
           t \in StartTerms}

\* reset with lastIndex = LeaderLast - 1, appendEntry, then bcastAppend.
Init ==
  /\ leading = TRUE
  /\ leaderStorage = MSAppend(NewMemoryStorage, 1, SubSeq(LeaderLog[Me], 1, LeaderLast - 1))
  /\ \E prs \in [Followers -> {NewProgress(LeaderLast, state) : state \in States}] :
     /\ progress = [f \in Followers |-> SendAppend(leaderStorage, prs[f], f).progress]
     /\ network = SetToBag(UNION {SendAppend(leaderStorage, prs[f], f).messages : f \in Followers})
  /\ storage \in [Followers -> StartStorages]
  /\ hardCommit \in [Followers -> 0 .. Len(Decided)]
  /\ \A f \in Followers :
       /\ hardCommit[f] <= MSLastIndex(storage[f])
       /\ \A i \in 1 .. hardCommit[f] : storage[f].ents[i + 1] = Decided[i]
  /\ log = [f \in Followers |-> [NewLog(storage[f]) EXCEPT !.committed = hardCommit[f]]]
  /\ outbox = [f \in Followers |-> EmptyBag]
  /\ lost = 0 /\ repeated = 0 /\ restarts = 0
  /\ panicked = FALSE

\* stepLeader, MsgAppResp.  maybeCommit answers TRUE whatever the acknowledgements.
StepAppResp(m, net) ==
  LET heard == [progress[m.from] EXCEPT !.recentActive = TRUE]
      with(pr) == [progress EXCEPT ![m.from] = pr]
      acked == MaybeUpdate(heard, m.index)
  IN
  IF m.reject
    THEN SendAppends(with(MaybeDecrTo(heard, m.index, m.hint)),
                     IF RejectionIsStale(heard, m.index) THEN {} ELSE {m.from}, net)
  ELSE IF Updates(heard, m.index)
    THEN SendAppends(with(IF acked.state = "Replicate" THEN FreeLE(acked, m.index) ELSE acked),
                     Followers, net)
  ELSE SendAppends(with(heard), {}, net)

StepHeartbeatResp(m, net) ==
  /\ progress' = [progress EXCEPT ![m.from].recentActive = TRUE, ![m.from].probeSent = FALSE]
  /\ network' = net
  /\ UNCHANGED <<leading, leaderStorage, followers, faults, panicked>>

\* Mutant: announces what the leader has committed, whether the follower has it.
HeartbeatOfAll(f) == [type |-> "MsgHeartbeat", to |-> f, commit |-> LeaderCommit]
\* MsgBeat: sendHeartbeat to everyone.  MaxBeats bounds the copies of this very
\* heartbeat and of the answer that are under way; older ones may be, besides.
Heartbeat(f) ==
  [type |-> "MsgHeartbeat", to |-> f, commit |-> Min2(progress[f].match, LeaderCommit)]
HeartbeatResp(f) == [type |-> "MsgHeartbeatResp", from |-> f]
Copies(m, bag) == IF m \in BagToSet(bag) THEN bag[m] ELSE 0
BeatsUnderWay(f) ==
  Copies(Heartbeat(f), network) + Copies(HeartbeatResp(f), network) + Copies(HeartbeatResp(f), outbox[f])
Beat ==
  /\ leading
  /\ \A f \in Followers : BeatsUnderWay(f) < MaxBeats
  /\ network' = network (+) SetToBag({Heartbeat(f) : f \in Followers})
  /\ UNCHANGED <<leader, followers, faults, panicked>>

\* VoteResult answers VotePending whoever is active.
QuorunActive == FALSE

\* MsgCheckQuorum.  reset makes every Progress anew, in the state that is the
\* zero of its type.
CheckQuorum ==
  /\ leading /\ CheckQuorumOn /\ ~QuorunActive
  /\ leading' = FALSE
  /\ progress' = [f \in Followers |-> NewProgress(LeaderLast + 1, "Probe")]
  /\ UNCHANGED <<leaderStorage, followers, network, faults, panicked>>

\* The leader's user takes a snapshot of what it has executed, and compacts.
CompactLeader ==
  /\ leading /\ Compacts /\ LeaderCommit > leaderStorage.index
  /\ IF \/ CreateSnapshotPanics(leaderStorage, LeaderCommit)
        \/ CompactPanics(leaderStorage, LeaderCommit)
       THEN Panic
       ELSE /\ leaderStorage' = Compact(CreateSnapshot(leaderStorage, LeaderCommit), LeaderCommit)
            /\ UNCHANGED <<leading, progress, followers, network, faults, panicked>>

\* MsgProp: a panic if it is empty; otherwise, dropped or not, nothing comes of it.
Propose ==
  /\ leading
  /\ \E n \in ProposalSizes : IF n = 0 THEN Panic ELSE UNCHANGED vars

StepLeader(m, net) ==
  /\ leading
  /\ IF m.type = "MsgAppResp" THEN StepAppResp(m, net) ELSE StepHeartbeatResp(m, net)
\* A deposed leader has no use for answers.
StepDeposed(m, net) ==
  /\ ~leading
  /\ network' = net
  /\ UNCHANGED <<leader, followers, faults, panicked>>
-----------------------------------------------------------------------------
(* The followers. *)

AlreadyCommitted(f, m) == m.index < log[f].committed
Matches(f, m) ==
  ~AlreadyCommitted(f, m) /\ MatchTerm(storage[f], log[f], m.index, m.logTerm)

Answer(f, m) ==
  LET answer(index, reject, hint) ==
        [type |-> "MsgAppResp", from |-> f, index |-> index, reject |-> reject, hint |-> hint]
  IN IF AlreadyCommitted(f, m) THEN answer(log[f].committed, FALSE, 0)
     ELSE IF Matches(f, m) THEN answer(m.index + Len(m.ents), FALSE, 0)
     ELSE answer(m.index, TRUE, LastIndex(storage[f], log[f]))

\* What handleAppendEntries makes of the log.
LogAfter(f, m) ==
  IF Matches(f, m)
    THEN MaybeAppend(storage[f], log[f], m.index, m.commit, m.ents)
    ELSE log[f]
AppendPanicsAt(f, m) ==
  IF Matches(f, m)
    THEN MaybeAppendPanics(storage[f], log[f], m.index, m.commit, m.ents)
    ELSE ~AlreadyCommitted(f, m) /\ TermPanics(storage[f], log[f], m.index)

\* What becomes of f when a handler leaves it the log l and the answers as.
HandledBy(f, l, as, net) ==
  /\ log' = [log EXCEPT ![f] = l]
  /\ outbox' = [outbox EXCEPT ![f] = @ (+) SetToBag(as)]
  /\ network' = net
  /\ UNCHANGED <<leader, storage, hardCommit, faults, panicked>>

StepApp(f, m, net) ==
  IF AppendPanicsAt(f, m) THEN Panic
  ELSE HandledBy(f, LogAfter(f, m), {Answer(f, m)}, net)

\* handleHeartbeat, if it is called.
StepHeartbeat(f, m, net) ==
  IF ~HeartbeatsHandled THEN HandledBy(f, log[f], {}, net)
  ELSE IF CommitToPanics(storage[f], log[f], m.commit) THEN Panic
  ELSE HandledBy(f, CommitTo(log[f], m.commit), {HeartbeatResp(f)}, net)

StepFollower(m, net) ==
  \/ m.type = "MsgApp" /\ StepApp(m.to, m, net)
  \/ m.type = "MsgHeartbeat" /\ StepHeartbeat(m.to, m, net)
  \/ m.type = "MsgSnap" /\ HandledBy(m.to, log[m.to], {}, net)

\* A MsgApp of a leader deposed before; its answer is not for this leader.
ReceiveOldApp(f) ==
  \E t \in OldTerms : \E prev, last \in 0 .. Len(LeaderLog[t]), c \in CommitsOf(t) :
    LET m == MsgApp(t, prev, last, c) IN
    IF AppendPanicsAt(f, m) THEN Panic ELSE HandledBy(f, LogAfter(f, m), {}, network)

\* Mutant: the answers leave before the entries are stored.
SendWithoutSaving(f) ==
  /\ outbox[f] # EmptyBag
  /\ outbox' = [outbox EXCEPT ![f] = EmptyBag]
  /\ network' = network (+) outbox[f]
  /\ UNCHANGED <<leader, storage, hardCommit, log, faults, panicked>>

\* The follower's user stores the unstable entries and the HardState, then
\* sends r.msgs.
Save(f) ==
  LET last == LastIndex(storage[f], log[f]) IN
  /\ storage' = [storage EXCEPT ![f] = MSAppend(@, log[f].offset, log[f].unstable)]
  /\ hardCommit' = [hardCommit EXCEPT ![f] = log[f].committed]
  /\ log' = [log EXCEPT ![f] = IF @.unstable = <<>> THEN @
                               ELSE StableTo(@, last, Term(storage[f], @, last))]
SaveAndSend(f) ==
  /\ outbox[f] # EmptyBag \/ log[f].unstable # <<>> \/ hardCommit[f] # log[f].committed
  /\ IF MSAppendPanics(storage[f], log[f].offset, log[f].unstable)
       THEN Panic
       ELSE /\ Save(f)
            /\ outbox' = [outbox EXCEPT ![f] = EmptyBag]
            /\ network' = network (+) outbox[f]
            /\ UNCHANGED <<leader, faults, panicked>>

AnotherFault == lost + repeated + restarts < MaxFaults

\* A crash, and newRaft on what was saved.
LoadStatePanics(f) ==
  hardCommit[f] < NewLog(storage[f]).committed \/ hardCommit[f] > MSLastIndex(storage[f])
Restart(f) ==
  /\ AnotherFault /\ restarts < MaxRestarts /\ restarts' = restarts + 1
  /\ panicked' = LoadStatePanics(f)
  /\ log' = [log EXCEPT ![f] = [NewLog(storage[f]) EXCEPT !.committed = hardCommit[f]]]
  /\ outbox' = [outbox EXCEPT ![f] = EmptyBag]
  /\ UNCHANGED <<leader, storage, hardCommit, network, lost, repeated>>
-----------------------------------------------------------------------------
(* The network: a bag of messages. *)

Without(m) == network (-) SetToBag({m})
Step(m, net) ==
  IF m.type \in {"MsgAppResp", "MsgHeartbeatResp"}
    THEN StepLeader(m, net) \/ StepDeposed(m, net)
    ELSE StepFollower(m, net)

Deliver(type) == \E m \in BagToSet(network) : m.type = type /\ Step(m, Without(m))
MessageTypes == {"MsgApp", "MsgAppResp", "MsgSnap", "MsgHeartbeat", "MsgHeartbeatResp"}

\* A message arrives, and one like it stays under way.
Repeat ==
  \E m \in BagToSet(network) :
    /\ AnotherFault /\ repeated < MaxRepeated /\ repeated' = repeated + 1
    /\ network' = network (+) SetToBag({m})
    /\ UNCHANGED <<leader, followers, lost, restarts, panicked>>

Lose ==
  \E m \in BagToSet(network) :
    /\ AnotherFault /\ lost < MaxLost /\ lost' = lost + 1
    /\ network' = Without(m)
    /\ UNCHANGED <<leader, followers, repeated, restarts, panicked>>

Next ==
  /\ ~panicked
  /\ \/ \E type \in MessageTypes : Deliver(type)
     \/ Repeat \/ Lose
     \/ Beat \/ CompactLeader \/ CheckQuorum \/ Propose
     \/ \E f \in Followers : SaveAndSend(f) \/ Restart(f) \/ ReceiveOldApp(f)

Spec == Init /\ [][Next]_vars

\* What is sent and not lost arrives, followers save and answer, and MsgBeat
\* comes with the ticks.  One type of message does not keep another waiting; of
\* the same type there are never infinitely many, heartbeats apart.
FairSpec ==
  /\ Spec
  /\ \A type \in MessageTypes : WF_vars(~panicked /\ Deliver(type))
  /\ \A f \in Followers : WF_vars(~panicked /\ SaveAndSend(f))
  /\ WF_vars(~panicked /\ Beat)
-----------------------------------------------------------------------------
(* Properties. *)

TypeOK ==
  /\ leading \in BOOLEAN
  /\ \A f \in Followers :
       /\ progress[f].match \in Nat /\ progress[f].next \in 1 .. LeaderLast + 1
       /\ progress[f].state \in States \cup {"Probe"}
       /\ progress[f].pendingSnapshot \in Nat
       /\ {progress[f].recentActive, progress[f].probeSent} \subseteq BOOLEAN
       /\ progress[f].inflights \in Seq(1 .. LeaderLast) /\ Len(progress[f].inflights) <= MaxInflight
  /\ hardCommit \in [Followers -> Nat]
  /\ IsABag(network) /\ \A f \in Followers : IsABag(outbox[f])
  /\ lost \in 0 .. MaxLost /\ repeated \in 0 .. MaxRepeated /\ restarts \in 0 .. MaxRestarts
  /\ panicked \in BOOLEAN

\* No order of messages, losses, repetitions, crashes and compactions reaches a
\* panic: a heartbeat that commits past the end of a log, an append below the
\* commit index, a gap in the log or in the storage, a HardState out of range
\* after a crash, a slice out of range, a message for a full window, an empty
\* snapshot.
NoPanic == ~panicked

\* f holds what the leader holds, up to n, where a crash leaves it.
HoldsDurably(f, n) ==
  /\ n <= MSLastIndex(storage[f])
  /\ \A i \in 1 .. n : storage[f].ents[i + 1] = LeaderLog[Me][i]

\* Match, for which the leader will commit, is never more than the follower
\* would still have after a crash, nor is an acknowledgement under way.
MatchIsDurable ==
  /\ \A f \in Followers : HoldsDurably(f, progress[f].match)
  /\ \A m \in BagToSet(network) :
       m.type = "MsgAppResp" /\ ~m.reject => HoldsDurably(m.from, m.index)

\* What a follower takes for committed, from MsgApps or heartbeats however old,
\* is in its log, and is what the leader has there.
CommittedIsLeaders ==
  \A f \in Followers :
    /\ log[f].committed <= LastIndex(storage[f], log[f])
    /\ \A i \in 1 .. log[f].committed : Term(storage[f], log[f], i) = LeaderLog[Me][i]

\* Losses, crashes and reordered answers never take Next back to what the
\* follower has acknowledged.  In StateProbe it hangs on one probe at a time: not
\* after a repetition, since MaybeDecrTo looks at Next only, nor when a heartbeat
\* lets a second probe out before the first is answered, which takes another
\* follower whose answers call bcastAppend.
OneProbeAtATime(f) == repeated = 0 /\ (~HeartbeatsHandled \/ Followers = {f})
NextIsAfterMatch ==
  \A f \in Followers :
    (progress[f].state = "Probe" => OneProbeAtATime(f)) => progress[f].match < progress[f].next

\* Without repetitions a follower in StateProbe has one message with entries,
\* or the answer to it, under way at most; and the leader, waiting, never
\* forgets one that can still be answered.
Unanswered(f) ==
  {m \in BagToSet(network) : \/ m.type = "MsgApp" /\ m.to = f /\ m.ents # <<>>
                             \/ m.type = "MsgAppResp" /\ m.from = f /\ Updates(progress[f], m.index)}
OneProbe ==
  repeated = 0 /\ leading /\ ~HeartbeatsHandled =>
    \A f \in Followers : progress[f].state = "Probe" =>
      /\ \A m \in Unanswered(f) : Unanswered(f) = {m} /\ network[m] = 1
      /\ Unanswered(f) # {} => progress[f].probeSent

\* Every follower comes to hold the leader's log, unless a message is lost,
\* which nobody sends again.
ReplicationCompletes == \A f \in Followers : <>(lost > 0 \/ progress[f].match = LeaderLast)

\* progress.go, Match: "the index up to which the follower has successfully
\* replicated".
MatchIsReplicated ==
  \A f \in Followers :
    /\ progress[f].match <= LastIndex(storage[f], log[f])
    /\ progress[f].match <= LeaderLast
    /\ \A i \in 1 .. progress[f].match : Term(storage[f], log[f], i) = LeaderLog[Me][i]
=============================================================================
