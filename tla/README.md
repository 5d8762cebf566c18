# A verification of `raft-learn` (src/raft-learn/raft)

`raft-learn` is a port of etcd's raft library in progress: the log and its
storage are complete, the follower's handling of `MsgApp` is complete, the
leader and the election are written but stand on stubs of the tracker and the
quorum. It is a library for one node. It owns no threads and no network: the
user calls `Step` and `tick` from one goroutine, sends what is in `r.msgs`, and
writes, applies and stabilizes the log.

Three components are specified, and checked to be what their users take them
for: a replica of the log (`LogReplica`), a bounded queue (`InflightsQueue`),
and, in `EntryArrays`, sequences instead of windows on shared arrays. The
others are state machines with their properties: one node among ticks, votes
and crashes (`RaftNode`), a leader with its followers and the network between
them (`Replication`), the accounting of the uncommitted size
(`UncommittedSize`). Where the program is not finished the modules do what it
does, not what etcd does; *What the stubs leave* lists the places.

## The system

| Component | State | Operations | Correct when |
|---|---|---|---|
| `MemoryStorage` (storage.go) | `ents` behind a dummy entry, `snapshot`, `hardState` (never assigned) | `Append`, `CreateSnapshot`, `ApplySnapshot`, `Compact`, `Term`, `Entries`, `FirstIndex`, `LastIndex` | an append leaves no gap and no stale tail; compaction keeps the term at the boundary |
| `raftLog`, `unstable` (log.go, log_unstable.go) | the entries not yet stored, `offset`, `committed`, `applied` | `maybeAppend`, `append`, `commitTo`, `stableTo`, `appliedTo`, `slice`, `nextEnts`, `term` | every entry stands on what its leader had before it; what is committed is what the cluster decided; what is committed is handed out once, in order |
| Follower (raft.go `stepFollower`, `handleAppendEntries`) | the above | one handler for `MsgApp`, three ways through it | an acknowledgement tells the truth |
| `newRaft`, `loadState` | the above from a storage and a `HardState` | start, restart | everything executed is still there after a crash |
| `Inflights` (tracker/Inflights.go) | ring buffer `buffer`, `start`, `count`, `size` | `Add`, `FreeLE`, `FreeFirstOne`, `reset` | a bounded FIFO queue |
| `Progress` (tracker/progress.go) | `Match`, `Next`, `State`, `ProbeSent`, `Inflights` | `MaybeUpdate`, `MaybeDecrTo`, `OptimisticUpdate`, `BecomeSnapshot`, `IsPaused` | `Match < Next`; never beyond what the follower keeps through a crash |
| Leader (raft.go `stepLeader`, `maybeSendAppend`, `bcastAppend`) | a `Progress` per peer | `MsgAppResp`, `MsgHeartbeatResp`, `MsgBeat`, `MsgCheckQuorum` | every follower comes to hold the leader's log; no panic; nothing committed at a follower that the leader has not |
| Uncommitted size (raft.go `appendEntry`, `increase`/`reduceUncommittedSize`) | `uncommittedSize` | `appendEntry`, commit, `reset` | never more than what is uncommitted, so that nothing is refused for ever |
| Election (raft.go `Step`, `campaign`, `becomeX`, ticks) | `Term`, `Vote`, `state`, `lead`, timers | `tick`, `MsgHup`, `MsgVote`, `MsgPreVote` and their answers | one vote per term; a lease is kept; the timer neither fires late nor stops |
| `ProgressTracker`, `quorum`, `readOnly` | stubs | `QuorunActive`, `RecordVote`, `VoteResult` | |

How they interact. A leader's `maybeSendAppend` builds a `MsgApp` from its log
and the follower's `Progress`; the follower's `stepFollower` passes it to
`handleAppendEntries`, which changes the `raftLog` and puts an answer in
`r.msgs`; `stepLeader` turns the answer into a change of the `Progress` and its
`Inflights`. The user of the library reads the unstable entries, the committed
ones (`nextEnts`) and the commit index, writes the first to the `Storage`,
executes the second, and reports back with `stableTo` and `appliedTo`; between
these calls more messages may be handled. `raftLog` reads the `Storage` it
shares with the user. `newRaft` starts from what the `Storage` holds.

What is hard. There are three copies of the log that disagree for a while: the
storage, the storage with the unstable entries over it, and the batch the user
is writing. Messages come late, twice, out of order, and from deposed leaders:
`Step` of this program drops no message for its term. The user may take
snapshots and compact under the library's feet, and crash between any two
steps. A vote and an acknowledgement are promises, made in memory, that a crash
must not take back. Entries are handed around as Go slices, several of them on
one array, which `append` writes in place. The timers are set back by votes,
leaders and campaigns, and a lease hangs on them. Replication is driven by
answers alone, which may be lost, repeated and reordered. The window of a
`Progress` is a ring that grows. `PROJECT.json` lists
these hazards, each at its line, with the properties that would catch it.

## The modules

| Module | Models |
|---|---|
| `Leaders` | what reaches a follower: the logs of all leaders there ever were, the decided log, the `MsgApp`s `maybeSendAppend` builds |
| `MemoryStorage` | storage.go, each method an operator from storage to storage |
| `RaftLog` | log.go and log_unstable.go, likewise |
| `FollowerLog` | the follower at work: the handler of `MsgApp`, the user's four steps, snapshot, compaction, crash and restart |
| `LogReplica` | what a follower promises: one sequence of entries, a commit index, an executed prefix |
| `MCFollowerLog` | histories of leaders for TLC |
| `RaftLogProofs` | lemmas about the operators of `RaftLog`, `MemoryStorage` and `Leaders`, which the three below share |
| `FollowerLogProofs` | the inductive invariant of `FollowerLog`, its properties, and that it implements `LogReplica` |
| `Inflights`, `InflightsQueue` | the ring buffer, and the queue it implements |
| `MCInflights`, `InflightsProofs` | sizes for TLC; the proofs |
| `RaftNode` | one node of raft.go: term, vote, timers, log, the `HardState`, crash and restart; over `RaftLog` and `Leaders` |
| `MCRaftNode`, `RaftNodeProofs` | one leader and two candidates for TLC; the proofs |
| `Progress` | tracker/progress.go, each method an operator from record to record |
| `Replication` | composes `Progress` (the leader's side), `RaftLog` and `MemoryStorage` (the followers') and a network; `MCReplication` for TLC |
| `ReplicationProofs`, `ReplicationProbeProofs` | what is acknowledged and committed; one probe at a time and `Match < Next` |
| `EntryArrays` | the arrays behind the entries: log_unstable.go, `slice` and storage.go with Go's `append`, beside `RaftLog` and `MemoryStorage`; `MCEntryArrays` for TLC, `EntryArraysProofs` |
| `UncommittedSize` | the accounting of the uncommitted size beside the real one; `MCUncommittedSize`, `UncommittedSizeProofs` |

An `Entry` is its term: its index is its position, and term and index determine
type and data. `Size()` of an entry is 1 in this code, so limits on sizes are
numbers of entries. Every method that panics has a predicate beside it that says
on which inputs; the actions end in `panicked` there, and `NoPanic` says they
never do. In `RaftNode` `panicked` names the cause, and there is one property
per cause where one can fail or hold: `NoLogPanic` for what log.go, storage.go
and `loadState` panic on, which holds whatever the Term and the tracker of the
node, and `VotesCarryATerm` for `send`, which does not. The other two causes are
the nil maps of the tracker, which panic in every order of calls (*What the
stubs leave*).

`FollowerLog` has an action for each handler or call of the user:

| Action | Code |
|---|---|
| `AppendMatching`, `AnswerOnly` | `handleAppendEntries`: early answer below the commit index, `maybeAppend`, rejection |
| `TakeReady` | user reads `unstable.entries`, `nextEnts()`, `committed` |
| `Persist` | user calls `Storage.Append`, saves the `HardState` |
| `Apply` | user executes the entries of `nextEnts()` |
| `Advance` | user calls `stableTo` with the last entry of the batch, `appliedTo` with the last one executed |
| `TakeSnapshot`, `CompactStorage` | user calls `CreateSnapshot` at what it has executed, `Compact` no further than its snapshot |
| `Restart` | process dies; `newRaft` on the storage and the saved `HardState`, `Config.Applied` at the snapshot |

The user's code is not in the repository. The model makes it as liberal as the
interface allows, with these limits: entries are written before the committed
ones are executed, the `HardState` is saved with the entries, and `Restart`
restores the state machine from the last snapshot. `MemoryStorage` never
assigns its own `hardState`; the model keeps the one the user saves beside it.

`RaftNode` has one for each message and call:

| Action | Code |
|---|---|
| `TickElection`, `TickHeartbeat` | `r.tick`; the first steps `MsgHup` when the timer has run out: `Hup`, `Campaign`, `BecomePreCandidate`, `BecomeCandidate` |
| `StepVote`, `StepVoteNoChange` | `Step` with `MsgVote` or `MsgPreVote`: granted, and ignored, rejected or a pre-vote |
| `ReceiveVoteResp` | `stepCandidate`: the vote is recorded, the poll stays undecided |
| `ReceiveApp`, `StepHeartbeat` | `stepFollower` |
| `CallBecomeCandidate`, `CallBecomeLeader` | what raft_test.go does: code of the package that calls them itself |
| `SaveAndSend` | the user saves the unstable entries and the `HardState`, then sends `r.msgs` |
| `Apply`, `Restart` | `appliedTo`; a crash and `newRaft` |

and `Replication`:

| Action | Code |
|---|---|
| `StepAppResp`, `StepHeartbeatResp` | `stepLeader`, with the `sendAppend` or `bcastAppend` it ends in |
| `Beat`, `CheckQuorum`, `Propose` | `MsgBeat`, `MsgCheckQuorum`, `MsgProp` |
| `CompactLeader` | the leader's user calls `CreateSnapshot` and `Compact` |
| `StepApp`, `StepHeartbeat`, `ReceiveOldApp` | `handleAppendEntries` on a message of the leader or of a deposed one; `handleHeartbeat` if it is called |
| `SaveAndSend`, `Restart` | the follower's user, and its crash |
| `Deliver`, `Repeat`, `Lose` | the network, a bag of messages |

`EntryArrays` has `Receive` (a `MsgApp` is appended), `TakeBatch` and `Persist`
(the user reads `unstable.entries`, later stores them and calls `stableTo`),
`HandOutSlice`, `CompactStorage` and `Forget`. Unreachable arrays are reused at
once, so that a dangling window would be seen. `UncommittedSize` has
`AppendEntry`, `Commit`, `BecomeLeader`, `BecomeFollower` and
`FollowerAppends`.

What is assumed of the other nodes (`LeadersAssumption`) is Raft's: the logs of
two leaders that share an entry agree up to it, and a decided entry is in
the log of the leader that wrote it. A leader announces as committed a prefix of
its own log that is decided. `Replication` also assumes leader completeness
(`LeaderIsComplete`): whatever an earlier leader may announce as committed, the
present one has. The program has no election that could be won, so nothing of it
could bring this about.

## The runs

| Run | Shows | Bounds |
|---|---|---|
| `follower_log` | no panic; the log coherent and decided up to its commit index; execution in order; durability; no resurrection of stale entries; `slice`; truthful acknowledgements; `LogReplica` is implemented; stabilizing, snapshots and compaction are invisible in the log; what is committed is executed in the end | three leaders with logs of 3 entries that overwrite each other twice, every slice of them as a message at any time, two entries per batch of `nextEnts`, one crash |
| `inflights` | the ring is a queue, in its buffer | sizes 0 to 5 (0, the powers of two and those to which doubling is cut down), three indexes in any order |
| `inflights_free_first_one` | a violation: `FreeFirstOne` on an empty window is not the no-op its comment says | the same |
| `follower_log_hup` | a violation: a user that compacts what it has executed before it calls `appliedTo` makes the next `MsgHup` panic, where the code calls the error unexpected | two leaders, no crash |
| `raft_node` | no panic of the log, the storage or `loadState`; a candidate's vote is its own; the votes let out are one per term; timers in range, and never silent; no campaign on an unapplied configuration; the lease | election timeout 2, heartbeat 1, campaigns up to term 3, start at term 0 or 1, four requests of two candidates in two terms, one leader of two entries, one crash; voters and learners, `checkQuorum`, `preVote`, tracker filled in or not |
| `raft_node_double_vote` | a violation: a node votes for another in a term that it does not move to, and then campaigns in that term | the same, a voter with `checkQuorum` |
| `raft_node_rejection` | a violation: a new node panics when it rejects a vote, since the rejection carries Term 0 | the same, started at term 0 |
| `replication` | no panic, `loadState` and the storage included; `Match` and every acknowledgement cover only what a crash leaves; what a follower commits is the leader's; `Match < Next` | a leader of three entries, two deposed ones before, a follower with any prefix of their logs, `MsgApp`s of the second deposed leader, whose log agrees with the present one's, in StateProbe or StateReplicate, window 2, one entry per message; one repetition, one crash; any message may stay under way for ever; heartbeats handled, `MaxBeats` 1; compaction, end of the leadership |
| `replication_live` | at most one probe under way; every follower comes to hold the leader's log, unless a message is lost | the same without crashes, one message lost or repeated, a window larger than the log, heartbeats ignored as `stepFollower` does, and `MsgApp`s of both deposed leaders at any time |
| `replication_truncated` | a violation: a late `MsgApp` of a deposed leader makes a follower drop what it has acknowledged, and `Match` goes on counting it | two leaders before the current one, nothing lost or repeated |
| `entry_arrays` | no array is written where somebody still looks; the arrays hold the log the sequences hold | three messages, three entries, one slice handed out beside the batch, one spare slot per allocation |
| `uncommitted_size` | the counter does not wrap around, never exceeds what is uncommitted, nor the limit by more than one proposal | limits 1 to 5, payloads 0 to 7, at most 8 uncommitted |

Why the bounds are enough. An entry can be overwritten, and overwritten again
while the batch that holds it is still with the user, which takes three leaders;
three entries put one below, at and above every boundary (dummy, offset,
commit); a second crash begins in a state a first one also begins in. The
messages are a constant set, so they may be lost, repeated and reordered
without a bound. The ring wraps around in every position from size 2 on.

In `raft_node` a timeout of 2 gives randomized timeouts of 2 and 3, so that a
timer may stand one before, and at, its end when a vote, a leader or a crash
comes; two candidates in two terms are enough to ask the same node twice in one
term, and once each in the next. What holds there is proved for every value
(below), so the bounds only matter for `TimerKeepsFiring`. Likewise in
`entry_arrays` and, but for `ReplicationCompletes`, in the runs of
`Replication`. In `replication` three entries put `Next` below, at and behind
the commit index and the point where the logs part; one repetition and one crash
is one of each at every point, and both together. A lost message is for a safety
property one that stays under way for ever; `Lose` itself is in
`replication_live` (`MaxFaults` bounds the faults of all kinds together). `MaxBeats` bounds the copies of the
heartbeat the leader would send now and of its answer; with 1 a heartbeat may be
repeated, and earlier ones, with a smaller commit index, may still be under way.
The code has no such bound, and what holds there is proved for every value of
it. The two deposed leaders of `replication_live` send any slice of their logs,
at any time. In `entry_arrays` an overwrite needs two holders of an array and a
third message that makes one of them append; a spare slot is what makes `append`
write in place.

Deadlock is checked where the system cannot stop. It is off in `raft_node`,
which ends at a panic (of the three causes other than the log) or at `MaxTerm`,
in `replication`, where a lost message is not sent again and the last answer
ends the run, and in `entry_arrays`, which ends with `MaxMessages`.

Fairness. `FollowerLog` assumes it of the user's four steps only: a user that
stops processing batches executes nothing. Nothing forces a message, a snapshot
or a crash. `RaftNode` assumes that the user goes on calling `tick`, which a
timer is for. `Replication` assumes that what is sent and not lost arrives, type
by type, so that endless heartbeats excuse no other message; that followers save
and send; and that `MsgBeat` keeps coming. All of it is weak fairness, since each
step stays enabled until it is taken, and it is assumed for `~panicked` only.

## What the stubs leave

The tracker is not finished, and the modules follow it:

* `newRaft` leaves the maps of `Progress`es and votes nil, so that the first
  vote recorded (tracker.go:59, causes "votes") and the first entry a leader
  appends (raft.go:670, "progress") panic, the latter in TestProgressLeader of
  raft_test.go. `config.tracked` of `RaftNode` says whether code of the package
  has made them, as raft_test.go takes for granted.
* `VoteResult` answers `VotePending` and the voters' IDs are empty: no vote is
  asked for, won or lost, and no quorum is active, so that a leader that handles
  `MsgCheckQuorum` steps down at once, whoever answers.
* `becomeLeader` installs `stepCandidate`. A leader handles votes and no
  answers; `Replication` is the code behind that gap.
* `maybeCommit` answers true and commits nothing; `MsgProp` appends nothing, and
  panics if it is empty, which is a mistake of the user (`ReplicationAssumption`
  says that proposals hold something); a follower ignores `MsgSnap`, and
  `MsgHeartbeat` has an effect only if `handleHeartbeat` is called
  (`HeartbeatsHandled`).
* `BecomeProbe` and `BecomeReplicate` are empty, and `BecomeSnapshot` does not
  change `State`. A `Progress` stays in the state it was made in; `States` has
  StateReplicate too, for the code that is written for it.

Met while modelling, and not a run of their own: a node that is not promotable
logs that it ignores a `MsgHup` and campaigns (raft.go:811; `tickElection` never
sends it one). A repeated rejection takes `Next` back to `Match`, and so does
the rejection of one of two probes, of which a heartbeat lets out the second
before the first is answered (progress.go:115; the condition of
`NextIsAfterMatch`; the second needs another follower, whose answers call
`bcastAppend`). A rejection in StateReplicate leaves the window full
(progress.go:107). A lost probe stays lost: the heartbeats clear `ProbeSent` and
nobody sends (raft.go:505). A deposed leader takes the early answer for an
acknowledgement of its own entries (raft.go:513). One proposal of any size is
taken while nothing is counted, although the comment of the limit promises an
error beyond it (raft.go:685, raft.go:120). A candidate ignores the `MsgApp`s of
the winner (raft.go:379).

## The proofs

`InflightsProofs` proves for every set of sizes and indexes:

* `InflightsSafe`: types, no index out of range, and `WindowInBuffer`. The
  invariant has to say that a window whose buffer is not at full length has not
  wrapped around; without it `grow` could tear the window apart.
* `InflightsImplementsQueue`: with the k-th message in flight as the k-th element
  of the queue, each step is a step of `InflightsQueue` or a stutter.

`FollowerLogProofs` proves for every set of terms, every history of leaders that
has the log matching property, every batch size and any number of crashes that
`Spec` implies `TypeOK`, `NoPanic`, `LogCoherent`, `CommittedIsDecided`,
`AppliedInOrder`, `AppliedIsDurable`, `NoResurrection`, `AckIsTrue` and
`SliceIsLog`. None of these is inductive alone; the invariant is `IInv`:

* Every log is a storage with a run of entries laid over it (`Over`), and
  `LogOK` says the same of each: coherent with the leaders to its end, decided to
  its commit index, no gap between storage and overlay. It holds for the storage
  alone with what a restart would take as committed (`StorageOK`), for what the
  raft goroutine sees (`RaftLogOK`), and, while a batch is with the user, for the
  storage with the batch over it (`BatchOK`), which is what `Persist` makes of it.
* `StillLast` is the part that is easy to miss. `stableTo` keeps entries
  unstable when the last of the batch was replaced meanwhile. The batch then
  either still ends as the log does, or the log reaches past what was committed
  when the batch was taken; otherwise the storage could end up with entries that
  the log had dropped.
* In `Advance` the entry at the end of the storage is that of the log at the same
  index, both logs are coherent, so they agree up to there: dropping the
  unstable entries changes no entry.

The argument of `maybeAppend` is Raft's: one entry in common with the leader
means everything before is in common (`MatchIsPrefix`), `findConflict` finds the
first that is not (`FindConflictFacts`), and everything up to the commit index is
in common with a leader whose log matches (`AppendFromConflictFacts`). Each
action has a lemma of its own (`AppendSafe`, `PersistSafe`, ..., `RestartSafe`),
stated of a storage, a log, a batch and a state machine, and `StepIInv` puts them
together. The assumptions are those of `Leaders` and `FollowerLog`, nothing else.

It also proves the action property and the refinement:

* `BookkeepingStaysInvisible`: stabilizing, snapshots and compaction change no
  entry of the log. A step that keeps the last index and the entry there keeps
  the whole log, since both logs are coherent (`SameEnd`); so it is enough to
  look at the last entry.
* `FollowerImplementsReplica`: `Spec` implements `LogReplica`, the log read as
  one sequence. `AppendMatching` is `Accept` with `last` at the end of the
  message, `Apply` is `Execute` or a stutter, `Restart` is `Crash`, and
  everything else stutters. `Crash` may not raise the commit index, so `IInv`
  needs `CommitSaved`: the index in the `HardState` is not beyond the one in
  memory.

`InflightsProofs` also states the parts of `InflightsSafe` one by one
(`InflightsTypeCorrect`, `InflightsNeverPanics`).

`UncommittedSizeProofs` proves the three properties of `UncommittedSize` for every
limit, payload and length of the tail. That the counter never exceeds the tail
is not inductive, since a follower truncates without accounting; it is together
with `OnlyLeadersCount`: who does not lead has the counter at 0, which `reset` sees
to in both directions. `UncommittedSizeOvershoots` says how far past the limit the
counter may be: one proposal. The comment of the limit (raft.go:120) promises an
error there; while nothing is counted the code takes a proposal of any size
(raft.go:685), and the theorem states what it keeps instead.

`RaftNodeProofs` proves `TypeOK`, `OwnVote`, `OneVotePerTerm`, `TimersInRange`,
`CampaignKnowsConfig` and the action property `LeaseHolds` of `RaftNode` for every
history of leaders, every set of requests, all timeouts and any number of
campaigns and crashes. Its `IInv` adds two things to them:

* `Votes`: everything granted, let out or not, is for the vote, unless the node
  votes for itself by now, and what was let out is for the *saved* vote, unless
  that is its own. A crash replaces the vote by the saved one and forgets what was
  not let out, so the first part follows from the second. A vote is given only if
  it is free, and then nothing was granted before.
* `Lease`: as long as a leader was heard less than an election timeout ago, the
  timer has not run longer than the contact is old, and either the leader is known
  or the node votes for itself. The timer therefore cannot run out, since no
  timeout is shorter than `ElectionTimeout`, and nothing else forgets the leader
  without voting for the node.

`CampaignKnowsConfig` rests on two facts: only a follower handles what moves the
commit index, and no step of the log but `commitTo` and `appliedTo` touches the two
indexes (`AppendKeeps`, `StableToKeeps`).

`NoLogPanicHolds` proves `NoLogPanic`, for nodes at Term 0 and without a tracker too.
It needs less than the coherence of `FollowerLog`, which a node that calls
`becomeLeader` itself does not have, for it then appends in a term that another
leads: `Indexed` says that the unstable entries lie on the storage without a gap, so
that `Storage.Append` finds none; that what is applied is within what is committed
and that within the log, so that `MsgHup` can read the difference; and that the saved
commit index is within the storage, so that `loadState` takes it. The early answer of
`handleAppendEntries` keeps conflicts behind the commit index, so that `maybeAppend`
never panics over one.

`ReplicationProofs` is about every set of followers, every history of leaders,
every window and message size, any number of losses, repetitions and crashes, with
`MsgApp`s of deposed leaders at any time:

* `IInv` gives `TypeOK`, `NoPanic` and `CommittedIsLeaders`. Its core is that
  what is acknowledged is, as far as the leader has committed, committed by the
  follower: in its memory while the answer is in `r.msgs`, in its `HardState`
  once the answer has left, since the user saves before it sends. A heartbeat
  announces min(`Match`, committed), which is therefore never more than the
  follower has, and `commitTo` does not panic. That the log lies on the storage
  without a gap (`SaveHasNoGap`) and that the saved commit index is within the
  storage (`HardStateInRange`) keep `Storage.Append` and `loadState` from
  panicking; the window of entries the leader asks for is always in its log
  (`EntriesFacts`).
* `DInv` gives `MatchIsDurable`: what is acknowledged is in the storage and in
  the log over it, entry by entry, and what is about to be acknowledged is in
  the log. This needs `OldLeadersAgree`, that no deposed leader whose `MsgApp`s
  are still under way has another entry at an index of the present log.
  `replication_truncated` shows that it is false without. The hypothesis holds
  of `replication`, and of any system in which no such `MsgApp` arrives.

`ReplicationProbeProofs` counts messages. In StateProbe the probe is a token that
leader and follower pass to each other: the `MsgApp` with entries, then the
answer. `TInv` says that there is at most one, in the network and in `r.msgs`
together, and none while `ProbeSent` is unset; this is `OneProbe`. `RInv` adds that
what a rejection says of the follower is still so when the leader hears it: `Match`
cannot rise while the token is a rejection, and a follower that keeps what it
acknowledged (`DInv`) refuses nothing at or below `Match`. So `MaybeDecrTo` leaves
`Next` beyond `Match`, which is `NextIsAfterMatch`, under the same `OldLeadersAgree`.

`EntryArraysProofs` proves the three invariants of `EntryArrays` for every number of
messages, entries, arrays and spare slots. `ArraysInv` adds to them:

* `MemoryOK`: the slices that are appended to, `ms.ents` and `unstable.entries`,
  are on different arrays and end at least as far out as any other slice on
  their array (`Behind`). That is why `append` may write in place: nobody sees
  the slots behind the longer slice. The copies in `truncateAndAppend`,
  `MemoryStorage.Append` and `slice` are where `Behind` would fail without them:
  `TruncateInPlace`, `StoredSliceInPlace` and `CombinedInPlace` leave out one
  each.
* `IndexesOK`: the unstable entries lie on the storage without a gap, and a
  batch begins where the storage can go on. So `MemoryStorage.Append` never
  ignores a batch or finds part of it compacted, and what `stableTo` cuts off is
  stored.

Only model-checked: the liveness properties (`CommittedIsApplied`,
`TimerKeepsFiring`, `ReplicationCompletes`), which are out of the prover's reach,
and the runs that expect a violation, each of which is a behaviour and not a
theorem. Indexes and terms are naturals throughout, not words of 64 bits.

## Not modelled, and the plan

`PROJECT.json` lists every component with the reason. Not modelled are the parts
without state or code: `Config.validate`, the logger, `readOnly`, the empty `main`;
`MsgSnap` at a follower, `restore` and the unstable snapshot, which no statement
reaches; joint configurations; and whatever follows a won vote, a commit of the
leader or a proposal, which the stubs cut off. The leader of `Replication` does not
crash, and leads once.

What is left, in this order:

1. `slice` step by step: its calls of the storage under separate locks, with
   `Compact` of another goroutine between them. Today's code has one goroutine.
2. A second leadership over the same `Progress`es, with answers of the first
   under way, once `stepLeader` is installed.
