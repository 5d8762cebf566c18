------------------------------ MODULE RaftNode ------------------------------
(***************************************************************************)
(* raft.go: the term, the vote and the timers of one node.  Step handles   *)
(* what the other nodes send, tick is called by the user, who also saves   *)
(* the HardState, hands out r.msgs, applies entries and may crash.         *)
(*                                                                         *)
(* The tracker this code stands on is not finished: newRaft leaves its two *)
(* maps nil, RecordVote panics on a nil map, and VoteResult answers        *)
(* VotePending to everything.  config.tracked says whether code of the     *)
(* package has made the maps and put the node's own Progress there, as     *)
(* raft_test.go takes for granted; with FALSE the node is as newRaft makes *)
(* it.  Since no vote is ever won, no branch behind VoteWon or VoteLost    *)
(* exists here, and since Voters.IDs() is empty a campaign asks nobody.    *)
(*                                                                         *)
(* Of r.msgs only granted MsgVoteResps are kept: no property is about the  *)
(* others.  The Progresses that reset rebuilds are in Replication.         *)
(***************************************************************************)
EXTENDS Leaders, RaftLog, FiniteSets

CONSTANTS
  Self,              \* r.id
  Peers,             \* the other nodes
  None,              \* no node
  LeaderId,          \* the node that leads each of Terms
  VoteRequests,      \* what candidates ask, transfer: after a leader transfer
  ConfChanges,       \* the indexes whose entry is an EntryConfChange
  Configs,           \* [checkQuorum, preVote, learner, tracked]
  StartTerms,        \* the Term in the HardState a node starts from
  ElectionTimeout,   \* Config.ElectionTick
  HeartbeatTimeout,  \* Config.HeartbeatTick
  MaxTerm,           \* bound on the campaigns
  MaxRestarts        \* bound on the crashes

\* What Config.validate demands, and what the messages look like.
ASSUME RaftNodeAssumption ==
  /\ None \notin Peers \cup {Self} /\ Self \notin Peers
  /\ LeaderId \in [Terms -> Peers]
  /\ VoteRequests \subseteq [from : Peers, term : Nat \ {0}, index : Nat, logTerm : Nat,
                             transfer : BOOLEAN]
  /\ ConfChanges \subseteq Nat /\ StartTerms \subseteq Nat
  /\ Configs \subseteq [checkQuorum : BOOLEAN, preVote : BOOLEAN,
                        learner : BOOLEAN, tracked : BOOLEAN]
  /\ HeartbeatTimeout \in Nat \ {0}
  /\ ElectionTimeout \in Nat /\ ElectionTimeout > HeartbeatTimeout
  /\ MaxTerm \in Nat /\ MaxRestarts \in Nat

VARIABLES
  config,
  currentTerm, vote, state, lead,                          \* the fields of raft
  electionElapsed, heartbeatElapsed, randomizedTimeout,
  log,
  pending,      \* votes granted in r.msgs
  storage,      \* the user's: survives a crash
  hardState,    \* the user's: the HardState it saved last
  sent,         \* votes granted that have left the node
  sinceContact, \* ticks since a leader was heard, ElectionTimeout if long ago
  panicked,     \* "no", or what the node panicked in
  restarts

elected == <<currentTerm, vote, state, lead>>
timers == <<electionElapsed, heartbeatElapsed, randomizedTimeout>>
user == <<storage, hardState, sent>>
vars == <<config, elected, timers, log, pending, user, sinceContact, panicked, restarts>>

\* log.go, log_unstable.go, storage.go or loadState; send; RecordVote on a nil
\* map; a nil Progress.
Panics == {"no", "log", "send", "votes", "progress"}

PanicInTick(cause) ==
  /\ panicked' = cause
  /\ UNCHANGED <<config, elected, timers, log, pending, user, restarts>>
Panic(cause) == PanicInTick(cause) /\ UNCHANGED sinceContact

\* electionElapsed is compared with nothing above this.
MaxElapsed == 2 * ElectionTimeout

\* Mutant: forgets to add electionTimeout.
ShortTimeouts == 1 .. ElectionTimeout - 1
RandomizedTimeouts == ElectionTimeout .. 2 * ElectionTimeout - 1

ResetTimers ==
  /\ electionElapsed' = 0 /\ heartbeatElapsed' = 0
  /\ randomizedTimeout' \in RandomizedTimeouts

Init ==
  /\ config \in Configs
  /\ currentTerm \in StartTerms /\ vote = None /\ lead = None
  /\ state = "Follower"
  /\ electionElapsed = 0 /\ heartbeatElapsed = 0
  /\ randomizedTimeout \in RandomizedTimeouts
  /\ storage = NewMemoryStorage /\ log = NewLog(storage)
  /\ hardState = [term |-> currentTerm, vote |-> None, commit |-> 0]
  /\ pending = {} /\ sent = {}
  /\ sinceContact = ElectionTimeout
  /\ panicked = "no" /\ restarts = 0
-----------------------------------------------------------------------------
(* Campaigns. *)

LastTerm == Term(storage, log, LastIndex(storage, log))
LastTermPanics == LastTerm \in {ErrCompacted, ErrUnavailable}

\* A Progress of its own that is not a learner's.
Promotable == config.tracked /\ ~config.learner

\* The committed entries not yet applied hold a change of the configuration.
\* Mutant: looks one entry too far.
ConfPendingAfterNext == \E i \in log.applied + 2 .. log.committed : i \in ConfChanges
ConfPending == \E i \in log.applied + 1 .. log.committed : i \in ConfChanges

\* Mutant: votes for itself, then resets.
BecomeCandidateThenReset ==
  /\ currentTerm' = currentTerm + 1 /\ vote' = None /\ lead' = None
  /\ state' = "Candidate"
  /\ ResetTimers
BecomeCandidate ==
  /\ currentTerm' = currentTerm + 1 /\ vote' = Self /\ lead' = None
  /\ state' = "Candidate"
  /\ ResetTimers

BecomePreCandidate(elapsed) ==
  /\ state' = "PreCandidate" /\ lead' = None
  /\ electionElapsed' = elapsed
  /\ UNCHANGED <<currentTerm, vote, heartbeatElapsed, randomizedTimeout>>

\* RecordVote writes to a nil map.
RecordVotePanics == ~config.tracked

\* campaign: whoever calls it changes sides first, and polls itself then.
Campaign(elapsed) ==
  IF RecordVotePanics THEN PanicInTick("votes")
  ELSE /\ IF config.preVote THEN BecomePreCandidate(elapsed)
          ELSE currentTerm < MaxTerm /\ BecomeCandidate
       /\ UNCHANGED <<config, log, pending, user, panicked, restarts>>

\* The slice of the committed entries not yet applied: a panic, or an error that
\* Step panics on.
HupPanics ==
  \/ SliceCompacted(storage, log, log.applied + 1)
  \/ SlicePanics(storage, log, log.applied + 1, log.committed + 1)

\* Step(MsgHup), elapsed being electionElapsed when it is called.  That the node
\* is not promotable is logged and not acted on.
Hup(elapsed) ==
  IF state # "Leader" /\ HupPanics THEN PanicInTick("log")
  ELSE IF state = "Leader" \/ ConfPending
    THEN /\ electionElapsed' = elapsed
         /\ UNCHANGED <<config, elected, heartbeatElapsed, randomizedTimeout, log,
                        pending, user, panicked, restarts>>
  ELSE Campaign(elapsed)
-----------------------------------------------------------------------------
(* Ticks. *)

SinceContactNext == sinceContact' = Min2(sinceContact + 1, ElectionTimeout)

\* Mutant: off by one.
PastElectionTimeoutLate(elapsed) == elapsed > randomizedTimeout
PastElectionTimeout(elapsed) == elapsed >= randomizedTimeout

\* Mutant: a node that knows a leader counts no ticks.
TickElectionWithoutLeader ==
  /\ state # "Leader"
  /\ IF lead # None THEN UNCHANGED <<config, elected, timers, log, pending, user, panicked, restarts>>
     ELSE IF Promotable /\ PastElectionTimeout(electionElapsed + 1)
       THEN Hup(0)
       ELSE /\ electionElapsed' = Min2(electionElapsed + 1, MaxElapsed)
            /\ UNCHANGED <<config, elected, heartbeatElapsed, randomizedTimeout, log,
                           pending, user, panicked, restarts>>
  /\ SinceContactNext

TickElection ==
  /\ state # "Leader"
  /\ IF Promotable /\ PastElectionTimeout(electionElapsed + 1)
       THEN Hup(0)
       ELSE /\ electionElapsed' = Min2(electionElapsed + 1, MaxElapsed)
            /\ UNCHANGED <<config, elected, heartbeatElapsed, randomizedTimeout, log,
                           pending, user, panicked, restarts>>
  /\ SinceContactNext

\* Mutant: heartbeatElapsed is not set back.
TickHeartbeatWithoutReset ==
  /\ state = "Leader"
  /\ electionElapsed' = IF electionElapsed + 1 >= ElectionTimeout THEN 0 ELSE electionElapsed + 1
  /\ heartbeatElapsed' = heartbeatElapsed + 1
  /\ SinceContactNext
  /\ UNCHANGED <<config, elected, randomizedTimeout, log, pending, user, panicked, restarts>>

\* MsgCheckQuorum and MsgBeat reach r.step, which becomeLeader sets to
\* stepCandidate: nothing comes of either.
TickHeartbeat ==
  /\ state = "Leader"
  /\ electionElapsed' = IF electionElapsed + 1 >= ElectionTimeout THEN 0 ELSE electionElapsed + 1
  /\ heartbeatElapsed' = IF heartbeatElapsed + 1 >= HeartbeatTimeout THEN 0 ELSE heartbeatElapsed + 1
  /\ SinceContactNext
  /\ UNCHANGED <<config, elected, randomizedTimeout, log, pending, user, panicked, restarts>>

Tick == TickElection \/ TickHeartbeat
-----------------------------------------------------------------------------
(* Step, for what other nodes send.  Step takes over no term. *)

InLease == config.checkQuorum /\ lead # None /\ electionElapsed < ElectionTimeout

IsUpToDate(m) ==
  m.logTerm > LastTerm \/ (m.logTerm = LastTerm /\ m.index >= LastIndex(storage, log))

CanVote(m, type) ==
  \/ vote = m.from
  \/ vote = None /\ lead = None
  \/ type = "MsgPreVote" /\ m.term > currentTerm

\* Ignored: from outside the lease, unless it forces its way, or by a learner.
VoteIgnored(m) ==
  config.learner \/ (m.term > currentTerm /\ ~m.transfer /\ InLease)
Grants(m, type) == CanVote(m, type) /\ IsUpToDate(m)

StepVote(m) ==
  /\ ~VoteIgnored(m) /\ Grants(m, "MsgVote")
  /\ vote' = m.from
  /\ electionElapsed' = 0
  /\ pending' = pending \cup {[term |-> m.term, to |-> m.from]}
  /\ UNCHANGED <<config, currentTerm, state, lead, heartbeatElapsed, randomizedTimeout,
                 log, user, sinceContact, panicked, restarts>>

\* send refuses messages of the election without a term.
SendPanics(term) == term = 0

\* A rejection carries the Term of the node.  A pre-vote that is granted, or
\* a request that is ignored, changes nothing.
StepVoteNoChange(m, type) ==
  /\ VoteIgnored(m) \/ ~Grants(m, type) \/ type = "MsgPreVote"
  /\ IF ~VoteIgnored(m) /\ ~Grants(m, type) /\ SendPanics(currentTerm)
       THEN Panic("send")
       ELSE UNCHANGED vars

HeardFrom(t) ==
  /\ state = "Follower"
  /\ electionElapsed' = 0 /\ lead' = LeaderId[t] /\ sinceContact' = 0

\* stepFollower, MsgApp: handleAppendEntries.  Only a follower handles it.
AppPanics(m) ==
  IF m.index < log.committed THEN FALSE
  ELSE IF MatchTerm(storage, log, m.index, m.logTerm)
    THEN MaybeAppendPanics(storage, log, m.index, m.commit, m.ents)
  ELSE TermPanics(storage, log, m.index)
Accepts(m) == m.index >= log.committed /\ MatchTerm(storage, log, m.index, m.logTerm)
StepApp(t, m) ==
  IF AppPanics(m)
    THEN state = "Follower" /\ Panic("log")
    ELSE /\ HeardFrom(t)
         /\ log' = IF Accepts(m) THEN MaybeAppend(storage, log, m.index, m.commit, m.ents)
                   ELSE log
         /\ UNCHANGED <<config, currentTerm, vote, state, heartbeatElapsed,
                        randomizedTimeout, pending, user, panicked, restarts>>

\* stepFollower, MsgHeartbeat: its commit index is not looked at.
StepHeartbeat(t) ==
  /\ HeardFrom(t)
  /\ UNCHANGED <<config, currentTerm, vote, state, heartbeatElapsed,
                 randomizedTimeout, log, pending, user, panicked, restarts>>
-----------------------------------------------------------------------------
(* Code of the package that calls becomeCandidate and becomeLeader itself, as *)
(* raft_test.go does on a node with nothing left to apply.                    *)

CallBecomeCandidate ==
  /\ state = "Follower" /\ ~config.learner /\ log.applied = log.committed
  /\ currentTerm < MaxTerm
  /\ BecomeCandidate
  /\ UNCHANGED <<config, log, pending, user, sinceContact, panicked, restarts>>

\* The new leader appends an empty entry, after which it updates its Progress.
CallBecomeLeader ==
  /\ state = "Candidate"
  /\ LET last == LastIndex(storage, log) IN
     IF AppendPanics(log, last + 1) THEN Panic("log")
     ELSE IF ~config.tracked THEN Panic("progress")
     ELSE /\ state' = "Leader" /\ lead' = Self
          /\ ResetTimers
          /\ log' = AppendEntries(log, last + 1, <<currentTerm>>)
          /\ UNCHANGED <<config, currentTerm, vote, pending, user, sinceContact,
                         panicked, restarts>>
-----------------------------------------------------------------------------
(* The user. *)

\* Mutants: what is unstable, or the vote, is not written before r.msgs is sent.
SaveHardStateAndSend ==
  /\ hardState' = [term |-> currentTerm, vote |-> vote, commit |-> log.committed]
  /\ sent' = sent \cup pending /\ pending' = {}
  /\ UNCHANGED <<config, elected, timers, log, storage, sinceContact, panicked, restarts>>
SaveWithoutVoteAndSend ==
  /\ storage' = MSAppend(storage, log.offset, log.unstable)
  /\ log' = IF log.unstable = <<>> THEN log
            ELSE StableTo(log, LastIndex(storage, log), LastTerm)
  /\ hardState' = [term |-> currentTerm, vote |-> None, commit |-> log.committed]
  /\ sent' = sent \cup pending /\ pending' = {}
  /\ UNCHANGED <<config, elected, timers, sinceContact, panicked, restarts>>

\* The unstable entries and the HardState are saved, then r.msgs is sent.
SaveAndSend ==
  IF MSAppendPanics(storage, log.offset, log.unstable) THEN Panic("log") ELSE
  /\ storage' = MSAppend(storage, log.offset, log.unstable)
  /\ log' = IF log.unstable = <<>> THEN log
            ELSE StableTo(log, LastIndex(storage, log), LastTerm)
  /\ hardState' = [term |-> currentTerm, vote |-> vote, commit |-> log.committed]
  /\ sent' = sent \cup pending /\ pending' = {}
  /\ UNCHANGED <<config, elected, timers, sinceContact, panicked, restarts>>

Apply ==
  /\ log.applied < log.committed
  /\ log' = AppliedTo(log, log.committed)
  /\ UNCHANGED <<config, elected, timers, pending, user, sinceContact, panicked, restarts>>

\* A crash, and newRaft on what was saved; without snapshots Config.Applied is 0.
LoadStatePanics ==
  hardState.commit < NewLog(storage).committed \/ hardState.commit > MSLastIndex(storage)
\* newRaft ends with a line of the log that asks for lastTerm.
SavedTermPanics == MSTerm(storage, MSLastIndex(storage)) \in {ErrCompacted, ErrUnavailable}
Restart ==
  /\ restarts < MaxRestarts
  /\ restarts' = restarts + 1
  /\ panicked' = IF LoadStatePanics \/ SavedTermPanics THEN "log" ELSE "no"
  /\ currentTerm' = hardState.term /\ vote' = hardState.vote
  /\ log' = [NewLog(storage) EXCEPT !.committed = hardState.commit]
  /\ state' = "Follower" /\ lead' = None
  /\ ResetTimers
  /\ pending' = {} /\ sinceContact' = ElectionTimeout
  /\ UNCHANGED <<config, user>>

ReceiveApp ==
  \E t \in Terms :
    \E prev, last \in 0 .. Len(LeaderLog[t]), c \in CommitsOf(t) :
      StepApp(t, MsgApp(t, prev, last, c))

\* stepCandidate, the answer to a vote, which a leader handles as well: it is
\* recorded, and the poll stays undecided.
ReceiveVoteResp ==
  /\ state # "Follower"
  /\ IF RecordVotePanics THEN Panic("votes") ELSE UNCHANGED vars

\* Granted, rejected or ignored, lastTerm is asked for.
ReceiveVote ==
  IF LastTermPanics THEN Panic("log") ELSE
  \E m \in VoteRequests :
    StepVote(m) \/ \E type \in {"MsgVote", "MsgPreVote"} : StepVoteNoChange(m, type)

\* MsgHup comes from tickElection alone.
Next ==
  /\ panicked = "no"
  /\ \/ Tick
     \/ ReceiveVote \/ ReceiveVoteResp
     \/ ReceiveApp \/ \E t \in Terms : StepHeartbeat(t)
     \/ CallBecomeCandidate \/ CallBecomeLeader
     \/ SaveAndSend \/ Apply \/ Restart

Spec == Init /\ [][Next]_vars

\* The user keeps calling tick.
FairSpec == Spec /\ WF_vars(panicked = "no" /\ Tick)
-----------------------------------------------------------------------------
(* Properties. *)

TypeOK ==
  /\ config \in Configs
  /\ currentTerm \in Nat
  /\ vote \in Peers \cup {Self, None} /\ lead \in Peers \cup {Self, None}
  /\ state \in {"Follower", "PreCandidate", "Candidate", "Leader"}
  /\ electionElapsed \in 0 .. MaxElapsed /\ heartbeatElapsed \in 0 .. HeartbeatTimeout - 1
  /\ randomizedTimeout \in Nat /\ sinceContact \in 0 .. ElectionTimeout
  /\ hardState \in [term : Nat, vote : Peers \cup {Self, None}, commit : Nat]
  /\ pending \cup sent \subseteq [term : Nat, to : Peers]
  /\ panicked \in Panics /\ restarts \in 0 .. MaxRestarts

\* No order of ticks, votes, MsgApps, campaigns, batches and crashes takes log.go,
\* log_unstable.go or storage.go to a panic, and no HardState is out of range for
\* loadState: whatever the Term of the node, and whatever its tracker holds.
NoLogPanic == panicked # "log"

\* A candidate, and the leader it may become, has voted for itself: reset must
\* not undo it, no request of another candidate may replace it.
OwnVote == state \in {"Candidate", "Leader"} => vote = Self

\* The votes a node has let out give no two candidates the same term, whatever
\* was asked in which order, although Step keeps no term with a vote, and
\* although a crash may come between the vote and its being saved.
OneVotePerTerm == \A v, w \in sent : v.term = w.term => v.to = w.to

\* No tick is late: a node that may campaign never stands at or past its
\* timeout, and a leader at or past the end of its heartbeat.
TimersInRange ==
  /\ Promotable /\ state # "Leader" => electionElapsed < randomizedTimeout
  /\ state = "Leader" => electionElapsed < ElectionTimeout /\ heartbeatElapsed < HeartbeatTimeout

\* During a campaign no committed change of the configuration is unapplied:
\* none was when it began, and a campaigning node commits nothing.
CampaignKnowsConfig ==
  state \in {"PreCandidate", "Candidate"} =>
    \A i \in ConfChanges : i <= log.applied \/ i > log.committed

\* With checkQuorum a node that heard from a leader less than an election
\* timeout ago gives no new vote to another, whether it has changed sides
\* meanwhile or not, except to the target of a leader transfer.
LeaseHolds ==
  [][config.checkQuorum /\ sinceContact < ElectionTimeout /\ restarts' = restarts /\ vote' # vote
       => \/ vote' = Self
          \/ \E m \in VoteRequests : m.transfer /\ m.from = vote']_vars

\* The timer of a node that may campaign, or leads, runs down and is set back
\* again and again, by a leader, a vote or a campaign: no silence is endless.
TimerKeepsFiring ==
  \/ []<>~(Promotable /\ panicked = "no" /\ currentTerm < MaxTerm)
  \/ []<><<electionElapsed > 0 /\ electionElapsed' = 0>>_vars

\* raft.go, raft.Vote: "in the current term, the node the vote is given to".
\* A candidate's vote is its own, so in its term nobody else may have one.
CandidateHasTheOnlyVote == state = "Candidate" => \A v \in sent : v.term # currentTerm

\* raft.go, send: the Term of a message of the election must not be 0, which it
\* panics on.  The rejection of a vote is such a message.
VotesCarryATerm == panicked # "send"
=============================================================================
