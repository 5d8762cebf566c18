--------------------------- MODULE RaftNodeProofs ---------------------------
(***************************************************************************)
(* RaftNode for every history of leaders, every set of requests for the    *)
(* vote, of configurations and of timeouts, and any number of campaigns    *)
(* and crashes.                                                            *)
(*                                                                         *)
(* The votes: what a node lets out, or has granted and not let out, is for *)
(* its vote, unless its vote is its own by now; and what it has let out is *)
(* for the vote it saved, which is what a crash leaves it.  The lease: as  *)
(* long as a leader was heard less than an election timeout ago, the timer *)
(* has not run longer than that, and the leader is known or the node votes *)
(* for itself.  The panics: the log need not agree with any leader's here, *)
(* since becomeLeader may append in a term that another node leads, but    *)
(* its indexes keep log.go from every panic.                               *)
(***************************************************************************)
EXTENDS RaftNode, RaftLogProofs

Nodes == Peers \cup {Self, None}
States == {"Follower", "PreCandidate", "Candidate", "Leader"}
HardStates == [term : Nat, vote : Nodes, commit : Nat]
-----------------------------------------------------------------------------
(* The log and the storage, as far as their indexes go. *)

LogsOf(O, U) == [offset : O, unstable : U, committed : Nat, applied : Nat]
IsLog(l) == \E O, U : l \in LogsOf(O, U)
StoragesOf(E, S) == [index : Nat, ents : E, snap : S]
IsStorage(s) == \E E, S : s \in StoragesOf(E, S)

\* r is l with its entries moved.
Kept(l, r) == IsLog(r) /\ r.committed = l.committed /\ r.applied = l.applied

LEMMA IndexesAreNat ==
  ASSUME NEW l, IsLog(l)
  PROVE  l.committed \in Nat /\ l.applied \in Nat
BY DEF IsLog, LogsOf

LEMMA UnstableFields ==
  ASSUME NEW l, IsLog(l), NEW u, NEW r, r = [l EXCEPT !.unstable = u]
  PROVE  Kept(l, r)
<1>1. PICK O, U : l \in LogsOf(O, U)
  BY Zenon DEF IsLog
<1> DEFINE V == U \cup {u}
<1>2. l \in LogsOf(O, V) /\ u \in V
  BY <1>1 DEF LogsOf
<1> HIDE DEF V
<1>3. /\ r \in LogsOf(O, V)
      /\ r.committed = l.committed /\ r.applied = l.applied
  BY <1>2 DEF LogsOf
<1> QED
  BY <1>3, Zenon DEF IsLog, Kept

LEMMA OffsetFields ==
  ASSUME NEW l, IsLog(l), NEW p, NEW u, NEW r,
         r = [l EXCEPT !.offset = p, !.unstable = u]
  PROVE  Kept(l, r)
<1>1. PICK O, U : l \in LogsOf(O, U)
  BY Zenon DEF IsLog
<1> DEFINE P == O \cup {p}
           V == U \cup {u}
<1>2. l \in LogsOf(P, V) /\ p \in P /\ u \in V
  BY <1>1 DEF LogsOf
<1> HIDE DEF P, V
<1>3. /\ r \in LogsOf(P, V)
      /\ r.committed = l.committed /\ r.applied = l.applied
  BY <1>2 DEF LogsOf
<1> QED
  BY <1>3, Zenon DEF IsLog, Kept

\* log_unstable.go, truncateAndAppend, in each of its three cases.
LEMMA AppendKeeps ==
  ASSUME NEW l, IsLog(l), NEW first, NEW ents, NEW r, r = AppendEntries(l, first, ents)
  PROVE  Kept(l, r)
<1>1. CASE first = l.offset + Len(l.unstable)
  <2> DEFINE u == l.unstable \o ents
  <2>1. r = [l EXCEPT !.unstable = u]
    BY <1>1 DEF AppendEntries, TruncateAndAppend
  <2> HIDE DEF u
  <2> QED
    BY <2>1, UnstableFields
<1>2. CASE first # l.offset + Len(l.unstable) /\ first <= l.offset
  <2>1. r = [l EXCEPT !.offset = first, !.unstable = ents]
    BY <1>2 DEF AppendEntries, TruncateAndAppend
  <2> QED
    BY <2>1, OffsetFields
<1>3. CASE first # l.offset + Len(l.unstable) /\ ~(first <= l.offset)
  <2> DEFINE u == SubSeq(l.unstable, 1, first - l.offset) \o ents
  <2>1. r = [l EXCEPT !.unstable = u]
    BY <1>3 DEF AppendEntries, TruncateAndAppend
  <2> HIDE DEF u
  <2> QED
    BY <2>1, UnstableFields
<1> QED
  BY <1>1, <1>2, <1>3, Zenon

LEMMA StableToKeeps ==
  ASSUME NEW l, IsLog(l), NEW i, NEW t, NEW r, r = StableTo(l, i, t)
  PROVE  Kept(l, r)
<1>1. CASE InUnstable(l, i) /\ UnstableTerm(l, i) = t
  <2> DEFINE u == SubSeq(l.unstable, i + 1 - l.offset + 1, Len(l.unstable))
  <2>1. r = [l EXCEPT !.offset = i + 1, !.unstable = u]
    BY <1>1 DEF StableTo
  <2> HIDE DEF u
  <2> QED
    BY <2>1, OffsetFields
<1>2. CASE ~(InUnstable(l, i) /\ UnstableTerm(l, i) = t)
  <2>1. r = l
    BY <1>2 DEF StableTo
  <2> QED
    BY <2>1, Zenon DEF Kept
<1> QED
  BY <1>1, <1>2, Zenon

LEMMA CommitToIsLog ==
  ASSUME NEW l, IsLog(l), NEW i \in Nat, NEW r, r = CommitTo(l, i)
  PROVE  IsLog(r)
<1>1. PICK O, U : l \in LogsOf(O, U)
  BY Zenon DEF IsLog
<1> DEFINE m == Max2(l.committed, i)
<1>2. m \in Nat
  BY <1>1 DEF Max2, LogsOf
<1>3. r = [l EXCEPT !.committed = m]
  BY DEF CommitTo
<1> HIDE DEF m
<1>4. r \in LogsOf(O, U)
  BY <1>1, <1>2, <1>3 DEF LogsOf
<1> QED
  BY <1>4, Zenon DEF IsLog

LEMMA MaybeAppendIsLog ==
  ASSUME NEW s, NEW l, IsLog(l), NEW index \in Nat, NEW committed \in Nat,
         NEW T, NEW ents \in Seq(T)
  PROVE  IsLog(MaybeAppend(s, l, index, committed, ents))
<1> DEFINE appended == AppendFromConflict(s, l, index, ents)
           n == Min2(committed, index + Len(ents))
           ci == FindConflict(s, l, index + 1, ents)
           rest == SubSeq(ents, ci - index, Len(ents))
<1>1. appended = l \/ appended = AppendEntries(l, ci, rest)
  BY Zenon DEF AppendFromConflict
<1>2. Len(ents) \in Nat
  OBVIOUS
<1>3. n \in Nat
  BY <1>2 DEF Min2
<1> HIDE DEF appended, n, ci, rest
<1>4. IsLog(appended)
  BY <1>1, AppendKeeps, Zenon DEF Kept
<1>5. IsLog(CommitTo(appended, n))
  BY <1>3, <1>4, CommitToIsLog, Zenon
<1> QED
  BY <1>5, Zenon DEF MaybeAppend, appended, n

\* appliedTo, as the user calls it.
LEMMA AppliedToCommitted ==
  ASSUME NEW l, IsLog(l), l.applied < l.committed, NEW r, r = AppliedTo(l, l.committed)
  PROVE  IsLog(r) /\ r.committed = l.committed /\ r.applied = l.committed
<1>1. PICK O, U : l \in LogsOf(O, U)
  BY Zenon DEF IsLog
<1>2. l.committed # 0
  BY <1>1 DEF LogsOf
<1>3. r = [l EXCEPT !.applied = l.committed]
  BY <1>2 DEF AppliedTo
<1>4. r \in LogsOf(O, U) /\ r.committed = l.committed /\ r.applied = l.committed
  BY <1>1, <1>3 DEF LogsOf
<1> QED
  BY <1>4, Zenon DEF IsLog

LEMMA MSAppendIsStorage ==
  ASSUME NEW s, IsStorage(s), NEW first, NEW ents, NEW r, r = MSAppend(s, first, ents)
  PROVE  IsStorage(r)
<1>1. PICK E, S : s \in StoragesOf(E, S)
  BY Zenon DEF IsStorage
<1>2. CASE MSAppendIgnored(s, first, ents)
  BY <1>2, Zenon DEF MSAppend
<1>3. CASE ~MSAppendIgnored(s, first, ents)
  <2> DEFINE e == SubSeq(s.ents, 1, NewFirst(s, first) - s.index) \o NewEntries(s, first, ents)
             F == E \cup {e}
  <2>1. r = [s EXCEPT !.ents = e]
    BY <1>3 DEF MSAppend
  <2>2. s \in StoragesOf(F, S) /\ e \in F
    BY <1>1 DEF StoragesOf
  <2> HIDE DEF e, F
  <2>3. r \in StoragesOf(F, S)
    BY <2>1, <2>2 DEF StoragesOf
  <2> QED
    BY <2>3, Zenon DEF IsStorage
<1> QED
  BY <1>2, <1>3, Zenon

LEMMA NewLogIsLog ==
  ASSUME NEW s, IsStorage(s)
  PROVE  /\ IsLog(NewLog(s))
         /\ \A c \in Nat : IsLog([NewLog(s) EXCEPT !.committed = c])
<1>1. s.index \in Nat
  BY DEF IsStorage, StoragesOf
<1> DEFINE o == MSLastIndex(s) + 1
           l == NewLog(s)
<1>2. MSFirstIndex(s) - 1 \in Nat
  BY <1>1 DEF MSFirstIndex
<1>3. l \in LogsOf({o}, {<<>>})
  BY <1>2 DEF NewLog, LogsOf
<1> HIDE DEF o, l
<1>4. ASSUME NEW c \in Nat, NEW r, r = [l EXCEPT !.committed = c]
      PROVE  r \in LogsOf({o}, {<<>>})
  BY <1>3, <1>4 DEF LogsOf
<1>5. IsLog(l)
  BY <1>3, Zenon DEF IsLog
<1>6. ASSUME NEW c \in Nat
      PROVE  IsLog([l EXCEPT !.committed = c])
  BY <1>4, Zenon DEF IsLog
<1> QED
  BY <1>5, <1>6, Zenon DEF l
-----------------------------------------------------------------------------
(* The invariant. *)

Elected ==
  /\ config \in Configs /\ currentTerm \in Nat
  /\ vote \in Nodes /\ lead \in Nodes /\ state \in States
  /\ restarts \in 0 .. MaxRestarts

Timers ==
  /\ electionElapsed \in 0 .. MaxElapsed
  /\ heartbeatElapsed \in 0 .. HeartbeatTimeout - 1
  /\ randomizedTimeout \in ElectionTimeout .. 2 * ElectionTimeout - 1
  /\ sinceContact \in 0 .. ElectionTimeout

Logs == IsLog(log) /\ IsStorage(storage) /\ hardState \in HardStates

Votes ==
  /\ pending \cup sent \subseteq [term : Nat, to : Peers]
  /\ \A v \in sent : hardState.vote = Self \/ hardState.vote = v.to
  /\ \A v \in pending \cup sent : vote = Self \/ vote = v.to
  /\ \A v, w \in pending \cup sent : v.to = w.to

\* TimersInRange without Promotable, a Boolean.
FollowerInTime == electionElapsed < randomizedTimeout
LeaderInTime == electionElapsed < ElectionTimeout

InTime ==
  /\ Promotable /\ state # "Leader" => FollowerInTime
  /\ state = "Leader" => LeaderInTime

Lease ==
  sinceContact < ElectionTimeout =>
    electionElapsed <= sinceContact /\ (lead # None \/ vote = Self)

IInv ==
  /\ Elected /\ Timers /\ Logs /\ panicked \in Panics
  /\ Votes /\ OwnVote /\ CampaignKnowsConfig /\ InTime /\ Lease

\* A panic, from whatever cause.
PanicsInTick == \E cause \in Panics : PanicInTick(cause)
PanicsNow == \E cause \in Panics : Panic(cause)

LEMMA Causes ==
  /\ "no" \in Panics /\ "log" \in Panics /\ "send" \in Panics
  /\ "votes" \in Panics /\ "progress" \in Panics
  /\ "no" # "log" /\ "send" # "log" /\ "votes" # "log" /\ "progress" # "log"
BY DEF Panics

LEMMA PanicIsOne ==
  ASSUME NEW cause \in Panics
  PROVE  PanicInTick(cause) => PanicsInTick /\ (UNCHANGED sinceContact => PanicsNow)
BY Zenon DEF PanicsInTick, PanicsNow, Panic

\* What does not change keeps its part of the invariant.
LEMMA Frame ==
  ASSUME IInv
  PROVE  /\ UNCHANGED <<config, currentTerm, vote, lead, state, restarts>> => Elected'
         /\ UNCHANGED <<electionElapsed, heartbeatElapsed, randomizedTimeout, sinceContact>>
              => Timers'
         /\ UNCHANGED <<log, storage, hardState>> => Logs'
         /\ UNCHANGED <<pending, sent, vote, hardState>> => Votes'
         /\ UNCHANGED <<state, vote>> => OwnVote'
         /\ UNCHANGED <<state, log>> => CampaignKnowsConfig'
         /\ UNCHANGED <<config, state, electionElapsed, randomizedTimeout>> => InTime'
         /\ UNCHANGED <<sinceContact, electionElapsed, lead, vote>> => Lease'
BY Zenon DEF IInv, Elected, Timers, Logs, Votes, OwnVote, CampaignKnowsConfig, InTime,
             FollowerInTime, LeaderInTime, Promotable, Lease

LEMMA Constants ==
  /\ None \notin Peers /\ None # Self /\ Self \notin Peers
  /\ LeaderId \in [Terms -> Peers]
  /\ VoteRequests \subseteq [from : Peers, term : Nat \ {0}, index : Nat, logTerm : Nat,
                             transfer : BOOLEAN]
  /\ ConfChanges \subseteq Nat /\ StartTerms \subseteq Nat
  /\ HeartbeatTimeout \in Nat /\ HeartbeatTimeout > 0
  /\ ElectionTimeout \in Nat /\ ElectionTimeout > 0
  /\ MaxTerm \in Nat /\ MaxRestarts \in Nat
BY RaftNodeAssumption

\* reset sets both timers back and draws a timeout.
LEMMA ResetIsInTime ==
  ASSUME ResetTimers
  PROVE  /\ electionElapsed' = 0 /\ heartbeatElapsed' = 0
         /\ randomizedTimeout' \in ElectionTimeout .. 2 * ElectionTimeout - 1
         /\ electionElapsed' \in 0 .. MaxElapsed /\ heartbeatElapsed' \in 0 .. HeartbeatTimeout - 1
         /\ FollowerInTime' /\ LeaderInTime' /\ InTime'
<1>1. /\ electionElapsed' = 0 /\ heartbeatElapsed' = 0
      /\ randomizedTimeout' \in ElectionTimeout .. 2 * ElectionTimeout - 1
  BY DEF ResetTimers, RandomizedTimeouts
<1>2. /\ electionElapsed' \in 0 .. MaxElapsed /\ heartbeatElapsed' \in 0 .. HeartbeatTimeout - 1
  BY <1>1, Constants DEF MaxElapsed
<1>3. FollowerInTime' /\ LeaderInTime'
  BY <1>1, Constants DEF FollowerInTime, LeaderInTime
<1> QED
  BY <1>1, <1>2, <1>3, Zenon DEF InTime

LEMMA InitEstablishes == Init => IInv
<1> SUFFICES ASSUME Init
             PROVE  IInv
  OBVIOUS
<1>1. /\ config \in Configs /\ currentTerm \in StartTerms
      /\ vote = None /\ lead = None /\ state = "Follower"
      /\ electionElapsed = 0 /\ heartbeatElapsed = 0
      /\ randomizedTimeout \in RandomizedTimeouts
      /\ storage = NewMemoryStorage /\ log = NewLog(storage)
      /\ hardState = [term |-> currentTerm, vote |-> None, commit |-> 0]
      /\ pending = {} /\ sent = {}
      /\ sinceContact = ElectionTimeout /\ restarts = 0
  BY DEF Init
<1>2. Elected
  BY <1>1, Constants DEF Elected, Nodes, States
<1>3. Timers
  BY <1>1, Constants DEF Timers, RandomizedTimeouts, MaxElapsed
<1>4. Logs
  <2>1. storage \in StoragesOf({<<0>>}, {[index |-> 0, term |-> 0]})
    BY <1>1 DEF NewMemoryStorage, StoragesOf
  <2>2. IsStorage(storage)
    BY <2>1, Zenon DEF IsStorage
  <2>3. IsLog(log)
    BY <1>1, <2>2, NewLogIsLog, Zenon
  <2>4. hardState \in HardStates
    BY <1>1, Constants DEF HardStates, Nodes
  <2> QED
    BY <2>2, <2>3, <2>4, Zenon DEF Logs
<1>5. panicked \in Panics
  <2>1. panicked = "no"
    BY Zenon DEF Init
  <2> QED
    BY <2>1, Causes, Zenon
<1>6. Votes
  BY <1>1 DEF Votes
<1>7. OwnVote /\ CampaignKnowsConfig
  BY <1>1 DEF OwnVote, CampaignKnowsConfig
<1>8. FollowerInTime
  BY <1>1, Constants DEF FollowerInTime, RandomizedTimeouts
<1>9. InTime
  BY <1>1, <1>8 DEF InTime
<1>10. Lease
  BY <1>1, Constants DEF Lease
<1> QED
  BY <1>2, <1>3, <1>4, <1>5, <1>6, <1>7, <1>9, <1>10, Zenon DEF IInv
-----------------------------------------------------------------------------
(* Ticks. *)

\* The count of ticks since the last contact stays in range, and below an
\* election timeout it is exact.
LEMMA ContactLater ==
  ASSUME Timers, SinceContactNext
  PROVE  /\ sinceContact' \in 0 .. ElectionTimeout
         /\ sinceContact' < ElectionTimeout =>
              sinceContact < ElectionTimeout /\ sinceContact' = sinceContact + 1
BY Constants DEF Timers, SinceContactNext, Min2

LEMMA PanicPreserves ==
  ASSUME IInv, PanicsInTick, UNCHANGED sinceContact \/ SinceContactNext
  PROVE  IInv'
<1> PICK cause \in Panics : PanicInTick(cause)
  BY Zenon DEF PanicsInTick
<1>1. /\ UNCHANGED <<config, currentTerm, vote, lead, state, restarts>>
      /\ UNCHANGED <<electionElapsed, heartbeatElapsed, randomizedTimeout>>
      /\ UNCHANGED <<log, pending, storage, hardState, sent>>
  BY DEF PanicInTick, elected, timers, user
<1>2. panicked' \in Panics
  BY Zenon DEF PanicInTick
<1>3. Timers /\ Lease
  BY Zenon DEF IInv
<1>4. Timers' /\ Lease'
  <2>1. CASE UNCHANGED sinceContact
    BY <1>1, <2>1, Frame
  <2>2. CASE SinceContactNext
    <3>1. Timers'
      BY <1>1, <1>3, <2>2, ContactLater DEF Timers, MaxElapsed
    <3>2. Lease'
      BY <1>1, <1>3, <2>2, ContactLater DEF Timers, Lease
    <3> QED
      BY <3>1, <3>2, Zenon
  <2> QED
    BY <2>1, <2>2, Zenon
<1>5. Elected' /\ Logs' /\ Votes' /\ OwnVote' /\ CampaignKnowsConfig' /\ InTime'
  BY <1>1, Frame
<1> QED
  BY <1>2, <1>4, <1>5, Zenon DEF IInv

\* A tick that is only counted, or a MsgHup that is refused: in both cases the
\* timer is set to something that is in time.
LEMMA CountPreserves ==
  ASSUME IInv, SinceContactNext, state # "Leader",
         UNCHANGED <<config, elected, heartbeatElapsed, randomizedTimeout, log,
                     pending, user, panicked, restarts>>,
         \/ electionElapsed' = 0
         \/ /\ ~(Promotable /\ PastElectionTimeout(electionElapsed + 1))
            /\ electionElapsed' = Min2(electionElapsed + 1, MaxElapsed)
  PROVE  IInv'
<1>1. /\ UNCHANGED <<config, currentTerm, vote, lead, state, restarts>>
      /\ UNCHANGED <<heartbeatElapsed, randomizedTimeout>>
      /\ UNCHANGED <<log, pending, storage, hardState, sent>>
  BY DEF elected, user
<1>2. panicked' \in Panics
  BY Zenon DEF IInv
<1>3. Timers /\ Lease
  BY Zenon DEF IInv
<1>4. /\ electionElapsed' \in 0 .. MaxElapsed
      /\ electionElapsed' <= electionElapsed + 1
  BY <1>3, Constants DEF Timers, MaxElapsed, Min2
<1>5. Timers'
  BY <1>1, <1>3, <1>4, ContactLater DEF Timers, MaxElapsed
<1>6. Lease'
  BY <1>1, <1>3, <1>4, ContactLater DEF Timers, Lease
<1>7. InTime'
  <2>1. CASE electionElapsed' = 0
    <3>1. FollowerInTime'
      BY <1>1, <1>3, <2>1, Constants DEF Timers, FollowerInTime
    <3>2. state' # "Leader"
      BY <1>1
    <3> QED
      BY <3>1, <3>2, Zenon DEF InTime
  <2>2. CASE /\ ~(Promotable /\ PastElectionTimeout(electionElapsed + 1))
             /\ electionElapsed' = Min2(electionElapsed + 1, MaxElapsed)
    <3>1. ~PastElectionTimeout(electionElapsed + 1) => FollowerInTime'
      BY <1>1, <1>3, <2>2, Constants
         DEF Timers, FollowerInTime, PastElectionTimeout, Min2, MaxElapsed
    <3>2. config' = config /\ state' # "Leader"
      BY <1>1
    <3>3. Promotable' => Promotable
      BY <3>2, Zenon DEF Promotable
    <3> QED
      BY <2>2, <3>1, <3>2, <3>3, Zenon DEF InTime
  <2> QED
    BY <2>1, <2>2, Zenon
<1>8. Elected' /\ Logs' /\ Votes' /\ OwnVote' /\ CampaignKnowsConfig'
  BY <1>1, Frame
<1> QED
  BY <1>2, <1>5, <1>6, <1>7, <1>8, Zenon DEF IInv

\* When the timer fires no leader was heard for an election timeout.
LEMMA FiredOutsideLease ==
  ASSUME IInv, SinceContactNext, PastElectionTimeout(electionElapsed + 1)
  PROVE  sinceContact' = ElectionTimeout
<1>1. Timers /\ Lease
  BY Zenon DEF IInv
<1> QED
  BY <1>1, Constants DEF Timers, Lease, SinceContactNext, PastElectionTimeout, Min2

\* ~ConfPending, in the terms of CampaignKnowsConfig.
KnowsConfig == \A i \in ConfChanges : i <= log.applied \/ i > log.committed

LEMMA NoneIsPending ==
  ASSUME IInv, ~ConfPending
  PROVE  KnowsConfig
<1>1. log.committed \in Nat /\ log.applied \in Nat
  BY IndexesAreNat, Zenon DEF IInv, Logs
<1>2. \A i \in log.applied + 1 .. log.committed : i \notin ConfChanges
  BY Zenon DEF ConfPending
<1> DEFINE a == log.applied
           c == log.committed
<1> HIDE DEF a, c
<1>3. a \in Nat /\ c \in Nat /\ \A i \in a + 1 .. c : i \notin ConfChanges
  BY <1>1, <1>2, Zenon DEF a, c
<1>4. \A i \in ConfChanges : i <= a \/ i > c
  BY <1>3, Constants
<1> QED
  BY <1>4, Zenon DEF KnowsConfig, a, c

\* A pre-campaign changes the state and forgets the leader.
LEMMA PreCampaignPreserves ==
  ASSUME IInv, SinceContactNext, PastElectionTimeout(electionElapsed + 1), KnowsConfig,
         BecomePreCandidate(0), UNCHANGED <<config, log, pending, user, panicked, restarts>>
  PROVE  IInv'
<1>1. /\ state' = "PreCandidate" /\ lead' = None /\ electionElapsed' = 0
      /\ UNCHANGED <<currentTerm, vote, heartbeatElapsed, randomizedTimeout, config, restarts>>
      /\ UNCHANGED <<log, pending, storage, hardState, sent>>
  BY DEF BecomePreCandidate, user
<1>2. panicked' \in Panics
  BY Zenon DEF IInv
<1>3. Timers /\ Elected
  BY Zenon DEF IInv
<1>4. sinceContact' = ElectionTimeout
  BY FiredOutsideLease
<1>5. Elected'
  BY <1>1, <1>3 DEF Elected, Nodes, States
<1>6. Timers'
  BY <1>1, <1>3, <1>4, Constants DEF Timers, MaxElapsed
<1>7. Lease'
  BY <1>4, Constants DEF Lease
<1>8. InTime'
  <2>1. FollowerInTime'
    BY <1>1, <1>3, Constants DEF Timers, FollowerInTime
  <2> QED
    BY <1>1, <2>1 DEF InTime
<1>9. OwnVote'
  BY <1>1 DEF OwnVote
<1>10. CampaignKnowsConfig'
  BY <1>1, Zenon DEF CampaignKnowsConfig, KnowsConfig
<1>11. Logs' /\ Votes'
  BY <1>1, Frame
<1> QED
  BY <1>2, <1>5, <1>6, <1>7, <1>8, <1>9, <1>10, <1>11, Zenon DEF IInv

\* A campaign, of tickElection or of other code, votes for the node itself.
LEMMA CampaignPreserves ==
  ASSUME IInv, BecomeCandidate, KnowsConfig, UNCHANGED sinceContact \/ SinceContactNext,
         UNCHANGED <<config, log, pending, user, panicked, restarts>>
  PROVE  IInv'
<1>1. /\ currentTerm' = currentTerm + 1 /\ vote' = Self /\ lead' = None
      /\ state' = "Candidate" /\ ResetTimers
      /\ UNCHANGED <<config, restarts, log, pending, storage, hardState, sent>>
  BY DEF BecomeCandidate, user
<1>2. panicked' \in Panics
  BY Zenon DEF IInv
<1>3. Timers /\ Elected /\ Votes
  BY Zenon DEF IInv
<1>4. sinceContact' \in 0 .. ElectionTimeout
  BY <1>3, ContactLater DEF Timers
<1>5. Elected'
  BY <1>1, <1>3 DEF Elected, Nodes, States
<1>6. Timers'
  BY <1>1, <1>4, ResetIsInTime DEF Timers
<1>7. Lease'
  BY <1>1, <1>4, ResetIsInTime DEF Lease
<1>8. InTime'
  BY <1>1, ResetIsInTime, Zenon
<1>9. OwnVote'
  BY <1>1 DEF OwnVote
<1>10. CampaignKnowsConfig'
  BY <1>1, Zenon DEF CampaignKnowsConfig, KnowsConfig
<1>11. Votes'
  BY <1>1, <1>3, Zenon DEF Votes
<1>12. Logs'
  BY <1>1, Frame
<1> QED
  BY <1>2, <1>5, <1>6, <1>7, <1>8, <1>9, <1>10, <1>11, <1>12, Zenon DEF IInv

LEMMA TickElectionPreserves ==
  ASSUME IInv, TickElection
  PROVE  IInv'
<1>1. state # "Leader" /\ SinceContactNext
  BY Zenon DEF TickElection
<1>2. CASE Promotable /\ PastElectionTimeout(electionElapsed + 1)
  <2>1. Hup(0)
    BY <1>2, Zenon DEF TickElection
  <2>2. CASE PanicsInTick
    BY <1>1, <2>2, PanicPreserves, Zenon
  <2>3. CASE /\ electionElapsed' = 0
             /\ UNCHANGED <<config, elected, heartbeatElapsed, randomizedTimeout, log,
                            pending, user, panicked, restarts>>
    BY <1>1, <2>3, CountPreserves, Zenon
  <2>4. CASE Campaign(0) /\ ~ConfPending
    <3>1. KnowsConfig
      BY <2>4, NoneIsPending, Zenon
    <3>2. \/ PanicsInTick
          \/ BecomePreCandidate(0) /\ UNCHANGED <<config, log, pending, user, panicked, restarts>>
          \/ BecomeCandidate /\ UNCHANGED <<config, log, pending, user, panicked, restarts>>
      BY <2>4, Causes, PanicIsOne, Zenon DEF Campaign
    <3> QED
      BY <1>1, <1>2, <3>1, <3>2, PanicPreserves, PreCampaignPreserves, CampaignPreserves, Zenon
  <2> QED
    BY <1>1, <2>1, <2>2, <2>3, <2>4, Causes, PanicIsOne, Zenon DEF Hup
<1>3. CASE ~(Promotable /\ PastElectionTimeout(electionElapsed + 1))
  BY <1>1, <1>3, CountPreserves, Zenon DEF TickElection
<1> QED
  BY <1>2, <1>3, Zenon

LEMMA TickHeartbeatPreserves ==
  ASSUME IInv, TickHeartbeat
  PROVE  IInv'
<1>1. /\ UNCHANGED <<config, currentTerm, vote, lead, state, restarts>>
      /\ UNCHANGED <<randomizedTimeout, log, pending, storage, hardState, sent>>
      /\ state = "Leader" /\ SinceContactNext
  BY DEF TickHeartbeat, elected, user
<1>2. panicked' \in Panics
  BY Zenon DEF IInv, TickHeartbeat
<1>3. Timers /\ Lease /\ InTime
  BY Zenon DEF IInv
<1>4. LeaderInTime
  BY <1>1, <1>3, Zenon DEF InTime
<1>5. /\ electionElapsed' \in 0 .. ElectionTimeout - 1
      /\ electionElapsed' <= electionElapsed + 1
      /\ heartbeatElapsed' \in 0 .. HeartbeatTimeout - 1
  BY <1>3, Constants DEF TickHeartbeat, Timers
<1>6. Timers'
  BY <1>1, <1>3, <1>5, ContactLater, Constants DEF Timers, MaxElapsed
<1>7. Lease'
  BY <1>1, <1>3, <1>5, ContactLater DEF Timers, Lease
<1>8. InTime'
  <2>1. LeaderInTime'
    BY <1>5, Constants DEF LeaderInTime
  <2> QED
    BY <1>1, <2>1 DEF InTime
<1>9. Elected' /\ Logs' /\ Votes' /\ OwnVote' /\ CampaignKnowsConfig'
  BY <1>1, Frame
<1> QED
  BY <1>2, <1>6, <1>7, <1>8, <1>9, Zenon DEF IInv
-----------------------------------------------------------------------------
(* What other nodes send. *)

\* A vote is given to one node only: to another one the vote that is there, or
\* the leader, is in the way.
LEMMA VoteIsFreeOrSame ==
  ASSUME IInv, NEW m \in VoteRequests, StepVote(m)
  PROVE  /\ m.from \in Peers /\ m.term \in Nat
         /\ vote = m.from \/ (vote = None /\ lead = None)
<1>1. m.from \in Peers /\ m.term \in Nat
  BY Constants
<1>2. CanVote(m, "MsgVote")
  BY Zenon DEF StepVote, Grants
<1>3. "MsgVote" # "MsgPreVote"
  OBVIOUS
<1> QED
  BY <1>1, <1>2, <1>3, Zenon DEF CanVote

LEMMA StepVotePreserves ==
  ASSUME IInv, NEW m \in VoteRequests, StepVote(m)
  PROVE  IInv'
<1>1. /\ m.from \in Peers /\ m.term \in Nat
      /\ vote = m.from \/ (vote = None /\ lead = None)
  BY VoteIsFreeOrSame
<1>2. /\ vote' = m.from /\ electionElapsed' = 0
      /\ pending' = pending \cup {[term |-> m.term, to |-> m.from]}
      /\ UNCHANGED <<config, currentTerm, state, lead, heartbeatElapsed, randomizedTimeout>>
      /\ UNCHANGED <<log, storage, hardState, sent, sinceContact, restarts>>
  BY DEF StepVote, user
<1>3. panicked' \in Panics
  BY Zenon DEF IInv, StepVote
<1>4. Timers /\ Elected /\ Votes /\ OwnVote /\ Lease
  BY Zenon DEF IInv
<1>5. vote # Self
  BY <1>1, Constants
<1>6. Elected'
  BY <1>1, <1>2, <1>4 DEF Elected, Nodes
<1>7. Timers'
  BY <1>2, <1>4, Constants DEF Timers, MaxElapsed
<1>8. Lease'
  BY <1>1, <1>2, <1>4, <1>5, Constants DEF Lease, Timers
<1>9. InTime'
  <2>1. FollowerInTime' /\ LeaderInTime'
    BY <1>2, <1>4, Constants DEF Timers, FollowerInTime, LeaderInTime
  <2> QED
    BY <2>1, Zenon DEF InTime
<1>10. OwnVote'
  BY <1>2, <1>4, <1>5 DEF OwnVote
<1>11. Votes'
  <2> DEFINE granted == [term |-> m.term, to |-> m.from]
  <2>1. granted.to = m.from /\ granted \in [term : Nat, to : Peers]
    BY <1>1
  <2> HIDE DEF granted
  <2>2. pending' = pending \cup {granted} /\ sent' = sent /\ hardState' = hardState
    BY <1>2 DEF granted
  <2>3. \A v \in pending \cup sent : v.to \in Peers
    BY <1>4 DEF Votes
  <2>4. \A v \in pending \cup sent : v.to = m.from
    BY <1>1, <1>4, <1>5, <2>3, Constants DEF Votes
  <2> QED
    BY <1>2, <1>4, <2>1, <2>2, <2>4 DEF Votes
<1>12. Logs' /\ CampaignKnowsConfig'
  BY <1>2, Frame
<1> QED
  BY <1>3, <1>6, <1>7, <1>8, <1>9, <1>10, <1>11, <1>12, Zenon DEF IInv

LEMMA UnchangedPreserves ==
  ASSUME IInv, UNCHANGED vars
  PROVE  IInv'
<1>1. /\ UNCHANGED <<config, currentTerm, vote, lead, state, restarts>>
      /\ UNCHANGED <<electionElapsed, heartbeatElapsed, randomizedTimeout, sinceContact>>
      /\ UNCHANGED <<log, pending, storage, hardState, sent>>
  BY DEF vars, elected, timers, user
<1>2. panicked' = panicked
  BY Zenon DEF vars
<1>3. panicked' \in Panics
  BY <1>2, Zenon DEF IInv
<1> QED
  BY <1>1, <1>3, Frame, Zenon DEF IInv

\* Panic, or nothing.
LEMMA NothingPreserves ==
  ASSUME IInv, PanicsNow \/ UNCHANGED vars
  PROVE  IInv'
<1>1. PanicsNow => PanicsInTick /\ UNCHANGED sinceContact
  BY Zenon DEF PanicsNow, PanicsInTick, Panic
<1> QED
  BY <1>1, PanicPreserves, UnchangedPreserves, Zenon

\* A message of a leader: only a follower handles it, so that no campaign sees
\* the commit index move.
LEMMA HeardPreserves ==
  ASSUME IInv, NEW t \in Terms, HeardFrom(t), IsLog(log'),
         UNCHANGED <<config, currentTerm, vote, state, heartbeatElapsed,
                     randomizedTimeout, pending, user, panicked, restarts>>
  PROVE  IInv'
<1>1. /\ state = "Follower" /\ electionElapsed' = 0 /\ sinceContact' = 0
      /\ lead' = LeaderId[t]
      /\ UNCHANGED <<config, currentTerm, vote, state, heartbeatElapsed, randomizedTimeout>>
      /\ UNCHANGED <<pending, storage, hardState, sent, restarts>>
  BY DEF HeardFrom, user
<1>2. panicked' \in Panics
  BY Zenon DEF IInv
<1>3. Timers /\ Elected /\ Logs
  BY Zenon DEF IInv
<1>4. lead' \in Peers
  BY <1>1, Constants
<1>5. Elected'
  BY <1>1, <1>3, <1>4 DEF Elected, Nodes
<1>6. Timers'
  BY <1>1, <1>3, Constants DEF Timers, MaxElapsed
<1>7. Lease'
  BY <1>1, <1>4, Constants DEF Lease
<1>8. InTime'
  <2>1. FollowerInTime' /\ LeaderInTime'
    BY <1>1, <1>3, Constants DEF Timers, FollowerInTime, LeaderInTime
  <2> QED
    BY <2>1, Zenon DEF InTime
<1>9. OwnVote' /\ CampaignKnowsConfig'
  BY <1>1 DEF OwnVote, CampaignKnowsConfig
<1>10. Logs'
  BY <1>1, <1>3, Zenon DEF Logs
<1>11. Votes'
  BY <1>1, Frame
<1> QED
  BY <1>2, <1>5, <1>6, <1>7, <1>8, <1>9, <1>10, <1>11, Zenon DEF IInv

LEMMA ReceiveAppPreserves ==
  ASSUME IInv, ReceiveApp
  PROVE  IInv'
<1> PICK t \in Terms : \E prev, last \in 0 .. Len(LeaderLog[t]), c \in CommitsOf(t) :
                          StepApp(t, MsgApp(t, prev, last, c))
  BY Zenon DEF ReceiveApp
<1>1. PICK prev \in 0 .. Len(LeaderLog[t]), last \in 0 .. Len(LeaderLog[t]),
           c \in CommitsOf(t) : StepApp(t, MsgApp(t, prev, last, c))
  BY Zenon
<1> DEFINE m == MsgApp(t, prev, last, c)
<1>2. m.index \in Nat /\ m.commit \in Nat /\ m.ents \in Seq(Terms)
  <2>1. LeaderLog[t] \in Seq(Terms)
    BY LeadersAssumption
  <2>2. Len(LeaderLog[t]) \in Nat /\ Len(Decided) \in Nat
    BY <2>1, LeadersAssumption
  <2>3. prev \in Nat /\ last \in Nat /\ last <= Len(LeaderLog[t])
    BY <2>2
  <2>4. c \in Nat
    BY <2>2 DEF CommitsOf
  <2>5. SubSeq(LeaderLog[t], prev + 1, last) \in Seq(Terms)
    BY <2>1, <2>3
  <2> QED
    BY <2>3, <2>4, <2>5 DEF MsgApp
<1> HIDE DEF m
<1>3. CASE AppPanics(m)
  <2>1. PanicsNow
    BY <1>1, <1>3, Causes, Zenon DEF StepApp, m, PanicsNow
  <2> QED
    BY <2>1, NothingPreserves
<1>4. CASE ~AppPanics(m)
  <2>1. /\ HeardFrom(t)
        /\ log' = IF Accepts(m) THEN MaybeAppend(storage, log, m.index, m.commit, m.ents)
                  ELSE log
        /\ UNCHANGED <<config, currentTerm, vote, state, heartbeatElapsed,
                       randomizedTimeout, pending, user, panicked, restarts>>
    BY <1>1, <1>4, Zenon DEF StepApp, m
  <2>2. IsLog(log)
    BY Zenon DEF IInv, Logs
  <2>3. IsLog(MaybeAppend(storage, log, m.index, m.commit, m.ents))
    BY <1>2, <2>2, MaybeAppendIsLog, Zenon
  <2>4. IsLog(log')
    BY <2>1, <2>2, <2>3, Zenon
  <2> QED
    BY <2>1, <2>4, HeardPreserves, Zenon
<1> QED
  BY <1>3, <1>4, Zenon

LEMMA StepHeartbeatPreserves ==
  ASSUME IInv, NEW t \in Terms, StepHeartbeat(t)
  PROVE  IInv'
<1>1. HeardFrom(t) /\ log' = log
  BY Zenon DEF StepHeartbeat
<1>2. UNCHANGED <<config, currentTerm, vote, state, heartbeatElapsed,
                  randomizedTimeout, pending, user, panicked, restarts>>
  BY Zenon DEF StepHeartbeat
<1>3. IsLog(log')
  BY <1>1, Zenon DEF IInv, Logs
<1> QED
  BY <1>1, <1>2, <1>3, HeardPreserves, Zenon

LEMMA ReceiveVotePreserves ==
  ASSUME IInv, ReceiveVote \/ ReceiveVoteResp
  PROVE  IInv'
<1>1. CASE ReceiveVoteResp
  BY <1>1, Causes, NothingPreserves, Zenon DEF ReceiveVoteResp, PanicsNow
<1>2. CASE ReceiveVote /\ LastTermPanics
  BY <1>2, Causes, NothingPreserves, Zenon DEF ReceiveVote, PanicsNow
<1>3. CASE ReceiveVote /\ ~LastTermPanics
  <2>1. PICK m \in VoteRequests :
          StepVote(m) \/ \E type \in {"MsgVote", "MsgPreVote"} : StepVoteNoChange(m, type)
    BY <1>3, Zenon DEF ReceiveVote
  <2>2. ASSUME NEW type, StepVoteNoChange(m, type)
        PROVE  PanicsNow \/ UNCHANGED vars
    BY <2>2, Causes, Zenon DEF StepVoteNoChange, PanicsNow
  <2> QED
    BY <2>1, <2>2, StepVotePreserves, NothingPreserves, Zenon
<1> QED
  BY <1>1, <1>2, <1>3, Zenon
-----------------------------------------------------------------------------
(* Calls of becomeCandidate and becomeLeader, and the user. *)

LEMMA CallBecomeCandidatePreserves ==
  ASSUME IInv, CallBecomeCandidate
  PROVE  IInv'
<1>1. log.applied = log.committed
  BY Zenon DEF CallBecomeCandidate
<1>2. log.committed \in Nat
  BY IndexesAreNat, Zenon DEF IInv, Logs
<1>3. KnowsConfig
  BY <1>1, <1>2, Constants DEF KnowsConfig
<1>4. UNCHANGED sinceContact /\ UNCHANGED <<config, log, pending, user, panicked, restarts>>
  BY Zenon DEF CallBecomeCandidate
<1>5. BecomeCandidate
  BY Zenon DEF CallBecomeCandidate
<1> QED
  BY <1>3, <1>4, <1>5, CampaignPreserves, Zenon

LEMMA CallBecomeLeaderPreserves ==
  ASSUME IInv, CallBecomeLeader
  PROVE  IInv'
<1> DEFINE last == LastIndex(storage, log)
<1>1. CASE PanicsNow
  BY <1>1, NothingPreserves
<1>2. CASE /\ state' = "Leader" /\ lead' = Self
           /\ ResetTimers
           /\ log' = AppendEntries(log, last + 1, <<currentTerm>>)
           /\ UNCHANGED <<config, currentTerm, vote, pending, user, sinceContact,
                          panicked, restarts>>
  <2>1. /\ state = "Candidate"
        /\ UNCHANGED <<config, currentTerm, vote, sinceContact, restarts>>
        /\ UNCHANGED <<pending, storage, hardState, sent>>
    BY <1>2 DEF CallBecomeLeader, user
  <2>2. panicked' \in Panics
    BY <1>2, Zenon DEF IInv
  <2>3. Timers /\ Elected /\ Logs /\ OwnVote
    BY Zenon DEF IInv
  <2>4. Elected'
    BY <1>2, <2>1, <2>3 DEF Elected, Nodes, States
  <2>5. Timers'
    BY <2>1, <1>2, <2>3, ResetIsInTime DEF Timers
  <2>6. Lease'
    BY <1>2, <2>1, <2>3, ResetIsInTime, Constants DEF Lease, Timers
  <2>7. InTime'
    BY <1>2, ResetIsInTime, Zenon
  <2>8. OwnVote'
    BY <2>1, <2>3 DEF OwnVote
  <2>9. CampaignKnowsConfig'
    BY <1>2 DEF CampaignKnowsConfig
  <2>10. Logs'
    BY <1>2, <2>1, <2>3, AppendKeeps, Zenon DEF Logs, Kept
  <2>11. Votes'
    BY <2>1, Frame
  <2> QED
    BY <2>2, <2>4, <2>5, <2>6, <2>7, <2>8, <2>9, <2>10, <2>11, Zenon DEF IInv
<1> QED
  BY <1>1, <1>2, Causes, Zenon DEF CallBecomeLeader, PanicsNow

\* What is let out is what has been saved.
LEMMA SaveAndSendPreserves ==
  ASSUME IInv, SaveAndSend
  PROVE  IInv'
<1>0. CASE MSAppendPanics(storage, log.offset, log.unstable)
  BY <1>0, Causes, NothingPreserves, Zenon DEF SaveAndSend, PanicsNow
<1> SUFFICES ASSUME ~MSAppendPanics(storage, log.offset, log.unstable)
             PROVE  IInv'
  BY <1>0, Zenon
<1>1. /\ storage' = MSAppend(storage, log.offset, log.unstable)
      /\ log' = log \/ log' = StableTo(log, LastIndex(storage, log), LastTerm)
      /\ hardState' = [term |-> currentTerm, vote |-> vote, commit |-> log.committed]
      /\ sent' = sent \cup pending /\ pending' = {}
  BY Zenon DEF SaveAndSend
<1>2. /\ UNCHANGED <<config, currentTerm, vote, lead, state, restarts>>
      /\ UNCHANGED <<electionElapsed, heartbeatElapsed, randomizedTimeout, sinceContact>>
  BY DEF SaveAndSend, elected, timers
<1>3. panicked' \in Panics
  BY Zenon DEF IInv, SaveAndSend
<1>4. Elected /\ Logs /\ Votes /\ CampaignKnowsConfig
  BY Zenon DEF IInv
<1>5. IsLog(log)
  BY <1>4, Zenon DEF Logs
<1>6. Kept(log, log')
  <2>1. CASE log' = log
    BY <1>5, <2>1, Zenon DEF Kept
  <2>2. CASE log' = StableTo(log, LastIndex(storage, log), LastTerm)
    BY <1>5, <2>2, StableToKeeps
  <2> QED
    BY <1>1, <2>1, <2>2, Zenon
<1>7. log.committed \in Nat
  BY <1>5, IndexesAreNat, Zenon
<1>8. Logs'
  <2>1. IsStorage(storage')
    BY <1>1, <1>4, MSAppendIsStorage, Zenon DEF Logs
  <2>2. hardState' \in HardStates
    BY <1>1, <1>4, <1>7 DEF Elected, HardStates
  <2> QED
    BY <1>6, <2>1, <2>2, Zenon DEF Logs, Kept
<1>9. Votes'
  <2>1. hardState'.vote = vote
    BY <1>1
  <2> QED
    BY <1>1, <1>2, <1>4, <2>1 DEF Votes
<1>10. CampaignKnowsConfig'
  BY <1>2, <1>4, <1>6, Zenon DEF CampaignKnowsConfig, Kept
<1>11. Elected' /\ Timers' /\ OwnVote' /\ InTime' /\ Lease'
  BY <1>2, Frame
<1> QED
  BY <1>3, <1>8, <1>9, <1>10, <1>11, Zenon DEF IInv

LEMMA ApplyPreserves ==
  ASSUME IInv, Apply
  PROVE  IInv'
<1>1. log.applied < log.committed /\ log' = AppliedTo(log, log.committed)
  BY Zenon DEF Apply
<1>2. /\ UNCHANGED <<config, currentTerm, vote, lead, state, restarts>>
      /\ UNCHANGED <<electionElapsed, heartbeatElapsed, randomizedTimeout, sinceContact>>
      /\ UNCHANGED <<pending, storage, hardState, sent>>
  BY DEF Apply, elected, timers, user
<1>3. panicked' \in Panics
  BY Zenon DEF IInv, Apply
<1>4. Logs
  BY Zenon DEF IInv
<1>5. IsLog(log') /\ log'.committed = log.committed /\ log'.applied = log.committed
  BY <1>1, <1>4, AppliedToCommitted, Zenon DEF Logs
<1>6. log.committed \in Nat
  BY <1>4, IndexesAreNat, Zenon DEF Logs
<1>7. Logs'
  BY <1>2, <1>4, <1>5, Zenon DEF Logs
<1>8. CampaignKnowsConfig'
  BY <1>5, <1>6, Constants DEF CampaignKnowsConfig
<1>9. Elected' /\ Timers' /\ Votes' /\ OwnVote' /\ InTime' /\ Lease'
  BY <1>2, Frame
<1> QED
  BY <1>3, <1>7, <1>8, <1>9, Zenon DEF IInv

\* After a crash the vote is the saved one, which is what was let out.
LEMMA RestartPreserves ==
  ASSUME IInv, Restart
  PROVE  IInv'
<1>1. /\ restarts < MaxRestarts /\ restarts' = restarts + 1
      /\ currentTerm' = hardState.term /\ vote' = hardState.vote
      /\ log' = [NewLog(storage) EXCEPT !.committed = hardState.commit]
      /\ state' = "Follower" /\ lead' = None
      /\ ResetTimers
      /\ pending' = {} /\ sinceContact' = ElectionTimeout
      /\ UNCHANGED <<config, storage, hardState, sent>>
  BY DEF Restart, user
<1>2. panicked' \in Panics
  <2>1. panicked' = "log" \/ panicked' = "no"
    BY Zenon DEF Restart
  <2> QED
    BY <2>1, Causes, Zenon
<1>3. Elected /\ Logs /\ Votes
  BY Zenon DEF IInv
<1>4. hardState.term \in Nat /\ hardState.vote \in Nodes /\ hardState.commit \in Nat
  BY <1>3 DEF Logs, HardStates
<1>5. Elected'
  BY <1>1, <1>3, <1>4, Constants DEF Elected, Nodes, States
<1>6. Timers'
  BY <1>1, ResetIsInTime, Constants DEF Timers
<1>7. Lease'
  BY <1>1, Constants DEF Lease
<1>8. InTime'
  BY <1>1, ResetIsInTime, Zenon
<1>9. OwnVote' /\ CampaignKnowsConfig'
  BY <1>1 DEF OwnVote, CampaignKnowsConfig
<1>10. Logs'
  BY <1>1, <1>3, <1>4, NewLogIsLog, Zenon DEF Logs
<1>11. Votes'
  BY <1>1, <1>3 DEF Votes
<1> QED
  BY <1>2, <1>5, <1>6, <1>7, <1>8, <1>9, <1>10, <1>11, Zenon DEF IInv
-----------------------------------------------------------------------------
LEMMA NextPreserves == IInv /\ [Next]_vars => IInv'
<1>1. ASSUME IInv, UNCHANGED vars
      PROVE  IInv'
  BY <1>1, UnchangedPreserves
<1>2. ASSUME IInv, Next
      PROVE  IInv'
  <2>1. CASE Tick
    BY <1>2, <2>1, TickElectionPreserves, TickHeartbeatPreserves, Zenon DEF Tick
  <2>2. CASE ReceiveVote \/ ReceiveVoteResp
    BY <1>2, <2>2, ReceiveVotePreserves
  <2>3. CASE ReceiveApp
    BY <1>2, <2>3, ReceiveAppPreserves
  <2>4. CASE \E t \in Terms : StepHeartbeat(t)
    BY <1>2, <2>4, StepHeartbeatPreserves, Zenon
  <2>5. CASE CallBecomeCandidate \/ CallBecomeLeader
    BY <1>2, <2>5, CallBecomeCandidatePreserves, CallBecomeLeaderPreserves, Zenon
  <2>6. CASE SaveAndSend \/ Apply \/ Restart
    BY <1>2, <2>6, SaveAndSendPreserves, ApplyPreserves, RestartPreserves, Zenon
  <2> QED
    BY <1>2, <2>1, <2>2, <2>3, <2>4, <2>5, <2>6, Zenon DEF Next
<1> QED
  BY <1>1, <1>2, Zenon

LEMMA Invariance == Spec => []IInv
BY InitEstablishes, NextPreserves, PTL DEF Spec

\* Types, and ranges of all counters, for every number of ticks and campaigns.
THEOREM RaftNodeTypeCorrect == Spec => []TypeOK
<1>1. IInv => TypeOK
  <2> SUFFICES ASSUME IInv
               PROVE  TypeOK
    OBVIOUS
  <2>1. Elected /\ Timers /\ Logs /\ Votes
    BY Zenon DEF IInv
  <2>2. /\ config \in Configs /\ currentTerm \in Nat
        /\ vote \in Peers \cup {Self, None} /\ lead \in Peers \cup {Self, None}
        /\ state \in {"Follower", "PreCandidate", "Candidate", "Leader"}
        /\ restarts \in 0 .. MaxRestarts
    BY <2>1, Zenon DEF Elected, Nodes, States
  <2>3. /\ electionElapsed \in 0 .. MaxElapsed /\ heartbeatElapsed \in 0 .. HeartbeatTimeout - 1
        /\ randomizedTimeout \in Nat /\ sinceContact \in 0 .. ElectionTimeout
    BY <2>1, Constants DEF Timers
  <2>4. hardState \in [term : Nat, vote : Peers \cup {Self, None}, commit : Nat]
    BY <2>1, Zenon DEF Logs, HardStates, Nodes
  <2>5. pending \cup sent \subseteq [term : Nat, to : Peers]
    BY <2>1, Zenon DEF Votes
  <2> QED
    BY <2>2, <2>3, <2>4, <2>5, Zenon DEF TypeOK, IInv
<1> QED
  BY <1>1, Invariance, PTL

\* raft.go, becomeCandidate, reset and Step: who campaigns or leads has voted for
\* itself, whatever it is asked and whenever it crashes.
THEOREM CandidatesVoteForThemselves == Spec => []OwnVote
<1>1. IInv => OwnVote
  BY Zenon DEF IInv
<1> QED
  BY <1>1, Invariance, PTL

\* raft.go, the vote in Step: a node lets out no votes for two candidates of one
\* term, for any requests in any order and any number of crashes.
THEOREM VotesAreOnePerTerm == Spec => []OneVotePerTerm
<1>1. IInv => OneVotePerTerm
  BY Zenon DEF IInv, Votes, OneVotePerTerm
<1> QED
  BY <1>1, Invariance, PTL

\* raft.go, tickElection and tickHeartbeat: no timer stands past its end.
THEOREM TimersStayInRange == Spec => []TimersInRange
<1>1. IInv => TimersInRange
  <2> SUFFICES ASSUME IInv
               PROVE  TimersInRange
    OBVIOUS
  <2>1. heartbeatElapsed < HeartbeatTimeout
    BY Constants DEF IInv, Timers
  <2> QED
    BY <2>1, Zenon DEF IInv, InTime, FollowerInTime, LeaderInTime, TimersInRange
<1> QED
  BY <1>1, Invariance, PTL

\* raft.go, the check of numOfPendingConf in Step: no committed change of the
\* configuration is unapplied at any time of a campaign.
THEOREM CampaignsKnowTheConfig == Spec => []CampaignKnowsConfig
<1>1. IInv => CampaignKnowsConfig
  BY Zenon DEF IInv
<1> QED
  BY <1>1, Invariance, PTL

\* raft.go, the lease in Step: who heard a leader less than an election timeout
\* ago gives its vote to nobody else, except to itself or to the target of a
\* leader transfer.
THEOREM LeasesHold == Spec => LeaseHolds
<1> DEFINE A == config.checkQuorum /\ sinceContact < ElectionTimeout /\ restarts' = restarts /\ vote' # vote
                  => \/ vote' = Self
                     \/ \E m \in VoteRequests : m.transfer /\ m.from = vote'
<1>1. ASSUME IInv, [Next]_vars, sinceContact < ElectionTimeout, restarts' = restarts, vote' # vote
      PROVE  vote' = Self
  <2>1. Next
    BY <1>1 DEF vars, elected
  <2>2. ASSUME NEW cause, PanicInTick(cause)
        PROVE  FALSE
    BY <1>1, <2>2 DEF PanicInTick, elected
  <2>3. CASE Tick
    <3>1. ASSUME Hup(0) PROVE vote' = Self
      <4>1. ASSUME Campaign(0) PROVE vote' = Self
        BY <1>1, <2>2, <4>1, Zenon DEF Campaign, BecomePreCandidate, BecomeCandidate
      <4>2. ASSUME UNCHANGED <<config, elected, heartbeatElapsed, randomizedTimeout, log,
                               pending, user, panicked, restarts>>
            PROVE  FALSE
        BY <1>1, <4>2 DEF elected
      <4> QED
        BY <2>2, <3>1, <4>1, <4>2, Zenon DEF Hup
    <3>2. ASSUME UNCHANGED elected PROVE FALSE
      BY <1>1, <3>2 DEF elected
    <3>3. ASSUME UNCHANGED <<config, elected, heartbeatElapsed, randomizedTimeout, log,
                             pending, user, panicked, restarts>>
          PROVE  FALSE
      BY <3>2, <3>3
    <3>4. ASSUME UNCHANGED <<config, elected, randomizedTimeout, log, pending, user,
                             panicked, restarts>>
          PROVE  FALSE
      BY <3>2, <3>4
    <3> QED
      BY <2>3, <3>1, <3>3, <3>4, Zenon DEF Tick, TickElection, TickHeartbeat
  <2>4. ASSUME NEW m \in VoteRequests, StepVote(m)
        PROVE  FALSE
    <3>1. /\ m.from \in Peers
          /\ vote = m.from \/ (vote = None /\ lead = None)
      BY <1>1, <2>4, VoteIsFreeOrSame
    <3>2. vote' = m.from
      BY <2>4, Zenon DEF StepVote
    <3>3. Lease
      BY <1>1, Zenon DEF IInv
    <3> QED
      BY <1>1, <3>1, <3>2, <3>3, Constants DEF Lease
  <2>5. ASSUME NEW cause, Panic(cause) \/ UNCHANGED vars
        PROVE  FALSE
    BY <1>1, <2>2, <2>5 DEF Panic, vars, elected
  <2>6. CASE ReceiveVote \/ ReceiveVoteResp
    <3>1. ASSUME NEW m \in VoteRequests, NEW type, StepVoteNoChange(m, type)
          PROVE  FALSE
      BY <2>5, <3>1, Zenon DEF StepVoteNoChange
    <3> QED
      BY <2>4, <2>5, <2>6, <3>1, Zenon DEF ReceiveVote, ReceiveVoteResp
  <2>7. CASE ReceiveApp \/ \E t \in Terms : StepHeartbeat(t)
    <3>1. ASSUME NEW t, NEW m, StepApp(t, m)
          PROVE  FALSE
      <4>1. CASE Panic("log")
        BY <2>5, <4>1
      <4>2. CASE UNCHANGED <<config, currentTerm, vote, state, heartbeatElapsed,
                             randomizedTimeout, pending, user, panicked, restarts>>
        BY <1>1, <4>2
      <4> QED
        BY <3>1, <4>1, <4>2, Zenon DEF StepApp
    <3>2. ASSUME NEW t, StepHeartbeat(t)
          PROVE  FALSE
      BY <1>1, <3>2 DEF StepHeartbeat
    <3> QED
      BY <2>7, <3>1, <3>2, Zenon DEF ReceiveApp
  <2>8. CASE CallBecomeCandidate \/ CallBecomeLeader
    <3>1. ASSUME UNCHANGED <<config, currentTerm, vote, pending, user, sinceContact,
                             panicked, restarts>>
          PROVE  FALSE
      BY <1>1, <3>1
    <3> QED
      BY <2>5, <2>8, <3>1, Zenon DEF CallBecomeCandidate, BecomeCandidate, CallBecomeLeader
  <2>9. CASE SaveAndSend \/ Apply
    <3>1. ASSUME UNCHANGED <<config, elected, timers>>
          PROVE  FALSE
      BY <1>1, <3>1 DEF elected
    <3> QED
      BY <2>5, <2>9, <3>1, Zenon DEF SaveAndSend, Apply
  <2>10. ASSUME Restart PROVE FALSE
    <3>1. restarts' = restarts + 1 /\ restarts \in Nat
      BY <1>1, <2>10, Constants DEF Restart, IInv, Elected
    <3> QED
      BY <1>1, <3>1
  <2> QED
    BY <2>1, <2>3, <2>6, <2>7, <2>8, <2>9, <2>10, Zenon DEF Next
<1>2. IInv /\ [Next]_vars => [A]_vars
  BY <1>1, Zenon
<1> QED
  BY <1>2, Invariance, PTL DEF LeaseHolds, Spec
-----------------------------------------------------------------------------
(* The indexes of the log.  becomeLeader may append an entry of a term that  *)
(* another node leads, so the log need not agree with any leader's here; for *)
(* the panics of log.go its indexes are enough.                              *)

\* A storage that is not compacted, and a log laid over it without a gap.
Stored(s) ==
  s \in [index : {0}, ents : Seq(Nat), snap : [index : Nat, term : Nat]] /\ s.ents # <<>>
LogEnd(l) == l.offset + Len(l.unstable) - 1
IndexedLogs == LogsOf(Nat, Seq(Nat))
Laid(s, l) ==
  /\ l \in IndexedLogs
  /\ l.offset \in 1 .. Len(s.ents)
  /\ l.unstable = <<>> => l.offset = Len(s.ents)
  /\ l.committed <= LogEnd(l)

\* Sequences of numbers: their entries, their beginnings, and two put together.
LEMMA EntryIsNat ==
  ASSUME NEW u \in Seq(Nat), NEW k \in 1 .. Len(u)
  PROVE  u[k] \in Nat
OBVIOUS

LEMMA PrefixIs ==
  ASSUME NEW u \in Seq(Nat), NEW n \in 1 .. Len(u)
  PROVE  SubSeq(u, 1, n) \in Seq(Nat) /\ Len(SubSeq(u, 1, n)) = n
OBVIOUS

LEMMA ConcatIs ==
  ASSUME NEW u \in Seq(Nat), NEW v \in Seq(Nat)
  PROVE  u \o v \in Seq(Nat) /\ Len(u \o v) = Len(u) + Len(v)
OBVIOUS

\* The last index, in both cases of lastIndex().
LEMMA LaidFacts ==
  ASSUME NEW s, Stored(s), NEW l, Laid(s, l)
  PROVE  /\ LastIndex(s, l) = LogEnd(l) /\ LogEnd(l) \in Nat
         /\ Len(s.ents) \in Nat \ {0} /\ Len(l.unstable) \in Nat
         /\ MSLastIndex(s) = Len(s.ents) - 1 /\ MSFirstIndex(s) = 1
         /\ l.committed \in Nat /\ l.applied \in Nat
         /\ Len(s.ents) - 1 <= LogEnd(l) \/ l.unstable # <<>>
<1>1. s.index = 0 /\ s.ents \in Seq(Nat) /\ s.ents # <<>>
  BY DEF Stored
<1>2. /\ l.unstable \in Seq(Nat) /\ l.offset \in Nat /\ l.committed \in Nat /\ l.applied \in Nat
      /\ l.offset \in 1 .. Len(s.ents)
      /\ l.unstable = <<>> => l.offset = Len(s.ents)
  BY DEF Laid, IndexedLogs, LogsOf
<1>3. Len(s.ents) \in Nat \ {0} /\ Len(l.unstable) \in Nat
  BY <1>1, <1>2
<1>4. MSLastIndex(s) = Len(s.ents) - 1 /\ MSFirstIndex(s) = 1
  BY <1>1, <1>3 DEF MSLastIndex, MSFirstIndex
<1>5. LastIndex(s, l) = LogEnd(l)
  <2>1. CASE l.unstable = <<>>
    BY <1>2, <1>3, <1>4, <2>1 DEF LastIndex, LogEnd
  <2>2. CASE l.unstable # <<>>
    BY <2>2 DEF LastIndex, LogEnd
  <2> QED
    BY <2>1, <2>2
<1>6. LogEnd(l) \in Nat
  BY <1>2, <1>3 DEF LogEnd
<1>7. l.unstable = <<>> => Len(s.ents) - 1 <= LogEnd(l)
  BY <1>2, <1>3 DEF LogEnd
<1> QED
  BY <1>2, <1>3, <1>4, <1>5, <1>6, <1>7

\* term(i) is never ErrUnavailable, and 0 past the end.
LEMMA TermIsNat ==
  ASSUME NEW s, Stored(s), NEW l, Laid(s, l), NEW i \in Nat
  PROVE  /\ Term(s, l, i) \in Nat /\ ~TermPanics(s, l, i)
         /\ i > LogEnd(l) => Term(s, l, i) = 0
<1>1. /\ LastIndex(s, l) = LogEnd(l) /\ LogEnd(l) \in Nat
      /\ Len(s.ents) \in Nat \ {0} /\ MSFirstIndex(s) = 1
  BY LaidFacts
<1>2. /\ l.unstable \in Seq(Nat) /\ l.offset \in Nat
      /\ l.offset \in 1 .. Len(s.ents)
      /\ l.unstable = <<>> => l.offset = Len(s.ents)
      /\ s.ents \in Seq(Nat) /\ s.index = 0
  BY DEF Laid, IndexedLogs, LogsOf, Stored
<1>3. i > LogEnd(l) => Term(s, l, i) = 0
  BY <1>1 DEF Term, FirstIndex
<1>4. ASSUME i <= LogEnd(l), InUnstable(l, i)
      PROVE  Term(s, l, i) \in Nat
  <2>1. i - l.offset + 1 \in 1 .. Len(l.unstable)
    BY <1>2, <1>4 DEF InUnstable
  <2>2. UnstableTerm(l, i) \in Nat
    BY <1>2, <2>1, EntryIsNat, Zenon DEF UnstableTerm
  <2>3. Term(s, l, i) = UnstableTerm(l, i)
    BY <1>1, <1>4 DEF Term, FirstIndex
  <2> QED
    BY <2>2, <2>3
<1>5. ASSUME i <= LogEnd(l), ~InUnstable(l, i)
      PROVE  Term(s, l, i) \in Nat
  <2>1. i < l.offset
    BY <1>2, <1>4, <1>5 DEF InUnstable, LogEnd
  <2>2. i + 1 \in 1 .. Len(s.ents)
    BY <1>1, <1>2, <2>1
  <2>3. s.ents[i + 1] \in Nat
    BY <1>2, <2>2
  <2>4. MSTerm(s, i) = s.ents[i + 1]
    BY <1>2, <2>2 DEF MSTerm
  <2>5. Term(s, l, i) = MSTerm(s, i)
    BY <1>1, <1>5 DEF Term, FirstIndex
  <2> QED
    BY <2>3, <2>4, <2>5
<1>6. Term(s, l, i) \in Nat
  BY <1>1, <1>3, <1>4, <1>5
<1>7. ~TermPanics(s, l, i)
  BY <1>6 DEF TermPanics, ErrUnavailable
<1> QED
  BY <1>3, <1>6, <1>7

\* findConflict: no entry is skipped, so the first conflict is at most one
\* past the end, and without one the log reaches past the entries.
LEMMA ConflictIndexes ==
  ASSUME NEW s, Stored(s), NEW l, Laid(s, l),
         NEW index \in Nat, index <= LogEnd(l), NEW ents \in Seq(Terms),
         NEW ci, ci = FindConflict(s, l, index + 1, ents)
  PROVE  \/ ci = 0 /\ index + Len(ents) <= LogEnd(l)
         \/ ci \in index + 1 .. index + Len(ents) /\ ci <= LogEnd(l) + 1
<1>1. LogEnd(l) \in Nat /\ Len(ents) \in Nat
  BY LaidFacts
<1>2. ASSUME NEW j \in index + 1 .. index + Len(ents), MatchTerm(s, l, j, ents[j - index])
      PROVE  j <= LogEnd(l)
  <2>1. j - index \in 1 .. Len(ents) /\ j \in Nat
    BY <1>1
  <2>2. ents[j - index] \in Terms
    BY <2>1
  <2>3. ents[j - index] # 0
    BY <2>2, LeadersAssumption
  <2>4. Term(s, l, j) # 0
    BY <1>2, <2>3 DEF MatchTerm
  <2> QED
    BY <1>1, <2>1, <2>4, TermIsNat
<1>3. \/ /\ ci = 0
         /\ \A j \in index + 1 .. index + 1 + Len(ents) - 1 : MatchTerm(s, l, j, ents[j - (index + 1) + 1])
      \/ /\ ci \in index + 1 .. index + 1 + Len(ents) - 1
         /\ \A j \in index + 1 .. ci - 1 : MatchTerm(s, l, j, ents[j - (index + 1) + 1])
  <2>1. PICK first \in Nat \ {0} : first = index + 1
    OBVIOUS
  <2>2. ci = FindConflict(s, l, first, ents)
    BY <2>1
  <2>3. \/ /\ ci = 0
           /\ \A j \in first .. first + Len(ents) - 1 : MatchTerm(s, l, j, ents[j - first + 1])
        \/ /\ ci \in first .. first + Len(ents) - 1
           /\ ~MatchTerm(s, l, ci, ents[ci - first + 1])
           /\ \A j \in first .. ci - 1 : MatchTerm(s, l, j, ents[j - first + 1])
    BY <2>2, FindConflictFacts, Zenon
  <2> QED
    BY <2>1, <2>3, Zenon
<1>4. \A j \in Nat : j - (index + 1) + 1 = j - index
  OBVIOUS
<1>5. index + 1 + Len(ents) - 1 = index + Len(ents)
  BY <1>1
<1>6. CASE /\ ci = 0
           /\ \A j \in index + 1 .. index + Len(ents) : MatchTerm(s, l, j, ents[j - index])
  <2>1. CASE Len(ents) = 0
    BY <1>1, <1>6, <2>1
  <2>2. CASE Len(ents) # 0
    <3>1. index + Len(ents) \in index + 1 .. index + Len(ents)
      BY <1>1, <2>2
    <3> QED
      BY <1>2, <1>6, <3>1
  <2> QED
    BY <2>1, <2>2
<1>7. CASE /\ ci \in index + 1 .. index + Len(ents)
           /\ \A j \in index + 1 .. ci - 1 : MatchTerm(s, l, j, ents[j - index])
  <2>1. CASE ci = index + 1
    BY <1>1, <1>7, <2>1
  <2>2. CASE ci # index + 1
    <3>1. ci - 1 \in index + 1 .. index + Len(ents) /\ ci - 1 \in index + 1 .. ci - 1
      BY <1>1, <1>7, <2>2
    <3>2. ci - 1 <= LogEnd(l)
      BY <1>2, <1>7, <3>1
    <3> QED
      BY <1>1, <1>7, <3>2
  <2> QED
    BY <2>1, <2>2
<1> QED
  BY <1>1, <1>3, <1>4, <1>5, <1>6, <1>7

\* The two ways in which a log's unstable part is replaced.
LEMMA MoveUnstable ==
  ASSUME NEW S, NEW l \in LogsOf(Nat, S), NEW u \in S, NEW r, r = [l EXCEPT !.unstable = u]
  PROVE  /\ r \in LogsOf(Nat, S) /\ r.offset = l.offset /\ r.unstable = u
         /\ r.committed = l.committed /\ r.applied = l.applied
BY DEF LogsOf

LEMMA MoveBoth ==
  ASSUME NEW S, NEW l \in LogsOf(Nat, S), NEW u \in S, NEW o \in Nat,
         NEW r, r = [l EXCEPT !.offset = o, !.unstable = u]
  PROVE  /\ r \in LogsOf(Nat, S) /\ r.offset = o /\ r.unstable = u
         /\ r.committed = l.committed /\ r.applied = l.applied
BY DEF LogsOf

\* A log whose unstable part was replaced lies on the storage as before.
LEMMA LaidMoved ==
  ASSUME NEW s, Stored(s), NEW l, Laid(s, l),
         NEW r, r \in IndexedLogs, r.committed = l.committed,
         r.offset \in 1 .. Len(s.ents), Len(r.unstable) # 0, l.committed <= LogEnd(r)
  PROVE  Laid(s, r)
<1>1. r.unstable # <<>>
  OBVIOUS
<1> QED
  BY <1>1 DEF Laid

\* truncateAndAppend above the commit index and no further than the end.
LEMMA AppendIndexes ==
  ASSUME NEW s, Stored(s), NEW l, Laid(s, l), NEW i \in Nat,
         l.committed < i, i <= LogEnd(l) + 1,
         NEW tail \in Seq(Nat), tail # <<>>, NEW r, r = AppendEntries(l, i, tail)
  PROVE  /\ ~AppendPanics(l, i)
         /\ Laid(s, r) /\ LogEnd(r) = i + Len(tail) - 1 /\ r.committed = l.committed
<1>1. /\ l \in IndexedLogs /\ l.unstable \in Seq(Nat) /\ l.offset \in Nat /\ l.committed \in Nat
      /\ l.offset \in 1 .. Len(s.ents)
  BY DEF Laid, IndexedLogs, LogsOf
<1>2. Len(s.ents) \in Nat /\ Len(l.unstable) \in Nat
  BY LaidFacts
<1> DEFINE k == Len(tail)
           S == Seq(Nat)
<1>3. k \in Nat \ {0} /\ l \in LogsOf(Nat, S) /\ tail \in S
  BY <1>1 DEF IndexedLogs
<1> HIDE DEF k, S
<1>4. i <= l.offset + Len(l.unstable)
  BY <1>1, <1>2 DEF LogEnd
<1>5. ~AppendPanics(l, i)
  BY <1>1, <1>2, <1>4 DEF AppendPanics
<1>6. ASSUME r \in LogsOf(Nat, S), r.committed = l.committed, r.offset \in 1 .. Len(s.ents),
             Len(r.unstable) \in Nat \ {0}, r.offset + Len(r.unstable) = i + k
      PROVE  Laid(s, r) /\ LogEnd(r) = i + k - 1 /\ r.committed = l.committed
  <2>1. r.offset \in Nat
    BY <1>2, <1>6
  <2>2. LogEnd(r) = i + k - 1
    <3>1. PICK a \in Nat, b \in Nat : a = r.offset /\ b = Len(r.unstable)
      BY <1>6, <2>1, Zenon
    <3>2. a + b = i + k /\ LogEnd(r) = a + b - 1
      BY <1>6, <3>1, Zenon DEF LogEnd
    <3>3. a + b - 1 = i + k - 1
      <4>1. a + b = i + k
        BY <3>2, Zenon
      <4>2. k \in Nat
        BY <1>3, Zenon
      <4> QED
        BY <4>1, <4>2
    <3> QED
      BY <3>2, <3>3, Zenon
  <2>3. l.committed <= LogEnd(r)
    BY <1>1, <1>3, <2>2
  <2>4. r \in IndexedLogs
    BY <1>6, Zenon DEF S, IndexedLogs
  <2> QED
    BY <1>6, <2>2, <2>3, <2>4, LaidMoved
<1>7. CASE i = l.offset + Len(l.unstable)
  <2> DEFINE u == l.unstable \o tail
  <2>1. u \in S /\ Len(u) = Len(l.unstable) + k
    BY <1>1, ConcatIs, Zenon DEF k, S
  <2>2. r = [l EXCEPT !.unstable = u]
    BY <1>7 DEF AppendEntries, TruncateAndAppend
  <2> HIDE DEF u
  <2>3. /\ r \in LogsOf(Nat, S) /\ r.offset = l.offset /\ r.unstable = u
        /\ r.committed = l.committed
    BY <1>3, <2>1, <2>2, MoveUnstable
  <2> QED
    <3>1. PICK a \in Nat, b \in Nat : a = l.offset /\ b = Len(l.unstable)
      BY <1>1, <1>2, Zenon
    <3>2. Len(u) = b + k /\ i = a + b
      BY <1>7, <2>1, <3>1, Zenon
    <3>3. b + k \in Nat \ {0} /\ a + (b + k) = i + k
      BY <1>3, <3>2
    <3> QED
      BY <1>1, <1>5, <1>6, <2>3, <3>1, <3>2, <3>3, Zenon DEF k
<1>8. CASE i # l.offset + Len(l.unstable) /\ i <= l.offset
  <2>1. r = [l EXCEPT !.offset = i, !.unstable = tail]
    BY <1>8 DEF AppendEntries, TruncateAndAppend
  <2>2. /\ r \in LogsOf(Nat, S) /\ r.offset = i /\ r.unstable = tail
        /\ r.committed = l.committed
    BY <1>3, <2>1 DEF LogsOf
  <2>3. i \in 1 .. Len(s.ents)
    BY <1>1, <1>2, <1>8
  <2> QED
    BY <1>1, <1>2, <1>3, <1>5, <1>6, <2>2, <2>3 DEF k
<1>9. CASE i # l.offset + Len(l.unstable) /\ ~(i <= l.offset)
  <2> DEFINE v == SubSeq(l.unstable, 1, i - l.offset)
             u == v \o tail
  <2>1. i - l.offset \in 1 .. Len(l.unstable)
    BY <1>1, <1>2, <1>9, <1>4
  <2>2. v \in Seq(Nat) /\ Len(v) = i - l.offset
    BY <1>1, <2>1, PrefixIs, Zenon
  <2>3. r = [l EXCEPT !.unstable = u]
    BY <1>9 DEF AppendEntries, TruncateAndAppend
  <2> HIDE DEF v
  <2>4. u \in S /\ Len(u) = Len(v) + k
    BY <2>2, ConcatIs, Zenon DEF k, S
  <2> HIDE DEF u
  <2>5. /\ r \in LogsOf(Nat, S) /\ r.offset = l.offset /\ r.unstable = u
        /\ r.committed = l.committed
    BY <1>3, <2>3, <2>4, MoveUnstable
  <2>6. Len(u) \in Nat \ {0} /\ l.offset + Len(u) = i + k
    <3>1. PICK a \in Nat, n \in Nat : a = l.offset /\ n = i - l.offset
      BY <1>1, <1>2, <2>1
    <3>2. Len(u) = n + k /\ i = a + n
      BY <1>1, <2>2, <2>4, <3>1
    <3>3. n + k \in Nat \ {0} /\ a + (n + k) = (a + n) + k
      BY <1>3
    <3> QED
      BY <3>1, <3>2, <3>3, Zenon
  <2> QED
    BY <1>1, <1>5, <1>6, <2>5, <2>6 DEF k
<1> QED
  BY <1>7, <1>8, <1>9, Zenon
\* commitTo, no further than the end.
LEMMA CommitIndexes ==
  ASSUME NEW s, Stored(s), NEW l, Laid(s, l), NEW n \in Nat, n <= LogEnd(l)
  PROVE  ~CommitToPanics(s, l, n) /\ Laid(s, CommitTo(l, n))
<1> DEFINE m == Max2(l.committed, n)
           S == Seq(Nat)
           r == CommitTo(l, n)
<1>1. LastIndex(s, l) = LogEnd(l) /\ LogEnd(l) \in Nat /\ l.committed \in Nat
  BY LaidFacts
<1>2. m \in Nat /\ m <= LogEnd(l)
  BY <1>1 DEF Max2, Laid
<1>3. ~CommitToPanics(s, l, n)
  BY <1>1 DEF CommitToPanics
<1>4. r = [l EXCEPT !.committed = m]
  BY DEF CommitTo
<1>5. l \in LogsOf(Nat, S)
  BY DEF Laid, IndexedLogs
<1> HIDE DEF m, S, r
<1>6. r \in LogsOf(Nat, S) /\ r.offset = l.offset /\ r.unstable = l.unstable /\ r.committed = m
  BY <1>2, <1>4, <1>5 DEF LogsOf
<1>7. r \in IndexedLogs
  BY <1>6, Zenon DEF S, IndexedLogs
<1>8. LogEnd(r) = LogEnd(l)
  BY <1>6, Zenon DEF LogEnd
<1>9. Laid(s, r)
  BY <1>2, <1>6, <1>7, <1>8, Zenon DEF Laid
<1> QED
  BY <1>3, <1>9, Zenon DEF r

\* maybeAppend of entries that begin at most one past the end, above the commit
\* index: the handler's early answer and matchTerm see to both.
LEMMA MaybeAppendIndexes ==
  ASSUME NEW s, Stored(s), NEW l, Laid(s, l),
         NEW index \in Nat, l.committed <= index, index <= LogEnd(l),
         NEW c \in Nat, NEW ents \in Seq(Terms)
  PROVE  /\ ~MaybeAppendPanics(s, l, index, c, ents)
         /\ Laid(s, MaybeAppend(s, l, index, c, ents))
<1> DEFINE ci == FindConflict(s, l, index + 1, ents)
           rest == SubSeq(ents, ci - index, Len(ents))
           appended == AppendFromConflict(s, l, index, ents)
           end == index + Len(ents)
           n == Min2(c, end)
<1>1. LogEnd(l) \in Nat /\ l.committed \in Nat /\ Len(ents) \in Nat /\ end \in Nat
  BY LaidFacts
<1>2. \/ ci = 0 /\ end <= LogEnd(l)
      \/ ci \in index + 1 .. end /\ ci <= LogEnd(l) + 1
  BY ConflictIndexes
<1>3. n \in Nat /\ n <= end
  BY <1>1 DEF Min2
<1> HIDE DEF n
<1>4. /\ Laid(s, appended) /\ LogEnd(appended) \in Nat /\ end <= LogEnd(appended)
      /\ ~(ci # 0 /\ (TermPanics(s, l, ci) \/ ci <= l.committed \/ AppendPanics(l, ci)))
  <2> HIDE DEF ci
  <2>1. CASE ci = 0
    <3>1. appended = l
      BY <2>1 DEF AppendFromConflict, ci
    <3> HIDE DEF appended, end
    <3>2. end <= LogEnd(l)
      BY <1>2, <2>1 DEF end
    <3> QED
      BY <1>1, <2>1, <3>1, <3>2, Zenon
  <2>2. CASE ci # 0
    <3> DEFINE k == Len(ents)
    <3>1. ci \in index + 1 .. index + k /\ ci <= LogEnd(l) + 1 /\ k \in Nat
      BY <1>1, <1>2, <2>2
    <3>2. /\ ci \in Nat /\ l.committed < ci /\ ~(ci <= l.committed)
          /\ ci - index \in 1 .. k
      <4> HIDE DEF k
      <4> QED
        BY <1>1, <3>1
    <3>3. \A t \in Terms : t \in Nat
      BY LeadersAssumption
    <3>4. rest \in Seq(Nat) /\ Len(rest) = k - (ci - index) + 1
      <4>1. PICK d \in 1 .. k : d = ci - index
        BY <3>2
      <4>2. ents \in Seq(Nat)
        BY <3>3
      <4>3. SubSeq(ents, d, k) \in Seq(Nat) /\ Len(SubSeq(ents, d, k)) = k - d + 1
        BY <4>2
      <4> QED
        BY <4>1, <4>3, Zenon
    <3>5. appended = AppendEntries(l, ci, rest)
      BY <2>2, Zenon DEF AppendFromConflict, ci
    <3>6. Len(rest) # 0 /\ ci + Len(rest) - 1 = index + k
      <4> HIDE DEF k, rest
      <4> QED
        BY <3>1, <3>2, <3>4
    <3>7. rest # <<>>
      <4> HIDE DEF rest
      <4> QED
        BY <3>6
    <3>8. ~TermPanics(s, l, ci)
      BY <3>2, TermIsNat
    <3> HIDE DEF k, rest, appended
    <3>9. /\ ~AppendPanics(l, ci) /\ Laid(s, appended)
          /\ LogEnd(appended) = ci + Len(rest) - 1
      <4>1. ASSUME NEW i \in Nat, i = ci, NEW q \in Seq(Nat), q = rest
            PROVE  /\ ~AppendPanics(l, i) /\ Laid(s, AppendEntries(l, i, q))
                   /\ LogEnd(AppendEntries(l, i, q)) = i + Len(q) - 1
        <5>1. l.committed < i /\ i <= LogEnd(l) + 1 /\ q # <<>>
          BY <3>1, <3>2, <3>7, <4>1, Zenon
        <5> QED
          BY <5>1, AppendIndexes
      <4> QED
        BY <3>2, <3>4, <3>5, <4>1, Zenon
    <3>10. LogEnd(appended) = end
      BY <3>6, <3>9, Zenon DEF k
    <3>11. end <= end
      BY <1>1
    <3> QED
      BY <1>1, <3>2, <3>8, <3>9, <3>10, <3>11, Zenon
  <2> QED
    BY <2>1, <2>2, Zenon
<1> HIDE DEF ci, appended, end
<1>5. n <= LogEnd(appended)
  BY <1>1, <1>3, <1>4
<1>6. ~CommitToPanics(s, appended, n) /\ Laid(s, CommitTo(appended, n))
  BY <1>3, <1>4, <1>5, CommitIndexes, Zenon
<1>7. ~MaybeAppendPanics(s, l, index, c, ents)
  BY <1>4, <1>6, Zenon DEF MaybeAppendPanics, ci, appended, n, end
<1> QED
  BY <1>6, <1>7, Zenon DEF MaybeAppend, appended, n, end

\* A message whose entry before the first is in the log begins within the log.
LEMMA PrevIsInside ==
  ASSUME NEW s, Stored(s), NEW l, Laid(s, l), NEW t \in Terms,
         NEW prev \in 0 .. Len(LeaderLog[t]), MatchTerm(s, l, prev, LeaderTerm(t, prev))
  PROVE  prev <= LogEnd(l)
<1>1. LogEnd(l) \in Nat
  BY LaidFacts
<1>2. LeaderLog[t] \in Seq(Terms)
  BY LeadersAssumption
<1>3. prev \in Nat
  BY <1>2
<1>4. CASE prev = 0
  BY <1>1, <1>4
<1>5. CASE prev # 0
  <2>1. prev \in 1 .. Len(LeaderLog[t])
    BY <1>3, <1>5
  <2>2. LeaderLog[t][prev] \in Terms
    BY <1>2, <2>1
  <2>3. LeaderTerm(t, prev) # 0
    BY <1>5, <2>2, LeadersAssumption DEF LeaderTerm
  <2>4. Term(s, l, prev) # 0
    BY <2>3 DEF MatchTerm
  <2> QED
    BY <1>1, <1>3, <2>4, TermIsNat
<1> QED
  BY <1>4, <1>5

\* Saving the unstable entries: all of them become stable.
LEMMA SaveIndexes ==
  ASSUME NEW s, Stored(s), NEW l, Laid(s, l),
         NEW s2, s2 = MSAppend(s, l.offset, l.unstable),
         NEW last, last = LastIndex(s, l), NEW t, t = Term(s, l, last),
         NEW l2, l2 = IF l.unstable = <<>> THEN l ELSE StableTo(l, last, t)
  PROVE  Stored(s2) /\ Laid(s2, l2) /\ l.committed < Len(s2.ents)
<1>1. /\ last = LogEnd(l) /\ LogEnd(l) \in Nat
      /\ Len(s.ents) \in Nat \ {0} /\ Len(l.unstable) \in Nat
      /\ MSFirstIndex(s) = 1 /\ l.committed \in Nat
  BY LaidFacts
<1>2. /\ l \in IndexedLogs /\ l.unstable \in Seq(Nat) /\ l.offset \in Nat
      /\ l.offset \in 1 .. Len(s.ents) /\ l.committed <= LogEnd(l)
      /\ s.index = 0 /\ s.ents \in Seq(Nat)
  BY DEF Laid, IndexedLogs, LogsOf, Stored
<1>3. CASE l.unstable = <<>>
  <2>1. s2 = s /\ l2 = l
    BY <1>3 DEF MSAppend, MSAppendIgnored
  <2>2. LogEnd(l) = Len(s.ents) - 1
    BY <1>1, <1>3 DEF Laid, LogEnd
  <2>3. l.committed < Len(s.ents)
    BY <1>1, <1>2, <2>2
  <2> QED
    BY <2>1, <2>3, Zenon
<1>4. CASE l.unstable # <<>>
  <2> DEFINE o == l.offset
             k == Len(l.unstable)
             v == SubSeq(s.ents, 1, o)
             e == v \o l.unstable
             u == SubSeq(l.unstable, k + 1, k)
  <2>1. k \in Nat \ {0} /\ o \in Nat \ {0} /\ LogEnd(l) = o + k - 1
    BY <1>1, <1>2, <1>4 DEF LogEnd
  <2>2. v \in Seq(Nat) /\ Len(v) = o
    BY <1>2, PrefixIs, Zenon
  <2>3. u = <<>>
    BY <1>2
  <2>4. s2 = [s EXCEPT !.ents = e]
    <3>1. ~(1 > o) /\ ~(o + k - 1 < 1)
      BY <2>1
    <3>2. ~MSAppendIgnored(s, o, l.unstable)
      BY <1>1, <1>4, <3>1, Zenon DEF MSAppendIgnored
    <3>3. NewFirst(s, o) = o /\ NewEntries(s, o, l.unstable) = l.unstable
      BY <1>1, <3>1, Zenon DEF NewFirst, NewEntries
    <3>4. o - s.index = o
      BY <1>2, <2>1
    <3> QED
      BY <3>2, <3>3, <3>4, Zenon DEF MSAppend
  <2>5. e \in Seq(Nat) /\ Len(e) = o + k
    BY <1>2, <2>2, ConcatIs, Zenon
  <2>6. l2 = [l EXCEPT !.offset = last + 1, !.unstable = u]
    <3>1. InUnstable(l, last)
      BY <1>1, <2>1 DEF InUnstable
    <3>2. ~(last < 0) /\ ~(last > last)
      BY <1>1
    <3>3. Term(s, l, last) = UnstableTerm(l, last)
      BY <1>1, <3>1, <3>2 DEF Term, FirstIndex
    <3>4. last + 1 - o + 1 = k + 1
      BY <1>1, <2>1
    <3> QED
      BY <1>4, <3>1, <3>3, <3>4, Zenon DEF StableTo
  <2> DEFINE S == Seq(Nat)
  <2>7. l \in LogsOf(Nat, S) /\ u \in S /\ last + 1 \in Nat
    BY <1>1, <1>2, <2>3 DEF IndexedLogs
  <2> HIDE DEF e, u, S
  <2>8. /\ s2 \in [index : {0}, ents : Seq(Nat), snap : [index : Nat, term : Nat]]
        /\ s2.ents = e
    BY <2>4, <2>5 DEF Stored
  <2>9. /\ l2 \in LogsOf(Nat, S) /\ l2.offset = last + 1 /\ l2.unstable = u
        /\ l2.committed = l.committed
    BY <2>6, <2>7 DEF LogsOf
  <2>10. l2 \in IndexedLogs
    BY <2>9, Zenon DEF S, IndexedLogs
  <2> HIDE DEF k, o
  <2>11. last + 1 = o + k /\ o + k \in 1 .. o + k /\ o + k \in Nat \ {0}
    BY <1>1, <2>1
  <2>12. s2.ents # <<>>
    BY <2>5, <2>8, <2>11
  <2>13. /\ LogEnd(l2) = last /\ l.committed <= last /\ l.committed < last + 1
         /\ last + 1 \in 1 .. last + 1
    <3>1. Len(u) = 0
      BY <2>3
    <3>2. LogEnd(l2) = last + 1 + 0 - 1
      BY <2>9, <3>1, Zenon DEF LogEnd
    <3>3. l.committed <= last /\ last \in Nat
      BY <1>1, <1>2, Zenon
    <3>4. last + 1 + 0 - 1 = last /\ l.committed < last + 1 /\ last + 1 \in 1 .. last + 1
      BY <1>1, <3>3
    <3> QED
      BY <3>2, <3>3, <3>4, Zenon
  <2>14. Len(s2.ents) = last + 1
    BY <2>5, <2>8, <2>9, <2>11, Zenon
  <2>15. Stored(s2)
    BY <2>8, <2>12, Zenon DEF Stored
  <2>16. Laid(s2, l2)
    BY <2>9, <2>10, <2>11, <2>13, <2>14, Zenon DEF Laid
  <2> QED
    BY <2>13, <2>14, <2>15, <2>16, Zenon
<1> QED
  BY <1>3, <1>4, Zenon

\* A log put together from its fields.
LEMMA LogRecord ==
  ASSUME NEW S, NEW o \in Nat, NEW u \in S, NEW c \in Nat, NEW a \in Nat
  PROVE  [offset |-> o, unstable |-> u, committed |-> c, applied |-> a] \in LogsOf(Nat, S)
BY DEF LogsOf

\* newRaft on what was saved.
LEMMA RestartIndexes ==
  ASSUME NEW s, Stored(s), NEW c \in Nat, c < Len(s.ents),
         NEW r, r = [NewLog(s) EXCEPT !.committed = c]
  PROVE  /\ Laid(s, r) /\ r.applied = 0
         /\ ~(c < NewLog(s).committed \/ c > MSLastIndex(s))
         /\ MSTerm(s, MSLastIndex(s)) \in Nat
<1>1. s.index = 0 /\ s.ents \in Seq(Nat) /\ s.ents # <<>>
  BY DEF Stored
<1> DEFINE k == Len(s.ents)
<1>2. k \in Nat /\ k \in Nat \ {0} /\ 0 \in Nat
  BY <1>1
<1> HIDE DEF k
<1>3. MSLastIndex(s) + 1 = k /\ MSFirstIndex(s) - 1 = 0 /\ MSLastIndex(s) = k - 1
  BY <1>1, <1>2 DEF MSLastIndex, MSFirstIndex, k
<1>4. NewLog(s) = [offset |-> k, unstable |-> <<>>, committed |-> 0, applied |-> 0]
  BY <1>3 DEF NewLog
<1>5. r = [offset |-> k, unstable |-> <<>>, committed |-> c, applied |-> 0]
  BY <1>4
<1>6. r \in IndexedLogs
  <2> DEFINE S == Seq(Nat)
  <2>1. <<>> \in S
    OBVIOUS
  <2> HIDE DEF S
  <2>2. PICK q \in S : q = <<>>
    BY <2>1, Zenon
  <2>3. r = [offset |-> k, unstable |-> q, committed |-> c, applied |-> 0]
    BY <1>5, <2>2, Zenon
  <2>4. r \in LogsOf(Nat, S)
    <3>1. [offset |-> k, unstable |-> q, committed |-> c, applied |-> 0] \in LogsOf(Nat, S)
      BY <1>2, LogRecord
    <3> QED
      BY <2>3, <3>1, Zenon
  <2> QED
    BY <2>4, Zenon DEF S, IndexedLogs
<1>7. LogEnd(r) = k - 1 /\ r.offset = k /\ r.committed = c
  BY <1>2, <1>5 DEF LogEnd
<1>8. c <= k - 1 /\ k \in 1 .. k /\ ~(c < 0) /\ ~(c > k - 1)
  BY <1>2 DEF k
<1>9. Laid(s, r)
  BY <1>6, <1>7, <1>8, Zenon DEF Laid, k
<1>10. MSTerm(s, k - 1) \in Nat
  <2>1. k \in 1 .. Len(s.ents)
    BY <1>2 DEF k
  <2>2. s.ents[k] \in Nat
    BY <1>1, <2>1, EntryIsNat, Zenon
  <2>3. MSTerm(s, k - 1) = s.ents[k]
    <3>1. ~(k - 1 < s.index) /\ ~(k - 1 - s.index >= k) /\ k - 1 - s.index + 1 = k
      BY <1>1, <1>2
    <3> QED
      BY <3>1, Zenon DEF MSTerm, k
  <2> QED
    BY <2>2, <2>3
<1>11. r.applied = 0
  BY <1>5
<1> QED
  BY <1>3, <1>4, <1>8, <1>9, <1>10, <1>11

Indexed ==
  /\ Stored(storage) /\ Laid(storage, log)
  /\ hardState.commit < Len(storage.ents)
  /\ log.applied <= log.committed

\* Step(MsgHup) asks for the entries from applied + 1 to committed: neither
\* mustCheckOutOfBounds nor the storage finds anything wrong with them.
LEMMA HupIndexes ==
  ASSUME Indexed
  PROVE  ~HupPanics
<1> DEFINE lo == log.applied + 1
           hi == log.committed + 1
<1>1. Stored(storage) /\ Laid(storage, log) /\ log.applied <= log.committed
  BY Zenon DEF Indexed
<1>2. /\ LastIndex(storage, log) = LogEnd(log) /\ LogEnd(log) \in Nat
      /\ Len(storage.ents) \in Nat \ {0} /\ Len(log.unstable) \in Nat
      /\ MSLastIndex(storage) = Len(storage.ents) - 1 /\ MSFirstIndex(storage) = 1
      /\ log.committed \in Nat /\ log.applied \in Nat
  BY <1>1, LaidFacts, Zenon
<1>3. log.offset \in 1 .. Len(storage.ents) /\ log.committed <= LogEnd(log)
  BY <1>1, Zenon DEF Laid
<1>4. ~SliceCompacted(storage, log, lo)
  BY <1>2 DEF SliceCompacted, FirstIndex
<1>5. ~(lo > hi) /\ ~(hi > LastIndex(storage, log) + 1)
  BY <1>1, <1>2, <1>3
<1>6. ~(hi > log.offset + Len(log.unstable))
  BY <1>2, <1>3 DEF LogEnd
<1>7. ASSUME lo < log.offset
      PROVE  ~MSEntriesUnavailable(storage, Min2(hi, log.offset))
  <2>1. Min2(hi, log.offset) <= log.offset
    BY <1>2, <1>3 DEF Min2
  <2>2. Min2(hi, log.offset) \in Nat
    BY <1>2, <1>3 DEF Min2
  <2>3. ~(Min2(hi, log.offset) > MSLastIndex(storage) + 1)
    BY <1>2, <1>3, <2>1, <2>2
  <2>4. Len(storage.ents) # 1
    <3>1. PICK k \in Nat : k = Len(storage.ents)
      BY <1>2
    <3>2. log.offset \in 1 .. k /\ log.applied \in Nat
      BY <1>2, <1>3, <3>1, Zenon
    <3>3. k # 1
      BY <1>7, <3>2
    <3> QED
      BY <3>1, <3>3, Zenon
  <2> QED
    BY <2>3, <2>4, Zenon DEF MSEntriesUnavailable
<1> HIDE DEF lo, hi
<1>8. ~SlicePanics(storage, log, lo, hi)
  BY <1>5, <1>6, <1>7, Zenon DEF SlicePanics
<1> QED
  BY <1>4, <1>8, Zenon DEF HupPanics, lo, hi

\* Storage.Append is never handed entries that leave a gap.
LEMMA SaveHasNoGap ==
  ASSUME Indexed
  PROVE  ~MSAppendPanics(storage, log.offset, log.unstable)
<1>1. Stored(storage) /\ Laid(storage, log)
  BY Zenon DEF Indexed
<1>2. MSFirstIndex(storage) = 1 /\ storage.index = 0 /\ Len(storage.ents) \in Nat
  BY <1>1, LaidFacts DEF Stored
<1>3. log.offset \in 1 .. Len(storage.ents)
  BY <1>1, Zenon DEF Laid
<1>4. NewFirst(storage, log.offset) = log.offset
  BY <1>2, <1>3 DEF NewFirst
<1> QED
  BY <1>2, <1>3, <1>4 DEF MSAppendPanics

\* The last entry is in the log: lastTerm finds its term.
LEMMA LastTermIsThere ==
  ASSUME Indexed
  PROVE  ~LastTermPanics
<1>1. Stored(storage) /\ Laid(storage, log)
  BY Zenon DEF Indexed
<1>2. LastIndex(storage, log) \in Nat
  BY <1>1, LaidFacts, Zenon
<1>3. LastTerm \in Nat
  BY <1>1, <1>2, TermIsNat, Zenon DEF LastTerm
<1> QED
  BY <1>3 DEF LastTermPanics, ErrCompacted, ErrUnavailable

\* Every step that does not touch the log keeps its indexes.
LEMMA SameIndexes ==
  ASSUME Indexed, UNCHANGED <<storage, log, hardState>>
  PROVE  Indexed'
BY Zenon DEF Indexed

LEMMA NothingOfLog ==
  ASSUME Indexed, NoLogPanic, UNCHANGED <<log, user, panicked>>
  PROVE  Indexed' /\ NoLogPanic'
<1>1. UNCHANGED <<storage, log, hardState>> /\ panicked' = panicked
  BY Zenon DEF user
<1> QED
  BY <1>1, SameIndexes, Zenon DEF NoLogPanic

\* A step that ends in a panic of another kind.
LEMMA OtherPanic ==
  ASSUME Indexed, NEW cause, cause # "log", PanicInTick(cause)
  PROVE  Indexed' /\ NoLogPanic'
<1>1. UNCHANGED <<storage, log, hardState>> /\ panicked' = cause
  BY Zenon DEF PanicInTick, user
<1> QED
  BY <1>1, SameIndexes, Zenon DEF NoLogPanic

\* Ticks, and the campaigns they begin: nothing of the log moves.
LEMMA TickIndexed ==
  ASSUME Indexed, NoLogPanic, Tick
  PROVE  Indexed' /\ NoLogPanic'
<1>1. CASE UNCHANGED <<log, user, panicked>>
  BY <1>1, NothingOfLog, Zenon
<1>2. CASE PanicInTick("votes")
  BY <1>2, OtherPanic, Causes, Zenon
<1>3. CASE TickHeartbeat
  <2>1. UNCHANGED <<log, user, panicked>>
    BY <1>3, Zenon DEF TickHeartbeat
  <2> QED
    BY <1>1, <2>1, Zenon
<1>4. CASE TickElection
  <2>1. Hup(0) \/ UNCHANGED <<log, user, panicked>>
    BY <1>4, Zenon DEF TickElection
  <2>2. Hup(0) => UNCHANGED <<log, user, panicked>> \/ PanicInTick("votes")
    BY HupIndexes, Zenon DEF Hup, Campaign
  <2> QED
    BY <1>1, <1>2, <2>1, <2>2, Zenon
<1> QED
  BY <1>3, <1>4, Zenon DEF Tick

\* Votes, heartbeats and calls of becomeCandidate leave the log alone.
LEMMA VotesIndexed ==
  ASSUME Indexed, NoLogPanic, ReceiveVote \/ ReceiveVoteResp \/ CallBecomeCandidate
                              \/ \E t \in Terms : StepHeartbeat(t)
  PROVE  Indexed' /\ NoLogPanic'
<1>1. \/ UNCHANGED <<log, user, panicked>>
      \/ PanicInTick("send") \/ PanicInTick("votes")
  BY LastTermIsThere, Zenon
     DEF ReceiveVote, StepVote, StepVoteNoChange, ReceiveVoteResp, CallBecomeCandidate,
         StepHeartbeat, Panic, vars
<1> QED
  BY <1>1, NothingOfLog, OtherPanic, Causes, Zenon

\* maybeAppend applies nothing and takes back no commit.
LEMMA MaybeAppendKeepsApplied ==
  ASSUME NEW s, NEW l, IsLog(l), l.applied <= l.committed,
         NEW index \in Nat, NEW committed \in Nat, NEW T, NEW ents \in Seq(T),
         NEW r, r = MaybeAppend(s, l, index, committed, ents)
  PROVE  r.applied <= r.committed
<1> DEFINE appended == AppendFromConflict(s, l, index, ents)
           n == Min2(committed, index + Len(ents))
           ci == FindConflict(s, l, index + 1, ents)
           rest == SubSeq(ents, ci - index, Len(ents))
<1>1. appended = l \/ appended = AppendEntries(l, ci, rest)
  BY Zenon DEF AppendFromConflict
<1>2. n \in Nat
  BY DEF Min2
<1>3. r = CommitTo(appended, n)
  BY Zenon DEF MaybeAppend
<1> HIDE DEF appended, n, ci, rest
<1>4. IsLog(appended) /\ appended.committed = l.committed /\ appended.applied = l.applied
  <2>1. CASE appended = l
    BY <2>1, Zenon
  <2>2. CASE appended = AppendEntries(l, ci, rest)
    <3>1. Kept(l, appended)
      BY <2>2, AppendKeeps, Zenon
    <3> QED
      BY <3>1 DEF Kept
  <2> QED
    BY <1>1, <2>1, <2>2, Zenon
<1>5. PICK O, U : appended \in LogsOf(O, U)
  BY <1>4, Zenon DEF IsLog
<1>6. r = [appended EXCEPT !.committed = Max2(appended.committed, n)]
  BY <1>3, Zenon DEF CommitTo
<1>7. r.applied = appended.applied /\ r.committed = Max2(appended.committed, n)
  BY <1>5, <1>6 DEF LogsOf
<1>8. l.applied \in Nat /\ l.committed \in Nat
  BY IndexesAreNat, Zenon
<1>9. Max2(appended.committed, n) >= l.committed /\ Max2(appended.committed, n) \in Nat
  BY <1>2, <1>4, <1>8 DEF Max2
<1>10. l.applied <= Max2(appended.committed, n)
  BY <1>8, <1>9
<1> QED
  BY <1>4, <1>7, <1>10, Zenon

\* No MsgApp of any leader takes log.go to one of its panics.
LEMMA AppIndexed ==
  ASSUME IInv, Indexed, NoLogPanic, ReceiveApp
  PROVE  Indexed' /\ NoLogPanic'
<1> PICK t \in Terms : \E prev, last \in 0 .. Len(LeaderLog[t]), c \in CommitsOf(t) :
                          StepApp(t, MsgApp(t, prev, last, c))
  BY Zenon DEF ReceiveApp
<1>1. PICK prev \in 0 .. Len(LeaderLog[t]), last \in 0 .. Len(LeaderLog[t]),
           c \in CommitsOf(t) : StepApp(t, MsgApp(t, prev, last, c))
  BY Zenon
<1> DEFINE m == MsgApp(t, prev, last, c)
<1>2. /\ m.index = prev /\ m.logTerm = LeaderTerm(t, prev)
      /\ m.index \in Nat /\ m.commit \in Nat /\ m.ents \in Seq(Terms)
  <2>1. LeaderLog[t] \in Seq(Terms)
    BY LeadersAssumption
  <2>2. Len(LeaderLog[t]) \in Nat /\ Len(Decided) \in Nat
    BY <2>1, LeadersAssumption
  <2>3. prev \in Nat /\ last \in Nat /\ last <= Len(LeaderLog[t])
    BY <2>2
  <2>4. c \in Nat
    BY <2>2 DEF CommitsOf
  <2>5. SubSeq(LeaderLog[t], prev + 1, last) \in Seq(Terms)
    BY <2>1, <2>3
  <2> QED
    BY <2>3, <2>4, <2>5 DEF MsgApp
<1>3. /\ Stored(storage) /\ Laid(storage, log)
      /\ log.applied <= log.committed /\ IsLog(log)
  BY Zenon DEF Indexed, IInv, Logs
<1>4. log.committed \in Nat /\ ~TermPanics(storage, log, m.index)
  BY <1>2, <1>3, LaidFacts, TermIsNat, Zenon
<1> HIDE DEF m
<1>5. m.index < log.committed \/ log.committed <= m.index
  BY <1>2, <1>4
<1>6. ASSUME log.committed <= m.index, MatchTerm(storage, log, m.index, m.logTerm)
      PROVE  /\ ~MaybeAppendPanics(storage, log, m.index, m.commit, m.ents)
             /\ Laid(storage, MaybeAppend(storage, log, m.index, m.commit, m.ents))
  <2>1. m.index <= LogEnd(log)
    BY <1>2, <1>3, <1>6, PrevIsInside, Zenon
  <2> QED
    BY <1>2, <1>3, <1>6, <2>1, MaybeAppendIndexes, Zenon
<1>7. ~AppPanics(m)
  BY <1>4, <1>5, <1>6, Zenon DEF AppPanics
<1>8. /\ log' = IF Accepts(m) THEN MaybeAppend(storage, log, m.index, m.commit, m.ents)
                ELSE log
      /\ UNCHANGED <<user, panicked>>
  BY <1>1, <1>7, Zenon DEF StepApp, m
<1>9. log.committed <= m.index \/ ~Accepts(m)
  BY <1>2, <1>4 DEF Accepts
<1>10. Laid(storage, log')
  BY <1>3, <1>6, <1>8, <1>9, Zenon DEF Accepts
<1>11. UNCHANGED <<storage, hardState>> /\ panicked' = panicked
  BY <1>8, Zenon DEF user
<1>12. log'.applied <= log'.committed
  <2> DEFINE r == MaybeAppend(storage, log, m.index, m.commit, m.ents)
  <2>2. r.applied <= r.committed
    BY <1>2, <1>3, MaybeAppendKeepsApplied, Zenon
  <2>3. log' = r \/ log' = log
    BY <1>8, Zenon
  <2> QED
    BY <1>3, <2>2, <2>3, Zenon
<1>13. Indexed'
  BY <1>10, <1>11, <1>12, Zenon DEF Indexed
<1> QED
  BY <1>11, <1>13, Zenon DEF NoLogPanic

\* becomeLeader appends its empty entry right after the last one.
LEMMA CallBecomeLeaderIndexed ==
  ASSUME IInv, Indexed, NoLogPanic, CallBecomeLeader
  PROVE  Indexed' /\ NoLogPanic'
<1> DEFINE last == LastIndex(storage, log)
           ents == <<currentTerm>>
<1>1. Stored(storage) /\ Laid(storage, log)
  BY Zenon DEF Indexed
<1>2. last = LogEnd(log) /\ last \in Nat /\ log.committed <= LogEnd(log) /\ log.committed \in Nat
  BY <1>1, LaidFacts, Zenon DEF Laid
<1>3. ents \in Seq(Nat) /\ ents # <<>>
  <2>1. currentTerm \in Nat
    BY Zenon DEF IInv, Elected
  <2> QED
    BY <2>1
<1> HIDE DEF last, ents
<1>4. last + 1 \in Nat /\ log.committed < last + 1 /\ last + 1 <= LogEnd(log) + 1
  BY <1>2
<1>5. /\ ~AppendPanics(log, last + 1)
      /\ Laid(storage, AppendEntries(log, last + 1, ents))
  BY <1>1, <1>3, <1>4, AppendIndexes
<1>6. CASE ~config.tracked
  <2>1. PanicInTick("progress")
    BY <1>5, <1>6, Zenon DEF CallBecomeLeader, Panic, last
  <2> QED
    BY <2>1, OtherPanic, Causes, Zenon
<1>7. CASE config.tracked
  <2>1. /\ log' = AppendEntries(log, last + 1, ents)
        /\ UNCHANGED <<user, panicked>>
    BY <1>5, <1>7, Zenon DEF CallBecomeLeader, last, ents
  <2>2. UNCHANGED <<storage, hardState>> /\ panicked' = panicked
    BY <2>1, Zenon DEF user
  <2>3. log'.applied = log.applied /\ log'.committed = log.committed
    <3>1. IsLog(log)
      BY Zenon DEF IInv, Logs
    <3>2. Kept(log, log')
      BY <2>1, <3>1, AppendKeeps, Zenon
    <3> QED
      BY <3>2 DEF Kept
  <2>4. Indexed'
    BY <1>5, <2>1, <2>2, <2>3, Zenon DEF Indexed
  <2> QED
    BY <2>2, <2>4, Zenon DEF NoLogPanic
<1> QED
  BY <1>6, <1>7, Zenon

\* The user saves, applies, and crashes.
LEMMA UserIndexed ==
  ASSUME IInv, Indexed, NoLogPanic, SaveAndSend \/ Apply \/ Restart
  PROVE  Indexed' /\ NoLogPanic'
<1>1. /\ Stored(storage) /\ Laid(storage, log) /\ hardState.commit < Len(storage.ents)
      /\ log.applied <= log.committed /\ IsLog(log)
  BY Zenon DEF Indexed, IInv, Logs
<1>2. CASE SaveAndSend
  <2>1. /\ storage' = MSAppend(storage, log.offset, log.unstable)
        /\ log' = IF log.unstable = <<>> THEN log
                  ELSE StableTo(log, LastIndex(storage, log), LastTerm)
        /\ hardState' = [term |-> currentTerm, vote |-> vote, commit |-> log.committed]
        /\ panicked' = panicked
    BY <1>2, SaveHasNoGap, Zenon DEF SaveAndSend
  <2>2. /\ Stored(storage') /\ Laid(storage', log')
        /\ log.committed < Len(storage'.ents)
    BY <1>1, <2>1, SaveIndexes, Zenon DEF LastTerm
  <2>3. hardState'.commit = log.committed
    BY <2>1
  <2>4. log'.applied = log.applied /\ log'.committed = log.committed
    <3>1. log' = log \/ log' = StableTo(log, LastIndex(storage, log), LastTerm)
      BY <2>1, Zenon
    <3>2. CASE log' = log
      BY <3>2
    <3>3. CASE log' = StableTo(log, LastIndex(storage, log), LastTerm)
      <4>1. Kept(log, log')
        BY <1>1, <3>3, StableToKeeps, Zenon
      <4> QED
        BY <4>1 DEF Kept
    <3> QED
      BY <3>1, <3>2, <3>3, Zenon
  <2>5. Indexed'
    BY <1>1, <2>2, <2>3, <2>4, Zenon DEF Indexed
  <2> QED
    BY <2>1, <2>5, Zenon DEF NoLogPanic
<1>3. CASE Apply
  <2>1. /\ log.applied < log.committed /\ log' = AppliedTo(log, log.committed)
        /\ UNCHANGED <<storage, hardState>> /\ panicked' = panicked
    BY <1>3, Zenon DEF Apply, user
  <2> DEFINE S == Seq(Nat)
  <2>2. log \in LogsOf(Nat, S)
    BY <1>1 DEF Laid, IndexedLogs
  <2> HIDE DEF S
  <2>3. /\ log' \in LogsOf(Nat, S) /\ log'.offset = log.offset
        /\ log'.unstable = log.unstable /\ log'.committed = log.committed
    <3>1. log.committed # 0 /\ log.committed \in Nat
      BY <2>1, <2>2 DEF LogsOf
    <3>2. log' = [log EXCEPT !.applied = log.committed]
      BY <2>1, <3>1, Zenon DEF AppliedTo
    <3> QED
      BY <2>2, <3>1, <3>2 DEF LogsOf
  <2>4. log' \in IndexedLogs
    BY <2>3, Zenon DEF IndexedLogs, S
  <2>5. Laid(storage, log')
    BY <1>1, <2>3, <2>4, Zenon DEF Laid, LogEnd
  <2>6. log'.applied <= log'.committed
    <3>1. log'.applied = log.committed /\ log'.committed = log.committed
      BY <1>1, <2>1, AppliedToCommitted, Zenon
    <3>2. log.committed \in Nat
      BY <1>1, IndexesAreNat, Zenon
    <3>3. log.committed <= log.committed
      BY <3>2
    <3> QED
      BY <3>1, <3>3, Zenon
  <2>7. Indexed'
    BY <1>1, <2>1, <2>5, <2>6, Zenon DEF Indexed
  <2> QED
    BY <2>1, <2>7, Zenon DEF NoLogPanic
<1>4. CASE Restart
  <2>1. /\ panicked' = IF LoadStatePanics \/ SavedTermPanics THEN "log" ELSE "no"
        /\ log' = [NewLog(storage) EXCEPT !.committed = hardState.commit]
        /\ UNCHANGED <<storage, hardState>>
    BY <1>4, Zenon DEF Restart, user
  <2>2. hardState.commit \in Nat
    <3>1. hardState \in HardStates
      BY Zenon DEF IInv, Logs
    <3> QED
      BY <3>1 DEF HardStates
  <2>3. /\ Laid(storage, log') /\ log'.applied = 0 /\ ~LoadStatePanics
        /\ MSTerm(storage, MSLastIndex(storage)) \in Nat
    BY <1>1, <2>1, <2>2, RestartIndexes, Zenon DEF LoadStatePanics
  <2>4. ~SavedTermPanics
    BY <2>3 DEF SavedTermPanics, ErrCompacted, ErrUnavailable
  <2>5. log'.applied <= log'.committed
    <3>1. log'.committed \in Nat
      BY <1>1, <2>3, LaidFacts, Zenon
    <3> QED
      BY <2>3, <3>1
  <2>6. Indexed'
    BY <1>1, <2>1, <2>3, <2>5, Zenon DEF Indexed
  <2> QED
    BY <2>1, <2>3, <2>4, <2>6, Causes, Zenon DEF NoLogPanic
<1> QED
  BY <1>2, <1>3, <1>4, Zenon

\* A node starts with an empty log on an empty storage.
LEMMA IndexedInitially == Init => Indexed /\ NoLogPanic
<1> SUFFICES ASSUME Init
             PROVE  Indexed /\ NoLogPanic
  OBVIOUS
<1>1. /\ storage = NewMemoryStorage /\ log = NewLog(storage) /\ panicked = "no"
      /\ hardState = [term |-> currentTerm, vote |-> None, commit |-> 0]
  BY Zenon DEF Init
<1>2. Stored(storage) /\ Len(storage.ents) = 1
  BY <1>1 DEF NewMemoryStorage, Stored
<1>3. hardState.commit = 0 /\ 0 < 1 /\ 0 \in Nat
  BY <1>1
<1>4. [log EXCEPT !.committed = 0] = log
  <2>1. log = [offset |-> 1, unstable |-> <<>>, committed |-> 0, applied |-> 0]
    BY <1>1 DEF NewLog, NewMemoryStorage, MSLastIndex, MSFirstIndex
  <2> QED
    BY <2>1
<1>5. Laid(storage, log) /\ log.applied = 0
  <2>1. log = [NewLog(storage) EXCEPT !.committed = 0]
    BY <1>1, <1>4, Zenon
  <2>2. 0 \in Nat /\ 0 < Len(storage.ents)
    BY <1>2
  <2> QED
    BY <1>2, <2>1, <2>2, RestartIndexes, Zenon
<1>6. log.applied <= log.committed
  <2>1. log.committed \in Nat
    BY <1>2, <1>5, LaidFacts, Zenon
  <2> QED
    BY <1>5, <2>1
<1> QED
  BY <1>1, <1>2, <1>3, <1>5, <1>6, Causes, Zenon DEF Indexed, NoLogPanic

\* Every step keeps the indexes, and with them log.go from its panics.
LEMMA NextIndexed == IInv /\ Indexed /\ NoLogPanic /\ [Next]_vars => Indexed' /\ NoLogPanic'
<1>1. ASSUME Indexed, NoLogPanic, UNCHANGED vars
      PROVE  Indexed' /\ NoLogPanic'
  <2>1. UNCHANGED <<log, user, panicked>>
    BY <1>1, Zenon DEF vars
  <2> QED
    BY <1>1, <2>1, NothingOfLog, Zenon
<1>2. ASSUME IInv, Indexed, NoLogPanic, Next
      PROVE  Indexed' /\ NoLogPanic'
  BY <1>2, TickIndexed, VotesIndexed, AppIndexed, CallBecomeLeaderIndexed,
     UserIndexed, Zenon DEF Next
<1> QED
  BY <1>1, <1>2, Zenon

\* Whatever leaders, candidates, the user and crashes do, in whatever order, and
\* whether the tracker is filled or not and the Term 0 or not, nothing of log.go,
\* log_unstable.go and storage.go panics, nor does loadState: maybeAppend, append,
\* commitTo, the slice Step(MsgHup) asks for, lastTerm, and Append of the storage.
THEOREM NoLogPanicHolds == Spec => []NoLogPanic
<1>1. Init => IInv /\ Indexed /\ NoLogPanic
  BY InitEstablishes, IndexedInitially, Zenon
<1>2. IInv /\ Indexed /\ NoLogPanic /\ [Next]_vars => (IInv /\ Indexed /\ NoLogPanic)'
  BY NextPreserves, NextIndexed, Zenon
<1> QED
  BY <1>1, <1>2, PTL DEF Spec
=============================================================================
