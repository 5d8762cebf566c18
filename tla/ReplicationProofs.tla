------------------------- MODULE ReplicationProofs -------------------------
(***************************************************************************)
(* The inductive invariant of Replication, and what follows from it.       *)
(*                                                                         *)
(* IInv is unconditional.  Its heart is how the acknowledgements and the   *)
(* commit indexes hang together: up to the leader's commit index, what a   *)
(* follower acknowledges is committed at the follower itself, since every  *)
(* MsgApp that goes so far says so (OutMessageOK); once the answer is let  *)
(* out it is committed in the HardState (NetMessageOK), and so is Match    *)
(* (ProgressAt).  A heartbeat therefore commits nothing that a follower    *)
(* might not have, whatever it lost in a crash.                            *)
(*                                                                         *)
(* DInv says that Match and the acknowledgements are of entries a crash    *)
(* leaves; it needs that no MsgApp of a deposed leader truncates them.     *)
(***************************************************************************)
EXTENDS Replication, RaftLogProofs

\* No deposed leader of whom a MsgApp is under way has an entry where this one
\* has another; with OldTerms = {} there is no such leader.  The code drops no
\* message for its term, so that without this MatchIsReplicated and
\* MatchIsDurable are false.
OldLeadersAgree ==
  \A t \in OldTerms : \A i \in 1 .. Len(LeaderLog[t]) :
    i <= LeaderLast => LeaderLog[t][i] = LeaderLog[Me][i]

\* What the leader knows of a follower.
ProgressRecords ==
  [match : 0 .. LeaderLast, next : 1 .. LeaderLast + 1, state : States \cup {"Probe"},
   pendingSnapshot : Nat, recentActive : BOOLEAN, probeSent : BOOLEAN,
   inflights : Seq(1 .. LeaderLast)]
GoodProgress(pr) == pr \in ProgressRecords /\ Len(pr.inflights) <= MaxInflight

\* The leader, a log of which nothing is with its user.
NoBatch == [stage |-> "none", first |-> 0, ents |-> <<>>, apply |-> <<>>, commit |-> 0]
LeaderOK(s) ==
  /\ SafeState(s, LeaderCommit, LeaderRaftLog, NoBatch, SubSeq(Decided, 1, LeaderCommit))
  /\ s.snap.index = s.index

\* A follower: its storage, the commit index in its HardState, and its log.  It
\* commits what the leader has, whoever told it to.
FollowerOK(s, hc, l) ==
  /\ StorageOK(s, hc) /\ s.index = 0
  /\ RaftLogOK(s, l)
  /\ hc \in CommitsOf(Me) /\ l.committed \in CommitsOf(Me) /\ hc <= l.committed

\* Messages.
AppOK(m) ==
  /\ m.to \in Followers /\ m.index \in 0 .. LeaderLast
  /\ m.logTerm = LeaderTerm(Me, m.index)
  /\ Carries(Me, m.index, m.ents)
  /\ m.commit = LeaderCommit
RespOK(m) ==
  m.from \in Followers /\ m.index \in 0 .. LeaderLast /\ m.reject \in BOOLEAN /\ m.hint \in Nat
MessageOK(m) ==
  \/ m.type = "MsgApp" /\ AppOK(m)
  \/ m.type = "MsgAppResp" /\ RespOK(m)
  \/ m.type = "MsgSnap" /\ m.to \in Followers
  \/ m.type = "MsgHeartbeat" /\ m.to \in Followers /\ m.commit \in Nat
  \/ m.type = "MsgHeartbeatResp" /\ m.from \in Followers

Accepts(m) == m.type = "MsgAppResp" /\ ~m.reject
Answers(m) == m.type \in {"MsgAppResp", "MsgHeartbeatResp"}

\* A Progress, of a follower whose HardState has the commit index hc.
ProgressAt(pr, hc) ==
  /\ GoodProgress(pr)
  /\ Min2(pr.match, LeaderCommit) <= hc
  /\ pr.state = "Replicate" => pr.match < pr.next

\* A message in r.msgs of f, whose log is l; and one under way, hc being the
\* commit indexes in the HardStates.
OutMessageOK(m, f, l) ==
  /\ MessageOK(m) /\ m.type \in {"MsgAppResp", "MsgHeartbeatResp"} /\ m.from = f
  /\ Accepts(m) => Min2(m.index, LeaderCommit) <= l.committed
NetMessageOK(m, hc) ==
  /\ MessageOK(m)
  /\ Accepts(m) => Min2(m.index, LeaderCommit) <= hc[m.from]
  /\ m.type = "MsgHeartbeat" => m.commit <= hc[m.to]

\* The parts of the invariant.
FaultsOK ==
  lost \in 0 .. MaxLost /\ repeated \in 0 .. MaxRepeated /\ restarts \in 0 .. MaxRestarts
ProgressOK ==
  /\ progress \in [Followers -> ProgressRecords]
  /\ \A f \in Followers : ProgressAt(progress[f], hardCommit[f])
FollowersOK ==
  /\ DOMAIN storage = Followers /\ DOMAIN log = Followers /\ DOMAIN outbox = Followers
  /\ hardCommit \in [Followers -> Nat]
  /\ \A f \in Followers : FollowerOK(storage[f], hardCommit[f], log[f])
OutboxOK ==
  \A f \in Followers :
    IsABag(outbox[f]) /\ \A m \in BagToSet(outbox[f]) : OutMessageOK(m, f, log[f])
NetworkOK ==
  IsABag(network) /\ \A m \in BagToSet(network) : NetMessageOK(m, hardCommit)

IInv ==
  /\ leading \in BOOLEAN /\ panicked = FALSE /\ FaultsOK
  /\ LeaderOK(leaderStorage)
  /\ ProgressOK /\ FollowersOK /\ OutboxOK /\ NetworkOK

\* The first n entries of the leader are in a storage, in the log over it, and in
\* both.
Durable(s, n) == n <= MSLastIndex(s) /\ \A i \in 1 .. n : SAt(s, i) = LeaderLog[Me][i]
Present(s, l, n) ==
  n <= LastIndex(s, l) /\ Same(Over(s, l.offset, l.unstable), LeaderLog[Me], n)
Kept(f, n) == Durable(storage[f], n) /\ Present(storage[f], log[f], n)
\* What f has acknowledged, heard of or not; what it is about to acknowledge is in
\* its log, and will be stored before the answer leaves.
DInv ==
  /\ \A f \in Followers : Kept(f, progress[f].match)
  /\ \A f \in Followers : \A m \in BagToSet(outbox[f]) :
       Accepts(m) => Present(storage[f], log[f], m.index)
  /\ \A m \in BagToSet(network) : Accepts(m) => Kept(m.from, m.index)
-----------------------------------------------------------------------------
(* Bags. *)

\* The bag of a set, and the empty one.
LEMMA SetToBagFacts ==
  ASSUME NEW S
  PROVE  /\ IsABag(SetToBag(S)) /\ BagToSet(SetToBag(S)) = S
         /\ IsABag(EmptyBag) /\ BagToSet(EmptyBag) = {}
BY DEF IsABag, BagToSet, SetToBag, EmptyBag

\* What is in a sum of bags is in one of them.
LEMMA BagSumFacts ==
  ASSUME NEW A, NEW B, IsABag(A), IsABag(B)
  PROVE  IsABag(A (+) B) /\ BagToSet(A (+) B) = BagToSet(A) \cup BagToSet(B)
<1>1. DOMAIN (A (+) B) = (DOMAIN A) \cup (DOMAIN B)
  BY DEF (+)
<1>2. ASSUME NEW e \in (DOMAIN A) \cup (DOMAIN B)
      PROVE  (A (+) B)[e] \in {n \in Nat : n > 0}
  <2>1. (A (+) B)[e] = (IF e \in DOMAIN A THEN A[e] ELSE 0)
                        + (IF e \in DOMAIN B THEN B[e] ELSE 0)
    BY DEF (+)
  <2>2. /\ e \in DOMAIN A => A[e] \in Nat /\ A[e] > 0
        /\ e \in DOMAIN B => B[e] \in Nat /\ B[e] > 0
    BY DEF IsABag
  <2> QED BY <2>1, <2>2
<1>3. A (+) B = [e \in DOMAIN (A (+) B) |-> (A (+) B)[e]]
  BY DEF (+)
<1> QED BY <1>1, <1>2, <1>3 DEF IsABag, BagToSet

\* Taking one message out leaves a bag of the same messages, or fewer.
LEMMA BagMinusFacts ==
  ASSUME NEW A, NEW S, IsABag(A)
  PROVE  /\ IsABag(A (-) SetToBag(S))
         /\ BagToSet(A (-) SetToBag(S)) \subseteq BagToSet(A)
<1> DEFINE B == [e \in DOMAIN A |-> IF e \in S THEN A[e] - 1 ELSE A[e]]
           D == {d \in DOMAIN B : B[d] > 0}
<1>1. A (-) SetToBag(S) = [e \in D |-> B[e]]
  BY DEF (-), SetToBag
<1>2. D \subseteq DOMAIN A
  OBVIOUS
<1>3. ASSUME NEW e \in D
      PROVE  B[e] \in {n \in Nat : n > 0}
  <2>1. A[e] \in Nat /\ A[e] > 0
    BY DEF IsABag
  <2>2. B[e] > 0 /\ B[e] = IF e \in S THEN A[e] - 1 ELSE A[e]
    OBVIOUS
  <2> HIDE DEF B
  <2> QED BY <2>1, <2>2
<1> HIDE DEF B, D
<1>4. [e \in D |-> B[e]] \in [D -> {n \in Nat : n > 0}] /\ DOMAIN [e \in D |-> B[e]] = D
  BY <1>3
<1> QED BY <1>1, <1>2, <1>4 DEF IsABag, BagToSet
-----------------------------------------------------------------------------
(* The leader's log. *)

\* The constants.
LEMMA MeFacts ==
  /\ Me \in Terms /\ LeaderLog[Me] \in Seq(Terms) /\ LeaderLast \in Nat \ {0}
  /\ LeaderLog[Me][LeaderLast] = Me
  /\ LeaderCommit \in CommitsOf(Me) /\ LeaderCommit \in Nat /\ LeaderCommit < LeaderLast
  /\ LeaderCommit <= Len(Decided) /\ Decided \in Seq(Terms) /\ Len(Decided) \in Nat
BY LeadersAssumption, ReplicationAssumption DEF CommitsOf, LeaderLast

\* What a leader may announce is a prefix of its log and of the decided one.
LEMMA CommitsFacts ==
  ASSUME NEW t \in Terms, NEW c \in CommitsOf(t)
  PROVE  /\ c \in Nat /\ c <= Len(Decided) /\ c <= Len(LeaderLog[t])
         /\ \A i \in 1 .. c : LeaderLog[t][i] = Decided[i]
         /\ \A d \in 0 .. c : d \in CommitsOf(t)
<1>1. /\ c \in 0 .. Len(Decided) /\ c <= Len(LeaderLog[t])
      /\ \A i \in 1 .. c : LeaderLog[t][i] = Decided[i]
  BY DEF CommitsOf
<1>2. Len(Decided) \in Nat /\ Len(LeaderLog[t]) \in Nat
  BY LeadersAssumption
<1>3. ASSUME NEW d \in 0 .. c
      PROVE  d \in CommitsOf(t)
  <2>1. d \in 0 .. Len(Decided) /\ d <= Len(LeaderLog[t])
    BY <1>1, <1>2
  <2>2. \A i \in 1 .. d : LeaderLog[t][i] = Decided[i]
    BY <1>1
  <2> QED BY <2>1, <2>2 DEF CommitsOf
<1> QED BY <1>1, <1>2, <1>3

\* 0 may always be announced.
LEMMA NoCommit == ASSUME NEW t \in Terms PROVE 0 \in CommitsOf(t)
BY LeadersAssumption DEF CommitsOf

\* The fields of the leader's raftLog.
LEMMA LeaderRaftLogFacts ==
  /\ LeaderRaftLog \in [offset : Nat, unstable : Seq(Terms), committed : Nat, applied : Nat]
  /\ LeaderRaftLog.offset = LeaderLast /\ LeaderRaftLog.unstable = <<Me>>
  /\ LeaderRaftLog.committed = LeaderCommit /\ LeaderRaftLog.applied = LeaderCommit
BY MeFacts DEF LeaderRaftLog

\* Whatever the leader has compacted, its log reads as LeaderLog[Me].
LEMMA LeaderFacts ==
  ASSUME NEW s, LeaderOK(s)
  PROVE  /\ StorageOK(s, LeaderCommit) /\ RaftLogOK(s, LeaderRaftLog)
         /\ s.index \in Nat /\ s.index <= LeaderCommit /\ s.snap.index = s.index
         /\ LastIndex(s, LeaderRaftLog) = LeaderLast
         /\ \A i \in 1 .. LeaderLast :
              Over(s, LeaderRaftLog.offset, LeaderRaftLog.unstable)[i] = LeaderLog[Me][i]
<1> DEFINE l == LeaderRaftLog
           g == Over(s, l.offset, l.unstable)
<1>1. /\ StorageOK(s, LeaderCommit) /\ RaftLogOK(s, l) /\ StorageType(s)
      /\ s.index \in Nat /\ s.snap.index = s.index
  BY SafeFacts DEF LeaderOK
<1>2. /\ LogOK(s, l.offset, l.unstable, l.committed)
      /\ LastIndex(s, l) = Last(s, l.offset, l.unstable)
      /\ s.index <= l.committed
  BY <1>1, RaftLogFacts
<1>3. LastIndex(s, l) = LeaderLast
  BY MeFacts, LeaderRaftLogFacts DEF LastIndex
<1>4. Had(g, LeaderLast)
  BY <1>2, <1>3, MeFacts DEF LogOK, CoherentTo
<1>5. g[LeaderLast] = Me
  <2>1. g[LeaderLast] = IF l.offset <= LeaderLast /\ LeaderLast < l.offset + Len(l.unstable)
                          THEN l.unstable[LeaderLast - l.offset + 1] ELSE SAt(s, LeaderLast)
    BY MeFacts, OverAt
  <2> QED BY <2>1, MeFacts, LeaderRaftLogFacts
<1>6. \A j \in 1 .. LeaderLast : g[j] = LeaderLog[Me][j]
  BY <1>4, <1>5 DEF Had
<1> QED BY <1>1, <1>2, <1>3, <1>6, LeaderRaftLogFacts
-----------------------------------------------------------------------------
(* A Progress. *)

\* The types of the fields.
LEMMA ProgressFacts ==
  ASSUME NEW pr, GoodProgress(pr)
  PROVE  /\ pr.match \in 0 .. LeaderLast /\ pr.next \in 1 .. LeaderLast + 1
         /\ pr.state \in States \cup {"Probe"} /\ pr.state # "Snapshot"
         /\ pr.pendingSnapshot \in Nat
         /\ pr.recentActive \in BOOLEAN /\ pr.probeSent \in BOOLEAN
         /\ pr.inflights \in Seq(1 .. LeaderLast)
         /\ Len(pr.inflights) \in Nat /\ Len(pr.inflights) <= MaxInflight
<1>1. pr \in ProgressRecords /\ Len(pr.inflights) <= MaxInflight
  BY DEF GoodProgress
<1>2. pr.inflights \in Seq(1 .. LeaderLast)
  BY <1>1 DEF ProgressRecords
<1> QED BY <1>1, <1>2, ReplicationAssumption DEF ProgressRecords

\* A Progress as reset makes it.
LEMMA NewProgressFacts ==
  ASSUME NEW next \in 1 .. LeaderLast + 1, NEW state \in States \cup {"Probe"}
  PROVE  /\ GoodProgress(NewProgress(next, state)) /\ NewProgress(next, state).match = 0
         /\ NewProgress(next, state).next = next /\ NewProgress(next, state).state = state
         /\ NewProgress(next, state).probeSent = FALSE
<1>1. <<>> \in Seq(1 .. LeaderLast) /\ Len(<<>>) = 0
  OBVIOUS
<1> QED BY <1>1, MeFacts, ProgressAssumption DEF GoodProgress, ProgressRecords, NewProgress

\* Hearing from the follower.
LEMMA HeardFacts ==
  ASSUME NEW pr, GoodProgress(pr), NEW r, r = [pr EXCEPT !.recentActive = TRUE]
  PROVE  /\ GoodProgress(r) /\ r.match = pr.match /\ r.next = pr.next /\ r.state = pr.state
         /\ r.probeSent = pr.probeSent
BY DEF GoodProgress, ProgressRecords

\* MaybeUpdate with an index of the leader's log.
LEMMA MaybeUpdateFacts ==
  ASSUME NEW pr, GoodProgress(pr), NEW n \in 0 .. LeaderLast, NEW r, r = MaybeUpdate(pr, n)
  PROVE  /\ GoodProgress(r) /\ r.state = pr.state
         /\ r.match = IF pr.match < n THEN n ELSE pr.match
         /\ r.next = IF pr.next < n + 1 THEN n + 1 ELSE pr.next
         /\ r.probeSent = (pr.probeSent /\ ~Updates(pr, n))
<1>3. (IF pr.match < n THEN n ELSE pr.match) \in 0 .. LeaderLast
  BY ProgressFacts, MeFacts
<1>4. (IF pr.next < n + 1 THEN n + 1 ELSE pr.next) \in 1 .. LeaderLast + 1
  BY ProgressFacts, MeFacts
<1>5. pr \in ProgressRecords /\ Len(pr.inflights) <= MaxInflight
  BY DEF GoodProgress
<1>6. r = [pr EXCEPT !.match     = IF pr.match < n THEN n ELSE pr.match,
                     !.next      = IF pr.next < n + 1 THEN n + 1 ELSE pr.next,
                     !.probeSent = pr.probeSent /\ ~Updates(pr, n)]
  BY <1>5 DEF MaybeUpdate, ProgressRecords
<1> DEFINE a == IF pr.match < n THEN n ELSE pr.match
           b == IF pr.next < n + 1 THEN n + 1 ELSE pr.next
           c == pr.probeSent /\ ~Updates(pr, n)
<1>7. c \in BOOLEAN
  OBVIOUS
<1> HIDE DEF a, b, c
<1>8. r = [pr EXCEPT !.match = a, !.next = b, !.probeSent = c]
  BY <1>6 DEF a, b, c
<1>9. a \in 0 .. LeaderLast /\ b \in 1 .. LeaderLast + 1
  BY <1>3, <1>4 DEF a, b
<1>10. /\ r \in ProgressRecords /\ r.inflights = pr.inflights /\ r.state = pr.state
       /\ r.match = a /\ r.next = b
  BY <1>5, <1>7, <1>8, <1>9 DEF ProgressRecords
<1>11. r.probeSent = c
  BY <1>5, <1>8 DEF ProgressRecords
<1> QED BY <1>5, <1>10, <1>11 DEF a, b, c, GoodProgress

\* MaybeDecrTo never looks at Match, but for the window's bottom.
LEMMA MaybeDecrToFacts ==
  ASSUME NEW pr, GoodProgress(pr), NEW i \in 0 .. LeaderLast, NEW last \in Nat,
         NEW r, r = MaybeDecrTo(pr, i, last)
  PROVE  /\ GoodProgress(r) /\ r.match = pr.match /\ r.state = pr.state
         /\ RejectionIsStale(pr, i) => r = pr
         /\ ~RejectionIsStale(pr, i) /\ pr.state = "Replicate" => r.next = pr.match + 1
         /\ ~RejectionIsStale(pr, i) /\ pr.state # "Replicate" =>
              /\ r.next = 1 \/ r.next = i \/ r.next = last + 1
              /\ r.next = 1 \/ r.next <= i
              /\ i > 0 => r.next = i \/ r.next = last + 1
              /\ ~r.probeSent
<1> DEFINE hint == IF i > last + 1 THEN last + 1 ELSE i
           low == IF hint < 1 THEN 1 ELSE hint
<1>1. /\ low \in 1 .. LeaderLast + 1 /\ (low = 1 \/ low = i \/ low = last + 1)
      /\ low = 1 \/ low <= i
      /\ i > 0 => low = i \/ low = last + 1
  BY MeFacts
<1>2. pr \in ProgressRecords /\ Len(pr.inflights) <= MaxInflight
  BY DEF GoodProgress
<1> HIDE DEF low
<1>3. CASE RejectionIsStale(pr, i)
  <2>1. r = pr
    BY <1>3 DEF MaybeDecrTo
  <2> QED BY <1>3, <2>1
<1>4. CASE ~RejectionIsStale(pr, i) /\ pr.state = "Replicate"
  <2>1. r = [pr EXCEPT !.next = pr.match + 1]
    BY <1>4 DEF MaybeDecrTo
  <2>2. pr.match + 1 \in 1 .. LeaderLast + 1
    BY ProgressFacts, MeFacts
  <2> QED BY <1>2, <1>4, <2>1, <2>2 DEF GoodProgress, ProgressRecords
<1>5. CASE ~RejectionIsStale(pr, i) /\ pr.state # "Replicate"
  <2>1. r = [pr EXCEPT !.next = low, !.probeSent = FALSE]
    BY <1>5 DEF MaybeDecrTo, low
  <2>2. /\ GoodProgress(r) /\ r.match = pr.match /\ r.state = pr.state /\ r.next = low
        /\ r.probeSent = FALSE
    BY <1>1, <1>2, <2>1 DEF GoodProgress, ProgressRecords
  <2> QED BY <1>1, <1>5, <2>2
<1> QED BY <1>3, <1>4, <1>5

\* What is left of a sequence without its first n elements.
LEMMA DropFacts ==
  ASSUME NEW S, NEW w \in Seq(S), NEW n \in 0 .. Len(w)
  PROVE  /\ SubSeq(w, n + 1, Len(w)) \in Seq(S)
         /\ Len(SubSeq(w, n + 1, Len(w))) = Len(w) - n
         /\ Len(SubSeq(w, n + 1, Len(w))) \in Nat
         /\ Len(SubSeq(w, n + 1, Len(w))) <= Len(w)
<1>1. n \in Nat /\ Len(w) \in Nat
  OBVIOUS
<1>2. SubSeq(w, n + 1, Len(w)) \in Seq(S) /\ Len(SubSeq(w, n + 1, Len(w))) = Len(w) - n
  BY <1>1, SubSeqProperties
<1> QED BY <1>1, <1>2

\* FreeLE empties the window from its front.
LEMMA FreeLEFacts ==
  ASSUME NEW pr, GoodProgress(pr), NEW to \in Nat, NEW r, r = FreeLE(pr, to)
  PROVE  /\ GoodProgress(r) /\ r.match = pr.match /\ r.next = pr.next /\ r.state = pr.state
         /\ r.probeSent = pr.probeSent
<1> DEFINE w == pr.inflights
           Frees(i) == /\ \A k \in 1 .. i : w[k] <= to
                       /\ i < Len(w) => w[i + 1] > to
           S == {i \in 0 .. Len(w) : i < Len(w) => w[i + 1] > to}
           freed == CHOOSE i \in 0 .. Len(w) : Frees(i)
<1>1. w \in Seq(1 .. LeaderLast) /\ Len(w) \in Nat /\ Len(w) <= MaxInflight
  BY ProgressFacts
<1>2. \E i \in 0 .. Len(w) : Frees(i)
  <2>1. S \in SUBSET Nat /\ Len(w) \in S
    BY <1>1
  <2>2. PICK i \in S : \A j \in S : i <= j
    BY <2>1, MinExists
  <2>3. i \in 0 .. Len(w) /\ (i < Len(w) => w[i + 1] > to)
    OBVIOUS
  <2>4. ASSUME NEW k \in 1 .. i
        PROVE  w[k] <= to
    <3>1. /\ k - 1 \in 0 .. Len(w) /\ k - 1 < Len(w) /\ ~(i <= k - 1) /\ k - 1 + 1 = k
          /\ k \in 1 .. Len(w)
      BY <2>3, <1>1
    <3>2. k - 1 \notin S
      BY <2>2, <3>1
    <3>3. w[k] \in 1 .. LeaderLast
      BY <3>1, <1>1, ElementOfSeq
    <3> QED BY <3>1, <3>2, <3>3, MeFacts
  <2> QED BY <2>3, <2>4
<1>3. freed \in 0 .. Len(w)
  BY <1>2
<1>4. r = [pr EXCEPT !.inflights = SubSeq(w, freed + 1, Len(w))]
  BY DEF FreeLE, GoodProgress, ProgressRecords
<1> HIDE DEF w, freed
<1>5. /\ SubSeq(w, freed + 1, Len(w)) \in Seq(1 .. LeaderLast)
      /\ Len(SubSeq(w, freed + 1, Len(w))) <= Len(w)
      /\ Len(SubSeq(w, freed + 1, Len(w))) \in Nat
  BY <1>1, <1>3, DropFacts
<1>6. pr \in ProgressRecords /\ Len(w) <= MaxInflight
  BY DEF GoodProgress, w
<1> DEFINE v == SubSeq(w, freed + 1, Len(w))
<1> HIDE DEF v
<1>7. r = [pr EXCEPT !.inflights = v] /\ v \in Seq(1 .. LeaderLast)
  BY <1>4, <1>5 DEF v
<1>8. Len(v) <= MaxInflight
  BY <1>1, <1>5, ProgressAssumption DEF v
<1>9. /\ r \in ProgressRecords /\ r.match = pr.match /\ r.next = pr.next /\ r.state = pr.state
      /\ r.inflights = v /\ r.probeSent = pr.probeSent
  BY <1>6, <1>7 DEF ProgressRecords
<1> QED BY <1>8, <1>9 DEF GoodProgress

\* What maybeSendAppend makes of it.
LEMMA ProgressAfterFacts ==
  ASSUME NEW pr, GoodProgress(pr), ~IsPaused(pr), NEW last \in 1 .. LeaderLast, pr.next <= last,
         NEW r, r = ProgressAfter(pr, last)
  PROVE  /\ GoodProgress(r) /\ r.match = pr.match /\ r.state = pr.state /\ pr.next <= r.next
         /\ pr.state # "Replicate" => r.probeSent /\ r.next = pr.next
<1>1. pr \in ProgressRecords /\ Len(pr.inflights) <= MaxInflight
  BY DEF GoodProgress
<1>2. CASE pr.state = "Replicate"
  <2>1. r = [[pr EXCEPT !.next = last + 1] EXCEPT !.inflights = Append(@, last)]
    BY <1>2 DEF ProgressAfter, InflightsAdd, OptimisticUpdate
  <2>2. /\ pr.inflights \in Seq(1 .. LeaderLast) /\ Len(pr.inflights) \in Nat
        /\ Len(pr.inflights) # MaxInflight
    BY <1>2, ProgressFacts DEF IsPaused, Full
  <2>3. /\ Append(pr.inflights, last) \in Seq(1 .. LeaderLast)
        /\ Len(Append(pr.inflights, last)) <= MaxInflight
    BY <1>1, <2>2, ProgressAssumption
  <2>4. r = [pr EXCEPT !.next = last + 1, !.inflights = Append(pr.inflights, last)]
    BY <1>1, <2>1 DEF ProgressRecords
  <2>5. last + 1 \in 1 .. LeaderLast + 1 /\ pr.next <= last + 1
    BY ProgressFacts, MeFacts
  <2> QED BY <1>1, <1>2, <2>3, <2>4, <2>5 DEF GoodProgress, ProgressRecords
<1>3. CASE pr.state # "Replicate"
  <2>1. r = [pr EXCEPT !.probeSent = TRUE]
    BY <1>3 DEF ProgressAfter
  <2>2. pr.next <= pr.next
    BY ProgressFacts
  <2> QED BY <1>1, <1>3, <2>1, <2>2 DEF GoodProgress, ProgressRecords
<1> QED BY <1>2, <1>3
-----------------------------------------------------------------------------
(* maybeSendAppend. *)

\* The message it builds is a slice of the leader's log, compacted or not.
LEMMA AppendMessageFacts ==
  ASSUME NEW s, LeaderOK(s), NEW pr, GoodProgress(pr), ~EntriesCompacted(s, pr.next),
         NEW f \in Followers, NEW m, m = AppendMessage(s, pr, f)
  PROVE  /\ m.type = "MsgApp" /\ m.to = f /\ m.index = pr.next - 1
         /\ AppOK(m)
         /\ m.ents = <<>> <=> pr.next = LeaderLast + 1
         /\ m.ents # <<>> => /\ m.index + Len(m.ents) \in 1 .. LeaderLast
                             /\ pr.next <= m.index + Len(m.ents)
<1> DEFINE l == LeaderRaftLog
           g == Over(s, l.offset, l.unstable)
           n == pr.next
           e == EntriesFrom(s, n)
<1>1. /\ StorageOK(s, LeaderCommit) /\ RaftLogOK(s, l)
      /\ s.index \in Nat /\ s.index <= LeaderCommit
      /\ LastIndex(s, l) = LeaderLast
      /\ \A i \in 1 .. LeaderLast : g[i] = LeaderLog[Me][i]
  BY LeaderFacts
<1>2. /\ n \in 1 .. LeaderLast + 1 /\ n \in Nat /\ n - 1 \in Nat
      /\ LeaderLast \in Nat /\ LeaderCommit \in Nat /\ LeaderCommit < LeaderLast
      /\ MaxSizePerMsg \in Nat
  BY ProgressFacts, MeFacts, ReplicationAssumption
<1>3. s.index < n
  BY <1>1, <1>2 DEF EntriesCompacted, SliceCompacted, FirstIndex, MSFirstIndex
<1>4. /\ m.type = "MsgApp" /\ m.to = f /\ m.index = n - 1 /\ m.commit = LeaderCommit
      /\ m.logTerm = Term(s, l, n - 1) /\ m.ents = e
  BY DEF AppendMessage
<1> HIDE DEF n, e, l
<1>5. Term(s, l, n - 1) = LeaderTerm(Me, n - 1)
  <2>1. Term(s, l, n - 1) = IF n - 1 = 0 \/ n - 1 < s.index \/ n - 1 > LastIndex(s, l) THEN 0
                            ELSE g[n - 1]
    BY <1>1, <1>2, TermFacts
  <2>2. n - 1 # 0 => g[n - 1] = LeaderLog[Me][n - 1]
    BY <1>1, <1>2
  <2>3. ~(n - 1 < s.index) /\ ~(n - 1 > LastIndex(s, l))
    BY <1>1, <1>2, <1>3
  <2> QED BY <2>1, <2>2, <2>3 DEF LeaderTerm
<1>6. CASE n > LeaderLast
  <2>1. e = <<>> /\ n = LeaderLast + 1
    BY <1>2, <1>6 DEF e, EntriesFrom
  <2>2. Carries(Me, n - 1, e)
    BY <2>1, <1>2 DEF Carries, LeaderLast
  <2> QED BY <1>2, <1>4, <1>5, <2>1, <2>2 DEF AppOK, n
<1>7. CASE ~(n > LeaderLast)
  <2> DEFINE k == Limited(LeaderLast + 1 - n, MaxSizePerMsg)
  <2>1. e = Slice(s, l, n, LeaderLast + 1, MaxSizePerMsg)
    BY <1>7 DEF e, EntriesFrom, l
  <2>2. n < LeaderLast + 1 /\ LeaderLast + 1 \in Nat /\ LeaderLast + 1 - n \in Nat
    BY <1>2, <1>7
  <2>3. Reads(e, g, n, k)
    BY <2>1, <2>2, <1>1, <1>2, <1>3, SliceFacts
  <2>4. k \in 1 .. LeaderLast + 1 - n
    BY <2>2, <1>2 DEF Limited, Min2, Max2
  <2> HIDE DEF k
  <2>5. e \in Seq(Terms) /\ Len(e) = k /\ \A j \in 1 .. k : e[j] = g[n + j - 1]
    BY <2>3 DEF Reads
  <2>6. \A j \in 1 .. k : e[j] = LeaderLog[Me][n - 1 + j]
    <3> TAKE j \in 1 .. k
    <3>1. n + j - 1 \in 1 .. LeaderLast /\ n + j - 1 = n - 1 + j
      BY <2>4, <1>2
    <3> QED BY <3>1, <2>5, <1>1
  <2>7. n - 1 + k \in 1 .. LeaderLast /\ n <= n - 1 + k
    BY <2>4, <1>2
  <2>8. Carries(Me, n - 1, e)
    BY <2>5, <2>6, <2>7 DEF Carries, LeaderLast
  <2>9. e # <<>> /\ n # LeaderLast + 1
    BY <2>4, <2>5, <1>2, <2>2
  <2>10. n - 1 \in 0 .. LeaderLast
    BY <1>2
  <2>11. AppOK(m)
    BY <1>4, <1>5, <2>8, <2>10 DEF AppOK
  <2> QED BY <1>4, <2>5, <2>7, <2>9, <2>11 DEF n
<1> QED BY <1>6, <1>7

\* entries(i) of the leader is within its log, compacted or not.
LEMMA EntriesFacts ==
  ASSUME NEW s, LeaderOK(s), NEW i \in 1 .. LeaderLast + 1
  PROVE  ~EntriesPanics(s, i)
<1> DEFINE l == LeaderRaftLog
<1>1. /\ StorageOK(s, LeaderCommit) /\ RaftLogOK(s, l) /\ s.index \in Nat
      /\ LastIndex(s, l) = LeaderLast /\ LeaderLast \in Nat /\ MaxSizePerMsg \in Nat
  BY LeaderFacts, MeFacts, ReplicationAssumption
<1> HIDE DEF l
<1>2. SUFFICES ASSUME i <= LeaderLast PROVE ~SlicePanics(s, l, i, LeaderLast + 1)
  BY DEF EntriesPanics, l
<1>3. i \in Nat /\ i < LeaderLast + 1 /\ LeaderLast + 1 \in Nat
  BY <1>1, <1>2
<1>4. CASE s.index < i
  <2>1. LeaderLast + 1 <= LastIndex(s, l) + 1
    BY <1>1
  <2> QED BY <1>1, <1>3, <1>4, <2>1, SliceFacts
<1>5. CASE ~(s.index < i)
  <2>1. SliceCompacted(s, l, i)
    BY <1>1, <1>3, <1>5 DEF SliceCompacted, FirstIndex, MSFirstIndex
  <2>2. ~(i > LeaderLast + 1)
    BY <1>1, <1>3
  <2> QED BY <2>1, <2>2 DEF SlicePanics
<1> QED BY <1>4, <1>5

\* maybeSendAppend never panics, never moves Match, never moves Next back, and
\* what it sends is a MsgApp of the leader's log or a MsgSnap.  In StateProbe a
\* message with entries is remembered.
LEMMA SendAppendFacts ==
  ASSUME NEW s, LeaderOK(s), NEW pr, GoodProgress(pr), NEW f \in Followers,
         NEW r, r = SendAppend(s, pr, f)
  PROVE  /\ ~SendAppendPanics(s, pr, f)
         /\ GoodProgress(r.progress)
         /\ r.progress.match = pr.match /\ r.progress.state = pr.state
         /\ pr.next <= r.progress.next
         /\ \A m \in r.messages :
              /\ MessageOK(m) /\ m.type \in {"MsgApp", "MsgSnap"} /\ m.to = f
<1> DEFINE a == AppendMessage(s, pr, f)
<1>1. /\ s.index \in Nat /\ s.snap.index = s.index
  BY LeaderFacts
<1>2. /\ pr.next \in 1 .. LeaderLast + 1 /\ pr.next <= pr.next /\ pr.state # "Snapshot"
      /\ pr \in ProgressRecords
  BY ProgressFacts DEF GoodProgress
<1>3. ~SendAppendPanics(s, pr, f)
  <2>0. ~EntriesPanics(s, pr.next)
    BY <1>2, EntriesFacts
  <2>1. CASE EntriesCompacted(s, pr.next)
    <3>1. s.snap.index # 0
      BY <2>1, <1>1, <1>2, MeFacts DEF EntriesCompacted, SliceCompacted, FirstIndex, MSFirstIndex
    <3> QED BY <2>0, <2>1, <3>1 DEF SendAppendPanics
  <2>2. CASE ~EntriesCompacted(s, pr.next)
    BY <2>0, <2>2 DEF SendAppendPanics, IsPaused
  <2> QED BY <2>1, <2>2
<1>4. CASE IsPaused(pr)
  <2>1. r.progress = pr /\ r.messages = {}
    BY <1>4 DEF SendAppend
  <2> QED BY <1>2, <1>3, <2>1
<1>5. CASE ~IsPaused(pr) /\ EntriesCompacted(s, pr.next) /\ ~pr.recentActive
  <2>1. r.progress = pr /\ r.messages = {}
    BY <1>5 DEF SendAppend
  <2> QED BY <1>2, <1>3, <2>1
<1>6. CASE ~IsPaused(pr) /\ EntriesCompacted(s, pr.next) /\ pr.recentActive
  <2>1. /\ r.progress = [pr EXCEPT !.probeSent = FALSE, !.pendingSnapshot = s.snap.index]
        /\ r.messages = {[type |-> "MsgSnap", to |-> f, index |-> s.snap.index]}
    BY <1>6 DEF SendAppend, BecomeSnapshot
  <2>2. s.snap.index \in Nat
    BY <1>1
  <2>3. /\ GoodProgress(r.progress) /\ r.progress.match = pr.match
        /\ r.progress.state = pr.state /\ r.progress.next = pr.next
    BY <1>2, <2>1, <2>2 DEF GoodProgress, ProgressRecords
  <2>4. ASSUME NEW m \in r.messages
        PROVE  MessageOK(m) /\ m.type \in {"MsgApp", "MsgSnap"} /\ m.to = f
    BY <2>1 DEF MessageOK
  <2> QED BY <1>2, <1>3, <2>3, <2>4
<1>7. CASE ~IsPaused(pr) /\ ~EntriesCompacted(s, pr.next)
  <2>1. /\ r.progress = IF a.ents = <<>> THEN pr ELSE ProgressAfter(pr, a.index + Len(a.ents))
        /\ r.messages = {a}
    BY <1>7 DEF SendAppend
  <2> HIDE DEF a
  <2>2. /\ a.type = "MsgApp" /\ a.to = f /\ AppOK(a)
        /\ a.ents # <<>> => /\ a.index + Len(a.ents) \in 1 .. LeaderLast
                            /\ pr.next <= a.index + Len(a.ents)
    BY <1>7, AppendMessageFacts DEF a
  <2>3. /\ GoodProgress(r.progress) /\ r.progress.match = pr.match
        /\ r.progress.state = pr.state /\ pr.next <= r.progress.next
    <3>1. CASE a.ents = <<>>
      BY <1>2, <2>1, <3>1
    <3>2. CASE a.ents # <<>>
      <4>1. PICK last \in 1 .. LeaderLast : last = a.index + Len(a.ents)
        BY <2>2, <3>2
      <4>2. pr.next <= last /\ r.progress = ProgressAfter(pr, last)
        BY <2>1, <2>2, <3>2, <4>1
      <4>3. ~IsPaused(pr)
        BY <1>7
      <4> DEFINE q == ProgressAfter(pr, last)
      <4> HIDE DEF q
      <4>4. GoodProgress(q) /\ q.match = pr.match /\ q.state = pr.state /\ pr.next <= q.next
        BY <4>2, <4>3, ProgressAfterFacts DEF q
      <4> QED BY <4>2, <4>4 DEF q
    <3> QED BY <3>1, <3>2
  <2>4. ASSUME NEW m \in r.messages
        PROVE  MessageOK(m) /\ m.type \in {"MsgApp", "MsgSnap"} /\ m.to = f
    BY <2>1, <2>2 DEF MessageOK
  <2> QED BY <1>3, <2>3, <2>4
<1> QED BY <1>4, <1>5, <1>6, <1>7
-----------------------------------------------------------------------------
(* A follower. *)

\* The lesser of two numbers.
LEMMA Min2Facts ==
  ASSUME NEW a \in Nat, NEW b \in Nat
  PROVE  Min2(a, b) \in Nat /\ Min2(a, b) <= a /\ Min2(a, b) <= b
BY DEF Min2

\* What a follower has committed is in its log, and is the leader's.
LEMMA FollowerFacts ==
  ASSUME NEW s, NEW hc, NEW l, FollowerOK(s, hc, l)
  PROVE  /\ StorageOK(s, hc) /\ RaftLogOK(s, l) /\ StorageType(s) /\ s.index = 0
         /\ hc \in Nat /\ l.committed \in Nat /\ hc <= l.committed
         /\ MSLastIndex(s) \in Nat /\ hc <= MSLastIndex(s)
         /\ LastIndex(s, l) \in Nat /\ l.committed <= LastIndex(s, l)
         /\ hc <= LeaderLast /\ l.committed <= LeaderLast
         /\ \A i \in 1 .. l.committed :
              Over(s, l.offset, l.unstable)[i] = LeaderLog[Me][i]
<1>1. StorageOK(s, hc) /\ RaftLogOK(s, l) /\ StorageType(s) /\ s.index = 0
  BY DEF FollowerOK, StorageOK
<1>2. /\ hc \in CommitsOf(Me) /\ l.committed \in CommitsOf(Me) /\ hc <= l.committed
  BY DEF FollowerOK
<1>3. /\ LogOK(s, l.offset, l.unstable, l.committed)
      /\ LastIndex(s, l) = Last(s, l.offset, l.unstable)
      /\ l.committed <= LastIndex(s, l)
  BY <1>1, RaftLogFacts
<1>4. LastIndex(s, l) \in Nat /\ MSLastIndex(s) \in Nat
  BY <1>1, <1>3, OverFacts, StorageFacts
<1>5. hc <= MSLastIndex(s)
  <2>1. hc \in Nat /\ LogOK(s, MSLastIndex(s) + 1, <<>>, Max2(hc, s.index))
    BY <1>1 DEF StorageOK
  <2>2. Max2(hc, s.index) = hc
    BY <1>1, <2>1 DEF Max2
  <2> QED BY <2>1, <2>2 DEF LogOK, Last
<1>6. /\ hc \in Nat /\ hc <= LeaderLast
      /\ l.committed \in Nat /\ l.committed <= LeaderLast
      /\ \A i \in 1 .. l.committed : LeaderLog[Me][i] = Decided[i]
  BY <1>2, MeFacts, CommitsFacts DEF LeaderLast
<1>7. \A i \in 1 .. l.committed : Over(s, l.offset, l.unstable)[i] = Decided[i]
  BY <1>3 DEF LogOK, DecidedTo
<1> QED BY <1>1, <1>2, <1>3, <1>4, <1>5, <1>6, <1>7

\* A heartbeat that names no more than is committed changes nothing.
LEMMA CommitToNothing ==
  ASSUME NEW s, NEW hc, NEW l, FollowerOK(s, hc, l), NEW c \in Nat, c <= l.committed
  PROVE  CommitTo(l, c) = l /\ ~CommitToPanics(s, l, c)
<1>1. /\ l \in [offset : Nat, unstable : Seq(Terms), committed : Nat, applied : Nat]
      /\ l.committed \in Nat
  BY FollowerFacts DEF RaftLogOK
<1>2. Max2(l.committed, c) = l.committed
  BY <1>1 DEF Max2
<1>3. [l EXCEPT !.committed = l.committed] = l
  BY <1>1
<1> QED BY <1>1, <1>2, <1>3 DEF CommitTo, CommitToPanics

\* maybeAppend of a MsgApp that matches, of this leader or of one before it.
LEMMA AppKeepsFollower ==
  ASSUME NEW s, NEW hc, NEW l, FollowerOK(s, hc, l),
         NEW t \in Terms, CommitsOf(t) \subseteq CommitsOf(Me),
         NEW prev \in 0 .. Len(LeaderLog[t]), NEW ents, Carries(t, prev, ents),
         NEW c \in CommitsOf(t),
         ~(prev < l.committed), MatchTerm(s, l, prev, LeaderTerm(t, prev)),
         NEW l2, l2 = MaybeAppend(s, l, prev, c, ents)
  PROVE  /\ ~MaybeAppendPanics(s, l, prev, c, ents)
         /\ FollowerOK(s, hc, l2) /\ l.committed <= l2.committed
         /\ Min2(prev + Len(ents), c) <= l2.committed
         /\ prev + Len(ents) \in Nat /\ prev + Len(ents) <= LastIndex(s, l2)
         /\ Same(Over(s, l2.offset, l2.unstable), LeaderLog[t], prev + Len(ents))
<1> DEFINE n == prev + Len(ents)
           k == Min2(c, n)
           l1 == AppendFromConflict(s, l, prev, ents)
<1>1. /\ StorageOK(s, hc) /\ RaftLogOK(s, l) /\ StorageType(s) /\ s.index = 0
      /\ hc \in Nat /\ l.committed \in Nat /\ hc <= l.committed
  BY FollowerFacts
<1>2. prev \in Nat /\ n \in Nat /\ c \in Nat /\ k \in Nat /\ k <= c /\ l.committed <= prev
      /\ k = Min2(n, c)
  <2>1. prev \in Nat /\ ents \in Seq(Terms) /\ Len(ents) \in Nat /\ c \in Nat
    BY CommitsFacts, LeadersAssumption DEF Carries
  <2>2. n \in Nat /\ l.committed <= prev
    BY <2>1, <1>1
  <2> HIDE DEF n
  <2> QED BY <2>1, <2>2 DEF Min2
<1>3. /\ ~MaybeAppendPanics(s, l, prev, c, ents)
      /\ RaftLogOK(s, l2)
      /\ n <= LastIndex(s, l2)
      /\ Same(Over(s, l2.offset, l2.unstable), LeaderLog[t], n)
  BY <1>1, <1>2, MaybeAppendFacts
<1>4. LogType(l1) /\ l1.committed = l.committed
  BY <1>1, <1>2, AppendFromConflictFacts DEF Appended
<1>5. l2 = CommitTo(l1, k)
  BY DEF MaybeAppend
<1> HIDE DEF l1, n, k
<1>6. l2.committed = IF l.committed > k THEN l.committed ELSE k
  <2>1. CommitTo(l1, k).committed = IF l1.committed > k THEN l1.committed ELSE k
    BY <1>2, <1>4, CommitToFacts
  <2> QED BY <1>4, <1>5, <2>1
<1>7. k \in CommitsOf(Me) /\ l.committed \in CommitsOf(Me) /\ hc \in CommitsOf(Me)
  <2>1. k \in 0 .. c
    BY <1>2
  <2> QED BY <2>1, CommitsFacts DEF FollowerOK
<1>8. l2.committed \in CommitsOf(Me) /\ hc <= l2.committed /\ l.committed <= l2.committed
      /\ k <= l2.committed
  BY <1>1, <1>2, <1>6, <1>7
<1> QED BY <1>1, <1>2, <1>3, <1>7, <1>8 DEF FollowerOK, n

\* Storing the unstable entries and the HardState: the storage then holds the
\* log as it was, and there is nothing unstable left.
LEMMA SaveKeepsFollower ==
  ASSUME NEW s, NEW hc, NEW l, FollowerOK(s, hc, l),
         NEW s2, s2 = MSAppend(s, l.offset, l.unstable),
         NEW last, last = LastIndex(s, l),
         NEW l2, l2 = (IF l.unstable = <<>> THEN l ELSE StableTo(l, last, Term(s, l, last)))
  PROVE  /\ FollowerOK(s2, l.committed, l2) /\ l2.committed = l.committed
         /\ MSLastIndex(s2) = last /\ LastIndex(s2, l2) = last
         /\ l2.unstable = <<>>
         /\ \A i \in 1 .. last : SAt(s2, i) = Over(s, l.offset, l.unstable)[i]
<1> DEFINE off == l.offset
           u == l.unstable
           g == Over(s, off, u)
           c == l.committed
<1>1. /\ StorageOK(s, hc) /\ RaftLogOK(s, l) /\ StorageType(s) /\ s.index = 0
      /\ c \in Nat /\ last \in Nat /\ c <= last
  BY FollowerFacts
<1>2. /\ LogOK(s, off, u, c) /\ last = Last(s, off, u)
      /\ l \in [offset : Nat, unstable : Seq(Terms), committed : Nat, applied : Nat]
      /\ off \in Nat \ {0} /\ u \in Seq(Terms) /\ Len(u) \in Nat
  BY <1>1, RaftLogFacts, OverFacts DEF RaftLogOK
<1>3. c \in CommitsOf(Me) /\ c <= c /\ Max2(c, 0) = c
  BY <1>1 DEF FollowerOK, Max2
<1>4. /\ StorageType(s2) /\ s2.index = 0 /\ s2.snap = s.snap /\ s2.ents[1] = s.ents[1]
      /\ MSLastIndex(s2) = last
      /\ \A i \in 1 .. last : SAt(s2, i) = g[i]
  <2>1. CASE u = <<>>
    <3>1. s2 = s /\ last = MSLastIndex(s)
      BY <2>1, <1>2 DEF MSAppend, MSAppendIgnored, Last
    <3>2. ASSUME NEW i \in 1 .. last
          PROVE  SAt(s, i) = g[i]
      <4>1. i \in Nat /\ Len(u) = 0
        BY <2>1
      <4>2. ~(off <= i /\ i < off + Len(u))
        BY <1>2, <4>1
      <4> QED BY <4>1, <4>2, OverAt
    <3> QED BY <1>1, <3>1, <3>2
  <2>2. CASE u # <<>>
    <3>1. last = off + Len(u) - 1 /\ s.index < off + Len(u) - 1
      BY <1>1, <1>2, <2>2, OverLast
    <3> HIDE DEF off, u, c, g
    <3>2. /\ StorageType(MSAppend(s, off, u))
          /\ MSAppend(s, off, u).index = s.index
          /\ MSAppend(s, off, u).snap = s.snap
          /\ MSAppend(s, off, u).ents[1] = s.ents[1]
          /\ MSLastIndex(MSAppend(s, off, u)) = off + Len(u) - 1
          /\ \A j \in 1 .. MSLastIndex(MSAppend(s, off, u)) :
               SAt(MSAppend(s, off, u), j) = Over(s, off, u)[j]
      BY <1>1, <1>2, <2>2, <3>1, MSAppendFacts
    <3>3. s2 = MSAppend(s, off, u)
      BY DEF off, u
    <3> QED BY <1>1, <3>1, <3>2, <3>3 DEF g
  <2> QED BY <2>1, <2>2
<1>5. LogOK(s2, last + 1, <<>>, c)
  <2> DEFINE g2 == Over(s2, last + 1, <<>>)
  <2>1. Same(g2, g, last)
    <3>1. ASSUME NEW i \in 1 .. last
          PROVE  g2[i] = g[i]
      <4>1. i \in Nat /\ ~(last + 1 <= i /\ i < last + 1 + Len(<<>>))
        BY <1>1
      <4>2. g2[i] = SAt(s2, i)
        BY <4>1, OverAt
      <4> QED BY <4>2, <1>4
    <3> QED BY <3>1 DEF Same
  <2>2. CoherentTo(g, last) /\ DecidedTo(g, c)
    BY <1>2 DEF LogOK
  <2>3. c \in 0 .. last
    BY <1>1
  <2> HIDE DEF g2, g, c
  <2>4. CoherentTo(g2, last) /\ DecidedTo(g2, c)
    BY <2>1, <2>2, <2>3, <1>1, SameTransport
  <2>5. last + 1 \in 1 .. MSLastIndex(s2) + 1 /\ <<>> \in Seq(Terms)
        /\ Last(s2, last + 1, <<>>) = last
    BY <1>1, <1>4 DEF Last
  <2> QED BY <1>1, <1>4, <2>4, <2>5 DEF LogOK, g2
<1>6. /\ l2 \in [offset : Nat, unstable : Seq(Terms), committed : Nat, applied : Nat]
      /\ l2.offset = last + 1 /\ l2.unstable = <<>> /\ l2.committed = c
  <2>1. CASE u = <<>>
    <3>1. l2 = l /\ off = last + 1
      BY <2>1, <1>2 DEF LogOK, Last
    <3> QED BY <2>1, <3>1, <1>2
  <2>2. CASE u # <<>>
    <3>1. last = off + Len(u) - 1 /\ Len(u) > 0
      BY <1>1, <1>2, <2>2, OverLast
    <3>2. InUnstable(l, last)
      BY <1>2, <3>1 DEF InUnstable
    <3>3. Term(s, l, last) = UnstableTerm(l, last)
      <4>1. Term(s, l, last) = g[last]
        <5>1. last # 0 /\ ~(last < s.index) /\ ~(last > LastIndex(s, l))
          BY <1>1, <1>2, <3>1
        <5>2. Term(s, l, last) = IF last = 0 \/ last < s.index \/ last > LastIndex(s, l) THEN 0
                                 ELSE Over(s, l.offset, l.unstable)[last]
          BY <1>1, TermFacts
        <5> QED BY <5>1, <5>2
      <4>2. g[last] = u[last - off + 1]
        <5>1. off <= last /\ last < off + Len(u)
          BY <1>2, <3>1
        <5> QED BY <5>1, <1>1, OverAt
      <4> QED BY <4>1, <4>2 DEF UnstableTerm
    <3>4. l2 = [l EXCEPT !.offset = last + 1,
                         !.unstable = SubSeq(u, last + 1 - off + 1, Len(u))]
      BY <2>2, <3>2, <3>3 DEF StableTo
    <3>5. SubSeq(u, last + 1 - off + 1, Len(u)) = <<>>
      BY <1>2, <3>1, SubSeqEmpty
    <3>6. l2 = [l EXCEPT !.offset = last + 1, !.unstable = <<>>]
      BY <3>4, <3>5
    <3>7. last + 1 \in Nat /\ <<>> \in Seq(Terms)
      BY <1>1
    <3> QED BY <3>6, <3>7, <1>2
  <2> QED BY <2>1, <2>2
<1>7. StorageOK(s2, c)
  <2>1. /\ s.ents[1] = IF s.index = 0 THEN 0 ELSE Decided[s.index]
        /\ s.index <= s.snap.index
    BY <1>1 DEF StorageOK
  <2> QED BY <2>1, <1>1, <1>3, <1>4, <1>5 DEF StorageOK
<1>8. RaftLogOK(s2, l2)
  BY <1>5, <1>6 DEF RaftLogOK
<1>9. LastIndex(s2, l2) = last
  BY <1>4, <1>6 DEF LastIndex
<1> QED BY <1>3, <1>4, <1>6, <1>7, <1>8, <1>9 DEF FollowerOK

\* What is unstable begins where the storage ends, or before.
LEMMA SaveHasNoGap ==
  ASSUME NEW s, NEW hc, NEW l, FollowerOK(s, hc, l)
  PROVE  ~MSAppendPanics(s, l.offset, l.unstable)
<1> DEFINE off == l.offset
           u == l.unstable
           c == l.committed
<1>1. StorageType(s) /\ s.index = 0 /\ LogOK(s, off, u, c) /\ off \in Nat \ {0}
  BY FollowerFacts, RaftLogFacts
<1> HIDE DEF off, u, c
<1>2. CASE u = <<>>
  BY <1>2 DEF MSAppendPanics, MSAppendIgnored, off, u
<1>3. CASE u # <<>>
  <2>1. Len(u) \in Nat \ {0}
    BY <1>1, <1>3, OverLast
  <2>2. s.index < off + Len(u) - 1 \/ off + Len(u) - 1 = 0
    BY <1>1, <2>1
  <2>3. off + Len(u) - 1 # 0
    BY <1>1, <2>1
  <2>4. ~MSAppendPanics(s, off, u)
    BY <1>1, <1>3, <2>2, <2>3, MSAppendFacts
  <2> QED BY <2>4 DEF off, u
<1> QED BY <1>2, <1>3

\* A raftLog, spelt out.
LEMMA RaftLogRecord ==
  ASSUME NEW o \in Nat, NEW u \in Seq(Terms), NEW c \in Nat, NEW a \in Nat
  PROVE  [offset |-> o, unstable |-> u, committed |-> c, applied |-> a] \in
           [offset : Nat, unstable : Seq(Terms), committed : Nat, applied : Nat]
OBVIOUS

\* newRaft on the storage and the HardState that were saved.
LEMMA RestartKeepsFollower ==
  ASSUME NEW s, NEW hc, StorageOK(s, hc), s.index = 0, hc \in CommitsOf(Me),
         NEW l2, l2 = [NewLog(s) EXCEPT !.committed = hc]
  PROVE  /\ FollowerOK(s, hc, l2) /\ l2.committed = hc
         /\ LastIndex(s, l2) = MSLastIndex(s)
         /\ l2.offset = MSLastIndex(s) + 1 /\ l2.unstable = <<>>
<1>1. /\ StorageOK(s, hc) /\ StorageType(s) /\ s.index = 0
      /\ hc \in Nat /\ MSLastIndex(s) \in Nat
  BY StorageFacts DEF StorageOK
<1>2. l2 = [offset |-> MSLastIndex(s) + 1, unstable |-> <<>>, committed |-> hc, applied |-> 0]
  BY <1>1 DEF NewLog, MSFirstIndex
<1>3. /\ l2.offset = MSLastIndex(s) + 1 /\ l2.unstable = <<>> /\ l2.committed = hc
      /\ l2 \in [offset : Nat, unstable : Seq(Terms), committed : Nat, applied : Nat]
  <2> DEFINE o == MSLastIndex(s) + 1
             u == <<>>
  <2>1. o \in Nat /\ u \in Seq(Terms) /\ hc \in Nat
    BY <1>1
  <2>2. l2 = [offset |-> o, unstable |-> u, committed |-> hc, applied |-> 0]
    BY <1>2
  <2> HIDE DEF o, u
  <2>3. l2.offset = o /\ l2.unstable = u /\ l2.committed = hc
    BY <2>2
  <2>4. l2 \in [offset : Nat, unstable : Seq(Terms), committed : Nat, applied : Nat]
    <3>1. 0 \in Nat
      OBVIOUS
    <3>2. [offset |-> o, unstable |-> u, committed |-> hc, applied |-> 0] \in
            [offset : Nat, unstable : Seq(Terms), committed : Nat, applied : Nat]
      BY <2>1, <3>1, RaftLogRecord
    <3> QED BY <2>2, <3>2
  <2> QED BY <2>3, <2>4 DEF o, u
<1>4. Max2(hc, 0) = hc
  BY <1>1 DEF Max2
<1>5. LogOK(s, MSLastIndex(s) + 1, <<>>, hc)
  BY <1>1, <1>4 DEF StorageOK
<1>6. hc <= hc
  BY <1>1
<1>7. LastIndex(s, l2) = MSLastIndex(s)
  BY <1>3 DEF LastIndex
<1> QED BY <1>1, <1>3, <1>5, <1>6, <1>7 DEF FollowerOK, RaftLogOK

\* loadState finds the HardState within the log that was stored.
LEMMA HardStateInRange ==
  ASSUME NEW s, NEW hc, NEW l, FollowerOK(s, hc, l)
  PROVE  ~(hc < NewLog(s).committed) /\ ~(hc > MSLastIndex(s))
<1>1. s.index = 0 /\ hc \in Nat /\ MSLastIndex(s) \in Nat /\ hc <= MSLastIndex(s)
  BY FollowerFacts
<1>2. NewLog(s).committed = 0
  BY <1>1 DEF NewLog, MSFirstIndex
<1> QED BY <1>1, <1>2
-----------------------------------------------------------------------------
(* The invariant is inductive. *)

\* The parts of the invariant.
LEMMA Parts ==
  ASSUME IInv
  PROVE  /\ leading \in BOOLEAN /\ panicked = FALSE /\ FaultsOK /\ LeaderOK(leaderStorage)
         /\ ProgressOK /\ FollowersOK /\ OutboxOK /\ NetworkOK
BY DEF IInv

\* What is there of one follower.
LEMMA Parts1 ==
  ASSUME IInv, NEW f \in Followers
  PROVE  /\ progress[f] \in ProgressRecords /\ ProgressAt(progress[f], hardCommit[f])
         /\ GoodProgress(progress[f]) /\ progress[f].match \in 0 .. LeaderLast
         /\ hardCommit[f] \in Nat
         /\ FollowerOK(storage[f], hardCommit[f], log[f])
         /\ IsABag(outbox[f]) /\ \A m \in BagToSet(outbox[f]) : OutMessageOK(m, f, log[f])
<1>1. /\ progress[f] \in ProgressRecords /\ ProgressAt(progress[f], hardCommit[f])
      /\ hardCommit[f] \in Nat
      /\ FollowerOK(storage[f], hardCommit[f], log[f])
      /\ IsABag(outbox[f]) /\ \A m \in BagToSet(outbox[f]) : OutMessageOK(m, f, log[f])
  BY Parts DEF ProgressOK, FollowersOK, OutboxOK
<1>2. GoodProgress(progress[f])
  BY <1>1 DEF ProgressAt
<1> QED BY <1>1, <1>2, ProgressFacts

\* A message stays what it is when follower f has saved more.
LEMMA MessageStays ==
  ASSUME NEW hc, NEW hc2, hc \in [Followers -> Nat], hc2 \in [Followers -> Nat],
         \A f \in Followers : hc[f] <= hc2[f],
         NEW m, NetMessageOK(m, hc)
  PROVE  NetMessageOK(m, hc2)
<1>1. MessageOK(m)
  BY DEF NetMessageOK
<1>2. ASSUME Accepts(m)
      PROVE  Min2(m.index, LeaderCommit) <= hc2[m.from]
  <2>1. RespOK(m)
    BY <1>1, <1>2 DEF MessageOK, Accepts
  <2>2. m.from \in Followers /\ m.index \in Nat
    BY <2>1, MeFacts DEF RespOK
  <2>3. Min2(m.index, LeaderCommit) \in Nat
    BY <2>2, MeFacts, Min2Facts
  <2>4. hc[m.from] \in Nat /\ hc2[m.from] \in Nat /\ hc[m.from] <= hc2[m.from]
    BY <2>2
  <2>5. Min2(m.index, LeaderCommit) <= hc[m.from]
    BY <1>2 DEF NetMessageOK
  <2> QED BY <2>3, <2>4, <2>5
<1>3. ASSUME m.type = "MsgHeartbeat"
      PROVE  m.commit <= hc2[m.to]
  <2>1. m.to \in Followers /\ m.commit \in Nat
    BY <1>1, <1>3 DEF MessageOK
  <2>2. hc[m.to] \in Nat /\ hc2[m.to] \in Nat /\ hc[m.to] <= hc2[m.to]
    BY <2>1
  <2>3. m.commit <= hc[m.to]
    BY <1>3 DEF NetMessageOK
  <2> QED BY <2>1, <2>2, <2>3
<1> QED BY <1>1, <1>2, <1>3 DEF NetMessageOK

\* sendAppend to some of the followers.
LEMMA SendAppendsKeeps ==
  ASSUME IInv, NEW prs \in [Followers -> ProgressRecords],
         \A f \in Followers : ProgressAt(prs[f], hardCommit[f]),
         NEW fs \in SUBSET Followers, NEW net, IsABag(net), BagToSet(net) \subseteq BagToSet(network),
         SendAppends(prs, fs, net)
  PROVE  /\ IInv'
         /\ UNCHANGED <<leading, leaderStorage, followers, faults, panicked>>
         /\ \A f \in Followers : progress'[f].match = prs[f].match
         /\ \A m \in BagToSet(network') : Answers(m) => m \in BagToSet(network)
<1> DEFINE s == leaderStorage
           sent == UNION {SendAppend(s, prs[f], f).messages : f \in fs}
           q(f) == IF f \in fs THEN SendAppend(s, prs[f], f).progress ELSE prs[f]
<1>1. ASSUME NEW f \in Followers
      PROVE  /\ ~SendAppendPanics(s, prs[f], f)
             /\ ProgressAt(q(f), hardCommit[f]) /\ q(f).match = prs[f].match
             /\ \A m \in SendAppend(s, prs[f], f).messages :
                  MessageOK(m) /\ m.type \in {"MsgApp", "MsgSnap"}
  <2>1. GoodProgress(prs[f]) /\ LeaderOK(s)
    BY Parts DEF ProgressAt
  <2>2. PICK r : r = SendAppend(s, prs[f], f)
    OBVIOUS
  <2>3. /\ ~SendAppendPanics(s, prs[f], f)
        /\ GoodProgress(r.progress)
        /\ r.progress.match = prs[f].match /\ r.progress.state = prs[f].state
        /\ prs[f].next <= r.progress.next
        /\ \A m \in r.messages : MessageOK(m) /\ m.type \in {"MsgApp", "MsgSnap"} /\ m.to = f
    BY <2>1, <2>2, SendAppendFacts
  <2>4. ProgressAt(r.progress, hardCommit[f])
    <3>1. prs[f].match \in Nat /\ prs[f].next \in Nat /\ r.progress.next \in Nat
      BY <2>1, <2>3, ProgressFacts, MeFacts
    <3> QED BY <2>3, <3>1 DEF ProgressAt
  <2> QED BY <2>2, <2>3, <2>4
<1>2. /\ progress' = [f \in Followers |-> q(f)]
      /\ network' = net (+) SetToBag(sent)
      /\ leading' = leading /\ leaderStorage' = leaderStorage
      /\ storage' = storage /\ hardCommit' = hardCommit /\ log' = log /\ outbox' = outbox
      /\ lost' = lost /\ repeated' = repeated /\ restarts' = restarts /\ panicked' = panicked
  <2>1. ~(\E f \in fs : SendAppendPanics(s, prs[f], f))
    BY <1>1
  <2> QED BY <2>1 DEF SendAppends, followers, faults
<1>3. ASSUME NEW m \in sent
      PROVE  MessageOK(m) /\ m.type \in {"MsgApp", "MsgSnap"}
  BY <1>1
<1> HIDE DEF q, sent
<1>4. /\ IsABag(network') /\ BagToSet(network') = BagToSet(net) \cup sent
  BY <1>2, SetToBagFacts, BagSumFacts
<1>5. ASSUME NEW m \in BagToSet(network')
      PROVE  /\ NetMessageOK(m, hardCommit)
             /\ Answers(m) => m \in BagToSet(network)
  <2>1. CASE m \in BagToSet(network)
    BY <2>1, Parts DEF NetworkOK
  <2>2. CASE m \in sent
    BY <2>2, <1>3 DEF NetMessageOK, Accepts, Answers
  <2> QED BY <1>4, <2>1, <2>2
<1>6. NetworkOK'
  BY <1>2, <1>4, <1>5 DEF NetworkOK
<1>7. ProgressOK'
  <2>1. \A f \in Followers : progress'[f] = q(f)
    BY <1>2
  <2>2. \A f \in Followers : ProgressAt(progress'[f], hardCommit[f])
    BY <1>1, <2>1
  <2>3. progress' \in [Followers -> ProgressRecords]
    BY <1>1, <1>2 DEF ProgressAt, GoodProgress
  <2> QED BY <1>2, <2>2, <2>3 DEF ProgressOK
<1>8. FaultsOK' /\ FollowersOK' /\ OutboxOK' /\ LeaderOK(leaderStorage)'
      /\ leading' \in BOOLEAN /\ panicked' = FALSE
  BY <1>2, Parts DEF FaultsOK, FollowersOK, OutboxOK
<1>9. \A f \in Followers : progress'[f].match = prs[f].match
  BY <1>1, <1>2
<1> QED BY <1>2, <1>5, <1>6, <1>7, <1>8, <1>9 DEF IInv, followers, faults

\* A handler of a follower that leaves it the log l and the answers as.
LEMMA HandledByKeeps ==
  ASSUME IInv, NEW f \in Followers,
         NEW l, FollowerOK(storage[f], hardCommit[f], l), log[f].committed <= l.committed,
         NEW as, \A m \in as : OutMessageOK(m, f, l),
         NEW net, IsABag(net), BagToSet(net) \subseteq BagToSet(network),
         HandledBy(f, l, as, net)
  PROVE  IInv'
<1>1. /\ log' = [log EXCEPT ![f] = l]
      /\ outbox' = [outbox EXCEPT ![f] = outbox[f] (+) SetToBag(as)]
      /\ network' = net
      /\ leading' = leading /\ progress' = progress /\ leaderStorage' = leaderStorage
      /\ storage' = storage /\ hardCommit' = hardCommit
      /\ lost' = lost /\ repeated' = repeated /\ restarts' = restarts /\ panicked' = panicked
  BY DEF HandledBy, leader, faults
<1>2. DOMAIN storage = Followers /\ DOMAIN log = Followers /\ DOMAIN outbox = Followers
  BY Parts DEF FollowersOK
<1>3. /\ log'[f] = l /\ outbox'[f] = outbox[f] (+) SetToBag(as)
      /\ \A g \in Followers \ {f} : log'[g] = log[g] /\ outbox'[g] = outbox[g]
      /\ DOMAIN log' = Followers /\ DOMAIN outbox' = Followers
  BY <1>1, <1>2
<1>4. FollowersOK'
  <2>1. \A g \in Followers : FollowerOK(storage[g], hardCommit[g], log'[g])
    BY <1>3, Parts1
  <2> QED BY <1>1, <1>2, <1>3, <2>1, Parts DEF FollowersOK
<1>5. OutboxOK'
  <2>1. IsABag(outbox'[f]) /\ BagToSet(outbox'[f]) = BagToSet(outbox[f]) \cup as
    <3>1. IsABag(outbox[f]) /\ IsABag(SetToBag(as)) /\ BagToSet(SetToBag(as)) = as
      BY Parts1, SetToBagFacts
    <3> QED BY <1>3, <3>1, BagSumFacts
  <2>2. ASSUME NEW m \in BagToSet(outbox[f])
        PROVE  OutMessageOK(m, f, l)
    <3>1. OutMessageOK(m, f, log[f])
      BY Parts1
    <3>2. ASSUME Accepts(m)
          PROVE  Min2(m.index, LeaderCommit) <= l.committed
      <4>1. m.index \in Nat
        BY <3>1, <3>2, MeFacts DEF OutMessageOK, MessageOK, Accepts, RespOK
      <4>2. Min2(m.index, LeaderCommit) \in Nat /\ log[f].committed \in Nat /\ l.committed \in Nat
        BY <4>1, MeFacts, Min2Facts, FollowerFacts, Parts1
      <4>3. Min2(m.index, LeaderCommit) <= log[f].committed
        BY <3>1, <3>2 DEF OutMessageOK
      <4> QED BY <4>2, <4>3
    <3> QED BY <3>1, <3>2 DEF OutMessageOK
  <2>3. \A m \in BagToSet(outbox'[f]) : OutMessageOK(m, f, log'[f])
    BY <1>3, <2>1, <2>2
  <2>4. \A g \in Followers \ {f} :
          IsABag(outbox'[g]) /\ \A m \in BagToSet(outbox'[g]) : OutMessageOK(m, g, log'[g])
    BY <1>3, Parts1
  <2> QED BY <2>1, <2>3, <2>4 DEF OutboxOK
<1>6. NetworkOK' /\ ProgressOK'
  BY <1>1, Parts DEF NetworkOK, ProgressOK
<1>7. FaultsOK' /\ LeaderOK(leaderStorage)' /\ leading' \in BOOLEAN /\ panicked' = FALSE
  BY <1>1, Parts DEF FaultsOK
<1> QED BY <1>4, <1>5, <1>6, <1>7 DEF IInv

\* m is a MsgApp of the leader of t.
AppFrom(m, t) ==
  /\ t \in Terms /\ CommitsOf(t) \subseteq CommitsOf(Me)
  /\ m.index \in 0 .. Len(LeaderLog[t])
  /\ m.logTerm = LeaderTerm(t, m.index)
  /\ Carries(t, m.index, m.ents)
  /\ m.commit \in CommitsOf(t)

\* Those of this leader, and those of the leaders before it.
LEMMA AppsAreFromLeaders ==
  /\ \A m : AppOK(m) => AppFrom(m, Me)
  /\ \A t \in OldTerms : \A prev, last \in 0 .. Len(LeaderLog[t]) : \A c \in CommitsOf(t) :
       AppFrom(MsgApp(t, prev, last, c), t)
<1>1. ASSUME NEW m, AppOK(m)
      PROVE  AppFrom(m, Me)
  BY <1>1, MeFacts DEF AppOK, AppFrom, LeaderLast
<1>2. ASSUME NEW t \in OldTerms, NEW prev \in 0 .. Len(LeaderLog[t]),
             NEW last \in 0 .. Len(LeaderLog[t]), NEW c \in CommitsOf(t)
      PROVE  AppFrom(MsgApp(t, prev, last, c), t)
  <2> DEFINE m == MsgApp(t, prev, last, c)
  <2>1. t \in Terms /\ CommitsOf(t) \subseteq CommitsOf(Me)
    BY ReplicationAssumption, LeaderIsComplete
  <2>2. /\ m.index = prev /\ m.commit = c
        /\ m.logTerm = IF prev = 0 THEN 0 ELSE LeaderLog[t][prev]
        /\ m.ents \in Seq(Terms)
        /\ prev + Len(m.ents) <= Len(LeaderLog[t])
        /\ \A k \in 1 .. Len(m.ents) : m.ents[k] = LeaderLog[t][prev + k]
    BY <2>1, MessageFacts
  <2> HIDE DEF m
  <2>3. AppFrom(m, t)
    BY <2>1, <2>2 DEF AppFrom, Carries, LeaderTerm
  <2> QED BY <2>3 DEF m
<1> QED BY <1>1, <1>2

\* handleAppendEntries: what it makes of the log.
LEMMA LogAfterFacts ==
  ASSUME IInv, NEW f \in Followers, NEW t, NEW m, AppFrom(m, t)
  PROVE  /\ ~AppendPanicsAt(f, m)
         /\ FollowerOK(storage[f], hardCommit[f], LogAfter(f, m))
         /\ log[f].committed <= LogAfter(f, m).committed
         /\ m.index \in Nat /\ m.index + Len(m.ents) \in Nat
         /\ ~Matches(f, m) => LogAfter(f, m) = log[f]
         /\ Matches(f, m) =>
              LET l == LogAfter(f, m) IN
              /\ l = MaybeAppend(storage[f], log[f], m.index, m.commit, m.ents)
              /\ ~(m.index < log[f].committed)
              /\ Min2(m.index + Len(m.ents), m.commit) <= l.committed
              /\ m.index + Len(m.ents) <= LastIndex(storage[f], l)
              /\ Same(Over(storage[f], l.offset, l.unstable), LeaderLog[t], m.index + Len(m.ents))
<1> DEFINE s == storage[f]
           hc == hardCommit[f]
           l == log[f]
           i == m.index
<1>1. FollowerOK(s, hc, l)
  BY Parts1
<1>2. StorageOK(s, hc) /\ RaftLogOK(s, l) /\ l.committed \in Nat
  BY <1>1, FollowerFacts
<1>3. /\ t \in Terms /\ CommitsOf(t) \subseteq CommitsOf(Me)
      /\ i \in 0 .. Len(LeaderLog[t]) /\ m.logTerm = LeaderTerm(t, i)
      /\ Carries(t, i, m.ents) /\ m.commit \in CommitsOf(t)
  BY DEF AppFrom
<1>4. i \in Nat /\ i + Len(m.ents) \in Nat
  BY <1>3 DEF Carries
<1>5. CASE Matches(f, m)
  <2>1. ~(i < l.committed) /\ MatchTerm(s, l, i, LeaderTerm(t, i))
    BY <1>3, <1>5 DEF Matches, AlreadyCommitted
  <2>2. LogAfter(f, m) = MaybeAppend(s, l, i, m.commit, m.ents)
    BY <1>5 DEF LogAfter
  <2>3. AppendPanicsAt(f, m) <=> MaybeAppendPanics(s, l, i, m.commit, m.ents)
    BY <1>5 DEF AppendPanicsAt
  <2> HIDE DEF s, hc, l, i
  <2>4. PICK l2 : l2 = MaybeAppend(s, l, i, m.commit, m.ents)
    OBVIOUS
  <2>5. /\ ~MaybeAppendPanics(s, l, i, m.commit, m.ents)
        /\ FollowerOK(s, hc, l2) /\ l.committed <= l2.committed
        /\ Min2(i + Len(m.ents), m.commit) <= l2.committed
        /\ i + Len(m.ents) <= LastIndex(s, l2)
        /\ Same(Over(s, l2.offset, l2.unstable), LeaderLog[t], i + Len(m.ents))
    BY <1>1, <1>3, <2>1, <2>4, AppKeepsFollower
  <2>6. LogAfter(f, m) = l2
    BY <2>2, <2>4
  <2> QED BY <1>4, <1>5, <2>1, <2>2, <2>3, <2>5, <2>6 DEF s, hc, l, i
<1>6. CASE ~Matches(f, m)
  <2>1. LogAfter(f, m) = l
    BY <1>6 DEF LogAfter
  <2>2. ~TermPanics(s, l, i)
    BY <1>2, <1>4, TermNeverPanics
  <2>3. ~AppendPanicsAt(f, m)
    BY <1>6, <2>2 DEF AppendPanicsAt
  <2> HIDE DEF s, hc, l, i
  <2>4. l.committed <= l.committed
    BY <1>2
  <2> QED BY <1>1, <1>4, <1>6, <2>1, <2>3, <2>4 DEF s, hc, l, i
<1> QED BY <1>5, <1>6

\* The answer: what it acknowledges is committed as far as the leader has.
LEMMA AnswerFacts ==
  ASSUME IInv, NEW f \in Followers, NEW m, AppOK(m)
  PROVE  OutMessageOK(Answer(f, m), f, LogAfter(f, m))
<1> DEFINE a == Answer(f, m)
           l == LogAfter(f, m)
<1>1. AppFrom(m, Me)
  BY AppsAreFromLeaders
<1>2. /\ FollowerOK(storage[f], hardCommit[f], log[f])
      /\ log[f].committed \in Nat /\ log[f].committed <= LeaderLast
      /\ LastIndex(storage[f], log[f]) \in Nat
  BY Parts1, FollowerFacts
<1>3. m.index \in 0 .. LeaderLast /\ m.commit = LeaderCommit /\ LeaderLast \in Nat
      /\ LeaderCommit \in Nat
  BY MeFacts DEF AppOK
<1>4. CASE AlreadyCommitted(f, m)
  <2>1. /\ a = [type |-> "MsgAppResp", from |-> f, index |-> log[f].committed,
                reject |-> FALSE, hint |-> 0]
        /\ ~Matches(f, m)
    BY <1>4 DEF Answer, Matches
  <2>2. l = log[f]
    BY <2>1 DEF LogAfter
  <2> HIDE DEF a, l
  <2>3. MessageOK(a)
    <3>1. RespOK(a)
      BY <1>2, <1>3, <2>1 DEF RespOK
    <3> QED BY <2>1, <3>1 DEF MessageOK
  <2>4. Min2(a.index, LeaderCommit) <= l.committed
    BY <1>2, <1>3, <2>1, <2>2, Min2Facts
  <2>5. a.type = "MsgAppResp" /\ a.from = f
    BY <2>1
  <2>6. OutMessageOK(a, f, l)
    BY <2>3, <2>4, <2>5 DEF OutMessageOK
  <2> QED BY <2>6 DEF a, l
<1>5. CASE Matches(f, m)
  <2>1. a = [type |-> "MsgAppResp", from |-> f, index |-> m.index + Len(m.ents),
             reject |-> FALSE, hint |-> 0]
    BY <1>5 DEF Answer, Matches
  <2>2. Min2(m.index + Len(m.ents), LeaderCommit) <= l.committed /\ m.index + Len(m.ents) \in Nat
    BY <1>1, <1>3, <1>5, LogAfterFacts
  <2>3. m.index + Len(m.ents) <= LeaderLast
    BY DEF AppOK, Carries, LeaderLast
  <2> HIDE DEF a, l
  <2>4. MessageOK(a)
    <3>1. RespOK(a)
      BY <1>3, <2>1, <2>2, <2>3 DEF RespOK
    <3> QED BY <2>1, <3>1 DEF MessageOK
  <2>5. a.type = "MsgAppResp" /\ a.from = f /\ Min2(a.index, LeaderCommit) <= l.committed
    BY <2>1, <2>2
  <2>6. OutMessageOK(a, f, l)
    BY <2>4, <2>5 DEF OutMessageOK
  <2> QED BY <2>6 DEF a, l
<1>6. CASE ~AlreadyCommitted(f, m) /\ ~Matches(f, m)
  <2>1. a = [type |-> "MsgAppResp", from |-> f, index |-> m.index,
             reject |-> TRUE, hint |-> LastIndex(storage[f], log[f])]
    BY <1>6 DEF Answer
  <2> HIDE DEF a, l
  <2>2. MessageOK(a)
    <3>1. RespOK(a)
      BY <1>2, <1>3, <2>1 DEF RespOK
    <3> QED BY <2>1, <3>1 DEF MessageOK
  <2>3. a.type = "MsgAppResp" /\ a.from = f /\ ~Accepts(a)
    BY <2>1 DEF Accepts
  <2>4. OutMessageOK(a, f, l)
    BY <2>2, <2>3 DEF OutMessageOK
  <2> QED BY <2>4 DEF a, l
<1> QED BY <1>4, <1>5, <1>6

\* The network once a message has been taken from it.
LEMMA WithoutFacts ==
  ASSUME IInv, NEW m
  PROVE  IsABag(Without(m)) /\ BagToSet(Without(m)) \subseteq BagToSet(network)
BY Parts, BagMinusFacts DEF NetworkOK, Without

\* A step of which the invariant sees nothing but the network.
LEMMA NetworkKeeps ==
  ASSUME IInv, UNCHANGED <<leader, followers, panicked>>, FaultsOK',
         IsABag(network'), \A m \in BagToSet(network') : NetMessageOK(m, hardCommit)
  PROVE  IInv'
<1>1. /\ leading' = leading /\ progress' = progress /\ leaderStorage' = leaderStorage
      /\ storage' = storage /\ hardCommit' = hardCommit /\ log' = log /\ outbox' = outbox
      /\ panicked' = panicked
  BY DEF leader, followers
<1>2. NetworkOK'
  BY <1>1 DEF NetworkOK
<1>3. /\ leading' \in BOOLEAN /\ panicked' = FALSE /\ LeaderOK(leaderStorage)'
      /\ ProgressOK' /\ FollowersOK' /\ OutboxOK'
  BY <1>1, Parts DEF ProgressOK, FollowersOK, OutboxOK
<1> QED BY <1>2, <1>3 DEF IInv

\* Nothing that decides what is sent has changed.
Unmoved(pr, r) ==
  r.match = pr.match /\ r.next = pr.next /\ r.state = pr.state /\ r.probeSent = pr.probeSent

\* What the leader makes of an answer m, from the Progress pr to r, and to whom it
\* then sends.
Ignores(m, pr, r, fs) ==
  Unmoved(pr, r) /\ fs = {} /\ (~m.reject => ~(pr.match < m.index))
GoesBack(m, pr, r, fs) ==
  /\ m.reject /\ fs = {m.from}
  /\ r.match = pr.match /\ r.state = pr.state
  /\ pr.state = "Replicate" => r.next = pr.match + 1
  /\ pr.state # "Replicate" =>
       /\ pr.next = m.index + 1 /\ ~r.probeSent
       /\ r.next = 1 \/ r.next <= m.index
       /\ m.index > 0 => r.next = m.index \/ r.next = m.hint + 1
Advances(m, pr, r, fs) ==
  /\ ~m.reject /\ pr.match < m.index /\ fs = Followers
  /\ r.match = m.index /\ r.state = pr.state /\ ~r.probeSent
  /\ r.next = IF pr.next < m.index + 1 THEN m.index + 1 ELSE pr.next

\* An answer: what is acknowledged is committed by then, as far as the leader has,
\* in the follower's HardState.
LEMMA AnswerHeard ==
  ASSUME IInv, NEW m \in BagToSet(network), m.type = "MsgAppResp", NEW net, StepAppResp(m, net)
  PROVE  /\ m.from \in Followers /\ m.index \in 0 .. LeaderLast /\ m.reject \in BOOLEAN
         /\ m.hint \in Nat
         /\ \E r, fs : /\ ProgressAt(r, hardCommit[m.from]) /\ fs \in SUBSET Followers
                       /\ SendAppends([progress EXCEPT ![m.from] = r], fs, net)
                       /\ \/ Ignores(m, progress[m.from], r, fs)
                          \/ GoesBack(m, progress[m.from], r, fs)
                          \/ Advances(m, progress[m.from], r, fs)
<1> DEFINE f == m.from
           pr == progress[f]
           heard == [progress[f] EXCEPT !.recentActive = TRUE]
           acked == MaybeUpdate(heard, m.index)
           stale == RejectionIsStale(heard, m.index)
           Result(r, fs) ==
             /\ ProgressAt(r, hardCommit[f]) /\ fs \in SUBSET Followers
             /\ SendAppends([progress EXCEPT ![f] = r], fs, net)
             /\ Ignores(m, pr, r, fs) \/ GoesBack(m, pr, r, fs) \/ Advances(m, pr, r, fs)
<1>1. /\ RespOK(m) /\ NetMessageOK(m, hardCommit)
      /\ f \in Followers /\ m.index \in 0 .. LeaderLast /\ m.reject \in BOOLEAN /\ m.hint \in Nat
      /\ m.index \in Nat
  BY Parts, MeFacts DEF NetworkOK, NetMessageOK, MessageOK, RespOK
<1>2. /\ ProgressAt(pr, hardCommit[f]) /\ GoodProgress(pr)
      /\ pr.match \in Nat /\ pr.next \in Nat /\ hardCommit[f] \in Nat /\ LeaderCommit \in Nat
  BY <1>1, Parts1, ProgressFacts, MeFacts
<1>3. GoodProgress(heard) /\ Unmoved(pr, heard)
  BY <1>1, Parts1, HeardFacts DEF Unmoved
<1>4. ProgressAt(heard, hardCommit[f])
  BY <1>2, <1>3 DEF ProgressAt, Unmoved
<1>5. CASE m.reject
  <2>1. PICK r : r = MaybeDecrTo(heard, m.index, m.hint)
    OBVIOUS
  <2>2. SendAppends([progress EXCEPT ![f] = r], IF stale THEN {} ELSE {f}, net)
    BY <1>5, <2>1 DEF StepAppResp
  <2> HIDE DEF heard, f, pr
  <2>3. /\ GoodProgress(r) /\ r.match = heard.match /\ r.state = heard.state
        /\ stale => r = heard
        /\ ~stale /\ heard.state = "Replicate" => r.next = heard.match + 1
        /\ ~stale /\ heard.state # "Replicate" =>
              /\ r.next = 1 \/ r.next <= m.index
              /\ m.index > 0 => r.next = m.index \/ r.next = m.hint + 1
              /\ ~r.probeSent
    BY <1>1, <1>3, <2>1, MaybeDecrToFacts
  <2>4. CASE stale
    <3>1. Result(r, {})
      BY <1>3, <1>4, <1>5, <2>2, <2>3, <2>4 DEF Ignores
    <3> QED BY <1>1, <3>1 DEF f, pr
  <2>5. CASE ~stale
    <3>1. ProgressAt(r, hardCommit[f])
      BY <1>2, <1>3, <2>3, <2>5 DEF ProgressAt, Unmoved
    <3>2. heard.state # "Replicate" => heard.next = m.index + 1
      BY <1>1, <1>2, <1>3, <2>5 DEF RejectionIsStale, Unmoved
    <3>3. GoesBack(m, pr, r, {f})
      BY <1>3, <1>5, <2>3, <2>5, <3>2 DEF GoesBack, Unmoved, f
    <3>4. Result(r, {f})
      BY <1>1, <2>2, <2>5, <3>1, <3>3
    <3> QED BY <1>1, <3>4 DEF f, pr
  <2> QED BY <2>4, <2>5
<1>6. CASE ~m.reject /\ Updates(heard, m.index)
  <2>1. PICK r : r = IF acked.state = "Replicate" THEN FreeLE(acked, m.index) ELSE acked
    OBVIOUS
  <2>2. SendAppends([progress EXCEPT ![f] = r], Followers, net)
    BY <1>6, <2>1 DEF StepAppResp
  <2> HIDE DEF heard, f, pr
  <2>3. /\ GoodProgress(acked) /\ acked.state = heard.state
        /\ acked.match = IF heard.match < m.index THEN m.index ELSE heard.match
        /\ acked.next = IF heard.next < m.index + 1 THEN m.index + 1 ELSE heard.next
        /\ acked.probeSent = (heard.probeSent /\ ~Updates(heard, m.index))
    BY <1>1, <1>3, MaybeUpdateFacts
  <2>4. ~acked.probeSent
    BY <1>6, <2>3, Zenon
  <2>5. heard.match < m.index
    BY <1>6 DEF Updates
  <2> HIDE DEF acked
  <2>6. /\ GoodProgress(r) /\ r.match = acked.match /\ r.next = acked.next /\ r.state = acked.state
        /\ r.probeSent = acked.probeSent
    BY <2>1, <2>3, <1>1, FreeLEFacts
  <2>7. Advances(m, pr, r, Followers) /\ r.match < r.next
    BY <1>1, <1>2, <1>3, <1>6, <2>3, <2>4, <2>5, <2>6 DEF Advances, Unmoved
  <2>8. Min2(r.match, LeaderCommit) <= hardCommit[f]
    <3>1. Accepts(m)
      BY <1>6 DEF Accepts
    <3> QED BY <3>1, <2>7, <1>1 DEF NetMessageOK, Advances, f
  <2>9. ProgressAt(r, hardCommit[f])
    BY <2>6, <2>7, <2>8 DEF ProgressAt
  <2>10. Result(r, Followers)
    BY <2>2, <2>7, <2>9
  <2> QED BY <1>1, <2>10 DEF f, pr
<1>7. CASE ~m.reject /\ ~Updates(heard, m.index)
  <2>1. SendAppends([progress EXCEPT ![f] = heard], {}, net)
    BY <1>7 DEF StepAppResp
  <2> HIDE DEF heard, f, pr
  <2>2. Ignores(m, pr, heard, {})
    BY <1>3, <1>7 DEF Ignores, Updates, Unmoved
  <2>3. Result(heard, {})
    BY <1>4, <2>1, <2>2
  <2> QED BY <1>1, <2>3 DEF f, pr
<1> QED BY <1>1, <1>5, <1>6, <1>7

\* StepLeader, MsgAppResp: what it makes of the Progresses, and that it keeps the
\* invariant.
LEMMA StepAppRespKeeps ==
  ASSUME IInv, NEW m \in BagToSet(network), m.type = "MsgAppResp",
         NEW net, IsABag(net), BagToSet(net) \subseteq BagToSet(network),
         StepAppResp(m, net)
  PROVE  /\ IInv'
         /\ UNCHANGED <<leading, leaderStorage, followers, faults, panicked>>
         /\ m.from \in Followers /\ m.index \in 0 .. LeaderLast
         /\ \A f \in Followers :
              progress'[f].match = IF f = m.from /\ ~m.reject /\ progress[f].match < m.index
                                     THEN m.index ELSE progress[f].match
         /\ \A k \in BagToSet(network') : Answers(k) => k \in BagToSet(network)
<1>1. m.from \in Followers /\ m.index \in 0 .. LeaderLast
  BY AnswerHeard
<1>2. PICK r, fs :
        /\ ProgressAt(r, hardCommit[m.from]) /\ fs \in SUBSET Followers
        /\ SendAppends([progress EXCEPT ![m.from] = r], fs, net)
        /\ \/ Ignores(m, progress[m.from], r, fs)
           \/ GoesBack(m, progress[m.from], r, fs)
           \/ Advances(m, progress[m.from], r, fs)
  BY AnswerHeard
<1>3. PICK prs : prs = [progress EXCEPT ![m.from] = r]
  OBVIOUS
<1>4. /\ prs \in [Followers -> ProgressRecords]
      /\ prs[m.from] = r /\ \A g \in Followers \ {m.from} : prs[g] = progress[g]
  BY <1>1, <1>2, <1>3, Parts DEF ProgressOK, ProgressAt, GoodProgress
<1>5. \A g \in Followers : ProgressAt(prs[g], hardCommit[g])
  BY <1>2, <1>4, Parts1
<1>6. SendAppends(prs, fs, net)
  BY <1>2, <1>3
<1>7. /\ IInv'
      /\ UNCHANGED <<leading, leaderStorage, followers, faults, panicked>>
      /\ \A g \in Followers : progress'[g].match = prs[g].match
      /\ \A k \in BagToSet(network') : Answers(k) => k \in BagToSet(network)
  BY <1>2, <1>4, <1>5, <1>6, SendAppendsKeeps
<1>8. r.match = IF ~m.reject /\ progress[m.from].match < m.index
                  THEN m.index ELSE progress[m.from].match
  BY <1>2 DEF Ignores, GoesBack, Advances, Unmoved
<1>9. \A g \in Followers :
        progress'[g].match = IF g = m.from /\ ~m.reject /\ progress[g].match < m.index
                               THEN m.index ELSE progress[g].match
  BY <1>1, <1>4, <1>7, <1>8
<1> QED BY <1>1, <1>7, <1>9

\* MsgHeartbeatResp.
LEMMA StepHeartbeatRespKeeps ==
  ASSUME IInv, NEW m \in BagToSet(network), m.type = "MsgHeartbeatResp",
         NEW net, IsABag(net), BagToSet(net) \subseteq BagToSet(network),
         StepHeartbeatResp(m, net)
  PROVE  IInv' /\ \A f \in Followers : progress'[f].match = progress[f].match
<1> DEFINE f == m.from
           r == [progress[f] EXCEPT !.recentActive = TRUE, !.probeSent = FALSE]
<1>1. f \in Followers
  BY Parts DEF NetworkOK, NetMessageOK, MessageOK
<1>2. progress \in [Followers -> ProgressRecords]
  BY Parts DEF ProgressOK
<1>3. /\ network' = net /\ leading' = leading /\ leaderStorage' = leaderStorage
      /\ storage' = storage /\ hardCommit' = hardCommit /\ log' = log /\ outbox' = outbox
      /\ lost' = lost /\ repeated' = repeated /\ restarts' = restarts /\ panicked' = panicked
  BY DEF StepHeartbeatResp, followers, faults
<1>4. progress' = [progress EXCEPT ![f] = r]
  <2>1. progress' = [progress EXCEPT ![f].recentActive = TRUE, ![f].probeSent = FALSE]
    BY DEF StepHeartbeatResp
  <2>2. progress[f] \in ProgressRecords
    BY <1>1, <1>2
  <2> QED BY <1>1, <1>2, <2>1, <2>2 DEF ProgressRecords
<1>5. /\ GoodProgress(r) /\ r.match = progress[f].match /\ r.next = progress[f].next
      /\ r.state = progress[f].state
  <2>1. GoodProgress(progress[f])
    BY <1>1, Parts1
  <2> QED BY <2>1 DEF GoodProgress, ProgressRecords
<1> HIDE DEF r, f
<1>6. ProgressAt(r, hardCommit[f]) /\ r \in ProgressRecords
  BY <1>1, <1>5, Parts1 DEF ProgressAt, GoodProgress
<1>7. progress'[f] = r /\ \A g \in Followers \ {f} : progress'[g] = progress[g]
  BY <1>1, <1>2, <1>4
<1>8. ProgressOK'
  <2>1. progress' \in [Followers -> ProgressRecords]
    BY <1>2, <1>4, <1>6
  <2>2. \A g \in Followers : ProgressAt(progress'[g], hardCommit[g])
    BY <1>6, <1>7, Parts1
  <2> QED BY <1>3, <2>1, <2>2 DEF ProgressOK
<1>9. NetworkOK'
  BY <1>3, Parts DEF NetworkOK
<1>10. /\ leading' \in BOOLEAN /\ panicked' = FALSE /\ LeaderOK(leaderStorage)'
       /\ FaultsOK' /\ FollowersOK' /\ OutboxOK'
  BY <1>3, Parts DEF FaultsOK, FollowersOK, OutboxOK
<1>11. \A g \in Followers : progress'[g].match = progress[g].match
  BY <1>5, <1>7
<1> QED BY <1>8, <1>9, <1>10, <1>11 DEF IInv

\* MsgBeat: what a heartbeat announces is in the follower's HardState.
LEMMA BeatKeeps ==
  ASSUME IInv, Beat
  PROVE  IInv' /\ \A m \in BagToSet(network') : Accepts(m) => m \in BagToSet(network)
<1> DEFINE B == {Heartbeat(f) : f \in Followers}
<1>1. /\ network' = network (+) SetToBag(B)
      /\ UNCHANGED <<leader, followers, panicked>> /\ UNCHANGED faults
  BY DEF Beat
<1>2. ASSUME NEW m \in B
      PROVE  NetMessageOK(m, hardCommit) /\ ~Accepts(m)
  <2>1. PICK f \in Followers : m = Heartbeat(f)
    OBVIOUS
  <2>2. /\ progress[f].match \in Nat /\ LeaderCommit \in Nat
        /\ Min2(progress[f].match, LeaderCommit) <= hardCommit[f]
    BY Parts1, MeFacts DEF ProgressAt
  <2>3. m.type = "MsgHeartbeat" /\ m.to = f /\ m.commit = Min2(progress[f].match, LeaderCommit)
    BY <2>1 DEF Heartbeat
  <2>4. Min2(progress[f].match, LeaderCommit) \in Nat
    BY <2>2, Min2Facts
  <2> QED BY <2>2, <2>3, <2>4 DEF NetMessageOK, MessageOK, Accepts
<1> HIDE DEF B
<1>3. IsABag(network') /\ BagToSet(network') = BagToSet(network) \cup B
  <2>1. IsABag(network) /\ IsABag(SetToBag(B)) /\ BagToSet(SetToBag(B)) = B
    BY Parts, SetToBagFacts DEF NetworkOK
  <2> QED BY <1>1, <2>1, BagSumFacts
<1>4. \A m \in BagToSet(network') : NetMessageOK(m, hardCommit)
  BY <1>2, <1>3, Parts DEF NetworkOK
<1>5. FaultsOK'
  BY <1>1, Parts DEF FaultsOK, faults
<1> QED BY <1>1, <1>2, <1>3, <1>4, <1>5, NetworkKeeps

\* The leader compacts what its state machine has executed.
LEMMA CompactLeaderKeeps ==
  ASSUME IInv, CompactLeader
  PROVE  IInv' /\ UNCHANGED <<leading, progress, followers, network, faults, panicked>>
<1> DEFINE s == leaderStorage
           m == SubSeq(Decided, 1, LeaderCommit)
           s1 == CreateSnapshot(s, LeaderCommit)
           s2 == Compact(s1, LeaderCommit)
<1>1. LeaderCommit > s.index
  BY DEF CompactLeader
<1>2. /\ SafeState(s, LeaderCommit, LeaderRaftLog, NoBatch, m) /\ s.snap.index = s.index
      /\ StorageType(s) /\ s.index \in Nat
  BY Parts, SafeFacts DEF LeaderOK
<1>3. Len(m) = LeaderCommit /\ LeaderCommit \in Nat
  BY MeFacts, RunFacts
<1>4. ~CreateSnapshotRefused(s, LeaderCommit)
  BY <1>1, <1>2, <1>3 DEF CreateSnapshotRefused
<1>5. /\ SafeState(s1, LeaderCommit, LeaderRaftLog, NoBatch, m)
      /\ ~CreateSnapshotPanics(s, LeaderCommit)
  <2> HIDE DEF m
  <2>1. /\ SafeState(CreateSnapshot(s, Len(m)), LeaderCommit, LeaderRaftLog, NoBatch, m)
        /\ ~CreateSnapshotPanics(s, Len(m))
    BY <1>2, <1>3, <1>4, TakeSnapshotSafe
  <2> QED BY <1>3, <2>1
<1>6. s1.snap.index = LeaderCommit /\ s1.index = s.index /\ s1.ents = s.ents
  BY <1>2 DEF CreateSnapshot, StorageType
<1> HIDE DEF s1
<1>7. ~CompactRefused(s1, LeaderCommit) /\ LeaderCommit <= s1.snap.index
  BY <1>1, <1>2, <1>3, <1>6 DEF CompactRefused
<1>8. SafeState(s2, LeaderCommit, LeaderRaftLog, NoBatch, m) /\ ~CompactPanics(s1, LeaderCommit)
  BY <1>3, <1>5, <1>7, CompactSafe
<1>12. ~CompactPanics(s, LeaderCommit)
  BY <1>6, <1>8 DEF CompactPanics, CompactRefused, MSLastIndex
<1>13. /\ leaderStorage' = s2
       /\ UNCHANGED <<leading, progress, followers, network, faults, panicked>>
  BY <1>5, <1>12 DEF CompactLeader, s1
<1>14. /\ leading' = leading /\ progress' = progress /\ network' = network
       /\ storage' = storage /\ hardCommit' = hardCommit /\ log' = log /\ outbox' = outbox
       /\ lost' = lost /\ repeated' = repeated /\ restarts' = restarts /\ panicked' = panicked
  BY <1>13 DEF followers, faults
<1>9. s2.snap.index = s2.index
  <2>1. StorageType(s1)
    BY <1>5, SafeFacts
  <2> QED BY <2>1, <1>6 DEF Compact, StorageType
<1>10. LeaderOK(leaderStorage)'
  BY <1>13, <1>8, <1>9 DEF LeaderOK
<1>11. /\ leading' \in BOOLEAN /\ panicked' = FALSE /\ FaultsOK'
       /\ ProgressOK' /\ FollowersOK' /\ OutboxOK' /\ NetworkOK'
  BY <1>14, Parts DEF FaultsOK, ProgressOK, FollowersOK, OutboxOK, NetworkOK
<1> QED BY <1>10, <1>11, <1>13 DEF IInv

\* Stepping down makes every Progress anew.
LEMMA CheckQuorumKeeps ==
  ASSUME IInv, CheckQuorum
  PROVE  IInv' /\ \A f \in Followers : progress'[f].match = 0
<1>1. /\ leading' = FALSE
      /\ progress' = [f \in Followers |-> NewProgress(LeaderLast + 1, "Probe")]
      /\ leaderStorage' = leaderStorage /\ network' = network
      /\ storage' = storage /\ hardCommit' = hardCommit /\ log' = log /\ outbox' = outbox
      /\ lost' = lost /\ repeated' = repeated /\ restarts' = restarts /\ panicked' = panicked
  BY DEF CheckQuorum, followers, faults
<1>2. PICK r : r = NewProgress(LeaderLast + 1, "Probe")
  OBVIOUS
<1>3. GoodProgress(r) /\ r.match = 0 /\ r.state = "Probe"
  <2>1. PICK n \in 1 .. LeaderLast + 1 : n = LeaderLast + 1
    BY MeFacts
  <2>2. r = NewProgress(n, "Probe") /\ "Probe" \in States \cup {"Probe"}
    BY <1>2, <2>1
  <2> QED BY <2>2, NewProgressFacts
<1>4. \A f \in Followers : progress'[f] = r
  BY <1>1, <1>2
<1>5. ASSUME NEW f \in Followers
      PROVE  ProgressAt(r, hardCommit[f])
  <2>1. hardCommit[f] \in Nat /\ LeaderCommit \in Nat
    BY Parts1, MeFacts
  <2>2. Min2(0, LeaderCommit) = 0
    BY <2>1 DEF Min2
  <2> QED BY <1>3, <2>1, <2>2 DEF ProgressAt
<1>6. ProgressOK'
  <2>1. progress' \in [Followers -> ProgressRecords]
    BY <1>1, <1>2, <1>3 DEF GoodProgress
  <2> QED BY <1>1, <1>4, <1>5, <2>1 DEF ProgressOK
<1>7. /\ leading' \in BOOLEAN /\ panicked' = FALSE /\ LeaderOK(leaderStorage)'
      /\ FaultsOK' /\ FollowersOK' /\ OutboxOK' /\ NetworkOK'
  BY <1>1, Parts DEF FaultsOK, FollowersOK, OutboxOK, NetworkOK
<1> QED BY <1>3, <1>4, <1>6, <1>7 DEF IInv

\* The messages that go to a follower.
LEMMA StepFollowerKeeps ==
  ASSUME IInv, NEW m \in BagToSet(network), StepFollower(m, Without(m))
  PROVE  IInv'
<1> DEFINE net == Without(m)
           f == m.to
<1>1. IsABag(net) /\ BagToSet(net) \subseteq BagToSet(network)
  BY WithoutFacts
<1>2. NetMessageOK(m, hardCommit) /\ MessageOK(m)
  BY Parts DEF NetworkOK, NetMessageOK
<1> HIDE DEF net
<1>3. CASE m.type = "MsgApp" /\ StepApp(f, m, net)
  <2>1. AppOK(m) /\ f \in Followers
    BY <1>2, <1>3 DEF MessageOK, AppOK
  <2>2. AppFrom(m, Me)
    BY <2>1, AppsAreFromLeaders
  <2>3. /\ ~AppendPanicsAt(f, m)
        /\ FollowerOK(storage[f], hardCommit[f], LogAfter(f, m))
        /\ log[f].committed <= LogAfter(f, m).committed
    BY <2>1, <2>2, LogAfterFacts
  <2>4. HandledBy(f, LogAfter(f, m), {Answer(f, m)}, net)
    BY <1>3, <2>3 DEF StepApp
  <2>5. \A k \in {Answer(f, m)} : OutMessageOK(k, f, LogAfter(f, m))
    BY <2>1, AnswerFacts
  <2> QED BY <1>1, <2>1, <2>3, <2>4, <2>5, HandledByKeeps
<1>4. ASSUME NEW as, f \in Followers, HandledBy(f, log[f], as, net),
             \A k \in as : k.type = "MsgHeartbeatResp" /\ k.from = f
      PROVE  IInv'
  <2>1. /\ FollowerOK(storage[f], hardCommit[f], log[f])
        /\ log[f].committed <= log[f].committed
    BY <1>4, Parts1, FollowerFacts
  <2>2. \A k \in as : OutMessageOK(k, f, log[f])
    BY <1>4 DEF OutMessageOK, MessageOK, Accepts
  <2> QED BY <1>1, <1>4, <2>1, <2>2, HandledByKeeps
<1>5. CASE m.type = "MsgHeartbeat" /\ StepHeartbeat(f, m, net)
  <2>1. f \in Followers /\ m.commit \in Nat /\ m.commit <= hardCommit[f]
    BY <1>2, <1>5 DEF NetMessageOK, MessageOK
  <2>2. /\ FollowerOK(storage[f], hardCommit[f], log[f])
        /\ hardCommit[f] \in Nat /\ log[f].committed \in Nat /\ hardCommit[f] <= log[f].committed
    BY <2>1, Parts1, FollowerFacts
  <2>3. m.commit <= log[f].committed
    BY <2>1, <2>2
  <2>4. CommitTo(log[f], m.commit) = log[f] /\ ~CommitToPanics(storage[f], log[f], m.commit)
    BY <2>1, <2>2, <2>3, CommitToNothing
  <2>5. \/ HandledBy(f, log[f], {}, net)
        \/ HandledBy(f, log[f], {HeartbeatResp(f)}, net)
    BY <1>5, <2>4 DEF StepHeartbeat
  <2>6. CASE HandledBy(f, log[f], {}, net)
    BY <2>1, <2>6, <1>4
  <2>7. CASE HandledBy(f, log[f], {HeartbeatResp(f)}, net)
    <3>1. \A k \in {HeartbeatResp(f)} :
            k.type = "MsgHeartbeatResp" /\ k.from = f
      BY DEF HeartbeatResp
    <3> QED BY <2>1, <2>7, <3>1, <1>4
  <2> QED BY <2>5, <2>6, <2>7
<1>6. CASE m.type = "MsgSnap" /\ HandledBy(f, log[f], {}, net)
  <2>1. f \in Followers
    BY <1>2, <1>6 DEF MessageOK
  <2> QED BY <2>1, <1>6, <1>4
<1> QED BY <1>3, <1>5, <1>6 DEF StepFollower, net

\* A late MsgApp of a deposed leader.
LEMMA OldAppIsHandled ==
  ASSUME IInv, NEW f \in Followers, ReceiveOldApp(f)
  PROVE  \E t \in OldTerms : \E m : AppFrom(m, t) /\ HandledBy(f, LogAfter(f, m), {}, network)
<1>1. PICK t \in OldTerms :
        \E prev, last \in 0 .. Len(LeaderLog[t]), c \in CommitsOf(t) :
          LET m == MsgApp(t, prev, last, c) IN
          IF AppendPanicsAt(f, m) THEN Panic ELSE HandledBy(f, LogAfter(f, m), {}, network)
  BY DEF ReceiveOldApp
<1>2. PICK prev \in 0 .. Len(LeaderLog[t]) : \E last \in 0 .. Len(LeaderLog[t]), c \in CommitsOf(t) :
          LET m == MsgApp(t, prev, last, c) IN
          IF AppendPanicsAt(f, m) THEN Panic ELSE HandledBy(f, LogAfter(f, m), {}, network)
  BY <1>1
<1>3. PICK last \in 0 .. Len(LeaderLog[t]) : \E c \in CommitsOf(t) :
          LET m == MsgApp(t, prev, last, c) IN
          IF AppendPanicsAt(f, m) THEN Panic ELSE HandledBy(f, LogAfter(f, m), {}, network)
  BY <1>2
<1>4. PICK c \in CommitsOf(t) :
          LET m == MsgApp(t, prev, last, c) IN
          IF AppendPanicsAt(f, m) THEN Panic ELSE HandledBy(f, LogAfter(f, m), {}, network)
  BY <1>3
<1>5. PICK m : m = MsgApp(t, prev, last, c)
  OBVIOUS
<1>6. AppFrom(m, t)
  BY <1>5, AppsAreFromLeaders
<1>7. IF AppendPanicsAt(f, m) THEN Panic ELSE HandledBy(f, LogAfter(f, m), {}, network)
  BY <1>4, <1>5
<1>8. ~AppendPanicsAt(f, m)
  BY <1>6, LogAfterFacts
<1> QED BY <1>6, <1>7, <1>8

\* It keeps the invariant, whatever the deposed leader had.
LEMMA ReceiveOldAppKeeps ==
  ASSUME IInv, NEW f \in Followers, ReceiveOldApp(f)
  PROVE  IInv'
<1>1. PICK t \in OldTerms : \E m : AppFrom(m, t) /\ HandledBy(f, LogAfter(f, m), {}, network)
  BY OldAppIsHandled
<1>2. PICK m : AppFrom(m, t) /\ HandledBy(f, LogAfter(f, m), {}, network)
  BY <1>1
<1>3. /\ FollowerOK(storage[f], hardCommit[f], LogAfter(f, m))
      /\ log[f].committed <= LogAfter(f, m).committed
  BY <1>2, LogAfterFacts
<1>4. IsABag(network) /\ BagToSet(network) \subseteq BagToSet(network)
  BY Parts DEF NetworkOK
<1>5. \A k \in {} : OutMessageOK(k, f, LogAfter(f, m))
  OBVIOUS
<1> QED BY <1>2, <1>3, <1>4, <1>5, HandledByKeeps

\* Nothing keeps f from saving.
LEMMA SavesAndSends ==
  ASSUME IInv, NEW f \in Followers, SaveAndSend(f)
  PROVE  /\ Save(f) /\ outbox' = [outbox EXCEPT ![f] = EmptyBag]
         /\ network' = network (+) outbox[f]
         /\ UNCHANGED <<leader, faults, panicked>>
<1>1. ~MSAppendPanics(storage[f], log[f].offset, log[f].unstable)
  BY Parts1, SaveHasNoGap
<1> QED BY <1>1 DEF SaveAndSend

\* What f saves and sends: its storage, its HardState and its answers then say
\* the same.
LEMMA SaveAndSendKeeps ==
  ASSUME IInv, NEW f \in Followers, SaveAndSend(f)
  PROVE  IInv'
<1> DEFINE s == storage[f]
           l == log[f]
           last == LastIndex(s, l)
           s2 == MSAppend(s, l.offset, l.unstable)
           l2 == IF l.unstable = <<>> THEN l ELSE StableTo(l, last, Term(s, l, last))
           hc2 == [hardCommit EXCEPT ![f] = l.committed]
<1>1. DOMAIN storage = Followers /\ DOMAIN log = Followers /\ DOMAIN outbox = Followers
      /\ hardCommit \in [Followers -> Nat]
  BY Parts DEF FollowersOK
<1>2. /\ storage' = [storage EXCEPT ![f] = s2] /\ hardCommit' = hc2
      /\ log' = [log EXCEPT ![f] = l2] /\ outbox' = [outbox EXCEPT ![f] = EmptyBag]
      /\ network' = network (+) outbox[f]
      /\ leading' = leading /\ progress' = progress /\ leaderStorage' = leaderStorage
      /\ lost' = lost /\ repeated' = repeated /\ restarts' = restarts /\ panicked' = panicked
  BY <1>1, SavesAndSends DEF Save, leader, faults
<1>3. FollowerOK(s, hardCommit[f], l)
  BY Parts1
<1>4. FollowerOK(s2, l.committed, l2) /\ l2.committed = l.committed
  BY <1>3, SaveKeepsFollower
<1>5. l.committed \in Nat /\ hardCommit[f] \in Nat /\ hardCommit[f] <= l.committed
  BY <1>3, FollowerFacts
<1> HIDE DEF s2, l2
<1>6. /\ hc2 \in [Followers -> Nat] /\ hc2[f] = l.committed
      /\ \A g \in Followers \ {f} : hc2[g] = hardCommit[g]
      /\ \A g \in Followers : hardCommit[g] <= hc2[g]
  BY <1>1, <1>5
<1> HIDE DEF hc2
<1>7. /\ storage'[f] = s2 /\ log'[f] = l2 /\ outbox'[f] = EmptyBag
      /\ \A g \in Followers \ {f} :
           storage'[g] = storage[g] /\ log'[g] = log[g] /\ outbox'[g] = outbox[g]
      /\ DOMAIN storage' = Followers /\ DOMAIN log' = Followers /\ DOMAIN outbox' = Followers
  BY <1>1, <1>2
<1>8. FollowersOK'
  <2>1. \A g \in Followers : FollowerOK(storage'[g], hc2[g], log'[g])
    <3> TAKE g \in Followers
    <3>1. CASE g = f
      BY <3>1, <1>4, <1>6, <1>7
    <3>2. CASE g # f
      BY <3>2, <1>6, <1>7, Parts1
    <3> QED BY <3>1, <3>2
  <2> QED BY <1>2, <1>6, <1>7, <2>1 DEF FollowersOK
<1>9. OutboxOK'
  <2>1. IsABag(outbox'[f]) /\ \A m \in BagToSet(outbox'[f]) : OutMessageOK(m, f, log'[f])
    BY <1>7, SetToBagFacts
  <2>2. \A g \in Followers \ {f} :
          IsABag(outbox'[g]) /\ \A m \in BagToSet(outbox'[g]) : OutMessageOK(m, g, log'[g])
    BY <1>7, Parts1
  <2> QED BY <2>1, <2>2 DEF OutboxOK
<1>10. ProgressOK'
  <2>1. ASSUME NEW g \in Followers
        PROVE  ProgressAt(progress[g], hc2[g])
    <3>1. /\ ProgressAt(progress[g], hardCommit[g]) /\ progress[g].match \in Nat
          /\ hardCommit[g] \in Nat /\ hc2[g] \in Nat /\ hardCommit[g] <= hc2[g]
          /\ LeaderCommit \in Nat
      BY Parts1, <1>6, MeFacts
    <3>2. Min2(progress[g].match, LeaderCommit) \in Nat
      BY <3>1, Min2Facts
    <3> QED BY <3>1, <3>2 DEF ProgressAt
  <2> QED BY <1>2, <2>1, Parts DEF ProgressOK
<1>11. NetworkOK'
  <2>1. /\ IsABag(network) /\ IsABag(outbox[f])
        /\ \A m \in BagToSet(network) : NetMessageOK(m, hardCommit)
        /\ \A m \in BagToSet(outbox[f]) : OutMessageOK(m, f, l)
    BY Parts, Parts1 DEF NetworkOK
  <2>2. IsABag(network') /\ BagToSet(network') = BagToSet(network) \cup BagToSet(outbox[f])
    BY <1>2, <2>1, BagSumFacts
  <2>3. \A m \in BagToSet(network) : NetMessageOK(m, hc2)
    BY <1>1, <1>6, <2>1, MessageStays
  <2>4. \A m \in BagToSet(outbox[f]) : NetMessageOK(m, hc2)
    BY <1>6, <2>1 DEF OutMessageOK, NetMessageOK
  <2> QED BY <1>2, <2>2, <2>3, <2>4 DEF NetworkOK
<1>12. /\ leading' \in BOOLEAN /\ panicked' = FALSE /\ FaultsOK' /\ LeaderOK(leaderStorage)'
  BY <1>2, Parts DEF FaultsOK
<1> QED BY <1>8, <1>9, <1>10, <1>11, <1>12 DEF IInv

\* A crash.
LEMMA RestartKeeps ==
  ASSUME IInv, NEW f \in Followers, Restart(f)
  PROVE  IInv'
<1> DEFINE l2 == [NewLog(storage[f]) EXCEPT !.committed = hardCommit[f]]
<1>1. DOMAIN storage = Followers /\ DOMAIN log = Followers /\ DOMAIN outbox = Followers
  BY Parts DEF FollowersOK
<1>2. /\ restarts < MaxRestarts /\ restarts' = restarts + 1
      /\ log' = [log EXCEPT ![f] = l2] /\ outbox' = [outbox EXCEPT ![f] = EmptyBag]
      /\ storage' = storage /\ hardCommit' = hardCommit /\ network' = network
      /\ leading' = leading /\ progress' = progress /\ leaderStorage' = leaderStorage
      /\ lost' = lost /\ repeated' = repeated /\ panicked' = LoadStatePanics(f)
  BY DEF Restart, leader
<1>9. LoadStatePanics(f) = FALSE
  BY Parts1, HardStateInRange DEF LoadStatePanics
<1>3. FollowerOK(storage[f], hardCommit[f], l2)
  BY Parts1, RestartKeepsFollower DEF FollowerOK
<1> HIDE DEF l2
<1>4. /\ log'[f] = l2 /\ outbox'[f] = EmptyBag
      /\ \A g \in Followers \ {f} : log'[g] = log[g] /\ outbox'[g] = outbox[g]
      /\ DOMAIN log' = Followers /\ DOMAIN outbox' = Followers
  BY <1>1, <1>2
<1>5. FollowersOK'
  <2>1. \A g \in Followers : FollowerOK(storage[g], hardCommit[g], log'[g])
    BY <1>3, <1>4, Parts1
  <2> QED BY <1>1, <1>2, <1>4, <2>1, Parts DEF FollowersOK
<1>6. OutboxOK'
  <2>1. IsABag(outbox'[f]) /\ \A m \in BagToSet(outbox'[f]) : OutMessageOK(m, f, log'[f])
    BY <1>4, SetToBagFacts
  <2>2. \A g \in Followers \ {f} :
          IsABag(outbox'[g]) /\ \A m \in BagToSet(outbox'[g]) : OutMessageOK(m, g, log'[g])
    BY <1>4, Parts1
  <2> QED BY <2>1, <2>2 DEF OutboxOK
<1>7. FaultsOK'
  BY <1>2, Parts, ReplicationAssumption DEF FaultsOK
<1>8. /\ leading' \in BOOLEAN /\ panicked' = FALSE /\ LeaderOK(leaderStorage)'
      /\ ProgressOK' /\ NetworkOK'
  BY <1>2, <1>9, Parts DEF ProgressOK, NetworkOK
<1> QED BY <1>5, <1>6, <1>7, <1>8 DEF IInv

\* A message repeated, or lost.
LEMMA RepeatKeeps == ASSUME IInv, Repeat PROVE IInv' /\ BagToSet(network') = BagToSet(network)
<1>1. PICK m \in BagToSet(network) :
        /\ repeated < MaxRepeated /\ repeated' = repeated + 1
        /\ network' = network (+) SetToBag({m})
        /\ UNCHANGED <<leader, followers, lost, restarts, panicked>>
  BY DEF Repeat
<1>2. IsABag(network') /\ BagToSet(network') = BagToSet(network)
  <2>1. IsABag(network) /\ IsABag(SetToBag({m})) /\ BagToSet(SetToBag({m})) = {m}
    BY Parts, SetToBagFacts DEF NetworkOK
  <2>2. IsABag(network') /\ BagToSet(network') = BagToSet(network) \cup {m}
    BY <1>1, <2>1, BagSumFacts
  <2> QED BY <2>2
<1>3. FaultsOK'
  BY <1>1, Parts, ReplicationAssumption DEF FaultsOK
<1>4. \A k \in BagToSet(network') : NetMessageOK(k, hardCommit)
  BY <1>2, Parts DEF NetworkOK
<1>5. UNCHANGED <<leader, followers, panicked>>
  BY <1>1
<1> QED BY <1>2, <1>3, <1>4, <1>5, NetworkKeeps

\* A loss.
LEMMA LoseKeeps ==
  ASSUME IInv, Lose PROVE IInv' /\ BagToSet(network') \subseteq BagToSet(network)
<1>1. PICK m \in BagToSet(network) :
        /\ lost < MaxLost /\ lost' = lost + 1
        /\ network' = Without(m)
        /\ UNCHANGED <<leader, followers, repeated, restarts, panicked>>
  BY DEF Lose
<1>2. IsABag(network') /\ BagToSet(network') \subseteq BagToSet(network)
  BY <1>1, WithoutFacts
<1>3. FaultsOK'
  BY <1>1, Parts, ReplicationAssumption DEF FaultsOK
<1>4. \A k \in BagToSet(network') : NetMessageOK(k, hardCommit)
  BY <1>2, Parts DEF NetworkOK
<1>5. UNCHANGED <<leader, followers, panicked>>
  BY <1>1
<1> QED BY <1>2, <1>3, <1>4, <1>5, NetworkKeeps

\* An answer to a leader that leads no more.
LEMMA StepDeposedKeeps ==
  ASSUME IInv, NEW m, StepDeposed(m, Without(m)) PROVE IInv'
<1>1. network' = Without(m) /\ UNCHANGED <<leader, followers, panicked>> /\ UNCHANGED faults
  BY DEF StepDeposed
<1>2. IsABag(network') /\ BagToSet(network') \subseteq BagToSet(network)
  BY <1>1, WithoutFacts
<1>3. FaultsOK'
  BY <1>1, Parts DEF FaultsOK, faults
<1>4. \A k \in BagToSet(network') : NetMessageOK(k, hardCommit)
  BY <1>2, Parts DEF NetworkOK
<1> QED BY <1>1, <1>2, <1>3, <1>4, NetworkKeeps

\* Nothing comes of a proposal that has entries.
LEMMA ProposeDoesNothing == ASSUME Propose PROVE UNCHANGED vars
<1>1. \A n \in ProposalSizes : n # 0
  BY ReplicationAssumption
<1> QED BY <1>1 DEF Propose

\* Doing nothing.
LEMMA StutterKeeps == ASSUME IInv, UNCHANGED vars PROVE IInv'
BY Parts DEF IInv, vars, leader, followers, faults, FaultsOK, ProgressOK, FollowersOK,
             OutboxOK, NetworkOK
-----------------------------------------------------------------------------
(* The initial states. *)

\* A storage that holds the first n entries of a leader.
LEMMA StartStorage ==
  ASSUME NEW t \in Terms, NEW n \in 0 .. Len(LeaderLog[t]),
         NEW s, s = MSAppend(NewMemoryStorage, 1, SubSeq(LeaderLog[t], 1, n))
  PROVE  /\ StorageType(s) /\ s.index = 0 /\ s.snap.index = 0 /\ s.ents[1] = 0
         /\ MSLastIndex(s) = n
         /\ \A i \in 1 .. n : SAt(s, i) = LeaderLog[t][i]
<1> DEFINE s0 == NewMemoryStorage
           e == SubSeq(LeaderLog[t], 1, n)
           g == Over(s0, 1, e)
<1>1. LeaderLog[t] \in Seq(Terms) /\ n \in Nat /\ Len(LeaderLog[t]) \in Nat
      /\ n <= Len(LeaderLog[t])
  BY LeadersAssumption
<1>2. e \in Seq(Terms) /\ Len(e) = n /\ \A i \in 1 .. n : e[i] = LeaderLog[t][i]
  <2>1. \A i \in 1 .. n : LeaderLog[t][i] \in Terms
    BY <1>1
  <2>2. /\ SubSeq(LeaderLog[t], 1, n) \in Seq(Terms)
        /\ Len(SubSeq(LeaderLog[t], 1, n)) = IF 1 <= n THEN n - 1 + 1 ELSE 0
        /\ \A i \in 1 .. n - 1 + 1 : SubSeq(LeaderLog[t], 1, n)[i] = LeaderLog[t][1 + i - 1]
    BY <1>1, <2>1, SubSeqProperties
  <2> QED BY <1>1, <2>2
<1>3. /\ StorageType(s0) /\ s0.index = 0 /\ s0.snap.index = 0 /\ s0.ents[1] = 0
      /\ Len(s0.ents) = 1
  <2>1. <<0>> \in Seq(Terms \cup {0}) /\ <<0>> # <<>> /\ Len(<<0>>) = 1 /\ <<0>>[1] = 0
    OBVIOUS
  <2>2. s0.ents = <<0>> /\ s0.index = 0 /\ s0.snap = [index |-> 0, term |-> 0]
    BY DEF NewMemoryStorage
  <2>3. NewMemoryStorage \in [index : Nat, ents : Seq(Terms \cup {0}), snap : [index : Nat, term : Nat]]
    BY <2>1 DEF NewMemoryStorage
  <2> QED BY <2>1, <2>2, <2>3 DEF StorageType
<1>4. MSLastIndex(s0) = 0
  BY <1>3 DEF MSLastIndex
<1> HIDE DEF s0, e
<1>5. CASE n = 0
  <2>1. e = <<>>
    BY <1>2, <1>5
  <2>2. s = s0
    BY <2>1 DEF MSAppend, MSAppendIgnored, s0, e
  <2> QED BY <1>3, <1>4, <1>5, <2>2
<1>6. CASE n # 0
  <2>1. e # <<>> /\ s0.index < 1 + Len(e) - 1
    BY <1>1, <1>2, <1>3, <1>6
  <2>2. \A i \in 1 .. n : g[i] = e[i]
    <3> TAKE i \in 1 .. n
    <3>1. i \in Nat /\ 1 <= i /\ i < 1 + Len(e) /\ i - 1 + 1 = i
      BY <1>1, <1>2
    <3> QED BY <3>1, OverAt
  <2> HIDE DEF g
  <2>3. LogOK(s0, 1, e, 0)
    <3>1. Last(s0, 1, e) = n
      BY <1>1, <1>2, <2>1 DEF Last
    <3>2. CoherentTo(g, n)
      BY <1>1, <1>2, <2>2, PrefixIsCoherent
    <3>3. DecidedTo(g, 0)
      BY LeadersAssumption DEF DecidedTo
    <3> QED BY <1>1, <1>2, <1>3, <1>4, <2>1, <3>1, <3>2, <3>3 DEF LogOK, g
  <2>4. PICK c : c = 0
    OBVIOUS
  <2>5. s = MSAppend(s0, 1, e)
    BY DEF s0, e
  <2>6. /\ StorageType(s)
        /\ s.index = s0.index /\ s.snap = s0.snap /\ s.ents[1] = s0.ents[1]
        /\ MSLastIndex(s) = 1 + Len(e) - 1
        /\ \A j \in 1 .. MSLastIndex(s) : SAt(s, j) = Over(s0, 1, e)[j]
    BY <1>3, <2>1, <2>3, <2>5, MSAppendFacts
  <2> QED BY <1>1, <1>2, <1>3, <2>2, <2>6 DEF g
<1> QED BY <1>5, <1>6

\* newRaft, as Init and Restart have it.
Restarted(s, hc) == [NewLog(s) EXCEPT !.committed = hc]

\* The follower that starts with it, and with a HardState that fits.
LEMMA StartFollower ==
  ASSUME NEW t \in Terms, CommitsOf(t) \subseteq CommitsOf(Me),
         NEW n \in 0 .. Len(LeaderLog[t]),
         NEW s, s = MSAppend(NewMemoryStorage, 1, SubSeq(LeaderLog[t], 1, n)),
         NEW hc \in 0 .. Len(Decided), hc <= MSLastIndex(s),
         \A i \in 1 .. hc : s.ents[i + 1] = Decided[i],
         NEW l, l = Restarted(s, hc)
  PROVE  FollowerOK(s, hc, l)
<1> DEFINE g == Over(s, n + 1, <<>>)
<1>1. /\ StorageType(s) /\ s.index = 0 /\ s.snap.index = 0 /\ s.ents[1] = 0
      /\ MSLastIndex(s) = n
      /\ \A i \in 1 .. n : SAt(s, i) = LeaderLog[t][i]
  BY StartStorage
<1>2. n \in Nat /\ n <= Len(LeaderLog[t]) /\ hc \in Nat /\ hc <= n /\ hc <= Len(Decided)
  BY <1>1, LeadersAssumption
<1>3. \A i \in 1 .. n : g[i] = LeaderLog[t][i]
  <2> TAKE i \in 1 .. n
  <2>1. i \in Nat /\ ~(n + 1 <= i /\ i < n + 1 + Len(<<>>))
    BY <1>2
  <2> QED BY <1>1, <2>1, OverAt
<1>4. \A i \in 1 .. hc : LeaderLog[t][i] = Decided[i] /\ g[i] = Decided[i]
  <2> TAKE i \in 1 .. hc
  <2>1. i \in 1 .. n /\ ~(i <= s.index) /\ i - s.index + 1 = i + 1
    BY <1>1, <1>2
  <2>2. SAt(s, i) = s.ents[i + 1]
    BY <2>1 DEF SAt
  <2> QED BY <1>1, <1>3, <2>1, <2>2
<1> HIDE DEF g
<1>5. hc \in CommitsOf(Me)
  BY <1>2, <1>4 DEF CommitsOf
<1>6. StorageOK(s, hc)
  <2>1. CoherentTo(g, n)
    BY <1>2, <1>3, PrefixIsCoherent
  <2>2. DecidedTo(g, hc)
    BY <1>2, <1>4 DEF DecidedTo
  <2>3. Last(s, n + 1, <<>>) = n /\ n + 1 \in 1 .. n + 1 /\ <<>> \in Seq(Terms)
    BY <1>1, <1>2 DEF Last
  <2>4. Max2(hc, s.index) = hc
    BY <1>1, <1>2 DEF Max2
  <2>5. LogOK(s, MSLastIndex(s) + 1, <<>>, hc)
    BY <1>1, <1>2, <2>1, <2>2, <2>3 DEF LogOK, g
  <2> QED BY <1>1, <1>2, <2>4, <2>5 DEF StorageOK
<1> QED BY <1>1, <1>5, <1>6, RestartKeepsFollower DEF Restarted

\* The leader when it has just become one: its empty entry is unstable.
LEMMA StartLeader ==
  ASSUME NEW s, s = MSAppend(NewMemoryStorage, 1, SubSeq(LeaderLog[Me], 1, LeaderLast - 1))
  PROVE  LeaderOK(s)
<1> DEFINE n == LeaderLast - 1
           l == LeaderRaftLog
           u == <<Me>>
           g == Over(s, LeaderLast, u)
           m == SubSeq(Decided, 1, LeaderCommit)
           c == LeaderCommit
<1>1. /\ Me \in Terms /\ LeaderLast \in Nat \ {0} /\ LeaderLog[Me][LeaderLast] = Me
      /\ c \in CommitsOf(Me) /\ c \in Nat /\ c < LeaderLast /\ c <= Len(Decided)
  BY MeFacts
<1>2. n \in 0 .. Len(LeaderLog[Me]) /\ n \in Nat
  BY <1>1 DEF LeaderLast
<1>3. /\ StorageType(s) /\ s.index = 0 /\ s.snap.index = 0 /\ s.ents[1] = 0
      /\ MSLastIndex(s) = n
      /\ \A i \in 1 .. n : SAt(s, i) = LeaderLog[Me][i]
  BY <1>1, <1>2, StartStorage
<1>4. u \in Seq(Terms) /\ Len(u) = 1 /\ u[1] = Me /\ u # <<>>
  BY <1>1
<1> HIDE DEF u, n
<1>5. \A i \in 1 .. LeaderLast : g[i] = LeaderLog[Me][i]
  <2> TAKE i \in 1 .. LeaderLast
  <2>0. i \in Nat
    OBVIOUS
  <2>1. CASE i = LeaderLast
    <3>1. LeaderLast <= i /\ i < LeaderLast + Len(u) /\ i - LeaderLast + 1 = 1
      BY <1>1, <1>4, <2>1
    <3>2. g[i] = u[1]
      BY <2>0, <3>1, OverAt
    <3> QED BY <1>1, <1>4, <2>1, <3>2
  <2>2. CASE i # LeaderLast
    <3>1. i \in 1 .. n /\ ~(LeaderLast <= i)
      BY <1>1, <2>2 DEF n
    <3>2. g[i] = SAt(s, i)
      BY <2>0, <3>1, OverAt
    <3> QED BY <1>3, <3>1, <3>2
  <2> QED BY <2>1, <2>2
<1> HIDE DEF g
<1>6. Last(s, LeaderLast, u) = LeaderLast
  BY <1>1, <1>4 DEF Last
<1>7. \A i \in 1 .. c : LeaderLog[Me][i] = Decided[i]
  BY <1>1, CommitsFacts
<1>8. LogOK(s, LeaderLast, u, c)
  <2>1. CoherentTo(g, LeaderLast)
    BY <1>1, <1>5, PrefixIsCoherent DEF LeaderLast
  <2>2. DecidedTo(g, c)
    BY <1>1, <1>5, <1>7 DEF DecidedTo
  <2>3. LeaderLast \in 1 .. MSLastIndex(s) + 1
    BY <1>1, <1>3 DEF n
  <2> QED BY <1>1, <1>3, <1>4, <1>6, <2>1, <2>2, <2>3 DEF LogOK, g
<1>9. StorageOK(s, c)
  <2> DEFINE h == Over(s, n + 1, <<>>)
  <2>1. \A i \in 1 .. n : h[i] = LeaderLog[Me][i]
    <3> TAKE i \in 1 .. n
    <3>1. i \in Nat /\ ~(n + 1 <= i /\ i < n + 1 + Len(<<>>))
      BY <1>2
    <3> QED BY <1>3, <3>1, OverAt
  <2> HIDE DEF h
  <2>2. CoherentTo(h, n)
    BY <1>1, <1>2, <2>1, PrefixIsCoherent
  <2>3. DecidedTo(h, c)
    <3>1. c <= n
      BY <1>1 DEF n
    <3> QED BY <1>1, <1>2, <1>7, <2>1, <3>1 DEF DecidedTo
  <2>4. Last(s, n + 1, <<>>) = n /\ n + 1 \in 1 .. n + 1 /\ <<>> \in Seq(Terms)
    BY <1>2, <1>3 DEF Last
  <2>5. Max2(c, s.index) = c /\ c <= n
    BY <1>1, <1>3 DEF Max2, n
  <2>6. LogOK(s, MSLastIndex(s) + 1, <<>>, c)
    BY <1>1, <1>2, <1>3, <2>2, <2>3, <2>4, <2>5 DEF LogOK, h
  <2> QED BY <1>1, <1>3, <2>5, <2>6 DEF StorageOK
<1>10. RaftLogOK(s, l)
  BY <1>8, LeaderRaftLogFacts DEF RaftLogOK, u
<1>11. m \in Seq(Terms) /\ Len(m) = c
  <2>1. 0 \in Nat /\ 0 + c <= Len(Decided)
    BY <1>1
  <2>2. /\ SubSeq(Decided, 0 + 1, 0 + c) \in Seq(Terms)
        /\ Len(SubSeq(Decided, 0 + 1, 0 + c)) = c
    BY <1>1, <2>1, RunFacts
  <2>3. 0 + 1 = 1 /\ 0 + c = c
    BY <1>1
  <2> QED BY <2>2, <2>3
<1>12. MachineOK(s, c, l, NoBatch, m)
  <2>1. Max2(c, s.index) = c
    BY <1>1, <1>3 DEF Max2
  <2>2. m = SubSeq(Decided, 1, Len(m))
    BY <1>11
  <2> HIDE DEF m
  <2>3. NoBatch.stage = "none"
    BY DEF NoBatch
  <2> QED BY <1>1, <1>3, <1>11, <2>1, <2>2, <2>3, LeaderRaftLogFacts DEF MachineOK
<1>13. BatchOK(s, c, l, NoBatch, m)
  <2> HIDE DEF m
  <2>1. LastIndex(s, l) = LeaderLast
    BY <1>1, <1>4, <1>6, LeaderRaftLogFacts DEF LastIndex, Last, u
  <2>2. /\ NoBatch \in [stage : {"none", "taken", "stored", "applied"}, first : Nat,
                        ents : Seq(Terms), apply : Seq(Terms), commit : Nat]
        /\ NoBatch.stage = "none"
    <3>1. <<>> \in Seq(Terms)
      OBVIOUS
    <3> QED BY <3>1 DEF NoBatch
  <2> QED BY <1>1, <1>11, <2>1, <2>2 DEF BatchOK
<1> QED BY <1>3, <1>9, <1>10, <1>12, <1>13 DEF LeaderOK, SafeState

\* The first messages: nothing is acknowledged, and nothing acknowledges.
LEMMA NoneAcknowledged ==
  ASSUME Init
  PROVE  /\ LeaderOK(leaderStorage)
         /\ \A f \in Followers : /\ FollowerOK(storage[f], hardCommit[f], log[f])
                                 /\ hardCommit[f] \in Nat /\ GoodProgress(progress[f])
                                 /\ progress[f].match = 0 /\ LeaderLast <= progress[f].next
         /\ progress = [f \in Followers |-> progress[f]]
         /\ IsABag(network)
         /\ \A m \in BagToSet(network) : MessageOK(m) /\ m.type \in {"MsgApp", "MsgSnap"}
<1> DEFINE s == leaderStorage
           Sent(prs) == UNION {SendAppend(s, prs[f], f).messages : f \in Followers}
<1>1. LeaderOK(s)
  BY StartLeader DEF Init
<1>2. PICK prs \in [Followers -> {NewProgress(LeaderLast, state) : state \in States}] :
        /\ progress = [f \in Followers |-> SendAppend(s, prs[f], f).progress]
        /\ network = SetToBag(Sent(prs))
  BY DEF Init
<1>3. ASSUME NEW f \in Followers
      PROVE  /\ GoodProgress(prs[f]) /\ prs[f].match = 0 /\ prs[f].next = LeaderLast
  <2>1. PICK state \in States : prs[f] = NewProgress(LeaderLast, state)
    BY <1>2
  <2>2. PICK n \in 1 .. LeaderLast + 1 : n = LeaderLast
    BY MeFacts
  <2>3. state \in States \cup {"Probe"} /\ prs[f] = NewProgress(n, state)
    BY <2>1, <2>2
  <2>4. /\ GoodProgress(NewProgress(n, state)) /\ NewProgress(n, state).match = 0
        /\ NewProgress(n, state).next = n
    BY <2>3, NewProgressFacts
  <2> QED BY <2>2, <2>3, <2>4
<1>4. ASSUME NEW f \in Followers
      PROVE  FollowerOK(storage[f], hardCommit[f], log[f]) /\ hardCommit[f] \in Nat
  <2>1. /\ storage[f] \in StartStorages /\ hardCommit[f] \in 0 .. Len(Decided)
        /\ hardCommit[f] <= MSLastIndex(storage[f])
        /\ \A i \in 1 .. hardCommit[f] : storage[f].ents[i + 1] = Decided[i]
        /\ log[f] = Restarted(storage[f], hardCommit[f])
    BY DEF Init, Restarted
  <2>2. PICK t \in StartTerms : \E n \in 0 .. Len(LeaderLog[t]) :
          storage[f] = MSAppend(NewMemoryStorage, 1, SubSeq(LeaderLog[t], 1, n))
    BY <2>1 DEF StartStorages
  <2>3. PICK n \in 0 .. Len(LeaderLog[t]) :
          storage[f] = MSAppend(NewMemoryStorage, 1, SubSeq(LeaderLog[t], 1, n))
    BY <2>2
  <2>4. t \in Terms /\ CommitsOf(t) \subseteq CommitsOf(Me)
    BY ReplicationAssumption, LeaderIsComplete
  <2>5. PICK sf, hc, l : sf = storage[f] /\ hc = hardCommit[f] /\ l = log[f]
    OBVIOUS
  <2>6. FollowerOK(sf, hc, l)
    <3>1. sf = MSAppend(NewMemoryStorage, 1, SubSeq(LeaderLog[t], 1, n))
      BY <2>3, <2>5
    <3>2. hc \in 0 .. Len(Decided) /\ hc <= MSLastIndex(sf)
      BY <2>1, <2>5
    <3>3. \A i \in 1 .. hc : sf.ents[i + 1] = Decided[i]
      BY <2>1, <2>5
    <3>4. l = Restarted(sf, hc)
      BY <2>1, <2>5
    <3> QED BY <2>4, <3>1, <3>2, <3>3, <3>4, StartFollower
  <2> QED BY <2>1, <2>5, <2>6, MeFacts
<1>5. ASSUME NEW f \in Followers
      PROVE  /\ progress[f] = SendAppend(s, prs[f], f).progress
             /\ GoodProgress(progress[f]) /\ progress[f].match = 0 /\ LeaderLast <= progress[f].next
             /\ \A m \in SendAppend(s, prs[f], f).messages :
                  MessageOK(m) /\ m.type \in {"MsgApp", "MsgSnap"}
  <2>1. progress[f] = SendAppend(s, prs[f], f).progress
    BY <1>2
  <2>2. PICK r : r = SendAppend(s, prs[f], f)
    OBVIOUS
  <2>3. /\ GoodProgress(r.progress)
        /\ r.progress.match = prs[f].match
        /\ prs[f].next <= r.progress.next
        /\ \A m \in r.messages : MessageOK(m) /\ m.type \in {"MsgApp", "MsgSnap"} /\ m.to = f
    BY <1>1, <1>3, <2>2, SendAppendFacts
  <2> QED BY <1>3, <2>1, <2>2, <2>3
<1>6. /\ IsABag(network)
      /\ \A m \in BagToSet(network) : MessageOK(m) /\ m.type \in {"MsgApp", "MsgSnap"}
  <2>1. IsABag(network) /\ BagToSet(network) = Sent(prs)
    BY <1>2, SetToBagFacts
  <2> QED BY <2>1, <1>5
<1>7. progress = [f \in Followers |-> progress[f]]
  BY <1>2
<1> QED BY <1>1, <1>4, <1>5, <1>6, <1>7

\* The invariant at the start.
LEMMA InitIInv == Init => IInv
<1> SUFFICES ASSUME Init PROVE IInv
  OBVIOUS
<1>6. ProgressOK
  <2>1. \A f \in Followers : ProgressAt(progress[f], hardCommit[f])
    <3> TAKE f \in Followers
    <3>1. /\ GoodProgress(progress[f]) /\ progress[f].match = 0 /\ LeaderLast <= progress[f].next
          /\ hardCommit[f] \in Nat /\ LeaderCommit \in Nat /\ LeaderLast \in Nat \ {0}
          /\ progress[f].next \in Nat
      BY NoneAcknowledged, MeFacts, ProgressFacts
    <3>2. Min2(0, LeaderCommit) = 0
      BY <3>1 DEF Min2
    <3> QED BY <3>1, <3>2 DEF ProgressAt
  <2>2. progress \in [Followers -> ProgressRecords]
    BY NoneAcknowledged DEF GoodProgress
  <2> QED BY <2>1, <2>2 DEF ProgressOK
<1>7. NetworkOK
  BY NoneAcknowledged DEF NetworkOK, NetMessageOK, Accepts
<1>8. /\ DOMAIN storage = Followers /\ hardCommit \in [Followers -> 0 .. Len(Decided)]
      /\ log = [f \in Followers |-> [NewLog(storage[f]) EXCEPT !.committed = hardCommit[f]]]
      /\ outbox = [f \in Followers |-> EmptyBag]
      /\ leading = TRUE /\ lost = 0 /\ repeated = 0 /\ restarts = 0 /\ panicked = FALSE
  BY DEF Init
<1>9. FollowersOK
  BY <1>8, NoneAcknowledged, MeFacts DEF FollowersOK
<1>10. OutboxOK
  BY <1>8, SetToBagFacts DEF OutboxOK
<1>11. FaultsOK
  BY <1>8, ReplicationAssumption DEF FaultsOK
<1> QED BY NoneAcknowledged, <1>6, <1>7, <1>8, <1>9, <1>10, <1>11 DEF IInv

\* Which action a step is.
LEMMA NextCases ==
  ASSUME Next
  PROVE  \/ \E m \in BagToSet(network) :
              \/ m.type \in {"MsgAppResp", "MsgHeartbeatResp"} /\ StepLeader(m, Without(m))
              \/ m.type \in {"MsgAppResp", "MsgHeartbeatResp"} /\ StepDeposed(m, Without(m))
              \/ StepFollower(m, Without(m))
         \/ Repeat \/ Lose \/ Beat \/ CompactLeader \/ CheckQuorum \/ UNCHANGED vars
         \/ \E f \in Followers : SaveAndSend(f) \/ Restart(f) \/ ReceiveOldApp(f)
<1>1. ASSUME NEW type \in MessageTypes, Deliver(type)
      PROVE  \E m \in BagToSet(network) :
              \/ m.type \in {"MsgAppResp", "MsgHeartbeatResp"} /\ StepLeader(m, Without(m))
              \/ m.type \in {"MsgAppResp", "MsgHeartbeatResp"} /\ StepDeposed(m, Without(m))
              \/ StepFollower(m, Without(m))
  BY <1>1 DEF Deliver, Step
<1> QED BY <1>1, ProposeDoesNothing DEF Next

\* One lemma per action.
LEMMA StepIInv == IInv /\ [Next]_vars => IInv'
<1> SUFFICES ASSUME IInv, [Next]_vars PROVE IInv'
  OBVIOUS
<1>1. ASSUME NEW m \in BagToSet(network), m.type \in {"MsgAppResp", "MsgHeartbeatResp"},
             StepLeader(m, Without(m))
      PROVE  IInv'
  <2>1. IsABag(Without(m)) /\ BagToSet(Without(m)) \subseteq BagToSet(network)
    BY WithoutFacts
  <2>2. CASE m.type = "MsgAppResp"
    <3>1. StepAppResp(m, Without(m))
      BY <1>1, <2>2 DEF StepLeader
    <3> QED BY <2>1, <2>2, <3>1, StepAppRespKeeps
  <2>3. CASE m.type = "MsgHeartbeatResp"
    <3>1. StepHeartbeatResp(m, Without(m))
      BY <1>1, <2>3 DEF StepLeader
    <3> QED BY <2>1, <2>3, <3>1, StepHeartbeatRespKeeps
  <2> QED BY <1>1, <2>2, <2>3
<1>2. ASSUME NEW m \in BagToSet(network), StepDeposed(m, Without(m))
      PROVE  IInv'
  BY <1>2, StepDeposedKeeps
<1>3. ASSUME NEW m \in BagToSet(network), StepFollower(m, Without(m))
      PROVE  IInv'
  BY <1>3, StepFollowerKeeps
<1>4. ASSUME NEW f \in Followers, SaveAndSend(f) \/ Restart(f) \/ ReceiveOldApp(f)
      PROVE  IInv'
  BY <1>4, SaveAndSendKeeps, RestartKeeps, ReceiveOldAppKeeps
<1>5. CASE Repeat \/ Lose \/ Beat \/ CompactLeader \/ CheckQuorum
  BY <1>5, RepeatKeeps, LoseKeeps, BeatKeeps, CompactLeaderKeeps, CheckQuorumKeeps
<1>6. CASE UNCHANGED vars
  BY <1>6, StutterKeeps
<1> QED BY <1>1, <1>2, <1>3, <1>4, <1>5, <1>6, NextCases

-----------------------------------------------------------------------------
(* What is acknowledged is kept, if the deposed leaders whose messages are   *)
(* still under way had nothing else where this leader has an entry.          *)

\* With nothing unstable the log is what the storage holds.
LEMMA NothingOver ==
  ASSUME NEW s, NEW l, l.offset \in Nat, l.unstable = <<>>, NEW n \in Nat
  PROVE  Present(s, l, n) <=> Durable(s, n)
<1>1. LastIndex(s, l) = MSLastIndex(s)
  BY DEF LastIndex
<1>2. ASSUME NEW i \in 1 .. n
      PROVE  Over(s, l.offset, l.unstable)[i] = SAt(s, i)
  <2>1. i \in Nat /\ Len(l.unstable) = 0
    OBVIOUS
  <2>2. ~(l.offset <= i /\ i < l.offset + Len(l.unstable))
    BY <2>1
  <2> QED BY <2>1, <2>2, OverAt
<1> QED BY <1>1, <1>2 DEF Present, Durable, Same

\* maybeAppend of entries that agree with the leader's log never cuts off what is
\* in it already: where it goes further than they do, there is no conflict.
LEMMA AgreeingAppendKeeps ==
  ASSUME NEW s, NEW hc, NEW l, FollowerOK(s, hc, l), NEW t, NEW m, AppFrom(m, t),
         \A i \in 1 .. Len(LeaderLog[t]) : i <= LeaderLast => LeaderLog[t][i] = LeaderLog[Me][i],
         ~(m.index < l.committed), MatchTerm(s, l, m.index, m.logTerm),
         NEW l2, l2 = MaybeAppend(s, l, m.index, m.commit, m.ents),
         NEW n \in 0 .. LeaderLast, Present(s, l, n)
  PROVE  Present(s, l2, n)
<1> DEFINE prev == m.index
           ents == m.ents
           k == prev + Len(ents)
           g == Over(s, l.offset, l.unstable)
<1>1. /\ StorageOK(s, hc) /\ RaftLogOK(s, l) /\ s.index = 0
      /\ l.committed \in Nat /\ LastIndex(s, l) \in Nat
  BY FollowerFacts
<1>2. /\ t \in Terms /\ CommitsOf(t) \subseteq CommitsOf(Me)
      /\ prev \in 0 .. Len(LeaderLog[t]) /\ m.logTerm = LeaderTerm(t, prev)
      /\ Carries(t, prev, ents) /\ m.commit \in CommitsOf(t)
  BY DEF AppFrom
<1>3. /\ prev \in Nat /\ ents \in Seq(Terms) /\ Len(ents) \in Nat /\ k <= Len(LeaderLog[t])
      /\ \A j \in 1 .. Len(ents) : ents[j] = LeaderLog[t][prev + j]
      /\ Len(LeaderLog[t]) \in Nat
  BY <1>2, LeadersAssumption DEF Carries
<1>4. /\ n <= LastIndex(s, l) /\ \A j \in 1 .. n : g[j] = LeaderLog[Me][j]
  BY DEF Present, Same
<1>5. n \in Nat /\ n <= LeaderLast /\ LeaderLast \in Nat
  BY MeFacts
<1>6. CASE n <= k
  <2>1. k <= LastIndex(s, l2) /\ Same(Over(s, l2.offset, l2.unstable), LeaderLog[t], k)
        /\ FollowerOK(s, hc, l2)
    <3> HIDE DEF prev, ents
    <3>1. /\ ~(prev < l.committed) /\ MatchTerm(s, l, prev, LeaderTerm(t, prev))
          /\ l2 = MaybeAppend(s, l, prev, m.commit, ents)
      BY <1>2 DEF prev, ents
    <3>2. /\ FollowerOK(s, hc, l2)
          /\ prev + Len(ents) <= LastIndex(s, l2)
          /\ Same(Over(s, l2.offset, l2.unstable), LeaderLog[t], prev + Len(ents))
      BY <1>2, <3>1, AppKeepsFollower
    <3> QED BY <3>2
  <2>2. LastIndex(s, l2) \in Nat
    BY <2>1, FollowerFacts
  <2> HIDE DEF k
  <2>3. k \in Nat
    BY <1>3 DEF k
  <2>4. n <= LastIndex(s, l2)
    BY <1>5, <1>6, <2>1, <2>2, <2>3
  <2>5. ASSUME NEW j \in 1 .. n
        PROVE  Over(s, l2.offset, l2.unstable)[j] = LeaderLog[Me][j]
    <3>1. j \in 1 .. k /\ j \in 1 .. Len(LeaderLog[t]) /\ j <= LeaderLast
      BY <1>3, <1>5, <1>6, <2>3
    <3> QED BY <2>1, <3>1 DEF Same
  <2> QED BY <2>4, <2>5 DEF Present, Same
<1>7. CASE ~(n <= k)
  <2>1. FindConflict(s, l, prev + 1, ents) = 0
    <3> DEFINE ci == FindConflict(s, l, prev + 1, ents)
               first == prev + 1
    <3>1. first \in Nat \ {0}
      BY <1>3
    <3>2. \/ ci = 0
          \/ /\ ci \in first .. first + Len(ents) - 1
             /\ ~MatchTerm(s, l, ci, ents[ci - first + 1])
      BY <1>3, <3>1, FindConflictFacts
    <3>3. ASSUME ci \in first .. first + Len(ents) - 1
          PROVE  MatchTerm(s, l, ci, ents[ci - first + 1])
      <4> HIDE DEF ci
      <4>1. /\ ci \in Nat \ {0} /\ ci - first + 1 \in 1 .. Len(ents)
            /\ prev + (ci - first + 1) = ci /\ ci <= k
            /\ ci \in 1 .. n /\ ci <= LastIndex(s, l) /\ ci \in 1 .. Len(LeaderLog[t])
            /\ ci <= LeaderLast
        <5>1. PICK p \in Nat, e \in Nat, c \in Nat, x \in Nat :
                p = prev /\ e = Len(ents) /\ c = Len(LeaderLog[t]) /\ x = LastIndex(s, l)
          BY <1>1, <1>3
        <5>2. /\ ci \in p + 1 .. p + 1 + e - 1 /\ k = p + e /\ first = p + 1
          BY <5>1, <3>3
        <5>3. p + e <= c /\ n <= x /\ ~(n <= p + e)
          BY <5>1, <5>2, <1>3, <1>4, <1>7
        <5> HIDE DEF first, prev, ents, k
        <5>4. ci \in Nat \ {0} /\ p + 1 <= ci /\ ci <= p + e
          BY <5>2
        <5>5. ci - (p + 1) + 1 \in 1 .. e /\ p + (ci - (p + 1) + 1) = ci
          BY <5>4
        <5>6. ci \in 1 .. n /\ ci <= x /\ ci \in 1 .. c /\ ci <= LeaderLast
          BY <5>3, <5>4, <1>5
        <5> QED BY <5>1, <5>2, <5>4, <5>5, <5>6
      <4>2. ents[ci - first + 1] = LeaderLog[t][ci]
        BY <1>3, <4>1
      <4>3. LeaderLog[t][ci] = LeaderLog[Me][ci] /\ g[ci] = LeaderLog[Me][ci]
        BY <1>4, <4>1
      <4>4. ents[ci - first + 1] \in Terms
        BY <1>3, <4>1, ElementOfSeq
      <4>5. s.index <= ci
        BY <1>1, <4>1
      <4> QED BY <1>1, <4>1, <4>2, <4>3, <4>4, <4>5, MatchFacts
    <3> QED BY <3>2, <3>3
  <2>2. l2 = CommitTo(l, Min2(m.commit, k))
    BY <2>1 DEF MaybeAppend, AppendFromConflict
  <2>3. l2.offset = l.offset /\ l2.unstable = l.unstable
    <3>1. LogType(l)
      BY <1>1 DEF RaftLogOK, LogType
    <3>2. Min2(m.commit, k) \in Nat
      <4>1. m.commit \in Nat /\ k \in Nat
        BY <1>2, <1>3, CommitsFacts
      <4> HIDE DEF k
      <4> QED BY <4>1, Min2Facts
    <3>3. PICK c \in Nat : c = Min2(m.commit, k)
      BY <3>2
    <3>4. l2 = CommitTo(l, c)
      BY <2>2, <3>3
    <3>5. CommitTo(l, c).offset = l.offset /\ CommitTo(l, c).unstable = l.unstable
      BY <3>1, CommitToFacts
    <3> QED BY <3>4, <3>5
  <2>4. LastIndex(s, l2) = LastIndex(s, l)
    BY <2>3 DEF LastIndex
  <2> QED BY <2>3, <2>4 DEF Present
<1> QED BY <1>6, <1>7

\* So for what handleAppendEntries does.
LEMMA LogAfterKeeps ==
  ASSUME IInv, NEW f \in Followers, NEW t, NEW m, AppFrom(m, t),
         \A i \in 1 .. Len(LeaderLog[t]) : i <= LeaderLast => LeaderLog[t][i] = LeaderLog[Me][i],
         NEW n \in 0 .. LeaderLast, Present(storage[f], log[f], n)
  PROVE  Present(storage[f], LogAfter(f, m), n)
<1>1. CASE Matches(f, m)
  <2>1. /\ ~(m.index < log[f].committed)
        /\ MatchTerm(storage[f], log[f], m.index, m.logTerm)
        /\ LogAfter(f, m) = MaybeAppend(storage[f], log[f], m.index, m.commit, m.ents)
    BY <1>1 DEF Matches, AlreadyCommitted, LogAfter
  <2> QED BY <2>1, Parts1, AgreeingAppendKeeps
<1>2. CASE ~Matches(f, m)
  BY <1>2 DEF LogAfter
<1> QED BY <1>1, <1>2

\* What f acknowledges is in its log.
LEMMA AnswerIsPresent ==
  ASSUME IInv, NEW f \in Followers, NEW m, AppOK(m), Accepts(Answer(f, m))
  PROVE  Present(storage[f], LogAfter(f, m), Answer(f, m).index)
<1>1. AppFrom(m, Me)
  BY AppsAreFromLeaders
<1>2. CASE AlreadyCommitted(f, m)
  <2>1. Answer(f, m).index = log[f].committed /\ LogAfter(f, m) = log[f]
    BY <1>2 DEF Answer, LogAfter, Matches
  <2>2. Present(storage[f], log[f], log[f].committed)
    BY Parts1, FollowerFacts DEF Present, Same
  <2> QED BY <2>1, <2>2
<1>3. CASE ~AlreadyCommitted(f, m) /\ Matches(f, m)
  <2>1. Answer(f, m).index = m.index + Len(m.ents)
    BY <1>3 DEF Answer
  <2>2. LET l == LogAfter(f, m) IN
        /\ m.index + Len(m.ents) <= LastIndex(storage[f], l)
        /\ Same(Over(storage[f], l.offset, l.unstable), LeaderLog[Me], m.index + Len(m.ents))
    BY <1>1, <1>3, LogAfterFacts
  <2> QED BY <2>1, <2>2 DEF Present
<1>4. CASE ~AlreadyCommitted(f, m) /\ ~Matches(f, m)
  BY <1>4 DEF Answer, Accepts
<1> QED BY <1>2, <1>3, <1>4

\* The index an answer names.
LEMMA AcceptedIndex ==
  ASSUME NEW m, MessageOK(m), Accepts(m)
  PROVE  m.from \in Followers /\ m.index \in 0 .. LeaderLast /\ m.index \in Nat
BY MeFacts DEF MessageOK, Accepts, RespOK

\* The leader's steps: nothing changes on the followers.
LEMMA LeaderStepKeepsDInv ==
  ASSUME IInv, DInv, storage' = storage, log' = log, outbox' = outbox,
         \A f \in Followers : Kept(f, progress'[f].match),
         \A m \in BagToSet(network') : Accepts(m) => m \in BagToSet(network)
  PROVE  DInv'
<1>1. \A f \in Followers : Kept(f, progress[f].match)'
  BY DEF Kept
<1>2. \A f \in Followers : \A m \in BagToSet(outbox'[f]) :
        Accepts(m) => Present(storage'[f], log'[f], m.index)
  BY DEF DInv
<1>3. \A m \in BagToSet(network') : Accepts(m) => Kept(m.from, m.index)'
  BY DEF DInv, Kept
<1> QED BY <1>1, <1>2, <1>3 DEF DInv

\* A handler of a follower.
LEMMA HandledByKeepsDInv ==
  ASSUME IInv, DInv, NEW f \in Followers, NEW l,
         \A n \in 0 .. LeaderLast : Present(storage[f], log[f], n) => Present(storage[f], l, n),
         NEW as, \A m \in as : Accepts(m) => Present(storage[f], l, m.index),
         NEW net, BagToSet(net) \subseteq BagToSet(network),
         HandledBy(f, l, as, net)
  PROVE  DInv'
<1>1. /\ log' = [log EXCEPT ![f] = l]
      /\ outbox' = [outbox EXCEPT ![f] = outbox[f] (+) SetToBag(as)]
      /\ network' = net /\ progress' = progress /\ storage' = storage
  BY DEF HandledBy, leader
<1>2. DOMAIN log = Followers /\ DOMAIN outbox = Followers
  BY Parts DEF FollowersOK
<1>3. /\ log'[f] = l /\ outbox'[f] = outbox[f] (+) SetToBag(as)
      /\ \A g \in Followers \ {f} : log'[g] = log[g] /\ outbox'[g] = outbox[g]
  BY <1>1, <1>2
<1>4. ASSUME NEW g \in Followers, NEW n \in 0 .. LeaderLast, Present(storage[g], log[g], n)
      PROVE  Present(storage'[g], log'[g], n)
  BY <1>1, <1>3, <1>4
<1>5. ASSUME NEW g \in Followers, NEW n \in 0 .. LeaderLast, Kept(g, n)
      PROVE  Kept(g, n)'
  BY <1>1, <1>4, <1>5 DEF Kept
<1>6. \A g \in Followers : Kept(g, progress[g].match)'
  <2> TAKE g \in Followers
  <2>1. progress[g].match \in 0 .. LeaderLast /\ Kept(g, progress[g].match)
    BY Parts1 DEF DInv
  <2>2. PICK n \in 0 .. LeaderLast : n = progress[g].match
    BY <2>1
  <2>3. Kept(g, n)'
    BY <2>1, <2>2, <1>5
  <2> QED BY <1>1, <2>2, <2>3 DEF Kept
<1>7. \A g \in Followers : \A m \in BagToSet(outbox'[g]) :
        Accepts(m) => Present(storage'[g], log'[g], m.index)
  <2> SUFFICES ASSUME NEW g \in Followers, NEW m \in BagToSet(outbox'[g]), Accepts(m)
               PROVE  Present(storage'[g], log'[g], m.index)
    OBVIOUS
  <2>1. ASSUME m \in BagToSet(outbox[g])
        PROVE  Present(storage'[g], log'[g], m.index)
    <3>1. MessageOK(m)
      BY <2>1, Parts1 DEF OutMessageOK
    <3>2. m.index \in 0 .. LeaderLast
      BY <3>1, AcceptedIndex
    <3>3. Present(storage[g], log[g], m.index)
      BY <2>1 DEF DInv
    <3> QED BY <3>2, <3>3, <1>4
  <2>2. CASE g = f
    <3>1. IsABag(outbox[f]) /\ IsABag(SetToBag(as)) /\ BagToSet(SetToBag(as)) = as
      BY Parts1, SetToBagFacts
    <3>2. BagToSet(outbox'[f]) = BagToSet(outbox[f]) \cup as
      BY <1>3, <3>1, BagSumFacts
    <3>3. CASE m \in as
      BY <2>2, <3>3, <1>1, <1>3
    <3> QED BY <2>1, <2>2, <3>2, <3>3
  <2>3. CASE g # f
    BY <2>1, <2>3, <1>3
  <2> QED BY <2>2, <2>3
<1>8. \A m \in BagToSet(network') : Accepts(m) => Kept(m.from, m.index)'
  <2> SUFFICES ASSUME NEW m \in BagToSet(network'), Accepts(m)
               PROVE  Kept(m.from, m.index)'
    OBVIOUS
  <2>1. m \in BagToSet(network) /\ MessageOK(m)
    BY <1>1, Parts DEF NetworkOK, NetMessageOK
  <2>2. m.from \in Followers /\ m.index \in 0 .. LeaderLast
    BY <2>1, AcceptedIndex
  <2>3. Kept(m.from, m.index)
    BY <2>1 DEF DInv
  <2> QED BY <2>2, <2>3, <1>5
<1> QED BY <1>6, <1>7, <1>8 DEF DInv

\* Saving: what was in the log is now in the storage.
LEMMA SaveAndSendKeepsDInv ==
  ASSUME IInv, DInv, NEW f \in Followers, SaveAndSend(f)
  PROVE  DInv'
<1> DEFINE s == storage[f]
           l == log[f]
           last == LastIndex(s, l)
           s2 == MSAppend(s, l.offset, l.unstable)
           l2 == IF l.unstable = <<>> THEN l ELSE StableTo(l, last, Term(s, l, last))
<1>1. DOMAIN storage = Followers /\ DOMAIN log = Followers /\ DOMAIN outbox = Followers
  BY Parts DEF FollowersOK
<1>2. /\ storage' = [storage EXCEPT ![f] = s2]
      /\ log' = [log EXCEPT ![f] = l2] /\ outbox' = [outbox EXCEPT ![f] = EmptyBag]
      /\ network' = network (+) outbox[f]
      /\ progress' = progress
  BY <1>1, SavesAndSends DEF Save, leader
<1>3. FollowerOK(s, hardCommit[f], l)
  BY Parts1
<1>4. /\ FollowerOK(s2, l.committed, l2) /\ l2.unstable = <<>> /\ MSLastIndex(s2) = last
      /\ \A i \in 1 .. last : SAt(s2, i) = Over(s, l.offset, l.unstable)[i]
  BY <1>3, SaveKeepsFollower
<1>5. last \in Nat /\ l2.offset \in Nat
  BY <1>3, <1>4, FollowerFacts, RaftLogFacts
<1> HIDE DEF s2, l2
<1>6. ASSUME NEW n \in 0 .. LeaderLast, Present(s, l, n)
      PROVE  Durable(s2, n) /\ Present(s2, l2, n)
  <2>1. n \in Nat /\ n <= last /\ \A i \in 1 .. n : Over(s, l.offset, l.unstable)[i] = LeaderLog[Me][i]
    BY <1>6, MeFacts DEF Present, Same
  <2>2. ASSUME NEW i \in 1 .. n
        PROVE  SAt(s2, i) = LeaderLog[Me][i]
    <3>1. i \in 1 .. last
      BY <2>1, <1>5
    <3> QED BY <2>1, <3>1, <1>4
  <2>3. Durable(s2, n)
    BY <2>1, <2>2, <1>4 DEF Durable
  <2> QED BY <2>1, <2>3, <1>4, <1>5, NothingOver
<1>7. /\ storage'[f] = s2 /\ log'[f] = l2 /\ outbox'[f] = EmptyBag
      /\ \A g \in Followers \ {f} :
           storage'[g] = storage[g] /\ log'[g] = log[g] /\ outbox'[g] = outbox[g]
  BY <1>1, <1>2
<1>8. ASSUME NEW g \in Followers, NEW n \in 0 .. LeaderLast, Kept(g, n)
      PROVE  Kept(g, n)'
  <2>1. CASE g = f
    BY <2>1, <1>6, <1>7, <1>8 DEF Kept
  <2>2. CASE g # f
    BY <2>2, <1>7, <1>8 DEF Kept
  <2> QED BY <2>1, <2>2
<1>9. \A g \in Followers : Kept(g, progress[g].match)'
  <2> TAKE g \in Followers
  <2>1. PICK n \in 0 .. LeaderLast : n = progress[g].match
    BY Parts1
  <2>2. Kept(g, n)'
    BY <2>1, <1>8 DEF DInv
  <2> QED BY <1>2, <2>1, <2>2 DEF Kept
<1>10. \A g \in Followers : \A m \in BagToSet(outbox'[g]) :
         Accepts(m) => Present(storage'[g], log'[g], m.index)
  BY <1>7, SetToBagFacts DEF DInv
<1>11. \A m \in BagToSet(network') : Accepts(m) => Kept(m.from, m.index)'
  <2> SUFFICES ASSUME NEW m \in BagToSet(network'), Accepts(m)
               PROVE  Kept(m.from, m.index)'
    OBVIOUS
  <2>1. CASE m \in BagToSet(network)
    <3>1. m.from \in Followers /\ m.index \in 0 .. LeaderLast
      BY <2>1, Parts, AcceptedIndex DEF NetworkOK, NetMessageOK
    <3> QED BY <2>1, <3>1, <1>8 DEF DInv
  <2>2. CASE m \in BagToSet(outbox[f])
    <3>1. MessageOK(m) /\ m.from = f
      BY <2>2, Parts1 DEF OutMessageOK
    <3>2. m.index \in 0 .. LeaderLast
      BY <3>1, AcceptedIndex
    <3>3. Present(s, l, m.index)
      BY <2>2 DEF DInv
    <3>4. Durable(s2, m.index) /\ Present(s2, l2, m.index)
      BY <3>2, <3>3, <1>6
    <3> QED BY <3>1, <3>4, <1>7 DEF Kept
  <2>3. IsABag(network) /\ IsABag(outbox[f])
    BY Parts, Parts1 DEF NetworkOK
  <2> QED BY <1>2, <2>1, <2>2, <2>3, BagSumFacts
<1> QED BY <1>9, <1>10, <1>11 DEF DInv

\* The log newRaft makes.
LEMMA RestartedFacts ==
  ASSUME NEW s, NEW hc, StorageOK(s, hc), s.index = 0, hc \in CommitsOf(Me)
  PROVE  Restarted(s, hc).offset = MSLastIndex(s) + 1 /\ Restarted(s, hc).unstable = <<>>
<1> DEFINE o == MSLastIndex(s) + 1
<1>1. Restarted(s, hc) = [offset |-> o, unstable |-> <<>>, committed |-> hc, applied |-> 0]
  <2>1. s.index = 0 /\ StorageType(s)
    BY DEF StorageOK
  <2>2. NewLog(s) = [offset |-> o, unstable |-> <<>>, committed |-> 0, applied |-> 0]
    BY <2>1 DEF NewLog, MSFirstIndex
  <2> QED BY <2>2 DEF Restarted
<1> HIDE DEF o
<1>2. Restarted(s, hc).offset = o /\ Restarted(s, hc).unstable = <<>>
  BY <1>1
<1> QED BY <1>2 DEF o

\* A crash: what was acknowledged was stored.
LEMMA RestartKeepsDInv ==
  ASSUME IInv, DInv, NEW f \in Followers, Restart(f)
  PROVE  DInv'
<1> DEFINE s == storage[f]
           l2 == Restarted(s, hardCommit[f])
<1>1. DOMAIN log = Followers /\ DOMAIN outbox = Followers
  BY Parts DEF FollowersOK
<1>2. /\ log' = [log EXCEPT ![f] = l2] /\ outbox' = [outbox EXCEPT ![f] = EmptyBag]
      /\ storage' = storage /\ network' = network /\ progress' = progress
  BY DEF Restart, leader, Restarted
<1>3. l2.offset = MSLastIndex(s) + 1 /\ l2.unstable = <<>>
  BY Parts1, RestartedFacts DEF FollowerOK
<1>4. l2.offset \in Nat
  <2>1. MSLastIndex(s) \in Nat
    BY Parts1, FollowerFacts
  <2> QED BY <1>3, <2>1
<1> HIDE DEF l2
<1>5. /\ log'[f] = l2 /\ outbox'[f] = EmptyBag
      /\ \A g \in Followers \ {f} : log'[g] = log[g] /\ outbox'[g] = outbox[g]
  BY <1>1, <1>2
<1>6. ASSUME NEW g \in Followers, NEW n \in 0 .. LeaderLast, Kept(g, n)
      PROVE  Kept(g, n)'
  <2>1. CASE g = f
    <3>1. n \in Nat /\ Durable(s, n)
      BY <1>6, <2>1, MeFacts DEF Kept
    <3>2. Present(s, l2, n)
      BY <3>1, <1>3, <1>4, NothingOver
    <3> QED BY <2>1, <3>1, <3>2, <1>2, <1>5 DEF Kept
  <2>2. CASE g # f
    BY <2>2, <1>2, <1>5, <1>6 DEF Kept
  <2> QED BY <2>1, <2>2
<1>7. \A g \in Followers : Kept(g, progress[g].match)'
  <2> TAKE g \in Followers
  <2>1. PICK n \in 0 .. LeaderLast : n = progress[g].match
    BY Parts1
  <2>2. Kept(g, n)'
    BY <2>1, <1>6 DEF DInv
  <2> QED BY <1>2, <2>1, <2>2 DEF Kept
<1>8. \A g \in Followers : \A m \in BagToSet(outbox'[g]) :
         Accepts(m) => Present(storage'[g], log'[g], m.index)
  BY <1>2, <1>5, SetToBagFacts DEF DInv
<1>9. \A m \in BagToSet(network') : Accepts(m) => Kept(m.from, m.index)'
  <2> SUFFICES ASSUME NEW m \in BagToSet(network'), Accepts(m)
               PROVE  Kept(m.from, m.index)'
    OBVIOUS
  <2>1. m \in BagToSet(network)
    BY <1>2
  <2>2. m.from \in Followers /\ m.index \in 0 .. LeaderLast
    BY <2>1, Parts, AcceptedIndex DEF NetworkOK, NetMessageOK
  <2> QED BY <2>1, <2>2, <1>6 DEF DInv
<1> QED BY <1>7, <1>8, <1>9 DEF DInv

\* Nothing is acknowledged at the start.
LEMMA InitDInv == Init => DInv
<1> SUFFICES ASSUME Init PROVE DInv
  OBVIOUS
<1>1. IInv
  BY InitIInv
<1>2. ASSUME NEW f \in Followers
      PROVE  Kept(f, 0)
  <2>1. MSLastIndex(storage[f]) \in Nat /\ LastIndex(storage[f], log[f]) \in Nat
    BY <1>1, Parts1, FollowerFacts
  <2> QED BY <2>1 DEF Kept, Durable, Present, Same
<1>3. ASSUME NEW f \in Followers
      PROVE  progress[f].match = 0
  BY NoneAcknowledged
<1>4. \A m \in BagToSet(network) : ~Accepts(m)
  BY NoneAcknowledged DEF Accepts
<1>5. \A f \in Followers : BagToSet(outbox[f]) = {}
  BY SetToBagFacts DEF Init
<1> QED BY <1>2, <1>3, <1>4, <1>5 DEF DInv

\* What a step of the leader or the network is to the followers.
LEMMA StepDInv == ASSUME OldLeadersAgree, IInv, DInv, [Next]_vars PROVE DInv'
<1>0. \A f \in Followers : Kept(f, progress[f].match)
  BY DEF DInv
<1>1. ASSUME NEW m \in BagToSet(network), m.type \in {"MsgAppResp", "MsgHeartbeatResp"},
             StepLeader(m, Without(m))
      PROVE  DInv'
  <2>1. IsABag(Without(m)) /\ BagToSet(Without(m)) \subseteq BagToSet(network)
    BY WithoutFacts
  <2>2. CASE m.type = "MsgAppResp"
    <3>1. StepAppResp(m, Without(m))
      BY <1>1, <2>2 DEF StepLeader
    <3>2. /\ UNCHANGED <<leading, leaderStorage, followers, faults, panicked>>
          /\ \A f \in Followers :
              progress'[f].match = IF f = m.from /\ ~m.reject /\ progress[f].match < m.index
                                     THEN m.index ELSE progress[f].match
          /\ \A k \in BagToSet(network') : Answers(k) => k \in BagToSet(network)
      BY <2>1, <2>2, <3>1, StepAppRespKeeps
    <3>3. ASSUME NEW f \in Followers
          PROVE  Kept(f, progress'[f].match)
      <4>1. CASE f = m.from /\ ~m.reject /\ progress[f].match < m.index
        <5>1. Accepts(m)
          BY <2>2, <4>1 DEF Accepts
        <5>2. Kept(f, m.index)
          BY <4>1, <5>1 DEF DInv
        <5> QED BY <3>2, <4>1, <5>2
      <4>2. CASE ~(f = m.from /\ ~m.reject /\ progress[f].match < m.index)
        <5>1. progress'[f].match = progress[f].match
          BY <3>2, <4>2
        <5> QED BY <5>1, <1>0
      <4> QED BY <4>1, <4>2
    <3>4. storage' = storage /\ log' = log /\ outbox' = outbox
      BY <3>2 DEF followers
    <3>5. \A k \in BagToSet(network') : Accepts(k) => k \in BagToSet(network)
      BY <3>2 DEF Accepts, Answers
    <3> QED BY <3>3, <3>4, <3>5, LeaderStepKeepsDInv
  <2>3. CASE m.type = "MsgHeartbeatResp"
    <3>1. StepHeartbeatResp(m, Without(m))
      BY <1>1, <2>3 DEF StepLeader
    <3>2. \A f \in Followers : progress'[f].match = progress[f].match
      BY <2>1, <2>3, <3>1, StepHeartbeatRespKeeps
    <3>3. storage' = storage /\ log' = log /\ outbox' = outbox /\ network' = Without(m)
      BY <3>1 DEF StepHeartbeatResp, followers
    <3>4. \A k \in BagToSet(network') : Accepts(k) => k \in BagToSet(network)
      BY <2>1, <3>3
    <3>5. \A f \in Followers : Kept(f, progress'[f].match)
      BY <1>0, <3>2
    <3> QED BY <3>3, <3>4, <3>5, LeaderStepKeepsDInv
  <2> QED BY <1>1, <2>2, <2>3
<1>2. ASSUME storage' = storage, log' = log, outbox' = outbox, progress' = progress,
             \A m \in BagToSet(network') : Accepts(m) => m \in BagToSet(network)
      PROVE  DInv'
  <2>1. \A f \in Followers : Kept(f, progress'[f].match)
    BY <1>0, <1>2
  <2> QED BY <1>2, <2>1, LeaderStepKeepsDInv
<1>3. ASSUME NEW m \in BagToSet(network), StepDeposed(m, Without(m))
      PROVE  DInv'
  <2>1. /\ storage' = storage /\ log' = log /\ outbox' = outbox /\ progress' = progress
        /\ network' = Without(m)
    BY <1>3 DEF StepDeposed, leader, followers
  <2>2. BagToSet(network') \subseteq BagToSet(network)
    BY <2>1, WithoutFacts
  <2> QED BY <2>1, <2>2, <1>2
<1>4. ASSUME NEW m \in BagToSet(network), StepFollower(m, Without(m))
      PROVE  DInv'
  <2> DEFINE net == Without(m)
             f == m.to
  <2>1. BagToSet(net) \subseteq BagToSet(network) /\ MessageOK(m)
    BY WithoutFacts, Parts DEF NetworkOK, NetMessageOK
  <2>2. NetMessageOK(m, hardCommit)
    BY Parts DEF NetworkOK
  <2> HIDE DEF net
  <2>3. ASSUME NEW as, f \in Followers, HandledBy(f, log[f], as, net), \A k \in as : ~Accepts(k)
        PROVE  DInv'
    BY <2>1, <2>3, HandledByKeepsDInv
  <2>4. CASE m.type = "MsgApp" /\ StepApp(f, m, net)
    <3>1. AppOK(m) /\ f \in Followers
      BY <2>1, <2>4 DEF MessageOK, AppOK
    <3>2. AppFrom(m, Me)
      BY <3>1, AppsAreFromLeaders
    <3>3. HandledBy(f, LogAfter(f, m), {Answer(f, m)}, net)
      BY <2>4, <3>1, <3>2, LogAfterFacts DEF StepApp
    <3>4. \A n \in 0 .. LeaderLast :
            Present(storage[f], log[f], n) => Present(storage[f], LogAfter(f, m), n)
      BY <3>1, <3>2, LogAfterKeeps
    <3>5. \A k \in {Answer(f, m)} : Accepts(k) => Present(storage[f], LogAfter(f, m), k.index)
      BY <3>1, AnswerIsPresent
    <3> HIDE DEF f
    <3> QED BY <2>1, <3>1, <3>3, <3>4, <3>5, HandledByKeepsDInv
  <2>5. CASE m.type = "MsgHeartbeat" /\ StepHeartbeat(f, m, net)
    <3>1. f \in Followers /\ m.commit \in Nat /\ m.commit <= hardCommit[f]
      BY <2>1, <2>2, <2>5 DEF NetMessageOK, MessageOK
    <3>2. /\ FollowerOK(storage[f], hardCommit[f], log[f])
          /\ hardCommit[f] \in Nat /\ log[f].committed \in Nat /\ hardCommit[f] <= log[f].committed
      BY <3>1, Parts1, FollowerFacts
    <3>3. m.commit <= log[f].committed
      BY <3>1, <3>2
    <3>4. CommitTo(log[f], m.commit) = log[f] /\ ~CommitToPanics(storage[f], log[f], m.commit)
      BY <3>1, <3>2, <3>3, CommitToNothing
    <3>5. \/ HandledBy(f, log[f], {}, net)
          \/ HandledBy(f, log[f], {HeartbeatResp(f)}, net)
      BY <2>5, <3>4 DEF StepHeartbeat
    <3>6. CASE HandledBy(f, log[f], {}, net)
      BY <3>1, <3>6, <2>3
    <3>7. CASE HandledBy(f, log[f], {HeartbeatResp(f)}, net)
      <4>1. \A k \in {HeartbeatResp(f)} : ~Accepts(k)
        BY DEF Accepts, HeartbeatResp
      <4> QED BY <3>1, <3>7, <4>1, <2>3
    <3> QED BY <3>5, <3>6, <3>7
  <2>6. CASE m.type = "MsgSnap" /\ HandledBy(f, log[f], {}, net)
    <3>1. f \in Followers
      BY <2>1, <2>6 DEF MessageOK
    <3> QED BY <3>1, <2>6, <2>3
  <2> QED BY <1>4, <2>4, <2>5, <2>6 DEF StepFollower, net
<1>5. ASSUME NEW f \in Followers, ReceiveOldApp(f)
      PROVE  DInv'
  <2>1. PICK t \in OldTerms : \E m : AppFrom(m, t) /\ HandledBy(f, LogAfter(f, m), {}, network)
    BY <1>5, OldAppIsHandled
  <2>2. PICK m : AppFrom(m, t) /\ HandledBy(f, LogAfter(f, m), {}, network)
    BY <2>1
  <2>3. \A i \in 1 .. Len(LeaderLog[t]) : i <= LeaderLast => LeaderLog[t][i] = LeaderLog[Me][i]
    BY DEF OldLeadersAgree
  <2>4. \A n \in 0 .. LeaderLast :
          Present(storage[f], log[f], n) => Present(storage[f], LogAfter(f, m), n)
    BY <2>2, <2>3, LogAfterKeeps
  <2>5. \A k \in {} : Accepts(k) => Present(storage[f], LogAfter(f, m), k.index)
    OBVIOUS
  <2> QED BY <2>2, <2>4, <2>5, HandledByKeepsDInv
<1>6. ASSUME NEW f \in Followers, SaveAndSend(f) \/ Restart(f) \/ ReceiveOldApp(f)
      PROVE  DInv'
  BY <1>5, <1>6, SaveAndSendKeepsDInv, RestartKeepsDInv
<1>7. CASE Repeat \/ Lose
  <2>1. BagToSet(network') \subseteq BagToSet(network)
    BY <1>7, RepeatKeeps, LoseKeeps
  <2>2. storage' = storage /\ log' = log /\ outbox' = outbox /\ progress' = progress
    BY <1>7 DEF Repeat, Lose, leader, followers
  <2> QED BY <2>1, <2>2, <1>2
<1>8. CASE Beat
  <2>1. storage' = storage /\ log' = log /\ outbox' = outbox /\ progress' = progress
    BY <1>8 DEF Beat, leader, followers
  <2> QED BY <1>8, <2>1, <1>2, BeatKeeps
<1>9. CASE CompactLeader
  <2>1. UNCHANGED <<leading, progress, followers, network, faults, panicked>>
    BY <1>9, CompactLeaderKeeps
  <2> QED BY <2>1, <1>2 DEF followers
<1>10. CASE CheckQuorum
  <2>1. /\ storage' = storage /\ log' = log /\ outbox' = outbox /\ network' = network
        /\ \A f \in Followers : progress'[f].match = 0
    BY <1>10, CheckQuorumKeeps DEF CheckQuorum, followers
  <2>2. ASSUME NEW f \in Followers
        PROVE  Kept(f, 0)
    <3>1. MSLastIndex(storage[f]) \in Nat /\ LastIndex(storage[f], log[f]) \in Nat
      BY Parts1, FollowerFacts
    <3> QED BY <3>1 DEF Kept, Durable, Present, Same
  <2> QED BY <2>1, <2>2, LeaderStepKeepsDInv
<1>11. CASE UNCHANGED vars
  BY <1>11, <1>2 DEF vars, leader, followers
<1> QED BY <1>1, <1>3, <1>4, <1>6, <1>7, <1>8, <1>9, <1>10, <1>11, NextCases
-----------------------------------------------------------------------------
(* The theorems. *)

\* IInv holds in every reachable state.
THEOREM Invariance == Spec => []IInv
<1>1. Init => IInv
  BY InitIInv
<1>2. IInv /\ [Next]_vars => IInv'
  BY StepIInv
<1> QED BY <1>1, <1>2, PTL DEF Spec

\* What the invariant says of the types.
LEMMA IInvTypes == IInv => TypeOK
<1> SUFFICES ASSUME IInv PROVE TypeOK
  OBVIOUS
<1>1. ASSUME NEW f \in Followers
      PROVE  /\ progress[f].match \in Nat /\ progress[f].next \in 1 .. LeaderLast + 1
             /\ progress[f].state \in States \cup {"Probe"}
             /\ progress[f].pendingSnapshot \in Nat
             /\ {progress[f].recentActive, progress[f].probeSent} \subseteq BOOLEAN
             /\ progress[f].inflights \in Seq(1 .. LeaderLast)
             /\ Len(progress[f].inflights) <= MaxInflight
  BY Parts1, ProgressFacts, MeFacts
<1>2. hardCommit \in [Followers -> Nat] /\ IsABag(network) /\ \A f \in Followers : IsABag(outbox[f])
  BY Parts DEF FollowersOK, NetworkOK, OutboxOK
<1>3. lost \in 0 .. MaxLost /\ repeated \in 0 .. MaxRepeated /\ restarts \in 0 .. MaxRestarts
  BY Parts DEF FaultsOK
<1>4. leading \in BOOLEAN /\ panicked \in BOOLEAN
  BY Parts
<1> QED BY <1>1, <1>2, <1>3, <1>4 DEF TypeOK

\* The types of everything the cluster keeps.
THEOREM TypesHold == Spec => []TypeOK
BY Invariance, IInvTypes, PTL

\* No order of messages, losses, repetitions, crashes and compactions panics:
\* the panics of raftLog, of the storage, of loadState after a crash, of the
\* leader's window and of its snapshots.
THEOREM NoPanicHolds == Spec => []NoPanic
<1>1. IInv => NoPanic
  BY DEF IInv, NoPanic
<1> QED BY <1>1, Invariance, PTL

\* The invariant on what a follower commits.
LEMMA IInvCommitted == IInv => CommittedIsLeaders
<1> SUFFICES ASSUME IInv, NEW f \in Followers
             PROVE  /\ log[f].committed <= LastIndex(storage[f], log[f])
                    /\ \A i \in 1 .. log[f].committed :
                         Term(storage[f], log[f], i) = LeaderLog[Me][i]
  BY DEF CommittedIsLeaders
<1> DEFINE s == storage[f]
           l == log[f]
<1>1. /\ StorageOK(s, hardCommit[f]) /\ RaftLogOK(s, l) /\ s.index = 0
      /\ l.committed \in Nat /\ LastIndex(s, l) \in Nat /\ l.committed <= LastIndex(s, l)
      /\ \A i \in 1 .. l.committed : Over(s, l.offset, l.unstable)[i] = LeaderLog[Me][i]
  BY Parts1, FollowerFacts
<1> HIDE DEF s, l
<1>2. ASSUME NEW i \in 1 .. l.committed
      PROVE  Term(s, l, i) = LeaderLog[Me][i]
  <2>1. i \in Nat /\ ~(i = 0 \/ i < s.index \/ i > LastIndex(s, l))
    BY <1>1
  <2>2. Term(s, l, i) = Over(s, l.offset, l.unstable)[i]
    BY <1>1, <2>1, TermFacts
  <2> QED BY <1>1, <2>2
<1> QED BY <1>1, <1>2 DEF s, l

\* What a follower takes for committed is in its log and is the leader's.
THEOREM CommittedIsLeadersHolds == Spec => []CommittedIsLeaders
BY Invariance, IInvCommitted, PTL

\* A follower's storage begins at index 0, so its entries are the log's.
LEMMA DInvDurable == ASSUME IInv, DInv PROVE MatchIsDurable
<1>1. ASSUME NEW f \in Followers, NEW n \in 0 .. LeaderLast, Kept(f, n)
      PROVE  HoldsDurably(f, n)
  <2> DEFINE s == storage[f]
  <2>1. s.index = 0 /\ Durable(s, n)
    BY <1>1, Parts1, FollowerFacts DEF Kept
  <2> HIDE DEF s
  <2>2. ASSUME NEW i \in 1 .. n
        PROVE  s.ents[i + 1] = LeaderLog[Me][i]
    <3>1. i - 0 + 1 = i + 1
      OBVIOUS
    <3> QED BY <2>1, <3>1 DEF Durable, SAt
  <2> QED BY <2>1, <2>2 DEF HoldsDurably, Durable, s
<1>2. ASSUME NEW f \in Followers
      PROVE  HoldsDurably(f, progress[f].match)
  <2>1. PICK n \in 0 .. LeaderLast : n = progress[f].match
    BY Parts1
  <2>2. HoldsDurably(f, n)
    BY <1>1, <2>1 DEF DInv
  <2> QED BY <2>1, <2>2
<1>3. ASSUME NEW m \in BagToSet(network), m.type = "MsgAppResp", ~m.reject
      PROVE  HoldsDurably(m.from, m.index)
  <2>1. Accepts(m)
    BY <1>3 DEF Accepts
  <2>2. m.from \in Followers /\ m.index \in 0 .. LeaderLast
    BY <2>1, Parts, AcceptedIndex DEF NetworkOK, NetMessageOK
  <2> QED BY <1>1, <2>1, <2>2 DEF DInv
<1> QED BY <1>2, <1>3 DEF MatchIsDurable

\* Match, and every acknowledgement under way, is of entries a crash leaves the
\* follower, when no deposed leader contradicts this one.
THEOREM MatchIsDurableHolds == ASSUME OldLeadersAgree PROVE Spec => []MatchIsDurable
<1>1. Init => IInv /\ DInv
  BY InitIInv, InitDInv
<1>2. IInv /\ DInv /\ [Next]_vars => (IInv /\ DInv)'
  BY StepIInv, StepDInv
<1>3. IInv /\ DInv => MatchIsDurable
  BY DInvDurable
<1> QED BY <1>1, <1>2, <1>3, PTL DEF Spec

\* What is present is what term() finds.
LEMMA DInvReplicated == ASSUME IInv, DInv PROVE MatchIsReplicated
<1> SUFFICES ASSUME NEW f \in Followers
             PROVE  /\ progress[f].match <= LastIndex(storage[f], log[f])
                    /\ progress[f].match <= LeaderLast
                    /\ \A i \in 1 .. progress[f].match :
                         Term(storage[f], log[f], i) = LeaderLog[Me][i]
  BY DEF MatchIsReplicated
<1> DEFINE s == storage[f]
           l == log[f]
<1>1. PICK n \in 0 .. LeaderLast : n = progress[f].match
  BY Parts1
<1>2. Present(s, l, n)
  BY <1>1 DEF DInv, Kept
<1>3. /\ StorageOK(s, hardCommit[f]) /\ RaftLogOK(s, l) /\ s.index = 0
      /\ LastIndex(s, l) \in Nat
  BY Parts1, FollowerFacts
<1> HIDE DEF s, l
<1>4. ASSUME NEW i \in 1 .. n
      PROVE  Term(s, l, i) = LeaderLog[Me][i]
  <2>1. /\ i \in Nat /\ n <= LastIndex(s, l) /\ ~(i = 0 \/ i < s.index \/ i > LastIndex(s, l))
    BY <1>2, <1>3 DEF Present
  <2>2. Term(s, l, i) = Over(s, l.offset, l.unstable)[i]
    BY <1>3, <2>1, TermFacts
  <2> QED BY <1>2, <2>2 DEF Present, Same
<1> QED BY <1>1, <1>2, <1>4, MeFacts DEF Present, s, l

\* Match is what progress.go says of it, under the same hypothesis.
THEOREM MatchIsReplicatedHolds == ASSUME OldLeadersAgree PROVE Spec => []MatchIsReplicated
<1>1. Init => IInv /\ DInv
  BY InitIInv, InitDInv
<1>2. IInv /\ DInv /\ [Next]_vars => (IInv /\ DInv)'
  BY StepIInv, StepDInv
<1>3. IInv /\ DInv => MatchIsReplicated
  BY DInvReplicated
<1> QED BY <1>1, <1>2, <1>3, PTL DEF Spec
=============================================================================
