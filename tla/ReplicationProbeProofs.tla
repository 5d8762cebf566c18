----------------------- MODULE ReplicationProbeProofs -----------------------
(***************************************************************************)
(* StateProbe: one probe at a time, and Next behind Match.                 *)
(*                                                                         *)
(* A probe is a token that leader and follower pass to each other: the     *)
(* MsgApp with entries, then the answer to it, acceptance or rejection.    *)
(* There is never more than one of it, in the network and in r.msgs of the *)
(* follower together (TInv): a second one is sent only when ProbeSent says *)
(* there is none, or in answer to the one that has just come back.         *)
(*                                                                         *)
(* Next is taken back by rejections only.  Match cannot rise while one is  *)
(* under way, so what a rejection says of the follower is still true when  *)
(* the leader hears it (RInv).                                             *)
(***************************************************************************)
EXTENDS ReplicationProofs

\* The probe of f or the answer to it; `match` is Match.
Token(f, match, m) ==
  \/ m.type = "MsgApp" /\ m.to = f /\ m.ents # <<>>
  \/ /\ m.type = "MsgAppResp" /\ m.from = f
     /\ IF m.reject THEN m.index < LeaderLast ELSE match < m.index

\* A message without entries, which tells f nothing but the commit index, and is
\* sent when f has everything; and its rejection.
AtTheEnd(f, m) ==
  \/ m.type = "MsgApp" /\ m.to = f /\ m.ents = <<>>
  \/ m.type = "MsgAppResp" /\ m.from = f /\ m.reject /\ ~(m.index < LeaderLast)

\* The network n and the outbox o of f together.
Within(n, o) == BagToSet(n) \cup BagToSet(o)
Count(n, o, m) == Copies(m, n) + Copies(m, o)

NoToken(f, match, n, o) == \A m \in Within(n, o) : ~Token(f, match, m)
OneToken(f, match, n, o) ==
  \A m \in Within(n, o) : Token(f, match, m) =>
    /\ Count(n, o, m) = 1
    /\ \A k \in Within(n, o) : Token(f, match, k) => k = m

TokenOK(f, pr, n, o) ==
  /\ OneToken(f, pr.match, n, o)
  /\ ~HeartbeatsHandled /\ ~pr.probeSent => NoToken(f, pr.match, n, o)
  /\ pr.next = LeaderLast + 1 => pr.match = LeaderLast /\ NoToken(f, pr.match, n, o)
  /\ \A m \in Within(n, o) : AtTheEnd(f, m) => pr.match = LeaderLast /\ m.index = LeaderLast

Probing(f) == leading /\ progress[f].state = "Probe" /\ OneProbeAtATime(f)

\* Who answers no heartbeat clears no ProbeSent.
NoHeartbeatResp ==
  ~HeartbeatsHandled =>
    \A f \in Followers : \A m \in Within(network, outbox[f]) : m.type # "MsgHeartbeatResp"
TInv ==
  /\ NoHeartbeatResp
  /\ \A f \in Followers : Probing(f) => TokenOK(f, progress[f], network, outbox[f])

\* What a rejection tells is still so.
RejectionsOK(f, pr, n, o) ==
  /\ pr.match < pr.next
  /\ \A m \in Within(n, o) :
       m.type = "MsgAppResp" /\ m.from = f /\ m.reject => pr.match < m.index /\ pr.match <= m.hint
RInv ==
  /\ \A f \in Followers : Probing(f) => RejectionsOK(f, progress[f], network, outbox[f])
  /\ ~leading => \A f \in Followers : progress[f].match < progress[f].next
-----------------------------------------------------------------------------
(* Counting. *)

\* How many of a message there are.
LEMMA CopiesFacts ==
  ASSUME NEW A, IsABag(A), NEW e
  PROVE  /\ Copies(e, A) \in Nat
         /\ Copies(e, A) > 0 <=> e \in BagToSet(A)
         /\ e \in BagToSet(A) => Copies(e, A) = A[e]
         /\ Copies(e, EmptyBag) = 0
BY DEF Copies, IsABag, BagToSet, EmptyBag, SetToBag

\* How many there are in a sum.
LEMMA CopiesInSum ==
  ASSUME NEW A, NEW B, IsABag(A), IsABag(B), NEW e
  PROVE  Copies(e, A (+) B) = Copies(e, A) + Copies(e, B)
<1>1. DOMAIN (A (+) B) = (DOMAIN A) \cup (DOMAIN B)
  BY DEF (+)
<1>2. CASE e \in (DOMAIN A) \cup (DOMAIN B)
  <2>1. (A (+) B)[e] = (IF e \in DOMAIN A THEN A[e] ELSE 0)
                        + (IF e \in DOMAIN B THEN B[e] ELSE 0)
    BY <1>2 DEF (+)
  <2> QED BY <1>1, <1>2, <2>1 DEF Copies, BagToSet
<1>3. CASE e \notin (DOMAIN A) \cup (DOMAIN B)
  BY <1>1, <1>3 DEF Copies, BagToSet
<1> QED BY <1>2, <1>3

\* How many there are in a bag made of a set.
LEMMA CopiesInSet ==
  ASSUME NEW S, NEW e
  PROVE  Copies(e, SetToBag(S)) = IF e \in S THEN 1 ELSE 0
BY DEF Copies, BagToSet, SetToBag

\* Taking one out.
LEMMA CopiesWithout ==
  ASSUME NEW A, IsABag(A), NEW x, NEW e
  PROVE  Copies(e, A (-) SetToBag({x})) =
           IF e = x /\ e \in BagToSet(A) THEN Copies(e, A) - 1 ELSE Copies(e, A)
<1> DEFINE B == [d \in DOMAIN A |-> IF d \in {x} THEN A[d] - 1 ELSE A[d]]
           D == {d \in DOMAIN B : B[d] > 0}
<1>1. A (-) SetToBag({x}) = [d \in D |-> B[d]]
  BY DEF (-), SetToBag
<1>2. CASE e \in DOMAIN A
  <2>1. A[e] \in Nat /\ A[e] > 0
    BY <1>2 DEF IsABag
  <2>2. B[e] = IF e = x THEN A[e] - 1 ELSE A[e]
    BY <1>2
  <2>3. e \in D <=> B[e] > 0
    BY <1>2
  <2>4. Copies(e, A) = A[e]
    BY <1>2 DEF Copies, BagToSet
  <2>5. Copies(e, [d \in D |-> B[d]]) = IF e \in D THEN B[e] ELSE 0
    BY DEF Copies, BagToSet
  <2> HIDE DEF B, D
  <2> QED BY <1>1, <1>2, <2>1, <2>2, <2>3, <2>4, <2>5 DEF BagToSet
<1>3. CASE e \notin DOMAIN A
  <2>1. e \notin D
    BY <1>3
  <2> HIDE DEF B, D
  <2>2. Copies(e, [d \in D |-> B[d]]) = 0
    BY <2>1 DEF Copies, BagToSet
  <2> QED BY <1>1, <1>3, <2>2 DEF Copies, BagToSet
<1> QED BY <1>2, <1>3

\* Who is counted is there.
LEMMA CountFacts ==
  ASSUME NEW n, NEW o, IsABag(n), IsABag(o), NEW m
  PROVE  Count(n, o, m) \in Nat /\ (m \in Within(n, o) <=> Count(n, o, m) > 0)
<1>1. /\ Copies(m, n) \in Nat /\ Copies(m, o) \in Nat
      /\ Copies(m, n) > 0 <=> m \in BagToSet(n)
      /\ Copies(m, o) > 0 <=> m \in BagToSet(o)
  BY CopiesFacts
<1> QED BY <1>1 DEF Count, Within
-----------------------------------------------------------------------------
(* What becomes of the token. *)

\* Where there are no more messages, there are no more tokens.
LEMMA FewerTokens ==
  ASSUME NEW n, NEW o, NEW n2, NEW o2, IsABag(n), IsABag(o), IsABag(n2), IsABag(o2),
         NEW f, NEW a, NEW b,
         \A k \in Within(n2, o2) : Token(f, b, k) =>
           Token(f, a, k) /\ Count(n2, o2, k) <= Count(n, o, k)
  PROVE  /\ OneToken(f, a, n, o) => OneToken(f, b, n2, o2)
         /\ NoToken(f, a, n, o) => NoToken(f, b, n2, o2)
<1>1. ASSUME NEW k \in Within(n2, o2), Token(f, b, k)
      PROVE  /\ k \in Within(n, o) /\ Token(f, a, k)
             /\ Count(n2, o2, k) \in Nat /\ Count(n2, o2, k) > 0
             /\ Count(n, o, k) \in Nat /\ Count(n2, o2, k) <= Count(n, o, k)
  BY <1>1, CountFacts
<1>2. ASSUME OneToken(f, a, n, o), NEW m \in Within(n2, o2), Token(f, b, m)
      PROVE  /\ Count(n2, o2, m) = 1
             /\ \A k \in Within(n2, o2) : Token(f, b, k) => k = m
  <2>1. /\ m \in Within(n, o) /\ Token(f, a, m) /\ Count(n, o, m) = 1
        /\ \A k \in Within(n, o) : Token(f, a, k) => k = m
    BY <1>1, <1>2 DEF OneToken
  <2>2. Count(n2, o2, m) = 1
    BY <1>1, <1>2, <2>1
  <2> QED BY <1>1, <2>1, <2>2
<1> QED BY <1>1, <1>2 DEF OneToken, NoToken

\* Once the token has been taken there is none.
LEMMA TokenTaken ==
  ASSUME NEW n, NEW o, NEW n2, NEW o2, IsABag(n), IsABag(o), IsABag(n2), IsABag(o2),
         NEW f, NEW a, NEW b, OneToken(f, a, n, o), NEW x \in Within(n, o), Token(f, a, x),
         \A k \in Within(n2, o2) : Token(f, b, k) =>
           Token(f, a, k) /\ Count(n2, o2, k) <= Count(n, o, k),
         Count(n2, o2, x) < Count(n, o, x)
  PROVE  NoToken(f, b, n2, o2)
<1> SUFFICES ASSUME NEW k \in Within(n2, o2), Token(f, b, k) PROVE FALSE
  BY DEF NoToken
<1>1. /\ Count(n2, o2, k) \in Nat /\ Count(n2, o2, k) > 0 /\ Count(n, o, k) \in Nat
      /\ Count(n2, o2, k) <= Count(n, o, k) /\ Token(f, a, k)
  BY CountFacts
<1>2. k \in Within(n, o)
  BY <1>1, CountFacts
<1>3. k = x /\ Count(n, o, x) = 1
  BY <1>1, <1>2 DEF OneToken
<1> QED BY <1>1, <1>3

\* Where there was none there may be one.
LEMMA TokenGiven ==
  ASSUME NEW n, NEW o, NEW n2, NEW o2, IsABag(n), IsABag(o), IsABag(n2), IsABag(o2),
         NEW f, NEW a, NEW b, NoToken(f, a, n, o), NEW x,
         \A k \in Within(n2, o2) : Token(f, b, k) =>
           /\ Token(f, a, k)
           /\ k = x => Count(n2, o2, k) <= Count(n, o, k) + 1
           /\ k # x => Count(n2, o2, k) <= Count(n, o, k)
  PROVE  OneToken(f, b, n2, o2)
<1>1. ASSUME NEW k \in Within(n2, o2), Token(f, b, k)
      PROVE  k = x /\ Count(n2, o2, k) = 1
  <2>1. /\ Count(n2, o2, k) \in Nat /\ Count(n2, o2, k) > 0 /\ Count(n, o, k) \in Nat
        /\ k = x => Count(n2, o2, k) <= Count(n, o, k) + 1
        /\ k # x => Count(n2, o2, k) <= Count(n, o, k)
        /\ Token(f, a, k)
    BY <1>1, CountFacts
  <2>2. k \notin Within(n, o)
    BY <2>1 DEF NoToken
  <2>3. Count(n, o, k) = 0
    BY <2>1, <2>2, CountFacts
  <2> QED BY <2>1, <2>3
<1> QED BY <1>1 DEF OneToken
-----------------------------------------------------------------------------
(* The leader sends. *)

\* In StateProbe: nothing while ProbeSent is set, and otherwise a message with
\* entries, which sets it, or one that is no probe.
LEMMA SendToken ==
  ASSUME NEW s, LeaderOK(s), NEW pr, GoodProgress(pr), pr.state = "Probe",
         NEW f \in Followers, NEW r, r = SendAppend(s, pr, f)
  PROVE  /\ r.progress.match = pr.match /\ r.progress.next = pr.next
         /\ r.progress.state = "Probe"
         /\ pr.probeSent => r.messages = {}
         /\ \/ /\ r.progress.probeSent = pr.probeSent
               /\ \A m \in r.messages :
                    \/ m.type = "MsgSnap"
                    \/ /\ m.type = "MsgApp" /\ m.ents = <<>> /\ m.index = LeaderLast
                       /\ pr.next = LeaderLast + 1
            \/ /\ r.progress.probeSent /\ pr.next # LeaderLast + 1
               /\ \E m : r.messages = {m} /\ m.type = "MsgApp" /\ m.ents # <<>>
<1> DEFINE a == AppendMessage(s, pr, f)
<1>1. pr \in ProgressRecords /\ pr.next \in Nat /\ LeaderLast \in Nat
  BY ProgressFacts, MeFacts DEF GoodProgress
<1>2. IsPaused(pr) <=> pr.probeSent
  BY DEF IsPaused
<1>3. CASE IsPaused(pr)
  <2>1. r.progress = pr /\ r.messages = {}
    BY <1>3 DEF SendAppend
  <2> QED BY <2>1
<1>4. CASE ~IsPaused(pr) /\ EntriesCompacted(s, pr.next) /\ ~pr.recentActive
  <2>1. r.progress = pr /\ r.messages = {}
    BY <1>4 DEF SendAppend
  <2> QED BY <2>1
<1>5. CASE ~IsPaused(pr) /\ EntriesCompacted(s, pr.next) /\ pr.recentActive
  <2>1. /\ r.progress = [pr EXCEPT !.probeSent = FALSE, !.pendingSnapshot = s.snap.index]
        /\ r.messages = {[type |-> "MsgSnap", to |-> f, index |-> s.snap.index]}
    BY <1>5 DEF SendAppend, BecomeSnapshot
  <2>2. /\ r.progress.match = pr.match /\ r.progress.next = pr.next
        /\ r.progress.state = "Probe" /\ r.progress.probeSent = FALSE
    BY <1>1, <2>1 DEF ProgressRecords
  <2>3. pr.probeSent = FALSE
    BY <1>1, <1>2, <1>5 DEF ProgressRecords
  <2>4. \A m \in r.messages : m.type = "MsgSnap"
    BY <2>1
  <2> QED BY <2>2, <2>3, <2>4
<1>6. CASE ~IsPaused(pr) /\ ~EntriesCompacted(s, pr.next)
  <2>1. /\ r.progress = IF a.ents = <<>> THEN pr ELSE ProgressAfter(pr, a.index + Len(a.ents))
        /\ r.messages = {a}
    BY <1>6 DEF SendAppend
  <2>2. /\ a.type = "MsgApp" /\ a.index = pr.next - 1
        /\ a.ents = <<>> <=> pr.next = LeaderLast + 1
    BY <1>6, AppendMessageFacts
  <2> HIDE DEF a
  <2>3. CASE a.ents = <<>>
    <3>1. a.index = LeaderLast
      BY <1>1, <2>2, <2>3
    <3> QED BY <1>2, <1>6, <2>1, <2>2, <2>3, <3>1
  <2>4. CASE a.ents # <<>>
    <3>1. r.progress = [pr EXCEPT !.probeSent = TRUE]
      BY <2>1, <2>4 DEF ProgressAfter
    <3>2. /\ r.progress.match = pr.match /\ r.progress.next = pr.next
          /\ r.progress.state = "Probe" /\ r.progress.probeSent
      BY <1>1, <3>1 DEF ProgressRecords
    <3>3. \E m : r.messages = {m} /\ m.type = "MsgApp" /\ m.ents # <<>>
      BY <2>1, <2>2, <2>4
    <3> QED BY <1>2, <1>6, <2>2, <2>4, <3>2, <3>3
  <2> QED BY <2>3, <2>4
<1> QED BY <1>3, <1>4, <1>5, <1>6

\* What the network is once there has been sent.
LEMMA SentFacts ==
  ASSUME IInv, NEW prs \in [Followers -> ProgressRecords],
         \A g \in Followers : ProgressAt(prs[g], hardCommit[g]),
         NEW fs \in SUBSET Followers, NEW net, IsABag(net),
         SendAppends(prs, fs, net), NEW f \in Followers
  PROVE  /\ outbox'[f] = outbox[f] /\ IsABag(network')
         /\ progress'[f] = IF f \in fs THEN SendAppend(leaderStorage, prs[f], f).progress ELSE prs[f]
         /\ \E sent : /\ network' = net (+) SetToBag(sent)
                      /\ \A m \in sent :
                           /\ m.type \in {"MsgApp", "MsgSnap"}
                           /\ m.to = f => f \in fs /\ m \in SendAppend(leaderStorage, prs[f], f).messages
                      /\ f \in fs => SendAppend(leaderStorage, prs[f], f).messages \subseteq sent
<1> DEFINE s == leaderStorage
           sent == UNION {SendAppend(s, prs[g], g).messages : g \in fs}
<1>1. ASSUME NEW g \in Followers
      PROVE  /\ ~SendAppendPanics(s, prs[g], g)
             /\ \A m \in SendAppend(s, prs[g], g).messages :
                  m.type \in {"MsgApp", "MsgSnap"} /\ m.to = g
  <2>1. GoodProgress(prs[g]) /\ LeaderOK(s)
    BY Parts DEF ProgressAt
  <2> QED BY <2>1, SendAppendFacts
<1>2. /\ progress' = [g \in Followers |->
           IF g \in fs THEN SendAppend(s, prs[g], g).progress ELSE prs[g]]
      /\ network' = net (+) SetToBag(sent) /\ outbox' = outbox
  <2>1. ~(\E g \in fs : SendAppendPanics(s, prs[g], g))
    BY <1>1
  <2> QED BY <2>1 DEF SendAppends, followers
<1>3. ASSUME NEW m \in sent
      PROVE  /\ m.type \in {"MsgApp", "MsgSnap"}
             /\ m.to = f => f \in fs /\ m \in SendAppend(s, prs[f], f).messages
  <2>1. PICK g \in fs : m \in SendAppend(s, prs[g], g).messages
    OBVIOUS
  <2> QED BY <2>1, <1>1
<1>4. f \in fs => SendAppend(s, prs[f], f).messages \subseteq sent
  OBVIOUS
<1>5. progress'[f] = IF f \in fs THEN SendAppend(s, prs[f], f).progress ELSE prs[f]
  BY <1>2
<1> HIDE DEF sent
<1>6. IsABag(network')
  BY <1>2, SetToBagFacts, BagSumFacts
<1> QED BY <1>2, <1>3, <1>4, <1>5, <1>6

\* sendAppend gives f a token only where there is none.
LEMMA SendKeepsToken ==
  ASSUME IInv, NEW prs \in [Followers -> ProgressRecords],
         \A g \in Followers : ProgressAt(prs[g], hardCommit[g]),
         NEW fs \in SUBSET Followers, NEW net, IsABag(net),
         SendAppends(prs, fs, net), NEW f \in Followers, prs[f].state = "Probe",
         TokenOK(f, prs[f], net, outbox[f]),
         f \in fs /\ ~prs[f].probeSent => NoToken(f, prs[f].match, net, outbox[f])
  PROVE  /\ TokenOK(f, progress'[f], network', outbox'[f])
         /\ progress'[f].match = prs[f].match /\ progress'[f].next = prs[f].next
         /\ \A m \in Within(network', outbox'[f]) :
              m.type = "MsgAppResp" => m \in Within(net, outbox[f])
         /\ \A m \in Within(network', outbox'[f]) :
              m.type \in {"MsgApp", "MsgSnap"} \/ m \in Within(net, outbox[f])
<1> DEFINE pr == prs[f]
           o == outbox[f]
           r == SendAppend(leaderStorage, pr, f)
<1>1. GoodProgress(pr) /\ LeaderOK(leaderStorage) /\ IsABag(o) /\ LeaderLast \in Nat
  BY Parts, Parts1, MeFacts DEF ProgressAt
<1>2. /\ r.progress.match = pr.match /\ r.progress.next = pr.next
      /\ pr.probeSent => r.messages = {}
      /\ \/ /\ r.progress.probeSent = pr.probeSent
            /\ \A m \in r.messages :
                 \/ m.type = "MsgSnap"
                 \/ /\ m.type = "MsgApp" /\ m.ents = <<>> /\ m.index = LeaderLast
                    /\ pr.next = LeaderLast + 1
         \/ /\ r.progress.probeSent /\ pr.next # LeaderLast + 1
            /\ \E m : r.messages = {m} /\ m.type = "MsgApp" /\ m.ents # <<>>
  BY <1>1, SendToken
<1>3. /\ outbox'[f] = o /\ IsABag(network')
      /\ progress'[f] = IF f \in fs THEN r.progress ELSE pr
  BY SentFacts
<1>4. PICK sent : /\ network' = net (+) SetToBag(sent)
                  /\ \A m \in sent : /\ m.type \in {"MsgApp", "MsgSnap"}
                                     /\ m.to = f => f \in fs /\ m \in r.messages
  BY SentFacts
<1> HIDE DEF r, pr
<1>5. /\ progress'[f].match = pr.match /\ progress'[f].next = pr.next
  BY <1>2, <1>3
<1>6. ASSUME NEW k
      PROVE  /\ k \in Within(network', o) => k \in Within(net, o) \/ k \in sent
             /\ Count(network', o, k) = Count(net, o, k) + (IF k \in sent THEN 1 ELSE 0)
             /\ Count(net, o, k) \in Nat
  <2>1. IsABag(SetToBag(sent)) /\ BagToSet(SetToBag(sent)) = sent
    BY SetToBagFacts
  <2>2. BagToSet(network') = BagToSet(net) \cup sent
    BY <1>4, <2>1, BagSumFacts
  <2>3. Copies(k, network') = Copies(k, net) + (IF k \in sent THEN 1 ELSE 0)
    BY <1>4, <2>1, CopiesInSum, CopiesInSet
  <2>4. Copies(k, net) \in Nat /\ Copies(k, o) \in Nat
    BY <1>1, CopiesFacts
  <2> QED BY <2>2, <2>3, <2>4 DEF Within, Count
<1>7. ASSUME NEW k \in sent, Token(f, pr.match, k) \/ AtTheEnd(f, k)
      PROVE  f \in fs /\ k \in r.messages /\ k.type = "MsgApp"
  BY <1>4, <1>7 DEF Token, AtTheEnd
<1>8. CASE ~(f \in fs /\ \E m : r.messages = {m} /\ m.type = "MsgApp" /\ m.ents # <<>>)
  <2>1. /\ f \in fs => r.progress.probeSent = pr.probeSent
        /\ \A m \in r.messages :
             f \in fs => \/ m.type = "MsgSnap"
                         \/ /\ m.type = "MsgApp" /\ m.ents = <<>> /\ m.index = LeaderLast
                            /\ pr.next = LeaderLast + 1
    BY <1>2, <1>8
  <2>2. \A k \in Within(network', o) : Token(f, pr.match, k) =>
          Count(network', o, k) <= Count(net, o, k)
    <3> SUFFICES ASSUME NEW k \in Within(network', o), Token(f, pr.match, k)
                 PROVE  k \notin sent
      BY <1>6
    <3> QED BY <1>7, <2>1 DEF Token
  <2>3. /\ OneToken(f, pr.match, network', o)
        /\ NoToken(f, pr.match, net, o) => NoToken(f, pr.match, network', o)
    BY <1>1, <1>3, <2>2, FewerTokens DEF TokenOK, pr
  <2>4. (~progress'[f].probeSent) => ~pr.probeSent
    BY <1>3, <2>1
  <2>5. ASSUME NEW m \in Within(network', o), AtTheEnd(f, m)
        PROVE  pr.match = LeaderLast /\ m.index = LeaderLast
    <3>1. CASE m \in Within(net, o)
      BY <2>5, <3>1 DEF TokenOK, pr
    <3>2. CASE m \in sent
      <4>1. m.index = LeaderLast /\ pr.next = LeaderLast + 1
        BY <1>7, <2>1, <2>5, <3>2
      <4> QED BY <4>1 DEF TokenOK, pr
    <3> QED BY <1>6, <3>1, <3>2
  <2>6. /\ ~HeartbeatsHandled /\ ~pr.probeSent => NoToken(f, pr.match, net, o)
        /\ pr.next = LeaderLast + 1 => pr.match = LeaderLast /\ NoToken(f, pr.match, net, o)
    BY DEF TokenOK, pr
  <2>7. TokenOK(f, progress'[f], network', o)
    BY <1>5, <2>3, <2>4, <2>5, <2>6 DEF TokenOK
  <2> QED BY <1>3, <1>4, <1>5, <1>6, <2>7 DEF pr
<1>9. CASE f \in fs /\ \E m : r.messages = {m} /\ m.type = "MsgApp" /\ m.ents # <<>>
  <2>1. PICK x : r.messages = {x} /\ x.type = "MsgApp" /\ x.ents # <<>>
    BY <1>9
  <2>2. r.progress.probeSent /\ pr.next # LeaderLast + 1 /\ ~pr.probeSent
    BY <1>2, <2>1
  <2>3. NoToken(f, pr.match, net, o)
    BY <1>9, <2>2 DEF pr
  <2>4. \A k \in Within(network', o) : Token(f, pr.match, k) =>
          /\ k = x => Count(network', o, k) <= Count(net, o, k) + 1
          /\ k # x => Count(network', o, k) <= Count(net, o, k)
    <3> SUFFICES ASSUME NEW k \in Within(network', o), Token(f, pr.match, k)
                 PROVE  k \in sent => k = x
      BY <1>6
    <3> QED BY <1>7, <2>1
  <2>5. OneToken(f, pr.match, network', o)
    BY <1>1, <1>3, <2>3, <2>4, TokenGiven
  <2>6. ASSUME NEW m \in Within(network', o), AtTheEnd(f, m)
        PROVE  pr.match = LeaderLast /\ m.index = LeaderLast
    <3>1. CASE m \in Within(net, o)
      BY <2>6, <3>1 DEF TokenOK, pr
    <3>2. CASE m \in sent
      BY <1>7, <2>1, <2>6, <3>2 DEF AtTheEnd
    <3> QED BY <1>6, <3>1, <3>2
  <2>7. progress'[f].probeSent /\ progress'[f].next # LeaderLast + 1
    BY <1>3, <1>5, <1>9, <2>2
  <2>8. TokenOK(f, progress'[f], network', o)
    BY <1>5, <2>5, <2>6, <2>7 DEF TokenOK
  <2> QED BY <1>3, <1>4, <1>5, <1>6, <2>8 DEF pr
<1> QED BY <1>8, <1>9
-----------------------------------------------------------------------------
(* The other steps. *)

\* Where nothing is added, nor ProbeSent forgotten, all is as it was.
LEMMA TokensStay ==
  ASSUME NEW n, NEW o, NEW n2, NEW o2, IsABag(n), IsABag(o), IsABag(n2), IsABag(o2),
         NEW f, NEW pr, NEW pr2, TokenOK(f, pr, n, o), pr2.match = pr.match, pr2.next = pr.next,
         ~HeartbeatsHandled /\ ~pr2.probeSent => ~pr.probeSent,
         \A k \in Within(n2, o2) : Token(f, pr.match, k) => Count(n2, o2, k) <= Count(n, o, k),
         \A k \in Within(n2, o2) : AtTheEnd(f, k) =>
           k \in Within(n, o) \/ (pr.match = LeaderLast /\ k.index = LeaderLast)
  PROVE  TokenOK(f, pr2, n2, o2)
<1>1. /\ OneToken(f, pr.match, n2, o2)
      /\ NoToken(f, pr.match, n, o) => NoToken(f, pr.match, n2, o2)
  BY FewerTokens DEF TokenOK
<1>2. /\ ~HeartbeatsHandled /\ ~pr.probeSent => NoToken(f, pr.match, n, o)
      /\ pr.next = LeaderLast + 1 => pr.match = LeaderLast /\ NoToken(f, pr.match, n, o)
      /\ \A m \in Within(n, o) : AtTheEnd(f, m) => pr.match = LeaderLast /\ m.index = LeaderLast
  BY DEF TokenOK
<1>3. \A m \in Within(n2, o2) : AtTheEnd(f, m) => pr2.match = LeaderLast /\ m.index = LeaderLast
  BY <1>2
<1> QED BY <1>1, <1>2, <1>3 DEF TokenOK

\* A message that has been taken from the network.
LEMMA TakenFacts ==
  ASSUME IInv, NEW m, NEW o, IsABag(o)
  PROVE  /\ IsABag(Without(m)) /\ Within(Without(m), o) \subseteq Within(network, o)
         /\ \A k : Count(Without(m), o, k) <= Count(network, o, k)
         /\ m \in BagToSet(network) =>
              m \in Within(network, o) /\ Count(Without(m), o, m) < Count(network, o, m)
<1>1. /\ IsABag(Without(m)) /\ BagToSet(Without(m)) \subseteq BagToSet(network)
      /\ IsABag(network)
  BY WithoutFacts, Parts DEF NetworkOK
<1>2. \A k : Copies(k, Without(m)) =
               IF k = m /\ k \in BagToSet(network) THEN Copies(k, network) - 1 ELSE Copies(k, network)
  BY <1>1, CopiesWithout DEF Without
<1>3. \A k : Copies(k, network) \in Nat /\ Copies(k, o) \in Nat
  BY <1>1, CopiesFacts
<1> QED BY <1>1, <1>2, <1>3 DEF Within, Count

\* The answers as, put into an outbox.
LEMMA AddedFacts ==
  ASSUME NEW n, NEW o, IsABag(n), IsABag(o), NEW as, NEW o2, o2 = o (+) SetToBag(as), NEW k
  PROVE  /\ IsABag(o2) /\ Count(n, o, k) \in Nat /\ Count(n, o2, k) \in Nat
         /\ k \in as => Count(n, o2, k) = Count(n, o, k) + 1
         /\ k \notin as => Count(n, o2, k) = Count(n, o, k)
         /\ k \in Within(n, o2) => k \in Within(n, o) \/ k \in as
<1>1. IsABag(SetToBag(as)) /\ BagToSet(SetToBag(as)) = as
  BY SetToBagFacts
<1>2. IsABag(o2) /\ BagToSet(o2) = BagToSet(o) \cup as
  BY <1>1, BagSumFacts
<1>3. Copies(k, o2) = Copies(k, o) + Copies(k, SetToBag(as))
  BY <1>1, CopiesInSum
<1>4. Copies(k, n) \in Nat /\ Copies(k, o) \in Nat
  BY CopiesFacts
<1>5. /\ Count(n, o, k) = Copies(k, n) + Copies(k, o)
      /\ Count(n, o2, k) = Copies(k, n) + Copies(k, o2)
  BY DEF Count
<1>6. k \in as => Copies(k, SetToBag(as)) = 1
  BY CopiesInSet
<1>7. k \notin as => Copies(k, SetToBag(as)) = 0
  BY CopiesInSet
<1>8. k \in Within(n, o2) => k \in Within(n, o) \/ k \in as
  BY <1>2 DEF Within
<1> DEFINE c == Copies(k, n)
           d == Copies(k, o)
           x == Count(n, o, k)
           y == Count(n, o2, k)
<1>10. c \in Nat /\ d \in Nat /\ x = c + d
  BY <1>4, <1>5
<1>11. k \in as => y = c + (d + 1)
  BY <1>3, <1>5, <1>6
<1>12. k \notin as => y = c + (d + 0)
  BY <1>3, <1>5, <1>7
<1> HIDE DEF c, d, x, y
<1>13. x \in Nat /\ x + 1 \in Nat /\ c + (d + 1) = x + 1 /\ c + (d + 0) = x
  BY <1>10
<1>14. y \in Nat
  BY <1>11, <1>12, <1>13, Zenon
<1>9. /\ x \in Nat /\ y \in Nat
      /\ k \in as => y = x + 1
      /\ k \notin as => y = x
  BY <1>11, <1>12, <1>13, <1>14, Zenon
<1> QED BY <1>2, <1>8, <1>9 DEF x, y

\* The outboxes after a handler.
LEMMA HandledOutbox ==
  ASSUME IInv, NEW h \in Followers, NEW l, NEW as, NEW net, HandledBy(h, l, as, net),
         NEW f \in Followers
  PROVE  /\ f # h => outbox'[f] = outbox[f]
         /\ f = h => outbox'[f] = outbox[f] (+) SetToBag(as)
<1>1. outbox' = [outbox EXCEPT ![h] = outbox[h] (+) SetToBag(as)]
  BY DEF HandledBy
<1>2. DOMAIN outbox = Followers
  BY Parts DEF FollowersOK
<1> QED BY <1>1, <1>2

\* Answers that are no token, given to a message that need not have been one.
LEMMA HandledByStays ==
  ASSUME IInv, NEW h \in Followers, NEW l, NEW as, NEW net, IsABag(net), HandledBy(h, l, as, net),
         NEW f \in Followers, TokenOK(f, progress[f], network, outbox[f]),
         Within(net, outbox[f]) \subseteq Within(network, outbox[f]),
         \A k : Count(net, outbox[f], k) <= Count(network, outbox[f], k),
         \A k \in as : f = h =>
           /\ ~Token(f, progress[f].match, k)
           /\ AtTheEnd(f, k) => progress[f].match = LeaderLast /\ k.index = LeaderLast
  PROVE  TokenOK(f, progress'[f], network', outbox'[f])
<1> DEFINE pr == progress[f]
           o == outbox[f]
           o2 == outbox'[f]
<1>1. network' = net /\ progress'[f] = pr
  BY DEF HandledBy, leader
<1>10. IsABag(o)
  BY Parts1
<1>11. ASSUME NEW k
       PROVE  /\ IsABag(o2) /\ Count(net, o, k) \in Nat
              /\ ~(f = h /\ k \in as) => Count(net, o2, k) = Count(net, o, k)
              /\ k \in Within(net, o2) => k \in Within(net, o) \/ (f = h /\ k \in as)
  <2>1. /\ f # h => o2 = o
        /\ f = h => o2 = o (+) SetToBag(as)
    BY HandledOutbox
  <2>2. Count(net, o, k) \in Nat
    BY <1>10, CountFacts
  <2> HIDE DEF o, o2
  <2>3. CASE f # h
    BY <1>10, <2>1, <2>2, <2>3
  <2>4. CASE f = h
    BY <1>10, <2>1, <2>4, AddedFacts
  <2> QED BY <2>3, <2>4
<1>2. IsABag(network) /\ IsABag(o)
  BY Parts, Parts1 DEF NetworkOK
<1> HIDE DEF pr, o, o2
<1>3. \A k \in Within(net, o2) : Token(f, pr.match, k) => Count(net, o2, k) <= Count(network, o, k)
  <2> SUFFICES ASSUME NEW k \in Within(net, o2), Token(f, pr.match, k)
               PROVE  Count(net, o2, k) <= Count(network, o, k)
    OBVIOUS
  <2>1. ~(f = h /\ k \in as)
    BY Zenon DEF pr
  <2>2. Count(net, o2, k) = Count(net, o, k)
    BY <1>11, <2>1
  <2> QED BY <2>2 DEF o
<1>4. \A k \in Within(net, o2) : AtTheEnd(f, k) =>
        k \in Within(network, o) \/ (pr.match = LeaderLast /\ k.index = LeaderLast)
  BY <1>11 DEF pr, o
<1>5. TokenOK(f, pr, network, o)
  BY DEF pr, o
<1>12. IsABag(o2)
  BY <1>11
<1>6. TokenOK(f, pr, net, o2)
  BY <1>2, <1>12, <1>3, <1>4, <1>5, TokensStay
<1> QED BY <1>1, <1>6 DEF o2

\* What an answer says.
LEMMA AnswerSays ==
  ASSUME IInv, NEW f \in Followers, NEW m, AppOK(m)
  PROVE  LET a == Answer(f, m) IN
         /\ a.type = "MsgAppResp" /\ a.from = f /\ a.index \in 0 .. LeaderLast
         /\ a.reject => /\ a.index = m.index /\ a.hint = LastIndex(storage[f], log[f])
                        /\ ~AlreadyCommitted(f, m) /\ ~Matches(f, m)
<1> DEFINE a == Answer(f, m)
<1>1. /\ a.type = "MsgAppResp" /\ a.from = f
      /\ a.reject => /\ a.index = m.index /\ a.hint = LastIndex(storage[f], log[f])
                     /\ ~AlreadyCommitted(f, m) /\ ~Matches(f, m)
  BY DEF Answer
<1>2. MessageOK(a)
  BY AnswerFacts DEF OutMessageOK
<1> HIDE DEF a
<1>3. a.index \in 0 .. LeaderLast
  BY <1>1, <1>2 DEF MessageOK, RespOK
<1> QED BY <1>1, <1>3 DEF a

\* handleAppendEntries gives the token back, if it got it.
LEMMA StepAppKeepsToken ==
  ASSUME IInv, NEW m \in BagToSet(network), m.type = "MsgApp", NEW f \in Followers,
         m.to \in Followers, AppOK(m), NEW l, HandledBy(m.to, l, {Answer(m.to, m)}, Without(m)),
         TokenOK(f, progress[f], network, outbox[f])
  PROVE  TokenOK(f, progress'[f], network', outbox'[f])
<1> DEFINE net == Without(m)
           h == m.to
           a == Answer(h, m)
           o == outbox[f]
           pr == progress[f]
<1>1. IsABag(network) /\ IsABag(o) /\ LeaderLast \in Nat /\ pr.match \in 0 .. LeaderLast
  BY Parts, Parts1, MeFacts DEF NetworkOK
<1>2. /\ IsABag(net) /\ Within(net, o) \subseteq Within(network, o)
      /\ \A k : Count(net, o, k) <= Count(network, o, k)
      /\ m \in Within(network, o) /\ Count(net, o, m) < Count(network, o, m)
  BY <1>1, TakenFacts
<1>3. /\ a.type = "MsgAppResp" /\ a.from = h /\ a.index \in 0 .. LeaderLast
      /\ a.reject => a.index = m.index
  BY AnswerSays
<1>4. /\ m.index \in Nat /\ Len(m.ents) \in Nat /\ m.index + Len(m.ents) <= LeaderLast
      /\ m.ents = <<>> <=> Len(m.ents) = 0
  BY MeFacts DEF AppOK, Carries, LeaderLast
<1>5. HandledBy(h, l, {a}, net)
  OBVIOUS
<1> HIDE DEF net, a
<1>6. CASE f # h
  <2>1. \A k \in {a} : f = h =>
          /\ ~Token(f, pr.match, k)
          /\ AtTheEnd(f, k) => pr.match = LeaderLast /\ k.index = LeaderLast
    BY <1>6
  <2> QED BY <1>2, <1>5, <2>1, HandledByStays
<1>7. CASE f = h /\ m.ents = <<>>
  <2>1. pr.match = LeaderLast /\ m.index = LeaderLast
    BY <1>2, <1>7 DEF TokenOK, AtTheEnd
  <2>2. \A k \in {a} : f = h =>
          /\ ~Token(f, pr.match, k)
          /\ AtTheEnd(f, k) => pr.match = LeaderLast /\ k.index = LeaderLast
    BY <1>1, <1>3, <2>1 DEF Token, AtTheEnd
  <2> QED BY <1>2, <1>5, <2>2, HandledByStays
<1>8. CASE f = h /\ m.ents # <<>>
  <2> DEFINE o2 == outbox'[f]
  <2>1. Token(f, pr.match, m) /\ m.index < LeaderLast
    BY <1>1, <1>4, <1>8 DEF Token
  <2>2. OneToken(f, pr.match, network, o)
    BY DEF TokenOK
  <2>3. NoToken(f, pr.match, net, o)
    BY <1>1, <1>2, <2>1, <2>2, TokenTaken
  <2>4. network' = net /\ progress'[f] = pr
    BY <1>5 DEF HandledBy, leader
  <2>10. o2 = o (+) SetToBag({a})
    BY <1>5, <1>8, HandledOutbox
  <2>11. ASSUME NEW k
         PROVE  /\ IsABag(o2) /\ Count(net, o, k) \in Nat
                /\ k = a => Count(net, o2, k) <= Count(net, o, k) + 1
                /\ k # a => Count(net, o2, k) <= Count(net, o, k)
                /\ k \in Within(net, o2) => k \in Within(net, o) \/ k = a
    <3> HIDE DEF o, o2
    <3>1. /\ IsABag(o2) /\ Count(net, o, k) \in Nat /\ Count(net, o2, k) \in Nat
          /\ k \in {a} => Count(net, o2, k) = Count(net, o, k) + 1
          /\ k \notin {a} => Count(net, o2, k) = Count(net, o, k)
          /\ k \in Within(net, o2) => k \in Within(net, o) \/ k \in {a}
      BY <1>1, <1>2, <2>10, AddedFacts
    <3> QED BY <3>1
  <2>5. \A k \in Within(net, o2) : Token(f, pr.match, k) =>
          /\ k = a => Count(net, o2, k) <= Count(net, o, k) + 1
          /\ k # a => Count(net, o2, k) <= Count(net, o, k)
    BY <2>11
  <2>6. OneToken(f, pr.match, net, o2)
    BY <1>1, <1>2, <2>3, <2>5, <2>11, TokenGiven
  <2>7. \A k \in Within(net, o2) : AtTheEnd(f, k) => pr.match = LeaderLast /\ k.index = LeaderLast
    <3> SUFFICES ASSUME NEW k \in Within(net, o2), AtTheEnd(f, k)
                 PROVE  pr.match = LeaderLast /\ k.index = LeaderLast
      OBVIOUS
    <3>1. CASE k = a
      BY <1>3, <2>1, <3>1 DEF AtTheEnd
    <3>2. CASE k # a
      <4>1. k \in Within(network, o)
        BY <1>2, <2>11, <3>2
      <4> QED BY <4>1 DEF TokenOK
    <3> QED BY <3>1, <3>2
  <2>8. /\ ~(~HeartbeatsHandled /\ ~pr.probeSent) /\ pr.next # LeaderLast + 1
    BY <1>2, <2>1 DEF TokenOK, NoToken
  <2> HIDE DEF o2, pr
  <2>9. TokenOK(f, pr, net, o2)
    BY <2>6, <2>7, <2>8 DEF TokenOK
  <2> QED BY <2>4, <2>9 DEF o2
<1> QED BY <1>6, <1>7, <1>8
-----------------------------------------------------------------------------
(* The leader hears an answer. *)

\* What is under way between the leader and f.
LEMMA WithinOK ==
  ASSUME IInv, NEW f \in Followers, NEW k \in Within(network, outbox[f])
  PROVE  /\ MessageOK(k)
         /\ k.type = "MsgAppResp" => /\ k.index \in 0 .. LeaderLast /\ k.index \in Nat
                                     /\ k.reject \in BOOLEAN /\ k.hint \in Nat
<1>1. MessageOK(k)
  BY Parts, Parts1 DEF Within, NetworkOK, NetMessageOK, OutMessageOK
<1> QED BY <1>1, MeFacts DEF MessageOK, RespOK

\* StepLeader, MsgAppResp: whoever answers, f keeps its one token, and Match and
\* Next change by an answer of f alone.
LEMMA AnswerKeepsToken ==
  ASSUME IInv, NEW m \in BagToSet(network), m.type = "MsgAppResp", StepAppResp(m, Without(m)),
         NEW f \in Followers, progress[f].state = "Probe",
         ~HeartbeatsHandled \/ Followers = {f},
         TokenOK(f, progress[f], network, outbox[f])
  PROVE  /\ TokenOK(f, progress'[f], network', outbox'[f])
         /\ \A k \in Within(network', outbox'[f]) :
              k.type \in {"MsgApp", "MsgSnap"} \/ k \in Within(network, outbox[f])
         /\ \/ progress'[f].match = progress[f].match /\ progress'[f].next = progress[f].next
            \/ /\ m.from = f /\ m.reject /\ progress'[f].match = progress[f].match
               /\ m.index > 0 => progress'[f].next = m.index \/ progress'[f].next = m.hint + 1
            \/ /\ m.from = f /\ ~m.reject /\ progress[f].match < m.index
               /\ progress'[f].match = m.index /\ progress'[f].match < progress'[f].next
<1> DEFINE net == Without(m)
           o == outbox[f]
           pr == progress[f]
<1>1. m.from \in Followers /\ m.index \in 0 .. LeaderLast /\ m.reject \in BOOLEAN
  BY AnswerHeard
<1>2. PICK r, fs :
        /\ ProgressAt(r, hardCommit[m.from]) /\ fs \in SUBSET Followers
        /\ SendAppends([progress EXCEPT ![m.from] = r], fs, net)
        /\ \/ Ignores(m, progress[m.from], r, fs)
           \/ GoesBack(m, progress[m.from], r, fs)
           \/ Advances(m, progress[m.from], r, fs)
  BY AnswerHeard
<1>3. PICK prs : prs = [progress EXCEPT ![m.from] = r]
  OBVIOUS
<1>4. /\ prs \in [Followers -> ProgressRecords]
      /\ prs[m.from] = r /\ \A g \in Followers \ {m.from} : prs[g] = progress[g]
  BY <1>1, <1>2, <1>3, Parts DEF ProgressOK, ProgressAt, GoodProgress
<1>5. \A g \in Followers : ProgressAt(prs[g], hardCommit[g])
  BY <1>2, <1>4, Parts1
<1>6. /\ IsABag(net) /\ Within(net, o) \subseteq Within(network, o)
      /\ \A k : Count(net, o, k) <= Count(network, o, k)
      /\ m \in Within(network, o) /\ Count(net, o, m) < Count(network, o, m)
      /\ IsABag(network) /\ IsABag(o)
  BY Parts, Parts1, TakenFacts DEF NetworkOK
<1>7. /\ LeaderLast \in Nat /\ LeaderLast > 0
      /\ pr.match \in 0 .. LeaderLast /\ pr.match \in Nat /\ pr.next \in Nat
  BY Parts1, ProgressFacts, MeFacts
<1>8. \A k \in Within(net, o) : Token(f, pr.match, k) => Count(net, o, k) <= Count(network, o, k)
  BY <1>6
<1>9. SendAppends(prs, fs, net)
  BY <1>2, <1>3
<1> HIDE DEF net, o, pr
<1>10. ASSUME prs[f].state = "Probe", TokenOK(f, prs[f], net, o),
              f \in fs /\ ~prs[f].probeSent => NoToken(f, prs[f].match, net, o)
       PROVE  /\ TokenOK(f, progress'[f], network', outbox'[f])
              /\ progress'[f].match = prs[f].match /\ progress'[f].next = prs[f].next
              /\ \A k \in Within(network', outbox'[f]) :
                   k.type \in {"MsgApp", "MsgSnap"} \/ k \in Within(network, outbox[f])
  <2>1. /\ TokenOK(f, progress'[f], network', outbox'[f])
        /\ progress'[f].match = prs[f].match /\ progress'[f].next = prs[f].next
        /\ \A k \in Within(network', outbox'[f]) :
             k.type \in {"MsgApp", "MsgSnap"} \/ k \in Within(net, outbox[f])
    BY <1>2, <1>4, <1>5, <1>6, <1>9, <1>10, SendKeepsToken DEF o
  <2> QED BY <1>6, <2>1 DEF o
<1>11. CASE m.from # f
  <2>1. prs[f] = pr
    BY <1>4, <1>11 DEF pr
  <2>2. TokenOK(f, pr, net, o)
    BY <1>6, <1>8, TokensStay DEF pr, o
  <2>3. ~HeartbeatsHandled
    BY <1>1, <1>11
  <2>4. ~pr.probeSent => NoToken(f, pr.match, net, o)
    BY <2>2, <2>3 DEF TokenOK
  <2> QED BY <1>10, <2>1, <2>2, <2>4 DEF pr
<1>12. CASE m.from = f /\ Ignores(m, pr, r, fs)
  <2>1. prs[f] = r /\ Unmoved(pr, r) /\ fs = {}
    BY <1>4, <1>12 DEF Ignores
  <2>2. TokenOK(f, pr, network, o)
    BY DEF pr, o
  <2>3. TokenOK(f, r, net, o)
    BY <1>6, <1>8, <2>1, <2>2, TokensStay DEF Unmoved
  <2> QED BY <1>10, <2>1, <2>3 DEF pr, Unmoved
<1>13. CASE m.from = f /\ GoesBack(m, pr, r, fs)
  <2>1. /\ prs[f] = r /\ r.match = pr.match /\ r.state = "Probe" /\ ~r.probeSent
        /\ pr.next = m.index + 1 /\ (r.next = 1 \/ r.next <= m.index) /\ m.reject
        /\ m.index > 0 => r.next = m.index \/ r.next = m.hint + 1
    BY <1>4, <1>13 DEF GoesBack, pr
  <2>2. TokenOK(f, pr, network, o)
    BY DEF pr, o
  <2>3. NoToken(f, pr.match, net, o)
    <3>1. CASE m.index < LeaderLast
      <4>1. Token(f, pr.match, m)
        BY <1>13, <2>1, <3>1 DEF Token
      <4> QED BY <1>6, <1>8, <2>2, <4>1, TokenTaken DEF TokenOK
    <3>2. CASE ~(m.index < LeaderLast)
      <4>1. pr.next = LeaderLast + 1
        BY <1>1, <1>7, <2>1, <3>2
      <4>2. NoToken(f, pr.match, network, o)
        BY <2>2, <4>1 DEF TokenOK
      <4> QED BY <1>6, <1>8, <4>2, FewerTokens
    <3> QED BY <3>1, <3>2
  <2>4. r.next # LeaderLast + 1
    BY <1>1, <1>7, <2>1
  <2>5. TokenOK(f, r, net, o)
    BY <1>6, <2>1, <2>2, <2>3, <2>4 DEF TokenOK, OneToken, NoToken
  <2> QED BY <1>10, <1>13, <2>1, <2>3, <2>5 DEF pr
<1>14. CASE m.from = f /\ Advances(m, pr, r, fs)
  <2>1. /\ prs[f] = r /\ r.match = m.index /\ r.state = "Probe" /\ ~r.probeSent
        /\ pr.match < m.index /\ ~m.reject
        /\ r.next = IF pr.next < m.index + 1 THEN m.index + 1 ELSE pr.next
    BY <1>4, <1>14 DEF Advances, pr
  <2>2. TokenOK(f, pr, network, o)
    BY DEF pr, o
  <2>3. Token(f, pr.match, m)
    BY <1>14, <2>1 DEF Token
  <2>4. NoToken(f, m.index, net, o)
    <3>1. ASSUME NEW k \in Within(net, o), Token(f, m.index, k)
          PROVE  Token(f, pr.match, k) /\ Count(net, o, k) <= Count(network, o, k)
      <4>1. k \in Within(network, o)
        BY <1>6
      <4>2. k.type = "MsgAppResp" => k.index \in Nat
        BY <4>1, WithinOK DEF o
      <4>3. k.type = "MsgAppResp" /\ m.index < k.index => pr.match < k.index
        BY <1>1, <1>7, <2>1, <4>2
      <4> QED BY <1>6, <3>1, <4>3 DEF Token
    <3> QED BY <1>6, <2>2, <2>3, <3>1, TokenTaken DEF TokenOK
  <2>5. r.next = LeaderLast + 1 => r.match = LeaderLast
    <3>1. pr.next # LeaderLast + 1
      BY <1>6, <2>2, <2>3 DEF TokenOK, NoToken
    <3> QED BY <1>1, <1>7, <2>1, <3>1
  <2>6. \A k \in Within(net, o) : ~AtTheEnd(f, k)
    <3>1. pr.match # LeaderLast
      BY <1>1, <1>7, <2>1
    <3> QED BY <1>6, <2>2, <3>1 DEF TokenOK
  <2>7. TokenOK(f, r, net, o)
    BY <2>1, <2>4, <2>5, <2>6 DEF TokenOK, OneToken, NoToken
  <2>8. r.match < r.next
    BY <1>1, <1>7, <2>1
  <2> QED BY <1>10, <1>14, <2>1, <2>4, <2>7, <2>8 DEF pr
<1> QED BY <1>2, <1>11, <1>12, <1>13, <1>14 DEF pr

\* The State of a Progress is what it was.
LEMMA AnswerKeepsState ==
  ASSUME IInv, NEW m \in BagToSet(network), m.type = "MsgAppResp", StepAppResp(m, Without(m)),
         NEW f \in Followers
  PROVE  progress'[f].state = progress[f].state
<1>1. m.from \in Followers
  BY AnswerHeard
<1>2. PICK r, fs :
        /\ ProgressAt(r, hardCommit[m.from]) /\ fs \in SUBSET Followers
        /\ SendAppends([progress EXCEPT ![m.from] = r], fs, Without(m))
        /\ \/ Ignores(m, progress[m.from], r, fs)
           \/ GoesBack(m, progress[m.from], r, fs)
           \/ Advances(m, progress[m.from], r, fs)
  BY AnswerHeard
<1>3. PICK prs : prs = [progress EXCEPT ![m.from] = r]
  OBVIOUS
<1>4. /\ prs \in [Followers -> ProgressRecords]
      /\ prs[m.from] = r /\ \A g \in Followers \ {m.from} : prs[g] = progress[g]
  BY <1>1, <1>2, <1>3, Parts DEF ProgressOK, ProgressAt, GoodProgress
<1>5. \A g \in Followers : ProgressAt(prs[g], hardCommit[g])
  BY <1>2, <1>4, Parts1
<1>6. SendAppends(prs, fs, Without(m)) /\ IsABag(Without(m))
  BY <1>2, <1>3, WithoutFacts
<1>7. progress'[f] = IF f \in fs THEN SendAppend(leaderStorage, prs[f], f).progress ELSE prs[f]
  BY <1>2, <1>4, <1>5, <1>6, SentFacts
<1>8. prs[f].state = progress[f].state
  BY <1>2, <1>4 DEF Ignores, GoesBack, Advances, Unmoved
<1>9. GoodProgress(prs[f]) /\ LeaderOK(leaderStorage)
  BY <1>5, Parts DEF ProgressAt
<1>10. SendAppend(leaderStorage, prs[f], f).progress.state = prs[f].state
  BY <1>9, SendAppendFacts
<1> QED BY <1>7, <1>8, <1>10
-----------------------------------------------------------------------------
(* The steps that tell the leader nothing new of f. *)

\* Match, Next and the answers of f are what they were.
Calm(f) ==
  /\ leading' = leading
  /\ progress'[f].match = progress[f].match /\ progress'[f].next = progress[f].next
  /\ \A k \in Within(network', outbox'[f]) :
       k.type = "MsgAppResp" /\ k.from = f => k \in Within(network, outbox[f])
\* The probe of f is where the invariant wants it.
Keeps(f) == Probing(f)' => Probing(f) /\ TokenOK(f, progress'[f], network', outbox'[f])

\* What the messages and the Progress of f must be for that.
LEMMA CalmKeeps ==
  ASSUME IInv, TInv, NEW f \in Followers, leading' => leading, repeated' = 0 => repeated = 0,
         progress'[f].match = progress[f].match, progress'[f].next = progress[f].next,
         progress'[f].state = progress[f].state,
         ~HeartbeatsHandled /\ ~progress'[f].probeSent => ~progress[f].probeSent,
         IsABag(network'), IsABag(outbox'[f]),
         \A k \in Within(network', outbox'[f]) : Token(f, progress[f].match, k) =>
           Count(network', outbox'[f], k) <= Count(network, outbox[f], k),
         \A k \in Within(network', outbox'[f]) : AtTheEnd(f, k) => k \in Within(network, outbox[f])
  PROVE  Keeps(f)
<1> SUFFICES ASSUME Probing(f)' PROVE Probing(f) /\ TokenOK(f, progress'[f], network', outbox'[f])
  BY DEF Keeps
<1>1. Probing(f)
  BY DEF Probing, OneProbeAtATime
<1>2. TokenOK(f, progress[f], network, outbox[f])
  BY <1>1 DEF TInv
<1>3. IsABag(network) /\ IsABag(outbox[f])
  BY Parts, Parts1 DEF NetworkOK
<1>4. TokenOK(f, progress'[f], network', outbox'[f])
  BY <1>2, <1>3, TokensStay
<1> QED BY <1>1, <1>4

\* Where Progress and outbox are what they were and no message is new.
LEMMA NothingNew ==
  ASSUME IInv, TInv, NEW f \in Followers, leading' = leading, repeated' = 0 => repeated = 0,
         progress' = progress, outbox'[f] = outbox[f], IsABag(network'),
         \A k : Copies(k, network') <= Copies(k, network)
  PROVE  Calm(f) /\ Keeps(f)
<1>1. IsABag(network) /\ IsABag(outbox[f])
  BY Parts, Parts1 DEF NetworkOK
<1>2. ASSUME NEW k
      PROVE  /\ Count(network', outbox'[f], k) <= Count(network, outbox[f], k)
             /\ k \in Within(network', outbox'[f]) => k \in Within(network, outbox[f])
  <2>1. /\ Copies(k, network) \in Nat /\ Copies(k, network') \in Nat /\ Copies(k, outbox[f]) \in Nat
        /\ Copies(k, network') <= Copies(k, network)
    BY <1>1, CopiesFacts
  <2>2. Count(network', outbox'[f], k) <= Count(network, outbox[f], k)
    BY <2>1 DEF Count
  <2>3. /\ Count(network', outbox'[f], k) \in Nat /\ Count(network, outbox[f], k) \in Nat
        /\ k \in Within(network', outbox'[f]) => Count(network', outbox'[f], k) > 0
        /\ Count(network, outbox[f], k) > 0 => k \in Within(network, outbox[f])
    BY <1>1, CountFacts
  <2> QED BY <2>2, <2>3
<1>3. Calm(f)
  BY <1>2 DEF Calm
<1>4. Keeps(f)
  BY <1>1, <1>2, CalmKeeps
<1> QED BY <1>3, <1>4

\* The copies that are left when a message has been taken.
LEMMA WithoutCopies ==
  ASSUME IInv, NEW m
  PROVE  IsABag(Without(m)) /\ \A k : Copies(k, Without(m)) <= Copies(k, network)
<1>1. IsABag(network) /\ IsABag(Without(m))
  BY Parts, WithoutFacts DEF NetworkOK
<1>2. ASSUME NEW k PROVE Copies(k, Without(m)) <= Copies(k, network)
  <2>1. Copies(k, network) \in Nat
    BY <1>1, CopiesFacts
  <2>2. Copies(k, Without(m)) =
          IF k = m /\ k \in BagToSet(network) THEN Copies(k, network) - 1 ELSE Copies(k, network)
    BY <1>1, CopiesWithout DEF Without
  <2> QED BY <2>1, <2>2
<1> QED BY <1>1, <1>2

\* MsgHeartbeatResp, of those who answer heartbeats.
LEMMA HeartbeatRespIsCalm ==
  ASSUME IInv, TInv, NEW m \in BagToSet(network), m.type = "MsgHeartbeatResp",
         StepHeartbeatResp(m, Without(m)), NEW f \in Followers
  PROVE  Calm(f) /\ Keeps(f)
<1>1. /\ network' = Without(m) /\ outbox' = outbox /\ leading' = leading /\ repeated' = repeated
      /\ progress' = [progress EXCEPT ![m.from].recentActive = TRUE, ![m.from].probeSent = FALSE]
  BY DEF StepHeartbeatResp, followers, faults
<1>2. HeartbeatsHandled
  BY DEF TInv, NoHeartbeatResp, Within
<1>3. /\ progress'[f].match = progress[f].match /\ progress'[f].next = progress[f].next
      /\ progress'[f].state = progress[f].state
  <2>1. progress \in [Followers -> ProgressRecords] /\ m.from \in Followers
    BY Parts DEF ProgressOK, NetworkOK, NetMessageOK, MessageOK
  <2> QED BY <1>1, <2>1 DEF ProgressRecords
<1>4. IsABag(outbox[f]) /\ IsABag(network')
  BY <1>1, Parts1, WithoutFacts
<1>5. /\ Within(network', outbox'[f]) \subseteq Within(network, outbox[f])
      /\ \A k : Count(network', outbox'[f], k) <= Count(network, outbox[f], k)
  BY <1>1, <1>4, TakenFacts
<1>6. Calm(f)
  BY <1>1, <1>3, <1>5 DEF Calm
<1>7. Keeps(f)
  BY <1>1, <1>2, <1>3, <1>4, <1>5, CalmKeeps
<1> QED BY <1>6, <1>7

\* A message is lost, or comes to a deposed leader; or nothing is sent at all.
LEMMA NetworkIsCalm ==
  ASSUME IInv, TInv, NEW f \in Followers,
         \/ \E m \in BagToSet(network) : StepDeposed(m, Without(m))
         \/ Lose \/ CompactLeader \/ UNCHANGED vars
  PROVE  Calm(f) /\ Keeps(f)
<1>1. IsABag(network) /\ \A k : Copies(k, network) <= Copies(k, network)
  <2>1. IsABag(network)
    BY Parts DEF NetworkOK
  <2>2. \A k : Copies(k, network) \in Nat
    BY <2>1, CopiesFacts
  <2> QED BY <2>1, <2>2
<1>2. CASE \E m \in BagToSet(network) : StepDeposed(m, Without(m)) \/ (Lose /\ network' = Without(m))
  <2>1. PICK m \in BagToSet(network) : StepDeposed(m, Without(m)) \/ (Lose /\ network' = Without(m))
    BY <1>2
  <2>2. /\ network' = Without(m) /\ outbox' = outbox /\ progress' = progress
        /\ leading' = leading /\ repeated' = repeated
    BY <2>1 DEF StepDeposed, Lose, leader, followers, faults
  <2>3. IsABag(network') /\ \A k : Copies(k, network') <= Copies(k, network)
    BY <2>2, WithoutCopies
  <2> QED BY <2>2, <2>3, NothingNew
<1>3. CASE CompactLeader \/ UNCHANGED vars
  <2>1. /\ network' = network /\ outbox' = outbox /\ progress' = progress
        /\ leading' = leading /\ repeated' = repeated
    BY <1>3, CompactLeaderKeeps DEF vars, leader, followers, faults
  <2> QED BY <1>1, <2>1, NothingNew
<1>4. Lose => \E m \in BagToSet(network) : Lose /\ network' = Without(m)
  BY DEF Lose
<1> QED BY <1>2, <1>3, <1>4

\* A repetition: then OneProbeAtATime is no more.
LEMMA RepeatIsCalm ==
  ASSUME IInv, Repeat, NEW f \in Followers
  PROVE  Calm(f) /\ Keeps(f)
<1>1. /\ BagToSet(network') = BagToSet(network)
      /\ outbox' = outbox /\ progress' = progress /\ leading' = leading /\ repeated' = repeated + 1
  BY RepeatKeeps DEF Repeat, leader, followers
<1>2. repeated' # 0
  BY <1>1, Parts, ReplicationAssumption DEF FaultsOK
<1>3. Keeps(f)
  BY <1>2 DEF Keeps, Probing, OneProbeAtATime
<1> QED BY <1>1, <1>3 DEF Calm, Within
\* MsgBeat sends no probes.
LEMMA BeatIsCalm ==
  ASSUME IInv, TInv, Beat, NEW f \in Followers
  PROVE  Calm(f) /\ Keeps(f)
<1> DEFINE B == {Heartbeat(g) : g \in Followers}
<1>1. /\ network' = network (+) SetToBag(B) /\ outbox' = outbox /\ progress' = progress
      /\ leading' = leading /\ repeated' = repeated
  BY DEF Beat, leader, followers, faults
<1>2. \A k \in B : k.type = "MsgHeartbeat"
  BY DEF Heartbeat
<1> HIDE DEF B
<1>3. IsABag(network) /\ IsABag(outbox[f])
  BY Parts, Parts1 DEF NetworkOK
<1>4. IsABag(SetToBag(B)) /\ BagToSet(SetToBag(B)) = B
  BY SetToBagFacts
<1>5. IsABag(network') /\ BagToSet(network') = BagToSet(network) \cup B
  BY <1>1, <1>3, <1>4, BagSumFacts
<1>6. ASSUME NEW k \in Within(network', outbox'[f]), k.type # "MsgHeartbeat"
      PROVE  /\ k \in Within(network, outbox[f])
             /\ Count(network', outbox'[f], k) <= Count(network, outbox[f], k)
  <2>1. k \notin B
    BY <1>2, <1>6
  <2>2. /\ Copies(k, network') = Copies(k, network) + Copies(k, SetToBag(B))
        /\ Copies(k, SetToBag(B)) = 0
        /\ Copies(k, network) \in Nat /\ Copies(k, outbox[f]) \in Nat
    BY <1>1, <1>3, <1>4, <2>1, CopiesInSum, CopiesInSet, CopiesFacts
  <2>3. Copies(k, network') = Copies(k, network)
    BY <2>2
  <2>4. Count(network', outbox'[f], k) = Count(network, outbox[f], k)
    BY <1>1, <2>3 DEF Count
  <2>5. Count(network, outbox[f], k) \in Nat
    BY <1>3, CountFacts
  <2> QED BY <1>1, <1>5, <2>1, <2>4, <2>5 DEF Within
<1>7. Calm(f)
  BY <1>1, <1>6 DEF Calm
<1>8. Keeps(f)
  BY <1>1, <1>3, <1>5, <1>6, CalmKeeps DEF Token, AtTheEnd
<1> QED BY <1>7, <1>8

\* What is sent was in r.msgs.
LEMMA SaveAndSendIsCalm ==
  ASSUME IInv, TInv, NEW h \in Followers, SaveAndSend(h), NEW f \in Followers
  PROVE  Calm(f) /\ Keeps(f)
<1> DEFINE n == network
           n2 == network'
           o == outbox[f]
           o2 == outbox'[f]
           sent == outbox[h]
<1>1. /\ n2 = n (+) sent /\ outbox' = [outbox EXCEPT ![h] = EmptyBag] /\ progress' = progress
      /\ leading' = leading /\ repeated' = repeated
  BY SavesAndSends DEF leader, faults
<1>2. DOMAIN outbox = Followers
  BY Parts DEF FollowersOK
<1>3. (f = h => o = sent /\ o2 = EmptyBag) /\ (f # h => o2 = o)
  BY <1>1, <1>2
<1>4. IsABag(n) /\ IsABag(o) /\ IsABag(sent) /\ IsABag(EmptyBag) /\ BagToSet(EmptyBag) = {}
  BY Parts, Parts1, SetToBagFacts DEF NetworkOK
<1>5. \A k \in BagToSet(sent) : k.type \in {"MsgAppResp", "MsgHeartbeatResp"} /\ k.from = h
  BY Parts1 DEF OutMessageOK
<1> HIDE DEF n, n2, o, o2, sent
<1>6. IsABag(n2) /\ BagToSet(n2) = BagToSet(n) \cup BagToSet(sent) /\ IsABag(o2)
  BY <1>1, <1>3, <1>4, BagSumFacts
<1>7. ASSUME NEW k \in Within(n2, o2), Token(f, progress[f].match, k) \/ AtTheEnd(f, k)
                                         \/ (k.type = "MsgAppResp" /\ k.from = f)
      PROVE  k \in Within(n, o) /\ Count(n2, o2, k) <= Count(n, o, k)
  <2>1. k \in BagToSet(sent) => h = f
    BY <1>5, <1>7 DEF Token, AtTheEnd
  <2>2. k \in Within(n, o)
    BY <1>3, <1>4, <1>6, <2>1 DEF Within
  <2>3. /\ Copies(k, n2) = Copies(k, n) + Copies(k, sent)
        /\ Copies(k, n) \in Nat /\ Copies(k, sent) \in Nat /\ Copies(k, o) \in Nat
        /\ Copies(k, EmptyBag) = 0
        /\ Copies(k, sent) > 0 <=> k \in BagToSet(sent)
    BY <1>1, <1>4, CopiesInSum, CopiesFacts
  <2>4. Count(n2, o2, k) = Copies(k, n2) + Copies(k, o2) /\ Count(n, o, k) = Copies(k, n) + Copies(k, o)
    BY DEF Count
  <2>5. CASE f = h
    BY <1>3, <2>2, <2>3, <2>4, <2>5
  <2>6. CASE f # h
    <3>1. Copies(k, sent) = 0
      BY <2>1, <2>3, <2>6
    <3> QED BY <1>3, <2>2, <2>3, <2>4, <2>6, <3>1
  <2> QED BY <2>5, <2>6
<1>8. Calm(f)
  BY <1>1, <1>7 DEF Calm, n, n2, o, o2
<1>9. Keeps(f)
  BY <1>1, <1>6, <1>7, CalmKeeps DEF n, n2, o, o2
<1> QED BY <1>8, <1>9

\* A crash loses answers only.
LEMMA RestartIsCalm ==
  ASSUME IInv, TInv, NEW h \in Followers, Restart(h), NEW f \in Followers
  PROVE  Calm(f) /\ Keeps(f)
<1>1. /\ network' = network /\ outbox' = [outbox EXCEPT ![h] = EmptyBag] /\ progress' = progress
      /\ leading' = leading /\ repeated' = repeated
  BY DEF Restart, leader
<1>2. DOMAIN outbox = Followers /\ IsABag(network) /\ IsABag(outbox[f]) /\ IsABag(EmptyBag)
  BY Parts, Parts1, SetToBagFacts DEF FollowersOK, NetworkOK
<1>3. outbox'[f] = outbox[f] \/ outbox'[f] = EmptyBag
  BY <1>1, <1>2
<1>4. IsABag(outbox'[f])
  BY <1>2, <1>3
<1>5. ASSUME NEW k
      PROVE  /\ k \in Within(network', outbox'[f]) => k \in Within(network, outbox[f])
             /\ Count(network', outbox'[f], k) <= Count(network, outbox[f], k)
  <2>1. /\ Copies(k, network) \in Nat /\ Copies(k, outbox[f]) \in Nat /\ Copies(k, EmptyBag) = 0
        /\ Count(network', outbox'[f], k) = Copies(k, network) + Copies(k, outbox'[f])
        /\ Count(network, outbox[f], k) = Copies(k, network) + Copies(k, outbox[f])
    BY <1>1, <1>2, CopiesFacts DEF Count
  <2>2. Count(network', outbox'[f], k) <= Count(network, outbox[f], k)
    BY <1>3, <2>1
  <2>3. BagToSet(EmptyBag) = {}
    BY SetToBagFacts
  <2>4. k \in Within(network', outbox'[f]) => k \in Within(network, outbox[f])
    BY <1>1, <1>3, <2>3 DEF Within
  <2> QED BY <2>2, <2>4
<1>6. Calm(f)
  BY <1>1, <1>5 DEF Calm
<1>7. Keeps(f)
  BY <1>1, <1>2, <1>4, <1>5, CalmKeeps
<1> QED BY <1>6, <1>7

\* A handler of h that leaves no answer to a MsgApp.
LEMMA HandledIsCalm ==
  ASSUME IInv, TInv, NEW h \in Followers, NEW l, NEW as, \A k \in as : k.type = "MsgHeartbeatResp",
         NEW net, IsABag(net), HandledBy(h, l, as, net), NEW f \in Followers,
         Within(net, outbox[f]) \subseteq Within(network, outbox[f]),
         \A k : Count(net, outbox[f], k) <= Count(network, outbox[f], k)
  PROVE  Calm(f) /\ Keeps(f)
<1>1. network' = net /\ progress' = progress /\ leading' = leading /\ repeated' = repeated
  BY DEF HandledBy, leader, faults
<1>2. IsABag(outbox[f])
  BY Parts1
<1>3. (f # h => outbox'[f] = outbox[f]) /\ (f = h => outbox'[f] = outbox[f] (+) SetToBag(as))
  BY HandledOutbox
<1>4. ASSUME NEW k \in Within(net, outbox'[f]), k.type = "MsgAppResp"
      PROVE  k \in Within(network, outbox[f])
  <2>1. k \notin as
    BY <1>4
  <2>2. CASE f # h
    BY <1>3, <2>2
  <2>3. CASE f = h
    <3>1. k \in Within(net, outbox'[f]) => k \in Within(net, outbox[f]) \/ k \in as
      BY <1>2, <1>3, <2>3, AddedFacts
    <3> QED BY <2>1, <3>1
  <2> QED BY <2>2, <2>3
<1>5. Calm(f)
  BY <1>1, <1>4 DEF Calm
<1>6. Keeps(f)
  <2> SUFFICES ASSUME Probing(f)'
               PROVE  Probing(f) /\ TokenOK(f, progress'[f], network', outbox'[f])
    BY DEF Keeps
  <2>1. Probing(f)
    BY <1>1 DEF Probing, OneProbeAtATime
  <2>2. TokenOK(f, progress[f], network, outbox[f])
    BY <2>1 DEF TInv
  <2>3. \A k \in as : f = h =>
          /\ ~Token(f, progress[f].match, k)
          /\ AtTheEnd(f, k) => progress[f].match = LeaderLast /\ k.index = LeaderLast
    BY DEF Token, AtTheEnd
  <2>4. TokenOK(f, progress'[f], network', outbox'[f])
    BY <2>2, <2>3, HandledByStays
  <2> QED BY <2>1, <2>4
<1> QED BY <1>5, <1>6
-----------------------------------------------------------------------------
(* The followers. *)

\* A MsgApp of this leader is handled without a panic.
LEMMA AppIsHandled ==
  ASSUME IInv, NEW m \in BagToSet(network), NEW net, StepFollower(m, net), m.type = "MsgApp"
  PROVE  /\ AppOK(m) /\ m.to \in Followers
         /\ HandledBy(m.to, LogAfter(m.to, m), {Answer(m.to, m)}, net)
<1>1. MessageOK(m)
  BY Parts DEF NetworkOK, NetMessageOK
<1>2. AppOK(m) /\ m.to \in Followers
  BY <1>1 DEF MessageOK, AppOK
<1>3. ~AppendPanicsAt(m.to, m)
  BY <1>2, AppsAreFromLeaders, LogAfterFacts
<1>4. StepApp(m.to, m, net)
  BY DEF StepFollower
<1> QED BY <1>2, <1>3, <1>4 DEF StepApp

\* Whatever else arrives changes nothing but, at most, an answer to a heartbeat.
LEMMA HeartbeatIsHandled ==
  ASSUME IInv, NEW m \in BagToSet(network), NEW net, StepFollower(m, net), m.type # "MsgApp"
  PROVE  /\ m.to \in Followers
         /\ \E as : /\ HandledBy(m.to, log[m.to], as, net)
                    /\ \A k \in as : k.type = "MsgHeartbeatResp" /\ HeartbeatsHandled
<1>1. NetMessageOK(m, hardCommit) /\ MessageOK(m)
  BY Parts DEF NetworkOK, NetMessageOK
<1> DEFINE h == m.to
           resp == HeartbeatResp(h)
<1>2. CASE m.type = "MsgHeartbeat" /\ StepHeartbeat(h, m, net)
  <2>1. h \in Followers /\ m.commit \in Nat /\ m.commit <= hardCommit[h]
    BY <1>1, <1>2 DEF NetMessageOK, MessageOK
  <2>2. /\ FollowerOK(storage[h], hardCommit[h], log[h])
        /\ hardCommit[h] \in Nat /\ log[h].committed \in Nat /\ hardCommit[h] <= log[h].committed
    BY <2>1, Parts1, FollowerFacts
  <2>3. m.commit <= log[h].committed
    BY <2>1, <2>2
  <2>4. CommitTo(log[h], m.commit) = log[h] /\ ~CommitToPanics(storage[h], log[h], m.commit)
    BY <2>1, <2>2, <2>3, CommitToNothing
  <2>5. CASE HeartbeatsHandled
    <3>1. HandledBy(h, log[h], {resp}, net)
      BY <1>2, <2>4, <2>5 DEF StepHeartbeat
    <3>2. \A k \in {resp} : k.type = "MsgHeartbeatResp" /\ HeartbeatsHandled
      BY <2>5 DEF HeartbeatResp
    <3> HIDE DEF resp
    <3> QED BY <2>1, <3>1, <3>2
  <2>6. CASE ~HeartbeatsHandled
    <3>1. HandledBy(h, log[h], {}, net)
      BY <1>2, <2>6 DEF StepHeartbeat
    <3> QED BY <2>1, <3>1
  <2> QED BY <2>5, <2>6
<1>3. CASE m.type = "MsgSnap" /\ HandledBy(h, log[h], {}, net)
  <2>1. h \in Followers
    BY <1>1, <1>3 DEF MessageOK
  <2> QED BY <2>1, <1>3
<1> QED BY <1>2, <1>3 DEF StepFollower

\* Heartbeats and snapshots.
LEMMA HeartbeatStepIsCalm ==
  ASSUME IInv, TInv, NEW m \in BagToSet(network), StepFollower(m, Without(m)), m.type # "MsgApp",
         NEW f \in Followers
  PROVE  Calm(f) /\ Keeps(f)
<1>1. m.to \in Followers
  BY HeartbeatIsHandled
<1>2. PICK as : /\ HandledBy(m.to, log[m.to], as, Without(m))
                /\ \A k \in as : k.type = "MsgHeartbeatResp" /\ HeartbeatsHandled
  BY HeartbeatIsHandled
<1>3. IsABag(outbox[f])
  BY Parts1
<1>4. /\ IsABag(Without(m)) /\ Within(Without(m), outbox[f]) \subseteq Within(network, outbox[f])
      /\ \A k : Count(Without(m), outbox[f], k) <= Count(network, outbox[f], k)
  BY <1>3, TakenFacts
<1> QED BY <1>1, <1>2, <1>4, HandledIsCalm

\* A late MsgApp of a deposed leader, of whose answer this one does not hear.
LEMMA OldAppIsCalm ==
  ASSUME IInv, TInv, NEW h \in Followers, ReceiveOldApp(h), NEW f \in Followers
  PROVE  Calm(f) /\ Keeps(f)
<1>1. PICK t \in OldTerms : \E m : AppFrom(m, t) /\ HandledBy(h, LogAfter(h, m), {}, network)
  BY OldAppIsHandled
<1>2. PICK m : HandledBy(h, LogAfter(h, m), {}, network)
  BY <1>1
<1>3. IsABag(network) /\ IsABag(outbox[f])
  BY Parts, Parts1 DEF NetworkOK
<1>4. \A k : Count(network, outbox[f], k) <= Count(network, outbox[f], k)
  <2>1. \A k : Count(network, outbox[f], k) \in Nat
    BY <1>3, CountFacts
  <2> QED BY <2>1
<1>5. \A k \in {} : k.type = "MsgHeartbeatResp"
  OBVIOUS
<1> QED BY <1>2, <1>3, <1>4, <1>5, HandledIsCalm

\* handleAppendEntries.
LEMMA AppStepKeeps ==
  ASSUME IInv, TInv, NEW m \in BagToSet(network), StepFollower(m, Without(m)), m.type = "MsgApp",
         NEW f \in Followers
  PROVE  /\ Keeps(f)
         /\ leading' = leading /\ progress' = progress
         /\ \A k \in Within(network', outbox'[f]) :
              \/ k \in Within(network, outbox[f])
              \/ f = m.to /\ k = Answer(m.to, m)
<1>1. /\ AppOK(m) /\ m.to \in Followers
      /\ HandledBy(m.to, LogAfter(m.to, m), {Answer(m.to, m)}, Without(m))
  BY AppIsHandled
<1>2. /\ network' = Without(m) /\ progress' = progress /\ leading' = leading /\ repeated' = repeated
  BY <1>1 DEF HandledBy, leader, faults
<1>3. Keeps(f)
  <2> SUFFICES ASSUME Probing(f)'
               PROVE  Probing(f) /\ TokenOK(f, progress'[f], network', outbox'[f])
    BY DEF Keeps
  <2>1. Probing(f)
    BY <1>2 DEF Probing, OneProbeAtATime
  <2>2. TokenOK(f, progress[f], network, outbox[f])
    BY <2>1 DEF TInv
  <2>3. TokenOK(f, progress'[f], network', outbox'[f])
    BY <1>1, <2>2, StepAppKeepsToken
  <2> QED BY <2>1, <2>3
<1>4. IsABag(outbox[f])
  BY Parts1
<1>5. IsABag(Without(m)) /\ Within(Without(m), outbox[f]) \subseteq Within(network, outbox[f])
  BY <1>4, TakenFacts
<1>6. /\ f # m.to => outbox'[f] = outbox[f]
      /\ f = m.to => outbox'[f] = outbox[f] (+) SetToBag({Answer(m.to, m)})
  BY <1>1, HandledOutbox
<1>7. ASSUME NEW k \in Within(network', outbox'[f])
      PROVE  k \in Within(network, outbox[f]) \/ (f = m.to /\ k = Answer(m.to, m))
  <2>1. CASE f # m.to
    BY <1>2, <1>5, <1>6, <1>7, <2>1
  <2>2. CASE f = m.to
    <3>1. k \in Within(Without(m), outbox'[f]) =>
            k \in Within(Without(m), outbox[f]) \/ k \in {Answer(m.to, m)}
      BY <1>4, <1>5, <1>6, <2>2, AddedFacts
    <3> QED BY <1>2, <1>5, <1>7, <2>2, <3>1
  <2> QED BY <2>1, <2>2
<1> QED BY <1>2, <1>3, <1>7
-----------------------------------------------------------------------------
(* The probe. *)

\* Who does not handle heartbeats never answers one.
LEMMA NoHeartbeatRespStays == ASSUME IInv, NoHeartbeatResp, [Next]_vars PROVE NoHeartbeatResp'
<1> SUFFICES ASSUME ~HeartbeatsHandled, NEW f \in Followers, NEW k \in Within(network', outbox'[f]),
                    k.type = "MsgHeartbeatResp"
             PROVE  \E g \in Followers : k \in Within(network, outbox[g])
  BY DEF NoHeartbeatResp
<1>1. DOMAIN outbox = Followers /\ IsABag(network) /\ \A g \in Followers : IsABag(outbox[g])
  BY Parts, Parts1 DEF FollowersOK, NetworkOK
<1>2. ASSUME outbox' = outbox, k \in BagToSet(network') => k \in BagToSet(network)
      PROVE  k \in Within(network, outbox[f])
  BY <1>2 DEF Within
<1>3. ASSUME NEW m \in BagToSet(network), m.type \in {"MsgAppResp", "MsgHeartbeatResp"},
             StepLeader(m, Without(m)) \/ StepDeposed(m, Without(m))
      PROVE  k \in Within(network, outbox[f])
  <2>1. IsABag(Without(m)) /\ BagToSet(Without(m)) \subseteq BagToSet(network)
    BY WithoutFacts
  <2>2. CASE StepAppResp(m, Without(m)) /\ m.type = "MsgAppResp"
    <3>1. /\ \A j \in BagToSet(network') :
               Answers(j) => j \in BagToSet(network)
          /\ UNCHANGED <<leading, leaderStorage, followers, faults, panicked>>
      BY <2>1, <2>2, StepAppRespKeeps
    <3> QED BY <3>1, <1>2 DEF followers, Answers
  <2>3. CASE StepHeartbeatResp(m, Without(m)) \/ StepDeposed(m, Without(m))
    BY <1>2, <2>1, <2>3 DEF StepHeartbeatResp, StepDeposed, followers
  <2> QED BY <1>3, <2>2, <2>3 DEF StepLeader
<1>4. ASSUME NEW h \in Followers, NEW l, NEW as, NEW net, BagToSet(net) \subseteq BagToSet(network),
             IsABag(net), HandledBy(h, l, as, net), \A j \in as : j.type # "MsgHeartbeatResp"
      PROVE  k \in Within(network, outbox[f])
  <2>1. network' = net
    BY <1>4 DEF HandledBy
  <2>2. /\ f # h => outbox'[f] = outbox[f]
        /\ f = h => outbox'[f] = outbox[f] (+) SetToBag(as)
    BY <1>4, HandledOutbox
  <2>3. CASE f # h
    BY <1>4, <2>1, <2>2, <2>3 DEF Within
  <2>4. CASE f = h
    <3>1. IsABag(SetToBag(as)) /\ BagToSet(SetToBag(as)) = as
      BY SetToBagFacts
    <3>2. BagToSet(outbox'[f]) = BagToSet(outbox[f]) \cup as
      BY <1>1, <2>2, <2>4, <3>1, BagSumFacts
    <3> QED BY <1>4, <2>1, <3>2 DEF Within
  <2> QED BY <2>3, <2>4
<1>5. ASSUME NEW m \in BagToSet(network), StepFollower(m, Without(m))
      PROVE  k \in Within(network, outbox[f])
  <2>1. IsABag(Without(m)) /\ BagToSet(Without(m)) \subseteq BagToSet(network)
    BY WithoutFacts
  <2>2. CASE m.type = "MsgApp"
    <3>1. /\ AppOK(m) /\ m.to \in Followers
          /\ HandledBy(m.to, LogAfter(m.to, m), {Answer(m.to, m)}, Without(m))
      BY <1>5, <2>2, AppIsHandled
    <3>2. \A j \in {Answer(m.to, m)} : j.type # "MsgHeartbeatResp"
      BY <3>1, AnswerSays
    <3> QED BY <1>4, <2>1, <3>1, <3>2
  <2>3. CASE m.type # "MsgApp"
    <3>1. m.to \in Followers
      BY <1>5, <2>3, HeartbeatIsHandled
    <3>2. PICK as : /\ HandledBy(m.to, log[m.to], as, Without(m))
                    /\ \A j \in as : j.type = "MsgHeartbeatResp" /\ HeartbeatsHandled
      BY <1>5, <2>3, HeartbeatIsHandled
    <3> QED BY <1>4, <2>1, <3>1, <3>2
  <2> QED BY <2>2, <2>3
<1>6. ASSUME NEW h \in Followers, ReceiveOldApp(h)
      PROVE  k \in Within(network, outbox[f])
  <2>1. PICK t \in OldTerms : \E m : AppFrom(m, t) /\ HandledBy(h, LogAfter(h, m), {}, network)
    BY <1>6, OldAppIsHandled
  <2>2. PICK m : HandledBy(h, LogAfter(h, m), {}, network)
    BY <2>1
  <2>3. \A j \in {} : j.type # "MsgHeartbeatResp"
    OBVIOUS
  <2> QED BY <1>1, <1>4, <2>2, <2>3
<1>7. ASSUME NEW h \in Followers, SaveAndSend(h)
      PROVE  k \in Within(network, outbox[f]) \/ k \in Within(network, outbox[h])
  <2>1. network' = network (+) outbox[h] /\ outbox' = [outbox EXCEPT ![h] = EmptyBag]
    BY <1>7, SavesAndSends
  <2>2. BagToSet(network') = BagToSet(network) \cup BagToSet(outbox[h])
    BY <1>1, <1>7, <2>1, BagSumFacts
  <2>3. outbox'[f] = outbox[f] \/ outbox'[f] = EmptyBag
    BY <1>1, <2>1
  <2> QED BY <2>2, <2>3, SetToBagFacts DEF Within
<1>8. ASSUME NEW h \in Followers, Restart(h)
      PROVE  k \in Within(network, outbox[f])
  <2>1. network' = network /\ outbox' = [outbox EXCEPT ![h] = EmptyBag]
    BY <1>8 DEF Restart
  <2>2. outbox'[f] = outbox[f] \/ outbox'[f] = EmptyBag
    BY <1>1, <2>1
  <2> QED BY <2>1, <2>2, SetToBagFacts DEF Within
<1>9. CASE Repeat \/ Lose
  <2>1. BagToSet(network') \subseteq BagToSet(network) /\ outbox' = outbox
    BY <1>9, RepeatKeeps, LoseKeeps DEF Repeat, Lose, followers
  <2> QED BY <1>2, <2>1
<1>10. CASE Beat
  <2> DEFINE B == {Heartbeat(g) : g \in Followers}
  <2>1. network' = network (+) SetToBag(B) /\ outbox' = outbox
    BY <1>10 DEF Beat, followers
  <2>2. \A j \in B : j.type = "MsgHeartbeat"
    BY DEF Heartbeat
  <2> HIDE DEF B
  <2>3. IsABag(SetToBag(B)) /\ BagToSet(SetToBag(B)) = B
    BY SetToBagFacts
  <2>4. BagToSet(network') = BagToSet(network) \cup B
    BY <1>1, <2>1, <2>3, BagSumFacts
  <2> QED BY <1>2, <2>1, <2>2, <2>4
<1>11. CASE CompactLeader \/ CheckQuorum \/ UNCHANGED vars
  <2>1. network' = network /\ outbox' = outbox
    BY <1>11, CompactLeaderKeeps DEF CheckQuorum, vars, leader, followers
  <2> QED BY <1>2, <2>1
<1> QED BY <1>3, <1>5, <1>6, <1>7, <1>8, <1>9, <1>10, <1>11, NextCases

\* TInv is inductive, given IInv.
LEMMA StepTInv == ASSUME IInv, TInv, [Next]_vars PROVE TInv'
<1>1. NoHeartbeatResp'
  BY NoHeartbeatRespStays DEF TInv
<1> SUFFICES ASSUME NEW f \in Followers PROVE Keeps(f)
  BY <1>1 DEF TInv, Keeps
<1>2. ASSUME NEW m \in BagToSet(network), m.type \in {"MsgAppResp", "MsgHeartbeatResp"},
             StepLeader(m, Without(m))
      PROVE  Keeps(f)
  <2>1. CASE m.type = "MsgAppResp"
    <3>1. StepAppResp(m, Without(m)) /\ leading
      BY <1>2, <2>1 DEF StepLeader
    <3>2. IsABag(Without(m)) /\ BagToSet(Without(m)) \subseteq BagToSet(network)
      BY WithoutFacts
    <3>3. UNCHANGED <<leading, leaderStorage, followers, faults, panicked>>
      BY <2>1, <3>1, <3>2, StepAppRespKeeps
    <3>4. progress'[f].state = progress[f].state
      BY <2>1, <3>1, AnswerKeepsState
    <3> SUFFICES ASSUME Probing(f)'
                 PROVE  Probing(f) /\ TokenOK(f, progress'[f], network', outbox'[f])
      BY DEF Keeps
    <3>5. Probing(f)
      BY <3>3, <3>4 DEF Probing, OneProbeAtATime, faults
    <3>6. TokenOK(f, progress[f], network, outbox[f])
      BY <3>5 DEF TInv
    <3>7. progress[f].state = "Probe" /\ (~HeartbeatsHandled \/ Followers = {f})
      BY <3>5 DEF Probing, OneProbeAtATime
    <3>8. TokenOK(f, progress'[f], network', outbox'[f])
      BY <2>1, <3>1, <3>6, <3>7, AnswerKeepsToken
    <3> QED BY <3>5, <3>8
  <2>2. CASE m.type = "MsgHeartbeatResp"
    <3>1. StepHeartbeatResp(m, Without(m))
      BY <1>2, <2>2 DEF StepLeader
    <3> QED BY <2>2, <3>1, HeartbeatRespIsCalm
  <2> QED BY <1>2, <2>1, <2>2
<1>3. ASSUME NEW m \in BagToSet(network), StepFollower(m, Without(m))
      PROVE  Keeps(f)
  BY <1>3, AppStepKeeps, HeartbeatStepIsCalm
<1>4. ASSUME NEW h \in Followers, SaveAndSend(h) \/ Restart(h) \/ ReceiveOldApp(h)
      PROVE  Keeps(f)
  BY <1>4, SaveAndSendIsCalm, RestartIsCalm, OldAppIsCalm
<1>5. CASE \/ \E m \in BagToSet(network) : StepDeposed(m, Without(m))
           \/ Lose \/ CompactLeader \/ UNCHANGED vars
  BY <1>5, NetworkIsCalm
<1>6. CASE Repeat \/ Beat
  BY <1>6, RepeatIsCalm, BeatIsCalm
<1>7. CASE CheckQuorum
  BY <1>7 DEF CheckQuorum, Keeps, Probing
<1> QED BY <1>2, <1>3, <1>4, <1>5, <1>6, <1>7, NextCases
\* At the start there is what becomeLeader sent: one message to each follower, at
\* most.
LEMMA InitTInv == ASSUME Init PROVE TInv
<1> DEFINE s == leaderStorage
           Sent(prs) == UNION {SendAppend(s, prs[f], f).messages : f \in Followers}
<1>1. IInv /\ LeaderOK(s) /\ LeaderLast \in Nat
  BY InitIInv, NoneAcknowledged, MeFacts
<1>2. PICK prs \in [Followers -> {NewProgress(LeaderLast, state) : state \in States}] :
        /\ progress = [f \in Followers |-> SendAppend(s, prs[f], f).progress]
        /\ network = SetToBag(Sent(prs))
  BY DEF Init
<1>3. PICK sent : sent = Sent(prs) /\ network = SetToBag(sent)
  BY <1>2
<1>4. ASSUME NEW f \in Followers
      PROVE  /\ GoodProgress(prs[f]) /\ prs[f].match = 0 /\ prs[f].next = LeaderLast
             /\ prs[f].probeSent = FALSE
  <2>1. PICK state \in States : prs[f] = NewProgress(LeaderLast, state)
    BY <1>2
  <2>2. PICK n \in 1 .. LeaderLast + 1 : n = LeaderLast
    BY MeFacts
  <2>3. state \in States \cup {"Probe"} /\ prs[f] = NewProgress(n, state)
    BY <2>1, <2>2
  <2>4. /\ GoodProgress(NewProgress(n, state)) /\ NewProgress(n, state).match = 0
        /\ NewProgress(n, state).next = n /\ NewProgress(n, state).probeSent = FALSE
    BY <2>3, NewProgressFacts
  <2> QED BY <2>2, <2>3, <2>4
<1>5. ASSUME NEW f \in Followers, NEW m \in SendAppend(s, prs[f], f).messages
      PROVE  m.type \in {"MsgApp", "MsgSnap"} /\ m.to = f
  <2>1. PICK p, r : p = prs[f] /\ r = SendAppend(s, p, f)
    OBVIOUS
  <2>2. GoodProgress(p)
    BY <1>4, <2>1
  <2>3. \A k \in r.messages : k.type \in {"MsgApp", "MsgSnap"} /\ k.to = f
    BY <1>1, <2>1, <2>2, SendAppendFacts
  <2> QED BY <1>5, <2>1, <2>3
<1>6. ASSUME NEW m \in sent
      PROVE  /\ m.type \in {"MsgApp", "MsgSnap"}
             /\ m.to \in Followers => m \in SendAppend(s, prs[m.to], m.to).messages
  <2>1. PICK f \in Followers : m \in SendAppend(s, prs[f], f).messages
    BY <1>3
  <2> QED BY <2>1, <1>5
<1>7. /\ BagToSet(network) = sent /\ \A f \in Followers : outbox[f] = EmptyBag
      /\ BagToSet(EmptyBag) = {}
  BY <1>3, SetToBagFacts DEF Init
<1>8. \A f \in Followers : \A m \in Within(network, outbox[f]) : m \in sent
  BY <1>7 DEF Within
<1>9. NoHeartbeatResp
  BY <1>6, <1>8 DEF NoHeartbeatResp
<1>10. ASSUME NEW f \in Followers, progress[f].state = "Probe"
       PROVE  TokenOK(f, progress[f], network, outbox[f])
  <2>1. PICK p, r : p = prs[f] /\ r = SendAppend(s, p, f)
    OBVIOUS
  <2>2. progress[f] = r.progress
    BY <1>2, <2>1
  <2>10. GoodProgress(p) /\ p.match = 0 /\ p.next = LeaderLast /\ p.probeSent = FALSE
    BY <1>4, <2>1
  <2>3. r.progress.state = p.state
    BY <1>1, <2>1, <2>10, SendAppendFacts
  <2>4. p.state = "Probe"
    BY <1>10, <2>2, <2>3
  <2>5. /\ r.progress.match = p.match /\ r.progress.next = p.next
        /\ \/ /\ r.progress.probeSent = p.probeSent
              /\ \A m \in r.messages :
                   \/ m.type = "MsgSnap"
                   \/ /\ m.type = "MsgApp" /\ m.ents = <<>> /\ m.index = LeaderLast
                      /\ p.next = LeaderLast + 1
           \/ /\ r.progress.probeSent /\ p.next # LeaderLast + 1
              /\ \E m : r.messages = {m} /\ m.type = "MsgApp" /\ m.ents # <<>>
    BY <1>1, <2>1, <2>4, <2>10, SendToken
  <2>6. progress[f].match = 0 /\ progress[f].next = LeaderLast /\ LeaderLast # LeaderLast + 1
    BY <1>1, <2>2, <2>5, <2>10
  <2>7. ASSUME NEW m \in Within(network, outbox[f]), Token(f, progress[f].match, m) \/ AtTheEnd(f, m)
        PROVE  m.type = "MsgApp" /\ m \in r.messages /\ m \in sent
    BY <1>6, <1>8, <2>1, <2>7 DEF Token, AtTheEnd
  <2>8. CASE \A m \in r.messages : m.type = "MsgSnap"
    <3>1. NoToken(f, progress[f].match, network, outbox[f])
      BY <2>7, <2>8 DEF NoToken
    <3> QED BY <2>6, <2>7, <2>8, <3>1 DEF TokenOK, OneToken, NoToken
  <2>9. CASE r.progress.probeSent /\ \E m : r.messages = {m} /\ m.type = "MsgApp" /\ m.ents # <<>>
    <3>1. PICK x : r.messages = {x} /\ x.type = "MsgApp" /\ x.ents # <<>>
      BY <2>9
    <3>2. ASSUME NEW m \in Within(network, outbox[f]), Token(f, progress[f].match, m)
          PROVE  m = x /\ Count(network, outbox[f], m) = 1
      <4>1. m = x /\ m \in sent
        BY <2>7, <3>1, <3>2
      <4>2. Copies(m, SetToBag(sent)) = 1 /\ Copies(m, EmptyBag) = 0
        BY <4>1, CopiesInSet, CopiesFacts, SetToBagFacts
      <4>3. Copies(m, network) = 1 /\ Copies(m, outbox[f]) = 0
        BY <1>3, <1>7, <4>2
      <4> QED BY <4>1, <4>3 DEF Count
    <3>3. OneToken(f, progress[f].match, network, outbox[f])
      BY <3>2 DEF OneToken
    <3>4. \A m \in Within(network, outbox[f]) : ~AtTheEnd(f, m)
      BY <2>7, <3>1 DEF AtTheEnd
    <3> QED BY <2>2, <2>6, <2>9, <3>3, <3>4 DEF TokenOK
  <2> QED BY <2>5, <2>6, <2>8, <2>9, <2>10
<1> QED BY <1>9, <1>10 DEF TInv, Probing

\* What the token is worth: a probe or an answer that would move Match.
LEMMA TInvOneProbe == ASSUME IInv, TInv PROVE OneProbe
<1> SUFFICES ASSUME repeated = 0, leading, ~HeartbeatsHandled,
                    NEW f \in Followers, progress[f].state = "Probe"
             PROVE  /\ \A m \in Unanswered(f) : Unanswered(f) = {m} /\ network[m] = 1
                    /\ Unanswered(f) # {} => progress[f].probeSent
  BY DEF OneProbe
<1> DEFINE pr == progress[f]
           o == outbox[f]
<1>1. TokenOK(f, pr, network, o)
  BY DEF TInv, Probing, OneProbeAtATime
<1>2. pr.match \in Nat /\ LeaderLast \in Nat /\ IsABag(network) /\ IsABag(o)
  BY Parts, Parts1, MeFacts DEF NetworkOK
<1>3. ASSUME NEW m \in Unanswered(f)
      PROVE  m \in BagToSet(network) /\ m \in Within(network, o) /\ Token(f, pr.match, m)
  <2>1. m \in BagToSet(network) /\ m \in Within(network, o)
    BY <1>3 DEF Unanswered, Within
  <2>2. CASE m.type = "MsgApp" /\ m.to = f /\ m.ents # <<>>
    BY <2>1, <2>2 DEF Token
  <2>3. CASE m.type = "MsgAppResp" /\ m.from = f /\ Updates(pr, m.index)
    <3>1. pr.match < m.index
      BY <2>3 DEF Updates
    <3>2. ~AtTheEnd(f, m)
      BY <1>1, <1>2, <2>1, <3>1 DEF TokenOK
    <3> QED BY <2>1, <2>3, <3>1, <3>2 DEF Token, AtTheEnd
  <2> QED BY <1>3, <2>2, <2>3 DEF Unanswered
<1> HIDE DEF pr, o
<1>4. ASSUME NEW m \in Unanswered(f)
      PROVE  Unanswered(f) = {m} /\ network[m] = 1
  <2>1. /\ Count(network, o, m) = 1
        /\ \A k \in Within(network, o) : Token(f, pr.match, k) => k = m
    BY <1>1, <1>3, <1>4 DEF TokenOK, OneToken
  <2>2. /\ Copies(m, network) \in Nat /\ Copies(m, o) \in Nat /\ Copies(m, network) > 0
        /\ Copies(m, network) = network[m]
    BY <1>2, <1>3, <1>4, CopiesFacts
  <2>3. network[m] = 1
    BY <2>1, <2>2 DEF Count
  <2>4. \A k \in Unanswered(f) : k = m
    BY <1>3, <2>1
  <2> QED BY <1>4, <2>3, <2>4
<1>5. Unanswered(f) # {} => pr.probeSent
  BY <1>1, <1>3 DEF TokenOK, NoToken
<1> QED BY <1>4, <1>5 DEF pr

\* Without repetitions, and while the followers ignore heartbeats, the leader
\* never has two probes of one follower under way, nor waits for none: whatever
\* its log, the window, the followers and the faults are.
THEOREM OneProbeHolds == Spec => []OneProbe
<1>1. Init => IInv /\ TInv
  BY InitIInv, InitTInv
<1>2. IInv /\ TInv /\ [Next]_vars => (IInv /\ TInv)'
  BY StepIInv, StepTInv
<1>3. IInv /\ TInv => OneProbe
  BY TInvOneProbe
<1> QED BY <1>1, <1>2, <1>3, PTL DEF Spec
-----------------------------------------------------------------------------
(* Next stays behind Match. *)

\* A follower that refuses a MsgApp of this leader lacks an entry at or before
\* its index; so the leader, if what f has acknowledged is kept, learns nothing
\* that contradicts it.
LEMMA RefusalIsNew ==
  ASSUME IInv, DInv, NEW f \in Followers, NEW m, AppOK(m), Answer(f, m).reject
  PROVE  /\ progress[f].match < Answer(f, m).index
         /\ progress[f].match <= Answer(f, m).hint
<1> DEFINE s == storage[f]
           l == log[f]
<1>1. /\ Answer(f, m).index = m.index /\ Answer(f, m).hint = LastIndex(s, l)
      /\ ~AlreadyCommitted(f, m) /\ ~Matches(f, m)
  BY AnswerSays
<1>2. PICK n \in 0 .. LeaderLast : n = progress[f].match
  BY Parts1
<1>3. n <= LastIndex(s, l) /\ Same(Over(s, l.offset, l.unstable), LeaderLog[Me], n)
  BY <1>2 DEF DInv, Kept, Present
<1>4. /\ StorageOK(s, hardCommit[f]) /\ RaftLogOK(s, l) /\ s.index = 0
      /\ LastIndex(s, l) \in Nat
  BY Parts1, FollowerFacts
<1>5. /\ n \in Nat /\ m.index \in Nat /\ m.index <= LeaderLast /\ LeaderLast = Len(LeaderLog[Me])
      /\ LeaderLog[Me] \in Seq(Terms) /\ m.logTerm = LeaderTerm(Me, m.index)
  BY <1>2, MeFacts, LeadersAssumption DEF AppOK, LeaderLast
<1>6. ~MatchTerm(s, l, m.index, m.logTerm)
  BY <1>1 DEF Matches
<1> HIDE DEF s, l
<1>7. CASE m.index = 0
  <2>1. Term(s, l, m.index) = 0
    BY <1>4, <1>5, <1>7, TermFacts
  <2> QED BY <1>5, <1>6, <1>7, <2>1 DEF MatchTerm, LeaderTerm
<1>8. CASE m.index # 0 /\ m.index <= n
  <2>1. /\ m.index \in 1 .. n /\ ~(m.index = 0 \/ m.index < s.index \/ m.index > LastIndex(s, l))
    BY <1>3, <1>4, <1>5, <1>8
  <2>2. Term(s, l, m.index) = Over(s, l.offset, l.unstable)[m.index]
    BY <1>4, <1>5, <2>1, TermFacts
  <2>3. Term(s, l, m.index) = m.logTerm
    BY <1>3, <1>5, <1>8, <2>1, <2>2 DEF Same, LeaderTerm
  <2> QED BY <1>6, <2>3 DEF MatchTerm
<1>9. CASE n < m.index
  BY <1>1, <1>2, <1>3, <1>9
<1> QED BY <1>5, <1>7, <1>8, <1>9

\* Nothing to see, nothing to lose.
LEMMA CalmKeepsRejections ==
  ASSUME RInv, NEW f \in Followers, Calm(f), Keeps(f)
  PROVE  /\ Probing(f)' => RejectionsOK(f, progress'[f], network', outbox'[f])
         /\ ~leading' => progress'[f].match < progress'[f].next
<1>1. ASSUME Probing(f)'
      PROVE  RejectionsOK(f, progress'[f], network', outbox'[f])
  <2>1. RejectionsOK(f, progress[f], network, outbox[f])
    BY <1>1 DEF Keeps, RInv
  <2> QED BY <2>1 DEF RejectionsOK, Calm
<1>2. ~leading' => progress'[f].match < progress'[f].next
  BY DEF Calm, RInv
<1> QED BY <1>1, <1>2

\* An answer of f that moves Match was the one there was; a refusal puts Next
\* where the follower still lacks something.
LEMMA AnswerKeepsRejections ==
  ASSUME IInv, TInv, RInv, NEW m \in BagToSet(network), m.type = "MsgAppResp",
         StepAppResp(m, Without(m)), NEW f \in Followers, Probing(f)
  PROVE  RejectionsOK(f, progress'[f], network', outbox'[f])
<1> DEFINE pr == progress[f]
           o == outbox[f]
<1>1. TokenOK(f, pr, network, o) /\ RejectionsOK(f, pr, network, o)
  BY DEF TInv, RInv
<1>2. progress[f].state = "Probe" /\ (~HeartbeatsHandled \/ Followers = {f})
  BY DEF Probing, OneProbeAtATime
<1>3. /\ \A k \in Within(network', outbox'[f]) :
            k.type \in {"MsgApp", "MsgSnap"} \/ k \in Within(network, outbox[f])
      /\ \/ progress'[f].match = progress[f].match /\ progress'[f].next = progress[f].next
         \/ /\ m.from = f /\ m.reject /\ progress'[f].match = progress[f].match
            /\ m.index > 0 => progress'[f].next = m.index \/ progress'[f].next = m.hint + 1
         \/ /\ m.from = f /\ ~m.reject /\ progress[f].match < m.index
            /\ progress'[f].match = m.index /\ progress'[f].match < progress'[f].next
  BY <1>1, <1>2, AnswerKeepsToken
<1>4. /\ m \in Within(network, o) /\ pr.match \in Nat /\ LeaderLast \in Nat
      /\ m.index \in 0 .. LeaderLast /\ m.index \in Nat /\ m.hint \in Nat
  BY Parts1, MeFacts, WithinOK DEF Within
<1> HIDE DEF pr, o
<1>5. \A k \in Within(network', outbox'[f]) : k.type = "MsgAppResp" => k \in Within(network, o)
  BY <1>3 DEF o
<1>6. CASE progress'[f].match = pr.match /\ progress'[f].next = pr.next
  BY <1>1, <1>5, <1>6 DEF RejectionsOK
<1>7. CASE /\ m.from = f /\ m.reject /\ progress'[f].match = pr.match
           /\ m.index > 0 => progress'[f].next = m.index \/ progress'[f].next = m.hint + 1
  <2>1. pr.match < m.index /\ pr.match <= m.hint
    BY <1>1, <1>4, <1>7 DEF RejectionsOK
  <2>2. pr.match < progress'[f].next
    BY <1>4, <1>7, <2>1
  <2> QED BY <1>1, <1>5, <1>7, <2>2 DEF RejectionsOK
<1>8. CASE /\ m.from = f /\ ~m.reject /\ pr.match < m.index
           /\ progress'[f].match = m.index /\ progress'[f].match < progress'[f].next
  <2>1. ASSUME NEW k \in Within(network, o), k.type = "MsgAppResp", k.from = f, k.reject
        PROVE  FALSE
    <3>1. Token(f, pr.match, m)
      BY <1>8 DEF Token
    <3>2. CASE k.index < LeaderLast
      <4>1. Token(f, pr.match, k)
        BY <2>1, <3>2 DEF Token
      <4>2. k = m
        BY <1>1, <1>4, <3>1, <4>1 DEF TokenOK, OneToken
      <4> QED BY <1>8, <2>1, <4>2
    <3>3. CASE ~(k.index < LeaderLast)
      <4>1. pr.match = LeaderLast
        BY <1>1, <2>1, <3>3 DEF TokenOK, AtTheEnd
      <4> QED BY <1>4, <1>8, <4>1
    <3> QED BY <3>2, <3>3
  <2> QED BY <1>5, <1>8, <2>1 DEF RejectionsOK
<1> QED BY <1>3, <1>6, <1>7, <1>8 DEF pr

\* RInv is inductive, given the others.
LEMMA StepRInv == ASSUME IInv, DInv, TInv, RInv, [Next]_vars PROVE RInv'
<1> SUFFICES ASSUME NEW f \in Followers
             PROVE  /\ Probing(f)' => RejectionsOK(f, progress'[f], network', outbox'[f])
                    /\ ~leading' => progress'[f].match < progress'[f].next
  BY DEF RInv
<1>1. ASSUME NEW m \in BagToSet(network), m.type \in {"MsgAppResp", "MsgHeartbeatResp"},
             StepLeader(m, Without(m))
      PROVE  /\ Probing(f)' => RejectionsOK(f, progress'[f], network', outbox'[f])
             /\ ~leading' => progress'[f].match < progress'[f].next
  <2>1. CASE m.type = "MsgAppResp"
    <3>1. StepAppResp(m, Without(m)) /\ leading
      BY <1>1, <2>1 DEF StepLeader
    <3>2. IsABag(Without(m)) /\ BagToSet(Without(m)) \subseteq BagToSet(network)
      BY WithoutFacts
    <3>3. UNCHANGED <<leading, leaderStorage, followers, faults, panicked>>
      BY <2>1, <3>1, <3>2, StepAppRespKeeps
    <3>4. progress'[f].state = progress[f].state
      BY <2>1, <3>1, AnswerKeepsState
    <3>5. Probing(f)' => Probing(f)
      BY <3>3, <3>4 DEF Probing, OneProbeAtATime, faults
    <3> QED BY <2>1, <3>1, <3>3, <3>5, AnswerKeepsRejections
  <2>2. CASE m.type = "MsgHeartbeatResp"
    <3>1. StepHeartbeatResp(m, Without(m))
      BY <1>1, <2>2 DEF StepLeader
    <3> QED BY <2>2, <3>1, HeartbeatRespIsCalm, CalmKeepsRejections
  <2> QED BY <1>1, <2>1, <2>2
<1>2. ASSUME NEW m \in BagToSet(network), StepFollower(m, Without(m)), m.type = "MsgApp"
      PROVE  /\ Probing(f)' => RejectionsOK(f, progress'[f], network', outbox'[f])
             /\ ~leading' => progress'[f].match < progress'[f].next
  <2>1. /\ Keeps(f) /\ leading' = leading /\ progress' = progress
        /\ \A k \in Within(network', outbox'[f]) :
             \/ k \in Within(network, outbox[f])
             \/ f = m.to /\ k = Answer(m.to, m)
    BY <1>2, AppStepKeeps
  <2>2. AppOK(m)
    BY <1>2, AppIsHandled
  <2>3. ~leading' => progress'[f].match < progress'[f].next
    BY <2>1 DEF RInv
  <2>4. ASSUME Probing(f)'
        PROVE  RejectionsOK(f, progress'[f], network', outbox'[f])
    <3>1. RejectionsOK(f, progress[f], network, outbox[f])
      BY <2>1, <2>4 DEF Keeps, RInv
    <3>2. Answer(f, m).reject =>
            progress[f].match < Answer(f, m).index /\ progress[f].match <= Answer(f, m).hint
      BY <2>2, RefusalIsNew
    <3> QED BY <2>1, <3>1, <3>2 DEF RejectionsOK
  <2> QED BY <2>3, <2>4
<1>3. ASSUME Calm(f), Keeps(f)
      PROVE  /\ Probing(f)' => RejectionsOK(f, progress'[f], network', outbox'[f])
             /\ ~leading' => progress'[f].match < progress'[f].next
  BY <1>3, CalmKeepsRejections
<1>4. ASSUME NEW m \in BagToSet(network), StepFollower(m, Without(m)), m.type # "MsgApp"
      PROVE  Calm(f) /\ Keeps(f)
  BY <1>4, HeartbeatStepIsCalm
<1>5. ASSUME NEW h \in Followers, SaveAndSend(h) \/ Restart(h) \/ ReceiveOldApp(h)
      PROVE  Calm(f) /\ Keeps(f)
  BY <1>5, SaveAndSendIsCalm, RestartIsCalm, OldAppIsCalm
<1>6. ASSUME \/ \E m \in BagToSet(network) : StepDeposed(m, Without(m))
             \/ Lose \/ CompactLeader \/ Repeat \/ Beat \/ UNCHANGED vars
      PROVE  Calm(f) /\ Keeps(f)
  BY <1>6, NetworkIsCalm, RepeatIsCalm, BeatIsCalm
<1>7. CASE CheckQuorum
  <2>1. progress' = [g \in Followers |-> NewProgress(LeaderLast + 1, "Probe")] /\ ~leading'
    BY <1>7 DEF CheckQuorum
  <2>2. progress'[f].match = 0 /\ progress'[f].next = LeaderLast + 1
    BY <2>1 DEF NewProgress
  <2> QED BY <2>1, <2>2, MeFacts DEF Probing
<1> QED BY <1>1, <1>2, <1>3, <1>4, <1>5, <1>6, <1>7, NextCases

\* Nobody has refused anything at the start.
LEMMA InitRInv == ASSUME Init PROVE RInv
<1> SUFFICES ASSUME NEW f \in Followers
             PROVE  RejectionsOK(f, progress[f], network, outbox[f])
  BY DEF RInv, Init
<1>1. /\ progress[f].match = 0 /\ LeaderLast <= progress[f].next /\ progress[f].next \in Nat
      /\ LeaderLast \in Nat \ {0}
  BY NoneAcknowledged, MeFacts, ProgressFacts
<1>2. \A m \in BagToSet(network) : m.type \in {"MsgApp", "MsgSnap"}
  BY NoneAcknowledged
<1>3. BagToSet(outbox[f]) = {}
  BY SetToBagFacts DEF Init
<1> QED BY <1>1, <1>2, <1>3 DEF RejectionsOK, Within

\* Match is less than Next: of a follower in StateReplicate always, and of one in
\* StateProbe while RInv speaks of it.
LEMMA RInvNext == ASSUME IInv, RInv PROVE NextIsAfterMatch
<1> SUFFICES ASSUME NEW f \in Followers, progress[f].state = "Probe" => OneProbeAtATime(f)
             PROVE  progress[f].match < progress[f].next
  BY DEF NextIsAfterMatch
<1>1. progress[f].state \in {"Probe", "Replicate"}
  BY Parts1, ProgressFacts, ReplicationAssumption
<1>2. CASE progress[f].state = "Replicate"
  BY <1>2, Parts1 DEF ProgressAt
<1>3. CASE progress[f].state = "Probe" /\ leading
  BY <1>3 DEF RInv, Probing, RejectionsOK
<1>4. CASE ~leading
  BY <1>4 DEF RInv
<1> QED BY <1>1, <1>2, <1>3, <1>4

\* Losses, crashes and reordered answers never take Next back to Match: what a
\* rejection says of the follower is still so when MaybeDecrTo looks at it.  Under
\* the hypothesis without which what was acknowledged may be cut off again.
THEOREM NextIsAfterMatchHolds == ASSUME OldLeadersAgree PROVE Spec => []NextIsAfterMatch
<1>1. Init => IInv /\ DInv /\ TInv /\ RInv
  BY InitIInv, InitDInv, InitTInv, InitRInv
<1>2. IInv /\ DInv /\ TInv /\ RInv /\ [Next]_vars => (IInv /\ DInv /\ TInv /\ RInv)'
  BY StepIInv, StepDInv, StepTInv, StepRInv
<1>3. IInv /\ RInv => NextIsAfterMatch
  BY RInvNext
<1> QED BY <1>1, <1>2, <1>3, PTL DEF Spec
=============================================================================
