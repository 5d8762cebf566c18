----------------------- MODULE UncommittedSizeProofs -----------------------
(***************************************************************************)
(* The accounting of the uncommitted size, for every limit, payload and    *)
(* length of the tail.  That the counter never overestimates is not        *)
(* inductive: a follower's tail shrinks without any accounting.  It is     *)
(* with what reset sees to, that only a leader counts anything.  That it   *)
(* passes the limit by one proposal at most is inductive alone, once the   *)
(* sizes are numbers.                                                      *)
(***************************************************************************)
EXTENDS UncommittedSize, TLAPS

\* The invariant without leading, whose value is a Boolean.
Sizes ==
  /\ maxUncommittedSize \in Limits
  /\ uncommittedSize \in Nat /\ tail \in Nat
  /\ uncommittedSize <= tail /\ tail <= MaxTail

OnlyLeadersCount == leading \/ uncommittedSize = 0

IInv == Sizes /\ leading \in BOOLEAN /\ OnlyLeadersCount

\* What is counted is within the limit, or no more than one payload.
Overshoots(size, limit) == size <= limit \/ \E s \in Payloads : size <= s

LEMMA InitEstablishes == Init => IInv
<1> SUFFICES ASSUME Init
             PROVE  IInv
  OBVIOUS
<1>1. maxUncommittedSize \in Limits /\ uncommittedSize = 0 /\ tail \in 0 .. MaxTail
  BY DEF Init
<1>2. Sizes
  BY <1>1, UncommittedSizeAssumption DEF Sizes
<1>3. leading = FALSE
  BY Zenon DEF Init
<1>4. leading \in BOOLEAN
  BY <1>3, Zenon
<1> QED
  BY <1>1, <1>2, <1>4, Zenon DEF IInv, OnlyLeadersCount

\* A leader appends what is not refused, and counts it.
LEMMA AppendPreserves ==
  ASSUME IInv, NEW s \in Payloads, AppendEntry(s)
  PROVE  IInv'
<1>1. Sizes
  BY Zenon DEF IInv
<1>2. CASE Refuses(s)
  <2>1. UNCHANGED vars
    BY <1>2, Zenon DEF AppendEntry
  <2> QED
    BY <2>1, Zenon DEF IInv, Sizes, OnlyLeadersCount, vars
<1>3. CASE ~Refuses(s)
  <2>1. leading /\ leading' = leading
    BY <1>3, Zenon DEF AppendEntry
  <2>2. /\ tail + s <= MaxTail
        /\ uncommittedSize' = uncommittedSize + s /\ tail' = tail + s
        /\ maxUncommittedSize' = maxUncommittedSize
    BY <1>3, Zenon DEF AppendEntry
  <2>3. s \in Nat
    BY UncommittedSizeAssumption
  <2>4. Sizes'
    BY <1>1, <2>2, <2>3 DEF Sizes
  <2> QED
    BY <2>1, <2>4, Zenon DEF IInv, OnlyLeadersCount
<1> QED
  BY <1>2, <1>3, Zenon

\* What is committed leaves the tail, and the counter as far as it goes.
LEMMA CommitPreserves ==
  ASSUME IInv, NEW s \in 0 .. tail, Commit(s)
  PROVE  IInv'
<1>1. Sizes /\ OnlyLeadersCount /\ leading \in BOOLEAN
  BY Zenon DEF IInv
<1>2. leading' = leading
  BY Zenon DEF Commit
<1>3. /\ tail' = tail - s /\ uncommittedSize' = Reduced(s)
      /\ maxUncommittedSize' = maxUncommittedSize
  BY Zenon DEF Commit
<1>4. Sizes'
  BY <1>1, <1>3, UncommittedSizeAssumption DEF Sizes, Reduced
<1>5. uncommittedSize = 0 => uncommittedSize' = 0
  BY <1>1, <1>3 DEF Sizes, Reduced
<1> QED
  BY <1>1, <1>2, <1>4, <1>5, Zenon DEF IInv, OnlyLeadersCount

\* reset, on either side of an election.
LEMMA ElectionPreserves ==
  ASSUME IInv, BecomeLeader \/ BecomeFollower
  PROVE  IInv'
<1>1. /\ uncommittedSize' = 0
      /\ maxUncommittedSize' = maxUncommittedSize /\ tail' = tail
  BY Zenon DEF BecomeLeader, BecomeFollower
<1>2. Sizes
  BY Zenon DEF IInv
<1>3. Sizes'
  BY <1>1, <1>2 DEF Sizes
<1>4. leading' = TRUE \/ leading' = FALSE
  BY Zenon DEF BecomeLeader, BecomeFollower
<1>5. leading' \in BOOLEAN
  BY <1>4, Zenon
<1> QED
  BY <1>1, <1>3, <1>5, Zenon DEF IInv, OnlyLeadersCount

\* A follower has counted nothing: whatever becomes of its tail is enough.
LEMMA FollowerPreserves ==
  ASSUME IInv, FollowerAppends
  PROVE  IInv'
<1>1. /\ uncommittedSize = 0 /\ uncommittedSize' = 0
      /\ leading \in BOOLEAN /\ leading' = leading
  BY Zenon DEF FollowerAppends, IInv, OnlyLeadersCount
<1>2. tail' \in 0 .. MaxTail /\ maxUncommittedSize' = maxUncommittedSize
  BY Zenon DEF FollowerAppends
<1>3. Sizes
  BY Zenon DEF IInv
<1>4. Sizes'
  BY <1>1, <1>2, <1>3, UncommittedSizeAssumption DEF Sizes
<1> QED
  BY <1>1, <1>4, Zenon DEF IInv, OnlyLeadersCount

LEMMA NextPreserves == IInv /\ [Next]_vars => IInv'
<1>1. ASSUME IInv, UNCHANGED vars
      PROVE  IInv'
  BY <1>1, Zenon DEF IInv, Sizes, OnlyLeadersCount, vars
<1> QED
  BY <1>1, AppendPreserves, CommitPreserves, ElectionPreserves, FollowerPreserves DEF Next

LEMMA Invariance == Spec => []IInv
BY InitEstablishes, NextPreserves, PTL DEF Spec

\* The counter and the tail stay in their types: no sum of reduce and increase
\* wraps around 2^64, for every limit and every payload.
THEOREM UncommittedSizeTypeCorrect == Spec => []TypeOK
<1>1. IInv => TypeOK
  BY UncommittedSizeAssumption DEF IInv, Sizes, TypeOK
<1> QED
  BY <1>1, Invariance, PTL

\* raft.go, reduceUncommittedSize: the counter never exceeds what really lies
\* behind the commit index, through every order of proposals, commits and
\* changes of leader.
THEOREM UncommittedSizeNeverOverestimates == Spec => []NeverOverestimates
<1>1. IInv => NeverOverestimates
  BY DEF IInv, Sizes, NeverOverestimates
<1> QED
  BY <1>1, Invariance, PTL

\* A proposal that is not refused fits, or is the only one counted.
LEMMA AppendOvershoots ==
  ASSUME Sizes, NEW s \in Payloads, AppendEntry(s),
         Overshoots(uncommittedSize, maxUncommittedSize)
  PROVE  Overshoots(uncommittedSize', maxUncommittedSize')
<1>1. s \in Nat /\ uncommittedSize \in Nat /\ maxUncommittedSize \in Nat
  BY UncommittedSizeAssumption DEF Sizes
<1>2. CASE Refuses(s)
  <2>1. UNCHANGED vars
    BY <1>2, Zenon DEF AppendEntry
  <2> QED
    BY <2>1, Zenon DEF vars
<1>3. CASE ~Refuses(s)
  <2>1. uncommittedSize' = uncommittedSize + s /\ maxUncommittedSize' = maxUncommittedSize
    BY <1>3, Zenon DEF AppendEntry
  <2>2. uncommittedSize + s <= maxUncommittedSize \/ uncommittedSize + s <= s
    BY <1>1, <1>3 DEF Refuses
  <2> QED
    BY <2>1, <2>2, Zenon DEF Overshoots
<1> QED
  BY <1>2, <1>3, Zenon

\* Every other step counts no more than before, against the same limit.
LEMMA OtherStepsCountNoMore ==
  ASSUME Sizes, \/ \E s \in 0 .. tail : Commit(s)
                \/ BecomeLeader \/ BecomeFollower \/ FollowerAppends \/ UNCHANGED vars
  PROVE  /\ uncommittedSize' \in Nat /\ uncommittedSize' <= uncommittedSize
         /\ maxUncommittedSize' = maxUncommittedSize
<1>1. uncommittedSize \in Nat /\ tail \in Nat
  BY DEF Sizes
<1>2. ASSUME NEW s \in 0 .. tail, Commit(s)
      PROVE  /\ uncommittedSize' \in Nat /\ uncommittedSize' <= uncommittedSize
             /\ maxUncommittedSize' = maxUncommittedSize
  <2>1. uncommittedSize' = Reduced(s) /\ maxUncommittedSize' = maxUncommittedSize
    BY <1>2, Zenon DEF Commit
  <2> QED
    BY <1>1, <2>1 DEF Reduced
<1>3. CASE BecomeLeader \/ BecomeFollower
  <2>1. uncommittedSize' = 0 /\ maxUncommittedSize' = maxUncommittedSize
    BY <1>3, Zenon DEF BecomeLeader, BecomeFollower
  <2> QED
    BY <1>1, <2>1
<1>4. CASE FollowerAppends \/ UNCHANGED vars
  <2>1. uncommittedSize' = uncommittedSize /\ maxUncommittedSize' = maxUncommittedSize
    BY <1>4, Zenon DEF FollowerAppends, vars
  <2> QED
    BY <1>1, <2>1
<1> QED
  BY <1>2, <1>3, <1>4, Zenon

LEMMA LessOvershoots ==
  ASSUME NEW a \in Nat, NEW b \in Nat, NEW limit \in Nat, a <= b, Overshoots(b, limit)
  PROVE  Overshoots(a, limit)
BY UncommittedSizeAssumption DEF Overshoots

LEMMA NextOvershoots ==
  ASSUME Sizes, [Next]_vars, Overshoots(uncommittedSize, maxUncommittedSize)
  PROVE  Overshoots(uncommittedSize', maxUncommittedSize')
<1>1. CASE \E s \in Payloads : AppendEntry(s)
  BY <1>1, AppendOvershoots
<1>2. CASE \/ \E s \in 0 .. tail : Commit(s)
           \/ BecomeLeader \/ BecomeFollower \/ FollowerAppends \/ UNCHANGED vars
  <2>1. /\ uncommittedSize' \in Nat /\ uncommittedSize' <= uncommittedSize
        /\ maxUncommittedSize' = maxUncommittedSize
    BY <1>2, OtherStepsCountNoMore, Zenon
  <2>2. uncommittedSize \in Nat /\ maxUncommittedSize \in Nat
    BY UncommittedSizeAssumption DEF Sizes
  <2>3. Overshoots(uncommittedSize', maxUncommittedSize)
    BY <2>1, <2>2, LessOvershoots
  <2> QED
    BY <2>1, <2>3, Zenon
<1> QED
  BY <1>1, <1>2, Zenon DEF Next

\* raft.go, increaseUncommittedSize: for every limit and every set of payloads a
\* leader counts at most one proposal past its limit.
THEOREM UncommittedSizeOvershoots == Spec => []OvershootIsOneProposal
<1> DEFINE I == IInv /\ Overshoots(uncommittedSize, maxUncommittedSize)
<1>1. Init => I
  <2> SUFFICES ASSUME Init PROVE Overshoots(uncommittedSize, maxUncommittedSize)
    BY InitEstablishes, Zenon
  <2>1. uncommittedSize = 0 /\ maxUncommittedSize \in Nat
    BY UncommittedSizeAssumption DEF Init
  <2> QED
    BY <2>1 DEF Overshoots
<1>2. I /\ [Next]_vars => I'
  <2> SUFFICES ASSUME I, [Next]_vars PROVE I'
    OBVIOUS
  <2>1. IInv'
    BY NextPreserves, Zenon
  <2>2. Sizes
    BY Zenon DEF IInv
  <2>3. Overshoots(uncommittedSize', maxUncommittedSize')
    BY <2>2, NextOvershoots, Zenon
  <2> QED
    BY <2>1, <2>3, Zenon
<1>3. I => OvershootIsOneProposal
  BY Zenon DEF Overshoots, OvershootIsOneProposal
<1> QED
  BY <1>1, <1>2, <1>3, PTL DEF Spec
=============================================================================
