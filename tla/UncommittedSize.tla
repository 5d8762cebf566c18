-------------------------- MODULE UncommittedSize --------------------------
(***************************************************************************)
(* raft.go: the accounting of the payload a leader has appended and not    *)
(* yet seen committed, uncommittedSize, beside what really lies behind the *)
(* commit index, tail.  Only sums matter, so entries are sizes here; the   *)
(* empty entry of a new leader has size 0.                                 *)
(*                                                                         *)
(* reduceUncommittedSize has becomeLeader as its only caller so far.       *)
(* Commit is the caller its comment speaks of, which reports every entry   *)
(* that gets committed.  A follower commits, appends and truncates without *)
(* any accounting.                                                         *)
(***************************************************************************)
EXTENDS Integers

CONSTANTS
  Limits,    \* Config.MaxUncommittedEntriesSize
  Payloads,  \* the size of what one appendEntry is given
  MaxTail,   \* bound on the uncommitted payload
  UintSize   \* 2^64, in which the sizes are counted

ASSUME UncommittedSizeAssumption ==
  /\ Limits \subseteq Nat /\ Payloads \subseteq Nat
  /\ MaxTail \in Nat /\ UintSize \in Nat /\ MaxTail < UintSize

VARIABLES maxUncommittedSize, uncommittedSize, tail, leading

vars == <<maxUncommittedSize, uncommittedSize, tail, leading>>

Init ==
  /\ maxUncommittedSize \in Limits
  /\ uncommittedSize = 0 /\ tail \in 0 .. MaxTail /\ leading = FALSE

\* Mutant: looks at what is counted already, and not at what is to come.
RefusesAboveLimit(s) == uncommittedSize > maxUncommittedSize
\* increaseUncommittedSize: nothing is refused as long as nothing is counted.
Refuses(s) == uncommittedSize > 0 /\ uncommittedSize + s > maxUncommittedSize

AppendEntry(s) ==
  /\ leading /\ tail + s <= MaxTail
  /\ IF Refuses(s) THEN UNCHANGED vars
     ELSE /\ uncommittedSize' = uncommittedSize + s /\ tail' = tail + s
          /\ UNCHANGED <<maxUncommittedSize, leading>>

\* Mutant: subtracts without looking, and wraps around.
ReducedWithoutSaturation(s) ==
  IF uncommittedSize = 0 THEN 0 ELSE (uncommittedSize - s) % UintSize
\* reduceUncommittedSize saturates at 0.
Reduced(s) == IF s > uncommittedSize THEN 0 ELSE uncommittedSize - s

Commit(s) ==
  /\ s <= tail /\ tail' = tail - s
  /\ uncommittedSize' = Reduced(s)
  /\ UNCHANGED <<maxUncommittedSize, leading>>

\* reset, then the empty entry, increased and reduced by 0.
BecomeLeader ==
  /\ ~leading /\ leading' = TRUE
  /\ uncommittedSize' = 0
  /\ UNCHANGED <<maxUncommittedSize, tail>>

\* Mutant: what was counted as a leader stays.
BecomeFollowerWithoutReset ==
  /\ leading /\ leading' = FALSE
  /\ UNCHANGED <<maxUncommittedSize, uncommittedSize, tail>>
\* reset.
BecomeFollower ==
  /\ leading /\ leading' = FALSE
  /\ uncommittedSize' = 0
  /\ UNCHANGED <<maxUncommittedSize, tail>>

\* A MsgApp adds to the tail of a follower, or replaces it by a smaller one.
FollowerAppends ==
  /\ ~leading /\ tail' \in 0 .. MaxTail
  /\ UNCHANGED <<maxUncommittedSize, uncommittedSize, leading>>

Next ==
  \/ \E s \in Payloads : AppendEntry(s)
  \/ \E s \in 0 .. tail : Commit(s)
  \/ BecomeLeader \/ BecomeFollower \/ FollowerAppends

Spec == Init /\ [][Next]_vars
-----------------------------------------------------------------------------
(* Properties. *)

\* No sum of the model leaves its type: the counter never wraps around.
TypeOK ==
  /\ maxUncommittedSize \in Limits
  /\ uncommittedSize \in 0 .. MaxTail /\ tail \in 0 .. MaxTail /\ leading \in BOOLEAN

\* reduceUncommittedSize: "may underestimate the size of the uncommitted Raft
\* log tail but will never overestimate it", whatever elections come between
\* an entry and its being committed.
NeverOverestimates == uncommittedSize <= tail

\* Config, MaxUncommittedEntriesSize, promises an error beyond the limit.  What
\* the code keeps is less: increaseUncommittedSize lets one proposal past the
\* limit and never a second on top of it, in whatever order proposals, partial
\* commits and elections come.
OvershootIsOneProposal ==
  uncommittedSize <= maxUncommittedSize \/ \E s \in Payloads : uncommittedSize <= s
=============================================================================
