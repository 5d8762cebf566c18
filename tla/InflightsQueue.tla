--------------------------- MODULE InflightsQueue ---------------------------
(***************************************************************************)
(* What the sliding window of a Progress promises: the MsgApps sent and    *)
(* not answered, each the index of its last entry, oldest first, at most   *)
(* size of them.                                                           *)
(***************************************************************************)
EXTENDS Integers, Sequences

CONSTANTS Sizes, Indexes

VARIABLES size, queue

Init == size \in Sizes /\ queue = <<>>

Add(x) ==
  /\ Len(queue) < size
  /\ queue' = Append(queue, x)
  /\ UNCHANGED size

\* An answer that acknowledges entry `to` frees the window up to the first
\* message that goes beyond it.
FreeLE(to) ==
  /\ \E i \in 0 .. Len(queue) :
       /\ \A k \in 1 .. i : queue[k] <= to
       /\ i < Len(queue) => queue[i + 1] > to
       /\ queue' = SubSeq(queue, i + 1, Len(queue))
  /\ UNCHANGED size

FreeFirstOne == queue # <<>> /\ FreeLE(Head(queue))

Reset == queue' = <<>> /\ UNCHANGED size

Next ==
  \/ \E x \in Indexes : Add(x) \/ FreeLE(x)
  \/ FreeFirstOne
  \/ Reset

Spec == Init /\ [][Next]_<<size, queue>>
=============================================================================
