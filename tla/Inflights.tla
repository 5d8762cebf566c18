----------------------------- MODULE Inflights -----------------------------
(***************************************************************************)
(* tracker/Inflights.go: a ring buffer that grows.  The slots start,       *)
(* start + 1, ... hold the count messages in flight and wrap around at     *)
(* size; the buffer behind them is doubled when a slot past its end is     *)
(* needed, and never made longer than size.  A buffer index of the code is *)
(* one less than the index of the sequence here.                           *)
(*                                                                         *)
(* Nothing is assumed of the indexes added.  The leader adds growing ones  *)
(* as long as it gets no rejection, but MaybeDecrTo takes Next back and    *)
(* leaves the window alone, and then smaller ones follow larger ones.      *)
(***************************************************************************)
EXTENDS Integers, Sequences

CONSTANTS
  Sizes,    \* the values of Config.MaxInflightMsgs
  Indexes   \* the log indexes that are sent and acknowledged

ASSUME InflightsAssumption == Sizes \subseteq Nat /\ Indexes \subseteq Nat

VARIABLES
  size, start, count, buffer,  \* the fields of Inflights
  panicked                     \* an index was out of range, or Add found it full

vars == <<size, start, count, buffer, panicked>>

Init ==  \* NewInflights(size)
  /\ size \in Sizes
  /\ start = 0 /\ count = 0 /\ buffer = <<>>
  /\ panicked = FALSE

Full == count = size

Panic == panicked' = TRUE /\ UNCHANGED <<size, start, count, buffer>>

\* The slot k places after the first, in a ring of n slots from 0 on.
Ring(n, i) == IF i >= n THEN i - n ELSE i
Slot(k) == Ring(size, start + k)

\* What the slot holds; only for slots inside the buffer.
Inflight(k) == buffer[Slot(k) + 1]

\* Mutant: doubles the buffer without looking at size.
DoubledBuffer(b) ==
  LET newSize == IF b = <<>> THEN 1 ELSE 2 * Len(b)
  IN  [i \in 1 .. newSize |-> IF i <= Len(b) THEN b[i] ELSE 0]

\* Mutant: the old buffer is not copied.
GrownBufferWithoutCopy(b) ==
  LET double == 2 * Len(b)
      newSize == IF double = 0 THEN 1 ELSE IF double > size THEN size ELSE double
  IN  [i \in 1 .. newSize |-> 0]

GrownBuffer(b) ==
  LET double == 2 * Len(b)
      newSize == IF double = 0 THEN 1 ELSE IF double > size THEN size ELSE double
  IN  [i \in 1 .. newSize |-> IF i <= Len(b) THEN b[i] ELSE 0]

\* The buffer in which Add puts its index.
BufferForAdd == IF Slot(count) >= Len(buffer) THEN GrownBuffer(buffer) ELSE buffer

Add(x) ==
  IF Full \/ Slot(count) >= Len(BufferForAdd)
    THEN Panic
    ELSE /\ buffer' = [BufferForAdd EXCEPT ![Slot(count) + 1] = x]
         /\ count' = count + 1
         /\ UNCHANGED <<size, start, panicked>>

\* The loop of FreeLE ends after i rounds: the first i messages are covered by
\* `to`, and message i is not, or there is none.
Freed(i, to) ==
  /\ \A k \in 0 .. i - 1 : Inflight(k) <= to
  /\ i < count => Inflight(i) > to

\* In one of its rounds the slot is not in the buffer.
ReadsOutOfRange(to) ==
  \E i \in 0 .. count - 1 :
    /\ \A k \in 0 .. i - 1 : Slot(k) < Len(buffer) /\ Inflight(k) <= to
    /\ Slot(i) >= Len(buffer)

\* Mutant: start moves on without wrapping around.
FreeLEUnwrapped(to) ==
  IF ReadsOutOfRange(to) THEN Panic
  ELSE /\ count > 0
       /\ \E i \in 0 .. count :
            /\ Freed(i, to)
            /\ count' = count - i
            /\ start' = IF i = count THEN 0 ELSE start + i
       /\ UNCHANGED <<size, buffer, panicked>>

\* Mutant: counts the message the loop stopped at as well.
FreeLEOneTooMany(to) ==
  IF count = 0 THEN UNCHANGED vars
  ELSE IF ReadsOutOfRange(to) THEN Panic
  ELSE /\ \E i \in 0 .. count :
            /\ Freed(i, to)
            /\ count' = count - i - 1
            /\ start' = IF i = count THEN 0 ELSE Slot(i)
       /\ UNCHANGED <<size, buffer, panicked>>

FreeLE(to) ==
  IF count = 0 THEN UNCHANGED vars
  ELSE IF ReadsOutOfRange(to) THEN Panic
  ELSE /\ \E i \in 0 .. count :
            /\ Freed(i, to)
            /\ count' = count - i
            /\ start' = IF i = count THEN 0 ELSE Slot(i)
       /\ UNCHANGED <<size, buffer, panicked>>

\* FreeLE(buffer[start]); the index is evaluated whether anything is in flight
\* or not.
FreeFirstOne ==
  IF start >= Len(buffer) THEN Panic ELSE FreeLE(buffer[start + 1])

Reset == count' = 0 /\ start' = 0 /\ UNCHANGED <<size, buffer, panicked>>

\* maybeSendAppend calls Add only when IsPaused has found the window not full.
\* No code of the repository calls FreeFirstOne; a caller who looks at Count
\* first is well-behaved here.
Next ==
  /\ ~panicked
  /\ \/ \E x \in Indexes : ~Full /\ Add(x)
     \/ \E to \in Indexes : FreeLE(to)
     \/ count > 0 /\ FreeFirstOne
     \/ Reset

Spec == Init /\ [][Next]_vars

\* The same with FreeFirstOne called at any time.
NextAnyTime == Next \/ (~panicked /\ FreeFirstOne)
SpecAnyTime == Init /\ [][NextAnyTime]_vars
-----------------------------------------------------------------------------
(* Properties. *)

TypeOK ==
  /\ size \in Sizes
  /\ start \in Nat
  /\ count \in Nat
  /\ buffer \in Seq(Nat)
  /\ panicked \in BOOLEAN

\* Adding to a window that is not full and freeing never index the buffer out
\* of range, wherever the window stands and however far the buffer has grown.
NoPanic == ~panicked

\* The window lies inside the buffer and, until the buffer has its full length,
\* has not wrapped around: grow copies the buffer as it is and would tear a
\* wrapped window apart.
WindowInBuffer ==
  /\ count <= size
  /\ Len(buffer) <= size
  /\ Len(buffer) < size => start + count <= Len(buffer)
  /\ start < size \/ (start = 0 /\ count = 0)

\* The ring is the queue: nothing in flight is lost, overwritten, reordered or
\* freed early by a growth or by wrapping around.
Queue == INSTANCE InflightsQueue WITH queue <- [k \in 1 .. count |-> Inflight(k - 1)]
QueueSpec == Queue!Spec

\* FreeFirstOne "is a no-op if nothing is inflight", says its comment.
FreeFirstOneOnEmpty == [][count = 0 /\ FreeFirstOne => UNCHANGED vars]_vars
=============================================================================
