-------------------------- MODULE InflightsProofs --------------------------
(***************************************************************************)
(* For every set of sizes and of log indexes: the ring buffer never panics *)
(* and implements the queue.                                               *)
(*                                                                         *)
(* WindowInBuffer is inductive together with the types.  Everything else   *)
(* follows from it: the slots of the window are in the buffer, and they    *)
(* are pairwise different, so that Add overwrites nothing in flight.       *)
(***************************************************************************)
EXTENDS Inflights, SequenceTheorems, TLAPS

Inv == TypeOK /\ NoPanic /\ WindowInBuffer

\* The slots of the window are in the buffer, and the slot Add writes to is
\* either in it or the next one.
LEMMA SlotsInBuffer ==
  ASSUME Inv
  PROVE  /\ \A k \in 0 .. count - 1 : Slot(k) \in 0 .. Len(buffer) - 1
         /\ ~Full => Slot(count) \in 0 .. Len(buffer)
         /\ \A k \in 0 .. count - 1 : Inflight(k) \in Nat
<1> USE InflightsAssumption
<1>1. \A k \in 0 .. count - 1 : Slot(k) \in 0 .. Len(buffer) - 1
  BY DEF Inv, TypeOK, WindowInBuffer, Slot, Ring
<1>2. ~Full => Slot(count) \in 0 .. Len(buffer)
  BY DEF Inv, TypeOK, WindowInBuffer, Slot, Ring, Full
<1>3. \A k \in 0 .. count - 1 : Inflight(k) \in Nat
  BY <1>1 DEF Inv, TypeOK, Inflight
<1> QED BY <1>1, <1>2, <1>3

\* What Add makes of the buffer: it is as long as before or longer, within
\* size, holds the slot to write, and keeps what it held.
LEMMA BufferForAddFacts ==
  ASSUME Inv, ~Full
  PROVE  /\ BufferForAdd \in Seq(Nat)
         /\ Len(buffer) <= Len(BufferForAdd)
         /\ Len(BufferForAdd) <= size
         /\ Slot(count) < Len(BufferForAdd)
         /\ \A i \in 1 .. Len(buffer) : BufferForAdd[i] = buffer[i]
<1> USE InflightsAssumption
<1> SUFFICES ASSUME Slot(count) >= Len(buffer)
             PROVE  /\ GrownBuffer(buffer) \in Seq(Nat)
                    /\ Len(buffer) < Len(GrownBuffer(buffer))
                    /\ Len(GrownBuffer(buffer)) <= size
                    /\ \A i \in 1 .. Len(buffer) : GrownBuffer(buffer)[i] = buffer[i]
  BY SlotsInBuffer DEF BufferForAdd, Inv, TypeOK, WindowInBuffer
<1> DEFINE double == 2 * Len(buffer)
           newSize == IF double = 0 THEN 1 ELSE IF double > size THEN size ELSE double
<1>1. Len(buffer) \in Nat /\ size \in Nat /\ count \in Nat /\ start \in Nat
  BY DEF Inv, TypeOK
<1>2. Len(buffer) < size
  BY <1>1 DEF Inv, WindowInBuffer, Full, Slot, Ring
<1>3. newSize \in Nat /\ Len(buffer) < newSize /\ newSize <= size
  BY <1>1, <1>2
<1>4. GrownBuffer(buffer) = [i \in 1 .. newSize |-> IF i <= Len(buffer) THEN buffer[i] ELSE 0]
  BY DEF GrownBuffer
<1> HIDE DEF newSize, double
<1>5. \A i \in 1 .. newSize : (IF i <= Len(buffer) THEN buffer[i] ELSE 0) \in Nat
  BY <1>3, <1>1 DEF Inv, TypeOK
<1>6. GrownBuffer(buffer) \in Seq(Nat) /\ Len(GrownBuffer(buffer)) = newSize
  BY <1>3, <1>4, <1>5
<1> QED BY <1>1, <1>3, <1>4, <1>6

LEMMA InitInv == Init => Inv
<1> SUFFICES ASSUME Init PROVE Inv
  OBVIOUS
<1>1. size \in Nat /\ buffer \in Seq(Nat) /\ Len(buffer) = 0
  BY InflightsAssumption DEF Init
<1>2. TypeOK /\ NoPanic
  BY <1>1 DEF Init, TypeOK, NoPanic
<1>3. WindowInBuffer
  BY <1>1 DEF Init, WindowInBuffer
<1> QED BY <1>2, <1>3 DEF Inv

LEMMA AddInv ==
  ASSUME Inv, NEW x \in Indexes, ~Full, Add(x)
  PROVE  Inv'
<1> USE InflightsAssumption
<1>1. /\ buffer' = [BufferForAdd EXCEPT ![Slot(count) + 1] = x]
      /\ count' = count + 1
      /\ UNCHANGED <<size, start, panicked>>
  BY BufferForAddFacts, SlotsInBuffer DEF Add, Inv, TypeOK
<1>2. buffer' \in Seq(Nat) /\ Len(buffer') = Len(BufferForAdd)
  BY <1>1, BufferForAddFacts, SlotsInBuffer
<1>3. TypeOK' /\ NoPanic'
  BY <1>1, <1>2 DEF Inv, TypeOK, NoPanic
<1>4. WindowInBuffer'
  BY <1>1, <1>2, BufferForAddFacts DEF Inv, TypeOK, WindowInBuffer, Full, Slot, Ring
<1> QED BY <1>3, <1>4 DEF Inv

LEMMA FreeLEInv ==
  ASSUME Inv, NEW to \in Nat, FreeLE(to)
  PROVE  Inv'
<1> USE InflightsAssumption
<1>1. CASE count = 0
  BY <1>1 DEF FreeLE, vars, Inv, TypeOK, NoPanic, WindowInBuffer
<1>2. CASE count # 0
  <2>1. ~ReadsOutOfRange(to)
    BY SlotsInBuffer DEF ReadsOutOfRange, Inv, TypeOK
  <2>2. PICK i \in 0 .. count : /\ count' = count - i
                                /\ start' = IF i = count THEN 0 ELSE Slot(i)
    BY <1>2, <2>1 DEF FreeLE
  <2>3. UNCHANGED <<size, buffer, panicked>>
    BY <1>2, <2>1 DEF FreeLE
  <2> QED BY <2>2, <2>3 DEF Inv, TypeOK, NoPanic, WindowInBuffer, Slot, Ring
<1> QED BY <1>1, <1>2

LEMMA StepInv == Inv /\ [Next]_vars => Inv'
<1> USE InflightsAssumption
<1> SUFFICES ASSUME Inv, [Next]_vars PROVE Inv'
  OBVIOUS
<1>1. CASE UNCHANGED vars
  BY <1>1 DEF vars, Inv, TypeOK, NoPanic, WindowInBuffer
<1>2. ASSUME NEW x \in Indexes, ~Full, Add(x) PROVE Inv'
  BY <1>2, AddInv
<1>3. ASSUME NEW to \in Indexes, FreeLE(to) PROVE Inv'
  BY <1>3, FreeLEInv
<1>4. CASE count > 0 /\ FreeFirstOne
  <2>1. start < Len(buffer) /\ buffer[start + 1] \in Nat
    BY <1>4 DEF Inv, TypeOK, WindowInBuffer
  <2> QED BY <1>4, <2>1, FreeLEInv DEF FreeFirstOne, Inv, TypeOK
<1>5. CASE Reset
  BY <1>5 DEF Reset, Inv, TypeOK, NoPanic, WindowInBuffer
<1> QED BY <1>1, <1>2, <1>3, <1>4, <1>5 DEF Next

\* For every size, 0 included: no sequence of Add, FreeLE, FreeFirstOne and
\* reset by well-behaved callers indexes the buffer out of range.
THEOREM InflightsSafe == Spec => [](TypeOK /\ NoPanic /\ WindowInBuffer)
<1>1. Spec => []Inv
  BY InitInv, StepInv, PTL DEF Spec
<1> QED BY <1>1, PTL DEF Inv

\* The fields of an Inflights keep their types, whatever its size.
THEOREM InflightsTypeCorrect == Spec => []TypeOK
BY InflightsSafe, PTL

\* Add to a window that is not full, FreeLE, and FreeFirstOne on one that is not
\* empty never index the buffer out of range.
THEOREM InflightsNeverPanics == Spec => []NoPanic
BY InflightsSafe, PTL
-----------------------------------------------------------------------------
(* The ring implements the queue. *)

\* The window of a ring of n slots: c messages of buffer b from slot st on.
Window(n, b, st, c) == [k \in 1 .. c |-> b[Ring(n, st + (k - 1)) + 1]]

\* Inv without its names, for the lemmas about windows.
RingOK(n, b, st, c) ==
  /\ n \in Nat /\ st \in Nat /\ c \in Nat /\ b \in Seq(Nat)
  /\ c <= n /\ Len(b) <= n
  /\ Len(b) < n => st + c <= Len(b)
  /\ st < n \/ (st = 0 /\ c = 0)

\* e is b, perhaps grown, with x written to a slot.
Written(n, b, e, slot, x) ==
  /\ e \in Seq(Nat)
  /\ Len(b) <= Len(e) /\ Len(e) <= n
  /\ slot + 1 \in 1 .. Len(e) /\ e[slot + 1] = x
  /\ \A i \in 1 .. Len(b) : i # slot + 1 => e[i] = b[i]

LEMMA WindowIsSeq ==
  ASSUME NEW n, NEW b, NEW st, NEW c, RingOK(n, b, st, c)
  PROVE  /\ \A k \in 1 .. c : Ring(n, st + (k - 1)) + 1 \in 1 .. Len(b)
         /\ Window(n, b, st, c) \in Seq(Nat)
         /\ Len(Window(n, b, st, c)) = c
<1>1. \A k \in 1 .. c : Ring(n, st + (k - 1)) + 1 \in 1 .. Len(b)
  BY DEF RingOK, Ring
<1>2. ASSUME NEW k \in 1 .. c PROVE b[Ring(n, st + (k - 1)) + 1] \in Nat
  BY <1>1, ElementOfSeq DEF RingOK
<1> QED BY <1>1, <1>2 DEF Window, RingOK

\* Writing to the slot after the window appends to it.
LEMMA WindowAppend ==
  ASSUME NEW n, NEW b, NEW st, NEW c, RingOK(n, b, st, c), c < n,
         NEW e, NEW x \in Nat, Written(n, b, e, Ring(n, st + c), x)
  PROVE  Window(n, e, st, c + 1) = Append(Window(n, b, st, c), x)
<1>1. e[Ring(n, st + c) + 1] = x
  BY DEF Written
<1>2. ASSUME NEW k \in 1 .. c
      PROVE  e[Ring(n, st + (k - 1)) + 1] = b[Ring(n, st + (k - 1)) + 1]
  <2>1. Ring(n, st + (k - 1)) + 1 \in 1 .. Len(b)
    BY WindowIsSeq
  <2>2. Ring(n, st + (k - 1)) # Ring(n, st + c)
    <3>1. n \in Nat /\ st \in Nat /\ c \in Nat /\ k \in Nat /\ k <= c /\ st < n
      BY DEF RingOK
    <3> QED BY <3>1 DEF Ring
  <2>3. Ring(n, st + (k - 1)) \in Int /\ Ring(n, st + c) \in Int
    BY DEF RingOK, Ring
  <2>4. Ring(n, st + (k - 1)) + 1 # Ring(n, st + c) + 1
    BY <2>2, <2>3
  <2>5. \A i \in 1 .. Len(b) : i # Ring(n, st + c) + 1 => e[i] = b[i]
    BY Zenon DEF Written
  <2> QED BY <2>1, <2>4, <2>5, Zenon
<1>3. c \in Nat /\ st \in Nat /\ st + (c + 1 - 1) = st + c
  BY DEF RingOK
<1> DEFINE w == Window(n, b, st, c)
           v == Window(n, e, st, c + 1)
<1>4. w \in Seq(Nat) /\ Len(w) = c
  BY WindowIsSeq
<1>5. \A k \in 1 .. c : w[k] = b[Ring(n, st + (k - 1)) + 1]
  BY DEF Window
<1>6. v = [k \in 1 .. c + 1 |-> e[Ring(n, st + (k - 1)) + 1]]
  BY DEF Window
<1> HIDE DEF w, v
<1>7. ASSUME NEW k \in 1 .. c PROVE v[k] = w[k] /\ w[k] \in Nat
  <2>1. v[k] = e[Ring(n, st + (k - 1)) + 1]
    BY <1>3, <1>6
  <2>2. w[k] = e[Ring(n, st + (k - 1)) + 1]
    BY <1>2, <1>5
  <2> QED BY <1>4, <2>1, <2>2, ElementOfSeq
<1>8. v[c + 1] = x
  BY <1>1, <1>3, <1>6
<1>9. RingOK(n, e, st, c + 1)
  BY DEF RingOK, Written, Ring
<1>10. v \in Seq(Nat) /\ Len(v) = c + 1
  BY <1>9, WindowIsSeq DEF v
<1>11. /\ Append(w, x) \in Seq(Nat)
       /\ Len(Append(w, x)) = c + 1
       /\ \A k \in 1 .. c : Append(w, x)[k] = w[k]
       /\ Append(w, x)[c + 1] = x
  BY <1>4, AppendProperties
<1>12. \A k \in 1 .. c + 1 : v[k] = Append(w, x)[k]
  BY <1>3, <1>7, <1>8, <1>11
<1>13. v = Append(w, x)
  BY <1>10, <1>11, <1>12, SeqEqual
<1> QED BY <1>13 DEF v, w

\* Moving start by i places drops the first i of the window.
LEMMA WindowFree ==
  ASSUME NEW n, NEW b, NEW st, NEW c, RingOK(n, b, st, c), NEW i \in 0 .. c - 1
  PROVE  Window(n, b, Ring(n, st + i), c - i) = SubSeq(Window(n, b, st, c), i + 1, c)
<1>1. ASSUME NEW k \in 1 .. c - i
      PROVE  Ring(n, Ring(n, st + i) + (k - 1)) = Ring(n, st + (i + k - 1))
  BY DEF RingOK, Ring
<1>2. Window(n, b, Ring(n, st + i), c - i)
        = [k \in 1 .. c - i |-> Window(n, b, st, c)[i + k]]
  BY <1>1 DEF Window, RingOK
<1>3. SubSeq(Window(n, b, st, c), i + 1, c)
        = [k \in 1 .. c - i |-> Window(n, b, st, c)[i + k]]
  BY WindowIsSeq DEF RingOK
<1> QED BY <1>2, <1>3
-----------------------------------------------------------------------------
LEMMA InvIsRingOK == Inv => RingOK(size, buffer, start, count)
  BY InflightsAssumption DEF Inv, TypeOK, WindowInBuffer, RingOK

q == [k \in 1 .. count |-> Inflight(k - 1)]

LEMMA QueueIsWindow == Inv => q = Window(size, buffer, start, count)
  BY DEF q, Window, Inflight, Slot

LEMMA NextQueueIsWindow == Inv' => (q = Window(size, buffer, start, count))'
  BY QueueIsWindow, PTL

LEMMA AddQueue ==
  ASSUME Inv, NEW x \in Indexes, ~Full, Add(x)
  PROVE  Queue!Add(x)
<1> USE InflightsAssumption
<1> DEFINE put == [BufferForAdd EXCEPT ![Slot(count) + 1] = x]
<1>1. buffer' = put /\ count' = count + 1 /\ UNCHANGED <<size, start>>
  BY BufferForAddFacts, SlotsInBuffer DEF Add, Inv, TypeOK
<1>2. Window(size, put, start, count + 1) = Append(Window(size, buffer, start, count), x)
  <2>1. Slot(count) + 1 \in 1 .. Len(BufferForAdd) /\ x \in Nat
    BY BufferForAddFacts, SlotsInBuffer DEF Inv, TypeOK
  <2>2. Slot(count) \in Nat
    BY SlotsInBuffer
  <2>3. Written(size, buffer, put, Slot(count), x)
    BY <2>1, <2>2, BufferForAddFacts DEF Written
  <2>4. count < size
    BY DEF Full, Inv, TypeOK, WindowInBuffer
  <2> HIDE DEF put
  <2> QED BY <2>1, <2>3, <2>4, InvIsRingOK, WindowAppend DEF Slot
<1>3. q' = Window(size, put, start, count + 1)
  <2>1. Inv'
    BY AddInv
  <2> HIDE DEF put
  <2> QED BY <1>1, <2>1, NextQueueIsWindow
<1>4. q = Window(size, buffer, start, count)
  BY QueueIsWindow
<1>5. Len(q) < size
  BY <1>4, WindowIsSeq, InvIsRingOK DEF Full, Inv, TypeOK, WindowInBuffer
<1> QED BY <1>1, <1>2, <1>3, <1>4, <1>5 DEF Queue!Add, q

\* The vacated part of the queue is what FreeLE has counted.
LEMMA FreeLEQueue ==
  ASSUME Inv, NEW to \in Nat, FreeLE(to)
  PROVE  Queue!FreeLE(to) \/ (UNCHANGED vars)
<1> SUFFICES ASSUME count # 0 PROVE Queue!FreeLE(to)
  BY DEF FreeLE
<1>1. ~ReadsOutOfRange(to)
  BY SlotsInBuffer, InflightsAssumption DEF ReadsOutOfRange, Inv, TypeOK
<1>2. PICK i \in 0 .. count : /\ Freed(i, to)
                              /\ count' = count - i
                              /\ start' = IF i = count THEN 0 ELSE Slot(i)
  BY <1>1 DEF FreeLE
<1>3. UNCHANGED <<size, buffer>>
  BY <1>1 DEF FreeLE
<1>4. q = Window(size, buffer, start, count) /\ q \in Seq(Nat) /\ Len(q) = count
  BY QueueIsWindow, WindowIsSeq, InvIsRingOK
<1>5. q' = Window(size, buffer, start', count')
  BY <1>3, FreeLEInv, NextQueueIsWindow
<1>6. count \in Nat /\ i \in Nat
  BY DEF Inv, TypeOK
<1>7. q' = SubSeq(q, i + 1, Len(q))
  <2>1. CASE i = count
    <3>1. count' = 0
      BY <1>2, <1>6, <2>1
    <3>2. q' = <<>>
      BY <1>5, <3>1 DEF Window
    <3> QED BY <1>4, <1>6, <2>1, <3>2, SubSeqEmpty
  <2>2. CASE i \in 0 .. count - 1
    <3>1. q' = Window(size, buffer, Ring(size, start + i), count - i)
      BY <1>2, <1>5, <1>6, <2>2 DEF Slot
    <3> QED BY <1>4, <2>2, <3>1, InvIsRingOK, WindowFree
  <2> QED BY <1>6, <2>1, <2>2
<1>8. \A k \in 1 .. count : q[k] = Inflight(k - 1)
  BY DEF q
<1>9. \A k \in 1 .. i : q[k] <= to
  <2> SUFFICES ASSUME NEW k \in 1 .. i PROVE q[k] <= to
    OBVIOUS
  <2>1. k - 1 \in 0 .. i - 1 /\ k \in 1 .. count
    BY <1>6
  <2> QED BY <1>2, <1>8, <2>1 DEF Freed
<1>10. i < Len(q) => q[i + 1] > to
  <2>1. i < count => i + 1 \in 1 .. count /\ (i + 1) - 1 = i
    BY <1>6
  <2> QED BY <1>2, <1>4, <1>8, <2>1 DEF Freed
<1> HIDE DEF q
<1>11. /\ \A k \in 1 .. i : q[k] <= to
       /\ i < Len(q) => q[i + 1] > to
       /\ q' = SubSeq(q, i + 1, Len(q))
  BY <1>7, <1>9, <1>10
<1> QED BY <1>3, <1>4, <1>11 DEF Queue!FreeLE, q

LEMMA StepQueue ==
  ASSUME Inv, [Next]_vars
  PROVE  [Queue!Next]_<<size, q>>
<1> USE InflightsAssumption
<1>1. CASE UNCHANGED vars
  BY <1>1 DEF vars, q, Inflight, Slot
<1>2. ASSUME NEW x \in Indexes, ~Full, Add(x) PROVE Queue!Next
  BY <1>2, AddQueue DEF Queue!Next
<1>3. ASSUME NEW to \in Indexes, FreeLE(to) PROVE Queue!Next \/ UNCHANGED vars
  BY <1>3, FreeLEQueue DEF Queue!Next
<1>4. ASSUME count > 0, FreeFirstOne PROVE Queue!Next \/ UNCHANGED vars
  <2>1. start < Len(buffer) /\ buffer[start + 1] \in Nat /\ count \in Nat
    BY <1>4 DEF Inv, TypeOK, WindowInBuffer
  <2>2. FreeLE(buffer[start + 1])
    BY <1>4, <2>1 DEF FreeFirstOne, Inv, TypeOK
  <2>3. q = Window(size, buffer, start, count) /\ q \in Seq(Nat) /\ Len(q) = count
    BY QueueIsWindow, WindowIsSeq, InvIsRingOK
  <2>4. q # <<>> /\ Head(q) = buffer[start + 1]
    <3>1. Ring(size, start + (1 - 1)) = start
      BY <1>4, InvIsRingOK DEF RingOK, Ring
    <3>2. q[1] = buffer[start + 1]
      BY <1>4, <2>1, <2>3, <3>1 DEF Window
    <3> QED BY <1>4, <2>3, <3>2
  <2>5. Queue!FreeLE(buffer[start + 1]) \/ UNCHANGED vars
    BY <2>1, <2>2, FreeLEQueue
  <2> HIDE DEF q
  <2>6. CASE Queue!FreeLE(buffer[start + 1])
    BY <2>4, <2>6 DEF Queue!Next, Queue!FreeFirstOne, q
  <2> QED BY <2>5, <2>6
<1>5. CASE Reset
  <2>1. q' = <<>>
    BY <1>5 DEF Reset, q
  <2> QED BY <1>5, <2>1 DEF Reset, Queue!Next, Queue!Reset, q
<1> QED BY <1>1, <1>2, <1>3, <1>4, <1>5 DEF Next

\* For every size and every sequence of calls, the ring buffer is the queue:
\* it loses, reorders and duplicates nothing when it grows or wraps around.
THEOREM InflightsImplementsQueue == Spec => QueueSpec
<1>1. Init => Queue!Init
  <2> SUFFICES ASSUME Init PROVE Queue!Init
    OBVIOUS
  <2>1. q = <<>>
    BY DEF Init, q
  <2> QED BY <2>1 DEF Init, Queue!Init, q
<1>2. Inv /\ [Next]_vars => [Queue!Next]_<<size, q>>
  BY StepQueue
<1>3. Spec => []Inv
  BY InitInv, StepInv, PTL DEF Spec
<1> QED BY <1>1, <1>2, <1>3, PTL DEF Spec, QueueSpec, Queue!Spec, q
=============================================================================
