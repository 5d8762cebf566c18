---------------------------- MODULE EntryArrays ----------------------------
(***************************************************************************)
(* The arrays behind the entries.  A []Entry of the program is a window on *)
(* an array that others may look at too: the message it came in, the batch *)
(* the user is writing, the slices nextEnts handed out.  append writes in  *)
(* place as long as the array has room behind the slice, so what one       *)
(* holder appends another may see.  This module executes log_unstable.go,  *)
(* slice of log.go and storage.go on such arrays, beside the same on plain *)
(* sequences, that is, on MemoryStorage and RaftLog.                       *)
(*                                                                         *)
(* An entry is the number of the message it came in.  A message is a new   *)
(* array: what arrives has been decoded from the network.                  *)
(***************************************************************************)
EXTENDS RaftLog, FiniteSets

CONSTANTS
  Arrays,       \* the memory
  MaxMessages,  \* bounds: on the messages,
  MaxLast,      \* on the log,
  MaxSpare,     \* on the room append leaves behind a slice when it allocates,
  MaxHandedOut  \* on the slices others hold

\* Array 0 is nil; array 1 is the one NewMemoryStorage makes.
ASSUME EntryArraysAssumption ==
  /\ Arrays \subseteq Nat \ {0} /\ 1 \in Arrays
  /\ {MaxMessages, MaxLast, MaxSpare, MaxHandedOut} \subseteq Nat

VARIABLES
  memory,      \* memory[a]: the array, as long as its capacity; <<>> is free
  ents,        \* MemoryStorage.ents, a slice
  unstable,    \* unstable.entries, a slice
  batch,       \* what the user reads of unstable.entries, and stores
  handedOut,   \* slices others hold, with what was in them when they got them
  messages,
  storage, log \* the same storage and log, as sequences

vars == <<memory, ents, unstable, batch, handedOut, messages, storage, log>>
-----------------------------------------------------------------------------
(* Slices. *)

Slice0 == [array |-> 0, from |-> 0, len |-> 0]  \* nil
Capacity(mem, s) == IF s.array = 0 THEN 0 ELSE Len(mem[s.array]) - s.from
Read(mem, s) ==
  IF s.array = 0 THEN <<>> ELSE SubSeq(mem[s.array], s.from + 1, s.from + s.len)

\* Mutant: counts from the start of s.
SubSliceFromStart(s, lo, hi) == [s EXCEPT !.from = @ + lo, !.len = hi]
\* s[lo:hi]; the room behind it stays reachable.
SubSlice(s, lo, hi) == [s EXCEPT !.from = @ + lo, !.len = hi - lo]

Zeros(n) == [i \in 1 .. n |-> 0]

\* make and copy: the array a, with `spare` slots behind the values xs.
Allocate(mem, a, xs, spare) ==
  [memory |-> [mem EXCEPT ![a] = xs \o Zeros(spare)],
   slice  |-> IF Len(xs) + spare = 0 THEN Slice0 ELSE [array |-> a, from |-> 0, len |-> Len(xs)]]

\* append(s, xs...), a being the array it takes if it needs one.
GoAppend(mem, s, xs, a, spare) ==
  IF s.len + Len(xs) > Capacity(mem, s)
    THEN Allocate(mem, a, Read(mem, s) \o xs, spare)
    ELSE [memory |-> IF s.array = 0 THEN mem
                     ELSE [mem EXCEPT ![s.array] =
                             [i \in 1 .. Len(@) |->
                                IF i > s.from + s.len /\ i <= s.from + s.len + Len(xs)
                                  THEN xs[i - s.from - s.len] ELSE @[i]]],
          slice  |-> [s EXCEPT !.len = @ + Len(xs)]]

Used == {ents.array, unstable.array, batch.slice.array} \cup {h.slice.array : h \in handedOut}
NoBatch == [slice |-> Slice0, first |-> 0, value |-> <<>>]

\* Everything that holds a slice has changed: arrays nobody holds are freed.
Settle(mem, e, u, b, hs) ==
  LET used == {e.array, u.array, b.slice.array} \cup {h.slice.array : h \in hs} IN
  /\ memory' = [a \in Arrays |-> IF a \in used THEN mem[a] ELSE <<>>]
  /\ ents' = e /\ unstable' = u /\ batch' = b /\ handedOut' = hs

HandOut(mem, s) == [slice |-> s, value |-> Read(mem, s)]

Init ==
  LET made == Allocate([a \in Arrays |-> <<>>], 1, <<0>>, 0) IN
  /\ memory = made.memory /\ ents = made.slice
  /\ unstable = Slice0 /\ batch = NoBatch /\ handedOut = {}
  /\ messages = 0
  /\ storage = NewMemoryStorage /\ log = NewLog(storage)
-----------------------------------------------------------------------------
(* The program. *)

\* Mutant: truncates in place.
TruncateInPlace(mem, after, m, a, spare) ==
  IF after <= log.offset /\ after # log.offset + unstable.len THEN [memory |-> mem, slice |-> m]
  ELSE GoAppend(mem, SubSlice(unstable, 0, after - log.offset), Read(mem, m), a, spare)

\* unstable.truncateAndAppend of the slice m whose first index is `after`.
TruncateAndAppendSlice(mem, after, m, a, spare) ==
  IF after = log.offset + unstable.len
    THEN GoAppend(mem, unstable, Read(mem, m), a, spare)
  ELSE IF after <= log.offset
    THEN [memory |-> mem, slice |-> m]
  ELSE Allocate(mem, a, SubSeq(Read(mem, unstable), 1, after - log.offset) \o Read(mem, m), spare)

\* A message with n entries from index `after` on; whoever sent it still holds it.
Receive(after, n) ==
  LET number == messages + 1 IN
  /\ messages < MaxMessages /\ after + n - 1 <= MaxLast
  /\ ~AppendPanics(log, after)
  /\ \E a, b \in Arrays \ Used, spare, room \in 0 .. MaxSpare :
       /\ a < b /\ \A c \in Arrays \ Used : c >= b \/ c = a
       /\ LET xs == [i \in 1 .. n |-> number]
              sent == Allocate(memory, a, xs, room)
              new == TruncateAndAppendSlice(sent.memory, after, sent.slice, b, spare)
          IN /\ Settle(new.memory, ents, new.slice, batch,
                       IF Cardinality(handedOut) < MaxHandedOut
                         THEN handedOut \cup {HandOut(sent.memory, sent.slice)} ELSE handedOut)
             /\ log' = AppendEntries(log, after, xs)
  /\ messages' = number
  /\ UNCHANGED storage

\* The user reads unstable.entries.
TakeBatch ==
  /\ batch = NoBatch /\ unstable.len > 0
  /\ Settle(memory, ents, unstable,
            [slice |-> unstable, first |-> log.offset, value |-> log.unstable], handedOut)
  /\ UNCHANGED <<messages, storage, log>>

\* Mutant: cuts off and appends in place.
StoredSliceInPlace(offset, xs, a, spare) ==
  GoAppend(memory, SubSlice(ents, 0, offset), xs, a, spare)
\* What Append puts in ms.ents: what follows slot `offset` is not kept, and then
\* the rest is copied.
StoredSlice(offset, xs, a, spare) ==
  IF ents.len = offset THEN GoAppend(memory, ents, xs, a, spare)
  ELSE Allocate(memory, a, SubSeq(Read(memory, ents), 1, offset) \o xs, spare)

\* shrinkEntriesArray: what is left is copied if it is less than half.
ShrinkEntriesArray(mem, s, a) ==
  IF s.len = 0 THEN [memory |-> mem, slice |-> Slice0]
  ELSE IF 2 * s.len < Capacity(mem, s) THEN Allocate(mem, a, Read(mem, s), 0)
  ELSE [memory |-> mem, slice |-> s]

\* unstable.stableTo(i, t).
StableToSlice(mem, i, t, a) ==
  IF InUnstable(log, i) /\ UnstableTerm(log, i) = t
    THEN ShrinkEntriesArray(mem, SubSlice(unstable, i + 1 - log.offset, unstable.len), a)
    ELSE [memory |-> mem, slice |-> unstable]

\* The user calls Storage.Append with the batch, then stableTo with its last
\* entry.
Persist ==
  LET value == Read(memory, batch.slice)
      first == NewFirst(storage, batch.first)
      last  == batch.first + Len(value) - 1
      term  == value[Len(value)]
      xs    == NewEntries(storage, batch.first, value)
  IN
  /\ batch # NoBatch
  /\ \E a, b \in Arrays \ Used, spare \in 0 .. MaxSpare :
       /\ a < b /\ \A c \in Arrays \ Used : c >= b \/ c = a
       /\ LET stored == IF MSAppendIgnored(storage, batch.first, value)
                          THEN [memory |-> memory, slice |-> ents]
                          ELSE StoredSlice(first - storage.index, xs, a, spare)
              stable == StableToSlice(stored.memory, last, term, b)
          IN Settle(stable.memory, stored.slice, stable.slice, NoBatch, handedOut)
  /\ storage' = MSAppend(storage, batch.first, value)
  /\ log' = StableTo(log, last, term)
  /\ UNCHANGED messages

\* Mutant: puts the two parts together with append(ents, unstable...).
CombinedInPlace(stored, rest, a) == GoAppend(memory, stored, rest, a, 0)
Combined(stored, rest, a) == Allocate(memory, a, Read(memory, stored) \o rest, 0)

\* raftLog.slice(lo, hi, noLimit), the result of which is handed out.
HandOutSlice(lo, hi) ==
  LET cut    == Min2(hi, log.offset)
      stored == IF lo < log.offset
                  THEN SubSlice(ents, lo - storage.index, cut - storage.index) ELSE Slice0
      from   == Max2(lo, log.offset)
      rest   == IF hi > log.offset
                  THEN SubSlice(unstable, from - log.offset, hi - log.offset) ELSE Slice0
  IN
  /\ Cardinality(handedOut) < MaxHandedOut
  /\ FirstIndex(storage, log) <= lo /\ lo < hi /\ hi <= LastIndex(storage, log) + 1
  /\ \E a \in Arrays \ Used :
       /\ \A c \in Arrays \ Used : a <= c
       /\ LET result == IF stored.len = 0 THEN [memory |-> memory, slice |-> rest]
                        ELSE IF rest.len = 0 THEN [memory |-> memory, slice |-> stored]
                        ELSE Combined(stored, Read(memory, rest), a)
          IN Settle(result.memory, ents, unstable, batch,
                    handedOut \cup {[slice |-> result.slice,
                                     value |-> Slice(storage, log, lo, hi, MaxLast)]})
  /\ UNCHANGED <<messages, storage, log>>

\* Compact, which allocates.  Only what is stored and committed is compacted.
CompactStorage(i) ==
  /\ ~CompactRefused(storage, i) /\ i <= MSLastIndex(storage)
  /\ i < log.offset
  /\ \E a \in Arrays \ Used :
       /\ \A c \in Arrays \ Used : a <= c
       /\ LET kept == Allocate(memory, a, SubSeq(Read(memory, ents), i - storage.index + 1, ents.len), 0)
          IN Settle(kept.memory, kept.slice, unstable, batch, handedOut)
  /\ storage' = Compact(storage, i)
  /\ log' = CommitTo(log, i)
  /\ UNCHANGED messages

\* Somebody lets go of a slice.
Forget ==
  /\ \E h \in handedOut : Settle(memory, ents, unstable, batch, handedOut \ {h})
  /\ UNCHANGED <<messages, storage, log>>

Next ==
  \/ \E after \in 1 .. MaxLast, n \in 1 .. 2 : Receive(after, n)
  \/ TakeBatch \/ Persist \/ Forget
  \/ \E lo \in 1 .. MaxLast, hi \in 2 .. MaxLast + 1 : HandOutSlice(lo, hi)
  \/ \E i \in 1 .. MaxLast : CompactStorage(i)

Spec == Init /\ [][Next]_vars
-----------------------------------------------------------------------------
(* Properties. *)

TypeOK ==
  /\ DOMAIN memory = Arrays
  /\ \A s \in {ents, unstable, batch.slice} \cup {h.slice : h \in handedOut} :
       s = Slice0 \/ (s.array \in Arrays /\ s.from + s.len <= Len(memory[s.array]))
  /\ messages \in 0 .. MaxMessages

\* What somebody was given, or gave, stays what it was as long as he holds it:
\* a message handed to Step, the batch of unstable entries while it is written,
\* the entries of nextEnts while they are executed.
HandedOutNeverChanges ==
  \A h \in handedOut \cup {batch} : Read(memory, h.slice) = h.value

\* The arrays hold the storage and the log that sequences would.
ArraysHoldTheLog ==
  /\ Read(memory, ents) = storage.ents
  /\ Read(memory, unstable) = log.unstable
=============================================================================
