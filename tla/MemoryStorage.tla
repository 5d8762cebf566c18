--------------------------- MODULE MemoryStorage ---------------------------
(***************************************************************************)
(* storage.go: the in-memory implementation of the Storage interface.      *)
(*                                                                         *)
(* A storage is a record:                                                  *)
(*   index  ms.ents[0].Index, the index of the dummy entry;                *)
(*   ents   the terms of ms.ents; ents[1] is the dummy's, so the entry at  *)
(*          log index i is ents[i - index + 1];                            *)
(*   snap   ms.snapshot.Metadata, its Index and Term (ConfState and Data   *)
(*          are left out: nothing in storage.go looks at them).            *)
(* Each method that changes the storage is an operator returning the new   *)
(* one, beside a predicate for the inputs on which it panics.  The methods *)
(* hold ms.Mutex from the first statement to the last, so one operator is  *)
(* one atomic step.                                                        *)
(***************************************************************************)
EXTENDS Integers, Sequences

\* The errors of the interface, apart from every term.
ErrCompacted   == -1
ErrUnavailable == -2

\* Entry.Size() is 1, so a size limit is a number of entries; the first entry
\* is kept whatever the limit.
LimitSize(ents, maxSize) ==
  LET limit == IF maxSize < 1 THEN 1 ELSE maxSize
  IN  IF Len(ents) <= limit THEN ents ELSE SubSeq(ents, 1, limit)

NewMemoryStorage == [index |-> 0, ents |-> <<0>>, snap |-> [index |-> 0, term |-> 0]]

MSFirstIndex(s) == s.index + 1
MSLastIndex(s)  == s.index + Len(s.ents) - 1

MSTerm(s, i) ==
  IF i < s.index THEN ErrCompacted
  ELSE IF i - s.index >= Len(s.ents) THEN ErrUnavailable
  ELSE s.ents[i - s.index + 1]

\* Entries(lo, hi, maxSize): an error, a panic, or the entries in [lo, hi).
MSEntriesCompacted(s, lo)   == lo <= s.index
MSEntriesUnavailable(s, hi) == hi > MSLastIndex(s) + 1 \/ Len(s.ents) = 1
MSEntries(s, lo, hi, maxSize) ==
  LimitSize(SubSeq(s.ents, lo - s.index + 1, hi - s.index), maxSize)

\* Append: entries the snapshot already covers are dropped from the front, the
\* stored ones from the first new index on are replaced.  A gap panics.
NewEntries(s, first, ents) ==
  IF MSFirstIndex(s) > first
    THEN SubSeq(ents, MSFirstIndex(s) - first + 1, Len(ents))
    ELSE ents
NewFirst(s, first) == IF MSFirstIndex(s) > first THEN MSFirstIndex(s) ELSE first

MSAppendIgnored(s, first, ents) ==
  ents = <<>> \/ first + Len(ents) - 1 < MSFirstIndex(s)
MSAppendPanics(s, first, ents) ==
  ~MSAppendIgnored(s, first, ents) /\ Len(s.ents) < NewFirst(s, first) - s.index
\* Mutant: the new entries overwrite the old ones, the old tail stays.
MSAppendKeepingTail(s, first, ents) ==
  IF MSAppendIgnored(s, first, ents) THEN s
  ELSE [s EXCEPT !.ents =
          SubSeq(s.ents, 1, NewFirst(s, first) - s.index) \o NewEntries(s, first, ents)
            \o SubSeq(s.ents, first + Len(ents) - s.index + 1, Len(s.ents))]
MSAppend(s, first, ents) ==
  IF MSAppendIgnored(s, first, ents) THEN s
  ELSE [s EXCEPT !.ents = SubSeq(s.ents, 1, NewFirst(s, first) - s.index)
                            \o NewEntries(s, first, ents)]

\* CreateSnapshot(i): refused with ErrSnapOutOfDate unless i is newer; below the
\* dummy entry ms.ents[i-offset] is out of range.
CreateSnapshotRefused(s, i) == i <= s.snap.index
CreateSnapshotPanics(s, i)  ==
  ~CreateSnapshotRefused(s, i) /\ (i > MSLastIndex(s) \/ i < s.index)
CreateSnapshot(s, i) ==
  [s EXCEPT !.snap = [index |-> i, term |-> s.ents[i - s.index + 1]]]

\* ApplySnapshot(snap): everything stored is replaced by the snapshot's dummy.
ApplySnapshotRefused(s, snap) == s.snap.index >= snap.index
ApplySnapshot(s, snap) ==
  [index |-> snap.index, ents |-> <<snap.term>>, snap |-> snap]

\* Compact(i): entry i becomes the dummy.  Refused with ErrCompacted when it
\* is already gone.
CompactRefused(s, i) == i <= s.index
CompactPanics(s, i)  == ~CompactRefused(s, i) /\ i > MSLastIndex(s)
\* Mutant: the compacted entry is not kept as the dummy.
CompactWithoutDummy(s, i) ==
  [s EXCEPT !.index = i, !.ents = SubSeq(s.ents, i - s.index + 2, Len(s.ents))]
Compact(s, i) ==
  [s EXCEPT !.index = i, !.ents = SubSeq(s.ents, i - s.index + 1, Len(s.ents))]
=============================================================================
