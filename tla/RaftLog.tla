------------------------------ MODULE RaftLog ------------------------------
(***************************************************************************)
(* log.go and log_unstable.go: the log of one node, the entries of its     *)
(* Storage below unstable.offset and the unstable entries from there on.   *)
(*                                                                         *)
(* A log is a record:                                                      *)
(*   offset              unstable.offset;                                  *)
(*   unstable            the terms of unstable.entries;                    *)
(*   committed, applied  the fields of raftLog.                            *)
(* unstable.snapshot is left out: no statement of the program assigns it a *)
(* snapshot, it is nil from newLogWithSize on.                             *)
(*                                                                         *)
(* An operator takes the storage s and the log l.  Those that change the   *)
(* log return the new one, beside a predicate for the inputs on which they *)
(* panic.                                                                  *)
(***************************************************************************)
EXTENDS MemoryStorage

Min2(a, b) == IF a > b THEN b ELSE a
Max2(a, b) == IF a > b THEN a ELSE b

NewLog(s) ==
  [offset    |-> MSLastIndex(s) + 1,
   unstable  |-> <<>>,
   committed |-> MSFirstIndex(s) - 1,
   applied   |-> MSFirstIndex(s) - 1]

FirstIndex(s, l) == MSFirstIndex(s)
LastIndex(s, l) ==
  IF l.unstable # <<>> THEN l.offset + Len(l.unstable) - 1 ELSE MSLastIndex(s)

\* unstable.maybeTerm: whether the unstable part knows the term of entry i.
InUnstable(l, i) == l.offset <= i /\ i < l.offset + Len(l.unstable)
UnstableTerm(l, i) == l.unstable[i - l.offset + 1]

\* term(i): 0 outside the log, an error if the storage answers one.
Term(s, l, i) ==
  IF i < FirstIndex(s, l) - 1 \/ i > LastIndex(s, l) THEN 0
  ELSE IF InUnstable(l, i) THEN UnstableTerm(l, i)
  ELSE MSTerm(s, i)

\* zeroTermOnErrCompacted(term(i)) panics on any other error.
TermPanics(s, l, i) == Term(s, l, i) = ErrUnavailable

MatchTerm(s, l, i, term) == Term(s, l, i) = term

\* findConflict over entries that start at index first: the first of them that
\* the log does not hold, or 0.
Conflicts(s, l, first, ents) ==
  {i \in first .. first + Len(ents) - 1 : ~MatchTerm(s, l, i, ents[i - first + 1])}
FindConflict(s, l, first, ents) ==
  IF Conflicts(s, l, first, ents) = {} THEN 0
  ELSE CHOOSE i \in Conflicts(s, l, first, ents) :
         \A j \in Conflicts(s, l, first, ents) : i <= j

\* Mutant: replaces the unstable entries and forgets to move offset back.
TruncateWithoutOffset(l, after, ents) ==
  IF after = l.offset + Len(l.unstable)
    THEN [l EXCEPT !.unstable = l.unstable \o ents]
  ELSE IF after <= l.offset
    THEN [l EXCEPT !.unstable = ents]
  ELSE [l EXCEPT !.unstable = SubSeq(l.unstable, 1, after - l.offset) \o ents]

\* unstable.truncateAndAppend; its slice panics past the last unstable entry.
TruncateAndAppend(l, after, ents) ==
  IF after = l.offset + Len(l.unstable)
    THEN [l EXCEPT !.unstable = l.unstable \o ents]
  ELSE IF after <= l.offset
    THEN [l EXCEPT !.offset = after, !.unstable = ents]
  ELSE [l EXCEPT !.unstable = SubSeq(l.unstable, 1, after - l.offset) \o ents]

\* append of a nonempty slice that starts at index first.
AppendPanics(l, first) ==
  first - 1 < l.committed \/ first > l.offset + Len(l.unstable)
AppendEntries(l, first, ents) == TruncateAndAppend(l, first, ents)

\* commitTo never decreases committed, and panics past the last index.
CommitToPanics(s, l, i) == l.committed < i /\ LastIndex(s, l) < i
CommitTo(l, i) == [l EXCEPT !.committed = Max2(l.committed, i)]

\* maybeAppend(index, logTerm, committed, ents): the caller has seen that
\* matchTerm(index, logTerm) holds.
AppendFromConflict(s, l, index, ents) ==
  LET ci == FindConflict(s, l, index + 1, ents) IN
  IF ci = 0 THEN l ELSE AppendEntries(l, ci, SubSeq(ents, ci - index, Len(ents)))
\* Mutant: commits what the leader committed, matched or not.
MaybeAppendTrustingCommit(s, l, index, committed, ents) ==
  LET appended == AppendFromConflict(s, l, index, ents)
  IN  CommitTo(appended, Min2(committed, LastIndex(s, appended)))
MaybeAppend(s, l, index, committed, ents) ==
  CommitTo(AppendFromConflict(s, l, index, ents), Min2(committed, index + Len(ents)))
MaybeAppendPanics(s, l, index, committed, ents) ==
  LET ci == FindConflict(s, l, index + 1, ents) IN
  \/ ci # 0 /\ (TermPanics(s, l, ci) \/ ci <= l.committed \/ AppendPanics(l, ci))
  \/ CommitToPanics(s, AppendFromConflict(s, l, index, ents),
                    Min2(committed, index + Len(ents)))

\* slice(lo, hi, maxSize): an error, a panic (here at any limit), or the entries
\* in [lo, hi), first those of the storage, cut short if the limit bites there.
SliceCompacted(s, l, lo) == lo < FirstIndex(s, l)
SlicePanics(s, l, lo, hi) ==
  \/ lo > hi
  \/ ~SliceCompacted(s, l, lo) /\ hi > LastIndex(s, l) + 1
  \/ /\ ~SliceCompacted(s, l, lo) /\ lo < hi /\ lo < l.offset
     /\ MSEntriesUnavailable(s, Min2(hi, l.offset))
  \/ ~SliceCompacted(s, l, lo) /\ lo < hi /\ hi > l.offset + Len(l.unstable)
     /\ hi > l.offset
\* Mutant: reads the storage up to its end, past unstable.offset.
StoredPartPastOffset(s, l, lo, hi, maxSize) ==
  IF lo < l.offset THEN MSEntries(s, lo, Min2(hi, MSLastIndex(s) + 1), maxSize) ELSE <<>>
StoredPart(s, l, lo, hi, maxSize) ==
  IF lo < l.offset THEN MSEntries(s, lo, Min2(hi, l.offset), maxSize) ELSE <<>>
UnstablePart(l, lo, hi) ==
  IF hi > l.offset
    THEN SubSeq(l.unstable, Max2(lo, l.offset) - l.offset + 1, hi - l.offset)
    ELSE <<>>
Slice(s, l, lo, hi, maxSize) ==
  LET stored == StoredPart(s, l, lo, hi, maxSize) IN
  IF lo = hi THEN <<>>
  ELSE IF lo < l.offset /\ Len(stored) < Min2(hi, l.offset) - lo THEN stored
  ELSE LimitSize(stored \o UnstablePart(l, lo, hi), maxSize)

\* hasNextEnts and nextEnts: the committed entries not yet applied.
\* Mutant: starts at the last applied entry again.
NextOffsetAtApplied(s, l) == Max2(l.applied, FirstIndex(s, l))
NextOffset(s, l) == Max2(l.applied + 1, FirstIndex(s, l))
\* Mutant: off by one.
HasNextEntsBeyond(s, l) == l.committed > NextOffset(s, l)
HasNextEnts(s, l) == l.committed + 1 > NextOffset(s, l)
NextEntsPanics(s, l) ==
  /\ HasNextEnts(s, l)
  /\ \/ SliceCompacted(s, l, NextOffset(s, l))
     \/ SlicePanics(s, l, NextOffset(s, l), l.committed + 1)
NextEnts(s, l, maxSize) ==
  IF HasNextEnts(s, l)
    THEN Slice(s, l, NextOffset(s, l), l.committed + 1, maxSize)
    ELSE <<>>

\* Mutant: does not look at the term, so a replaced entry counts as stable.
StableToAnyTerm(l, i, t) ==
  IF InUnstable(l, i)
    THEN [l EXCEPT !.offset = i + 1,
                   !.unstable = SubSeq(l.unstable, i + 1 - l.offset + 1, Len(l.unstable))]
    ELSE l

\* unstable.stableTo(i, t): drops the unstable entries up to i if entry i is
\* still the unstable one of term t.
StableTo(l, i, t) ==
  IF InUnstable(l, i) /\ UnstableTerm(l, i) = t
    THEN [l EXCEPT !.offset = i + 1,
                   !.unstable = SubSeq(l.unstable, i + 1 - l.offset + 1, Len(l.unstable))]
    ELSE l

\* appliedTo(i), 0 meaning nothing.
AppliedToPanics(l, i) == i # 0 /\ (l.committed < i \/ i < l.applied)
AppliedTo(l, i) == IF i = 0 THEN l ELSE [l EXCEPT !.applied = i]
=============================================================================
