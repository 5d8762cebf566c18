------------------------- MODULE FollowerLogProofs -------------------------
(***************************************************************************)
(* The safety of FollowerLog for every history of leaders, every batch     *)
(* size and any number of crashes, from the lemmas of RaftLogProofs, and   *)
(* that FollowerLog implements LogReplica.                                 *)
(***************************************************************************)
EXTENDS FollowerLog, RaftLogProofs

\* Storage, log, batch and state machine belong together (RaftLogProofs).
IInv ==
  /\ SafeState(storage, hardState, log, ready, machine)
  /\ panicked = FALSE
  /\ restarts \in 0 .. MaxRestarts
-----------------------------------------------------------------------------
(* The invariant. *)

\* A new node, with or without a snapshot in its storage.
LEMMA InitIInv == Init => IInv
<1> SUFFICES ASSUME Init PROVE IInv
  OBVIOUS
<1>1. PICK n \in 0 .. Len(Decided) :
        LET snap == [index |-> n, term |-> IF n = 0 THEN 0 ELSE Decided[n]] IN
        /\ storage = IF n = 0 THEN NewMemoryStorage ELSE ApplySnapshot(NewMemoryStorage, snap)
        /\ machine = SubSeq(Decided, 1, n)
  BY DEF Init
<1>2. hardState = 0 /\ log = NewLog(storage) /\ ready = NoReady /\ panicked = FALSE /\ restarts = 0
  BY DEF Init
<1> DEFINE term == IF n = 0 THEN 0 ELSE Decided[n]
<1>3. n \in Nat /\ term \in Terms \cup {0} /\ term \in Nat
  <2>1. Decided \in Seq(Terms) /\ Len(Decided) \in Nat /\ \A x \in Terms : x \in Nat
    BY LeadersAssumption
  <2>2. n # 0 => n \in 1 .. Len(Decided)
    BY <2>1
  <2>3. n # 0 => Decided[n] \in Terms
    BY <2>1, <2>2
  <2> QED BY <2>1, <2>3
<1>4. storage = [index |-> n, ents |-> <<term>>, snap |-> [index |-> n, term |-> term]]
  <2>1. CASE n = 0
    BY <1>1, <2>1 DEF NewMemoryStorage
  <2>2. CASE n # 0
    BY <1>1, <2>2 DEF ApplySnapshot
  <2> QED BY <2>1, <2>2
<1>5. /\ storage.index = n /\ Len(storage.ents) = 1 /\ storage.snap.index = n
      /\ storage.ents[1] = term
  BY <1>4
<1>6. StorageType(storage)
  <2> HIDE DEF term
  <2>1. <<term>> \in Seq(Terms \cup {0}) /\ <<term>> # <<>>
    BY <1>3
  <2> QED BY <1>3, <1>4, <2>1 DEF StorageType
<1>7. ReadyType(ready) /\ ready.stage = "none"
  BY <1>2 DEF ReadyType, NoReady
<1>8. SafeState(storage, 0, NewLog(storage), ready, SubSeq(Decided, 1, n))
  BY <1>5, <1>6, <1>7, InitSafe
<1>9. restarts \in 0 .. MaxRestarts
  BY <1>2, FollowerAssumption
<1> QED BY <1>1, <1>2, <1>8, <1>9 DEF IInv

\* Each handler and each call of the user keeps the invariant, and panics nowhere.
LEMMA StepIInv == IInv /\ [Next]_vars => IInv'
<1> SUFFICES ASSUME IInv, [Next]_vars PROVE IInv'
  OBVIOUS
<1>1. /\ SafeState(storage, hardState, log, ready, machine)
      /\ panicked = FALSE /\ restarts \in 0 .. MaxRestarts
      /\ StorageOK(storage, hardState) /\ RaftLogOK(storage, log)
      /\ BatchOK(storage, hardState, log, ready, machine)
      /\ ReadyType(ready)
  <2>1. SafeState(storage, hardState, log, ready, machine)
        /\ panicked = FALSE /\ restarts \in 0 .. MaxRestarts
    BY DEF IInv
  <2> QED BY <2>1 DEF SafeState, BatchOK, ReadyType
<1>2. ASSUME SafeState(storage', hardState', log', ready', machine'), panicked' = FALSE,
             restarts' \in 0 .. MaxRestarts
      PROVE  IInv'
  BY <1>2 DEF IInv
<1>3. CASE UNCHANGED vars
  BY <1>1, <1>2, <1>3 DEF vars
<1>4. ASSUME NEW t \in Terms,
             NEW prev \in 0 .. Len(LeaderLog[t]), NEW last \in 0 .. Len(LeaderLog[t]),
             NEW c \in CommitsOf(t), HandleAppendEntries(MsgApp(t, prev, last, c))
      PROVE  IInv'
  <2> DEFINE msg == MsgApp(t, prev, last, c)
  <2>1. CASE AppendMatching(msg)
    <3>1. ~(msg.index < log.committed) /\ MatchTerm(storage, log, msg.index, msg.logTerm)
      BY <2>1 DEF AppendMatching, Matches, AlreadyCommitted
    <3> DEFINE l2 == MaybeAppend(storage, log, msg.index, msg.commit, msg.ents)
    <3>2. /\ ~MaybeAppendPanics(storage, log, msg.index, msg.commit, msg.ents)
          /\ RaftLogOK(storage, l2) /\ Grown(storage, log, l2)
      <4> HIDE DEF msg
      <4> QED BY <1>1, <3>1, MatchingMessage DEF msg
    <3>3. log' = l2 /\ UNCHANGED <<storage, hardState, ready, machine, panicked, restarts>>
      BY <2>1, <3>2 DEF AppendMatching
    <3> HIDE DEF l2
    <3>4. SafeState(storage, hardState, l2, ready, machine)
      BY <1>1, <3>2, AppendSafe
    <3> QED BY <1>1, <1>2, <3>3, <3>4
  <2>2. CASE AnswerOnly(msg)
    <3>1. msg.index \in Nat
      <4>1. msg.index = prev
        BY MessageFacts, SMTT(20)
      <4>2. Len(LeaderLog[t]) \in Nat
        BY LeadersAssumption
      <4> QED BY <4>1, <4>2
    <3>2. ~TermPanics(storage, log, msg.index)
      <4> HIDE DEF msg
      <4> QED BY <1>1, <3>1, TermNeverPanics
    <3>3. UNCHANGED vars
      BY <2>2, <3>2 DEF AnswerOnly
    <3> QED BY <1>3, <3>3
  <2> QED BY <1>4, <2>1, <2>2 DEF HandleAppendEntries
<1>5. CASE TakeReady
  <2> DEFINE e == NextEnts(storage, log, MaxNextEnts)
  <2>1. ready.stage = "none"
    BY <1>5 DEF TakeReady
  <2>2. /\ ~NextEntsPanics(storage, log)
        /\ e \in Seq(Terms) /\ Len(machine) + Len(e) <= log.committed
        /\ e = SubSeq(Decided, Len(machine) + 1, Len(machine) + Len(e))
    BY <1>1, <2>1, FollowerAssumption, NextEntsFacts
  <2>3. /\ ready' = [stage |-> "taken", first |-> log.offset, ents |-> log.unstable,
                     apply |-> e, commit |-> log.committed]
        /\ UNCHANGED <<storage, hardState, log, machine, panicked, restarts>>
    BY <1>5, <2>2 DEF TakeReady
  <2> HIDE DEF e
  <2>4. /\ ready'.stage = "taken" /\ ready'.first = log.offset /\ ready'.ents = log.unstable
        /\ ready'.apply = e /\ ready'.commit = log.committed
    BY <2>3
  <2>5. ReadyType(ready')
    BY <1>1, <2>2, <2>3 DEF ReadyType, RaftLogOK
  <2>6. SafeState(storage, hardState, log, ready', machine)
    BY <1>1, <2>1, <2>2, <2>4, <2>5, TakeReadySafe
  <2> QED BY <1>1, <1>2, <2>3, <2>6
<1>6. CASE Persist
  <2> DEFINE r2 == [ready EXCEPT !.stage = "stored"]
  <2>1. ready.stage = "taken"
    BY <1>6 DEF Persist
  <2>2. /\ ReadyType(r2) /\ r2.stage = "stored" /\ r2.first = ready.first
        /\ r2.ents = ready.ents /\ r2.apply = ready.apply /\ r2.commit = ready.commit
    BY <1>1 DEF ReadyType
  <2> HIDE DEF r2
  <2>3. /\ ~MSAppendPanics(storage, ready.first, ready.ents)
        /\ SafeState(MSAppend(storage, ready.first, ready.ents), ready.commit, log, r2, machine)
    BY <1>1, <2>1, <2>2, PersistSafe
  <2>4. /\ storage' = MSAppend(storage, ready.first, ready.ents)
        /\ hardState' = ready.commit /\ ready' = r2
        /\ UNCHANGED <<log, machine, panicked, restarts>>
    BY <1>6, <2>3 DEF Persist, r2
  <2> QED BY <1>1, <1>2, <2>3, <2>4
<1>7. CASE Apply
  <2> DEFINE r2 == [ready EXCEPT !.stage = "applied"]
  <2>1. /\ ready.stage = "stored" /\ machine' = machine \o ready.apply /\ ready' = r2
        /\ UNCHANGED <<storage, hardState, log, panicked, restarts>>
    BY <1>7 DEF Apply
  <2>2. /\ ReadyType(r2) /\ r2.stage = "applied" /\ r2.first = ready.first
        /\ r2.ents = ready.ents /\ r2.apply = ready.apply /\ r2.commit = ready.commit
    BY <1>1 DEF ReadyType
  <2> HIDE DEF r2
  <2>3. SafeState(storage, hardState, log, r2, machine \o ready.apply)
    BY <1>1, <2>1, <2>2, ApplySafe
  <2> QED BY <1>1, <1>2, <2>1, <2>3
<1>8. CASE Advance
  <2>1. ready.stage = "applied"
    BY <1>8 DEF Advance
  <2>2. ReadyType(NoReady) /\ NoReady.stage = "none"
    BY DEF ReadyType, NoReady
  <2>3. StabilizedLog = (IF ready.ents = <<>> THEN log
                         ELSE StableTo(log, BatchLast(ready), ready.ents[Len(ready.ents)]))
    BY DEF StabilizedLog, BatchLast
  <2>4. AppliedIndex = (IF ready.apply = <<>> THEN 0 ELSE Len(machine))
    BY DEF AppliedIndex
  <2>5. /\ ~AppliedToPanics(StabilizedLog, AppliedIndex)
        /\ SafeState(storage, hardState, AppliedTo(StabilizedLog, AppliedIndex), NoReady, machine)
    BY <1>1, <2>1, <2>2, <2>3, <2>4, AdvanceSafe
  <2>6. /\ log' = AppliedTo(StabilizedLog, AppliedIndex) /\ ready' = NoReady
        /\ UNCHANGED <<storage, hardState, machine, panicked, restarts>>
    BY <1>8, <2>5 DEF Advance
  <2> QED BY <1>1, <1>2, <2>5, <2>6
<1>9. CASE TakeSnapshot
  <2>1. ~CreateSnapshotRefused(storage, Len(machine))
    BY <1>9 DEF TakeSnapshot
  <2>2. /\ ~CreateSnapshotPanics(storage, Len(machine))
        /\ SafeState(CreateSnapshot(storage, Len(machine)), hardState, log, ready, machine)
    BY <1>1, <2>1, TakeSnapshotSafe
  <2>3. /\ storage' = CreateSnapshot(storage, Len(machine))
        /\ UNCHANGED <<hardState, log, ready, machine, panicked, restarts>>
    BY <1>9, <2>2 DEF TakeSnapshot
  <2> QED BY <1>1, <1>2, <2>2, <2>3
<1>10. ASSUME NEW i \in 1 .. Len(Decided), CompactStorage(i) PROVE IInv'
  <2>1. i \in Nat /\ i <= storage.snap.index /\ ~CompactRefused(storage, i)
    BY <1>10 DEF CompactStorage
  <2>2. ~CompactPanics(storage, i)
        /\ SafeState(Compact(storage, i), hardState, log, ready, machine)
    BY <1>1, <2>1, CompactSafe
  <2>3. /\ storage' = Compact(storage, i)
        /\ UNCHANGED <<hardState, log, ready, machine, panicked, restarts>>
    BY <1>10, <2>2 DEF CompactStorage
  <2> QED BY <1>1, <1>2, <2>2, <2>3
<1>11. CASE Restart
  <2> DEFINE n == storage.snap.index
  <2>1. ReadyType(NoReady) /\ NoReady.stage = "none"
    BY DEF ReadyType, NoReady
  <2>2. LoadedLog = (IF hardState = 0 THEN NewLog(storage)
                     ELSE [NewLog(storage) EXCEPT !.committed = hardState])
    BY DEF LoadedLog
  <2>3. /\ ~(hardState # 0 /\ (hardState < NewLog(storage).committed \/ hardState > MSLastIndex(storage)))
        /\ ~AppliedToPanics(LoadedLog, n)
        /\ SafeState(storage, hardState, AppliedTo(LoadedLog, n), NoReady, SubSeq(machine, 1, n))
    BY <1>1, <2>1, <2>2, RestartSafe
  <2>4. panicked' = FALSE
    BY <1>11, <2>3 DEF Restart, LoadStatePanics
  <2>5. /\ log' = AppliedTo(LoadedLog, n) /\ machine' = SubSeq(machine, 1, n)
        /\ ready' = NoReady /\ UNCHANGED <<storage, hardState>>
    BY <1>11 DEF Restart
  <2>6. restarts' \in 0 .. MaxRestarts
    BY <1>1, <1>11, FollowerAssumption DEF Restart
  <2> QED BY <1>2, <2>3, <2>4, <2>5, <2>6
<1> QED BY <1>3, <1>4, <1>5, <1>6, <1>7, <1>8, <1>9, <1>10, <1>11 DEF Next, Receive

\* The three logs agree with the leaders and with each other, in every stage of
\* a batch, and no call panics.
THEOREM Invariant == Spec => []IInv
<1>1. Init => IInv
  BY InitIInv
<1>2. IInv /\ [Next]_vars => IInv'
  BY StepIInv
<1> QED BY <1>1, <1>2, PTL DEF Spec
-----------------------------------------------------------------------------
(* What the invariant means. *)

\* EntryAt reads the overlaid log.
LEMMA EntryAtFacts ==
  ASSUME NEW s, NEW hs, NEW l, StorageOK(s, hs), RaftLogOK(s, l),
         NEW i \in 1 .. LastIndex(s, l)
  PROVE  EntryAt(s, l, i) = Over(s, l.offset, l.unstable)[i]
<1> DEFINE f == Over(s, l.offset, l.unstable)
<1>1. /\ StorageType(s) /\ LogOK(s, l.offset, l.unstable, l.committed)
      /\ LastIndex(s, l) = Last(s, l.offset, l.unstable)
      /\ s.index <= l.committed /\ l.committed \in Nat
  BY RaftLogFacts DEF StorageOK
<1>2. s.index \in Nat /\ LastIndex(s, l) \in Nat
  BY <1>1, StorageFacts, OverFacts
<1>3. CASE i <= s.index
  <2>1. i \in 1 .. l.committed
    BY <1>1, <1>2, <1>3
  <2>2. f[i] = Decided[i]
    BY <1>1, <2>1 DEF LogOK, DecidedTo
  <2> QED BY <1>3, <2>2 DEF EntryAt
<1>4. CASE ~(i <= s.index)
  <2>1. ~(i = 0 \/ i < s.index \/ i > LastIndex(s, l)) /\ i \in Nat
    BY <1>2, <1>4
  <2>2. Term(s, l, i) = f[i]
    BY <2>1, TermFacts
  <2> QED BY <1>4, <2>2 DEF EntryAt
<1> QED BY <1>3, <1>4

\* The state, taken apart.
LEMMA StateFacts ==
  ASSUME IInv
  PROVE  /\ SafeState(storage, hardState, log, ready, machine)
         /\ StorageOK(storage, hardState) /\ StorageType(storage)
         /\ RaftLogOK(storage, log)
         /\ LogLast \in Nat /\ log.committed \in Nat /\ log.committed <= LogLast
         /\ \A i \in 1 .. LogLast : LogAt(i) = Over(storage, log.offset, log.unstable)[i]
         /\ CoherentTo(Over(storage, log.offset, log.unstable), LogLast)
         /\ DecidedTo(Over(storage, log.offset, log.unstable), log.committed)
<1>1. SafeState(storage, hardState, log, ready, machine)
  BY DEF IInv
<1>2. /\ StorageOK(storage, hardState) /\ StorageType(storage) /\ RaftLogOK(storage, log)
      /\ LogLast \in Nat /\ log.committed \in Nat /\ log.committed <= LogLast
  BY <1>1, SafeFacts DEF LogLast
<1>3. /\ LogOK(storage, log.offset, log.unstable, log.committed)
      /\ LogLast = Last(storage, log.offset, log.unstable)
  BY <1>2, RaftLogFacts DEF LogLast
<1>4. \A i \in 1 .. LogLast : LogAt(i) = Over(storage, log.offset, log.unstable)[i]
  BY <1>2, EntryAtFacts DEF LogAt, LogLast
<1> QED BY <1>1, <1>2, <1>3, <1>4 DEF LogOK

\* Types.
LEMMA TypeOKHolds == IInv => TypeOK
<1> SUFFICES ASSUME IInv PROVE TypeOK
  OBVIOUS
<1>1. /\ StorageOK(storage, hardState) /\ StorageType(storage) /\ RaftLogOK(storage, log)
      /\ SafeState(storage, hardState, log, ready, machine)
  BY StateFacts
<1>2. log.offset \in Nat \ {0} /\ machine \in Seq(Terms) /\ hardState \in Nat
  BY <1>1, SafeFacts
<1>3. log \in [offset : Nat \ {0}, unstable : Seq(Terms), committed : Nat, applied : Nat]
  BY <1>1, <1>2 DEF RaftLogOK
<1>4. ready \in [stage : {"none", "taken", "stored", "applied"}, first : Nat,
                 ents : Seq(Terms), apply : Seq(Terms), commit : Nat]
  BY <1>1 DEF SafeState, BatchOK
<1>5. panicked \in BOOLEAN /\ restarts \in 0 .. MaxRestarts
  BY DEF IInv
<1> QED BY <1>1, <1>2, <1>3, <1>4, <1>5 DEF TypeOK, StorageType

\* Committed entries are decided ones.
LEMMA CommittedIsDecidedHolds == IInv => CommittedIsDecided
<1> SUFFICES ASSUME IInv PROVE CommittedIsDecided
  OBVIOUS
<1>1. ASSUME NEW j \in 1 .. log.committed PROVE LogAt(j) = Decided[j]
  <2>1. j \in 1 .. LogLast
    BY StateFacts
  <2> QED BY <2>1, StateFacts DEF DecidedTo
<1> QED BY <1>1, StateFacts DEF CommittedIsDecided, DecidedUpTo

\* Every entry stands on what its leader had before it.
LEMMA LogCoherentHolds == IInv => LogCoherent
<1> SUFFICES ASSUME IInv, NEW i \in 1 .. LogLast PROVE LeaderHad(LogAt, i)
  BY DEF LogCoherent
<1> DEFINE f == Over(storage, log.offset, log.unstable)
<1>1. Had(f, i)
  BY StateFacts DEF CoherentTo
<1>2. LogLast \in Nat /\ \A j \in 1 .. LogLast : LogAt(j) = f[j]
  BY StateFacts
<1> HIDE DEF f
<1>3. LogAt(i) = f[i] /\ \A j \in 1 .. i : LogAt(j) = f[j]
  BY <1>2
<1> QED BY <1>1, <1>3 DEF Had, LeaderHad

\* The state machine is a prefix of the decided log that a crash does not undo.
LEMMA AppliedHolds == IInv => AppliedInOrder /\ AppliedIsDurable
<1> SUFFICES ASSUME IInv PROVE AppliedInOrder /\ AppliedIsDurable
  OBVIOUS
<1>1. SafeState(storage, hardState, log, ready, machine)
  BY StateFacts
<1>2. AppliedInOrder
  BY <1>1 DEF SafeState, MachineOK, AppliedInOrder
<1> DEFINE c == Max2(hardState, storage.index)
<1>3. /\ Len(machine) <= c /\ c <= MSLastIndex(storage)
      /\ \A j \in 1 .. c : SAt(storage, j) = Decided[j]
  BY <1>1, DurableFacts
<1>4. \A j : StoredAt(j) = SAt(storage, j)
  BY DEF StoredAt, SAt
<1>5. AppliedIsDurable
  BY <1>3, <1>4 DEF AppliedIsDurable, RestartCommit, StoredLast, DecidedUpTo
<1> QED BY <1>2, <1>5

\* A log without unstable entries ends where the storage ends.
LEMMA NoResurrectionHolds == IInv => NoResurrection
<1> SUFFICES ASSUME IInv, log.unstable = <<>> PROVE StoredLast = log.offset - 1
  BY DEF NoResurrection
<1>1. StorageType(storage) /\ RaftLogOK(storage, log)
  BY StateFacts
<1>2. log.offset = MSLastIndex(storage) + 1 /\ MSLastIndex(storage) \in Nat
  BY <1>1, StorageFacts DEF RaftLogOK, LogOK
<1> QED BY <1>2 DEF StoredLast

\* An acknowledgement is true of the log the handler leaves.
LEMMA AckIsTrueHolds == IInv => AckIsTrue
<1> SUFFICES ASSUME IInv, NEW t \in Terms,
                    NEW prev \in 0 .. Len(LeaderLog[t]), NEW last \in 0 .. Len(LeaderLog[t]),
                    NEW c \in CommitsOf(t), NEW m, m = MsgApp(t, prev, last, c), Matches(m)
             PROVE  LET appended == MaybeAppend(storage, log, m.index, m.commit, m.ents) IN
                    /\ Answer(m).index <= LastIndex(storage, appended)
                    /\ \A j \in 1 .. Answer(m).index :
                         EntryAt(storage, appended, j) = LeaderLog[t][j]
  BY DEF AckIsTrue
<1> DEFINE l2 == MaybeAppend(storage, log, m.index, m.commit, m.ents)
           n == m.index + Len(m.ents)
<1>1. ~(m.index < log.committed) /\ MatchTerm(storage, log, m.index, m.logTerm)
  BY DEF Matches, AlreadyCommitted
<1>2. Answer(m).index = n
  BY <1>1 DEF Answer, Matches, AlreadyCommitted
<1>3. /\ RaftLogOK(storage, l2) /\ n <= LastIndex(storage, l2)
      /\ Same(Over(storage, l2.offset, l2.unstable), LeaderLog[t], n)
  BY <1>1, StateFacts, MatchingMessage
<1>4. n \in Nat
  <2>1. m.index = prev /\ m.ents \in Seq(Terms)
    BY MessageFacts
  <2>2. Len(LeaderLog[t]) \in Nat
    BY LeadersAssumption
  <2> QED BY <2>1, <2>2
<1> HIDE DEF l2, n
<1>5. ASSUME NEW j \in 1 .. n PROVE EntryAt(storage, l2, j) = LeaderLog[t][j]
  <2>1. LastIndex(storage, l2) \in Nat
    <3>1. StorageOK(storage, hardState) /\ StorageType(storage)
      BY StateFacts
    <3>2. LogOK(storage, l2.offset, l2.unstable, l2.committed)
          /\ LastIndex(storage, l2) = Last(storage, l2.offset, l2.unstable)
      BY <1>3, <3>1, RaftLogFacts
    <3> QED BY <3>1, <3>2, OverFacts
  <2>2. j \in 1 .. LastIndex(storage, l2)
    BY <1>3, <1>4, <2>1
  <2>3. EntryAt(storage, l2, j) = Over(storage, l2.offset, l2.unstable)[j]
    BY <1>3, <2>2, StateFacts, EntryAtFacts
  <2> QED BY <1>3, <2>3 DEF Same
<1> QED BY <1>2, <1>3, <1>5 DEF l2

\* slice reads the log.
LEMMA SliceIsLogHolds == IInv => SliceIsLog
<1> SUFFICES ASSUME IInv, NEW lo \in FirstIndex(storage, log) .. LogLast,
                    NEW hi \in lo + 1 .. LogLast + 1, NEW maxSize \in 0 .. hi - lo
             PROVE  Slice(storage, log, lo, hi, maxSize) =
                      [k \in 1 .. Min2(hi - lo, Max2(1, maxSize)) |-> LogAt(lo + k - 1)]
  BY DEF SliceIsLog
<1> DEFINE f == Over(storage, log.offset, log.unstable)
           e == Slice(storage, log, lo, hi, maxSize)
           n == Limited(hi - lo, maxSize)
<1>1. /\ StorageOK(storage, hardState) /\ StorageType(storage) /\ RaftLogOK(storage, log)
      /\ LogLast \in Nat /\ \A i \in 1 .. LogLast : LogAt(i) = f[i]
  BY StateFacts
<1>2. storage.index \in Nat
  BY <1>1, StorageFacts
<1>3. /\ lo \in Nat /\ storage.index < lo /\ hi \in Nat /\ lo < hi /\ hi <= LogLast + 1
      /\ maxSize \in Nat /\ hi - lo \in Nat
  BY <1>1, <1>2 DEF FirstIndex, MSFirstIndex
<1> HIDE DEF f, e, n
<1>4. e \in Seq(Terms) /\ Len(e) = n /\ \A k \in 1 .. n : e[k] = f[lo + k - 1]
  <2>1. hi <= LastIndex(storage, log) + 1
    BY <1>3 DEF LogLast
  <2>2. Reads(Slice(storage, log, lo, hi, maxSize), Over(storage, log.offset, log.unstable), lo,
              Limited(hi - lo, maxSize))
    BY <1>1, <1>3, <2>1, SliceFacts
  <2>3. Reads(e, f, lo, n)
    BY <2>2 DEF e, f, n
  <2> QED BY <2>3 DEF Reads
<1>5. n \in Nat /\ n <= hi - lo /\ n = Min2(hi - lo, Max2(1, maxSize))
  BY <1>3 DEF Limited, Min2, Max2, n
<1>6. ASSUME NEW k \in 1 .. n PROVE e[k] = LogAt(lo + k - 1)
  <2>1. lo + k - 1 \in 1 .. LogLast
    BY <1>1, <1>2, <1>3, <1>5
  <2> QED BY <1>1, <1>4, <2>1
<1>7. e = [k \in 1 .. n |-> e[k]]
  BY <1>4
<1>8. e = [k \in 1 .. n |-> LogAt(lo + k - 1)]
  BY <1>6, <1>7
<1> QED BY <1>5, <1>8 DEF e

\* Every variable keeps its type, along any sequence of messages and batches.
THEOREM TypeCorrect == Spec => []TypeOK
  BY Invariant, TypeOKHolds, PTL

\* No call of log.go, log_unstable.go or storage.go panics.
THEOREM NeverPanics == Spec => []NoPanic
<1>1. IInv => NoPanic
  BY DEF IInv, NoPanic
<1> QED BY <1>1, Invariant, PTL

\* What maybeAppend leaves is coherent with the leaders, whatever the order and
\* the age of the messages.
THEOREM LogStaysCoherent == Spec => []LogCoherent
  BY Invariant, LogCoherentHolds, PTL

\* What commitTo commits was decided.
THEOREM OnlyDecidedIsCommitted == Spec => []CommittedIsDecided
  BY Invariant, CommittedIsDecidedHolds, PTL

\* nextEnts hands the state machine the decided entries, in order and once.
THEOREM AppliedStaysInOrder == Spec => []AppliedInOrder
  BY Invariant, AppliedHolds, PTL

\* What was applied survives a crash at any moment.
THEOREM AppliedStaysDurable == Spec => []AppliedIsDurable
  BY Invariant, AppliedHolds, PTL

\* stableTo forgets no replaced entry: what is stable is what the storage ends with.
THEOREM StableIsStored == Spec => []NoResurrection
  BY Invariant, NoResurrectionHolds, PTL

\* The index of an accepting MsgAppResp is one up to which the logs agree.
THEOREM AcksAreTrue == Spec => []AckIsTrue
  BY Invariant, AckIsTrueHolds, PTL

\* slice returns the entries it was asked for, wherever they are.
THEOREM SlicesAreTheLog == Spec => []SliceIsLog
  BY Invariant, SliceIsLogHolds, PTL
-----------------------------------------------------------------------------
(* The log as its user sees it. *)

\* The entries of a log, without where they are kept.
View(s, l) == [i \in 1 .. LastIndex(s, l) |-> Over(s, l.offset, l.unstable)[i]]
Entries == [i \in 1 .. LogLast |-> LogAt(i)]

\* Both logs are the same to their user.
Unseen(s, l, s2, l2) ==
  /\ LastIndex(s2, l2) = LastIndex(s, l)
  /\ Same(Over(s2, l2.offset, l2.unstable), Over(s, l.offset, l.unstable), LastIndex(s, l))

\* The entries are a sequence, coherent to its end and decided to the commit index.
LEMMA ViewFacts ==
  ASSUME NEW s, NEW hs, NEW l, StorageOK(s, hs), RaftLogOK(s, l)
  PROVE  /\ LastIndex(s, l) \in Nat
         /\ View(s, l) \in Seq(Terms) /\ Len(View(s, l)) = LastIndex(s, l)
         /\ \A i \in 1 .. LastIndex(s, l) : View(s, l)[i] = Over(s, l.offset, l.unstable)[i]
         /\ CoherentTo(View(s, l), LastIndex(s, l))
         /\ l.committed \in Nat /\ l.committed <= LastIndex(s, l)
         /\ DecidedTo(View(s, l), l.committed)
<1> DEFINE n == LastIndex(s, l)
           f == Over(s, l.offset, l.unstable)
           v == View(s, l)
<1>1. /\ StorageType(s) /\ LogOK(s, l.offset, l.unstable, l.committed)
      /\ n = Last(s, l.offset, l.unstable) /\ l.committed \in Nat /\ l.committed <= n
  BY RaftLogFacts DEF StorageOK
<1>2. n \in Nat /\ (\A i \in 1 .. n : f[i] \in Terms) /\ CoherentTo(f, n) /\ DecidedTo(f, l.committed)
  BY <1>1, OverFacts DEF LogOK
<1>3. v = [i \in 1 .. n |-> f[i]]
  BY DEF View
<1> HIDE DEF n, f, v
<1>4. v \in Seq(Terms) /\ Len(v) = n /\ \A i \in 1 .. n : v[i] = f[i]
  BY <1>2, <1>3
<1>5. Same(v, f, n)
  BY <1>4 DEF Same
<1>6. CoherentTo(v, n) /\ DecidedTo(v, l.committed)
  BY <1>1, <1>2, <1>5, SameTransport
<1> QED BY <1>1, <1>2, <1>4, <1>6 DEF n, f, v

\* Two coherent logs with the same entry at n are the same up to n.
LEMMA SameEnd ==
  ASSUME NEW n \in Nat, NEW f, NEW g, CoherentTo(f, n), CoherentTo(g, n), n # 0 => f[n] = g[n]
  PROVE  Same(f, g, n)
<1>1. CASE n = 0
  BY <1>1 DEF Same
<1>2. CASE n # 0
  <2>1. n \in 1 .. n /\ f[n] = g[n]
    BY <1>2
  <2>2. Had(f, n) /\ Had(g, n)
    BY <2>1 DEF CoherentTo
  <2> QED BY <2>1, <2>2 DEF Had, Same
<1> QED BY <1>1, <1>2

\* A change that keeps the last index, and the entry there, keeps the log.
LEMMA SameLastUnseen ==
  ASSUME NEW s, NEW hs, NEW l, StorageOK(s, hs), RaftLogOK(s, l),
         NEW s2, NEW hs2, NEW l2, StorageOK(s2, hs2), RaftLogOK(s2, l2),
         LastIndex(s2, l2) = LastIndex(s, l),
         LET n == LastIndex(s, l) IN
         n # 0 => Over(s2, l2.offset, l2.unstable)[n] = Over(s, l.offset, l.unstable)[n]
  PROVE  Unseen(s, l, s2, l2)
<1> DEFINE n == LastIndex(s, l)
           f == Over(s, l.offset, l.unstable)
           g == Over(s2, l2.offset, l2.unstable)
<1>1. StorageType(s) /\ StorageType(s2)
  BY DEF StorageOK
<1>2. /\ LogOK(s, l.offset, l.unstable, l.committed) /\ n = Last(s, l.offset, l.unstable)
      /\ LogOK(s2, l2.offset, l2.unstable, l2.committed) /\ n = Last(s2, l2.offset, l2.unstable)
  BY <1>1, RaftLogFacts
<1>3. n \in Nat /\ CoherentTo(f, n) /\ CoherentTo(g, n)
  BY <1>1, <1>2, OverFacts DEF LogOK
<1>4. n # 0 => g[n] = f[n]
  OBVIOUS
<1> HIDE DEF n, f, g
<1>5. Same(g, f, n)
  BY <1>3, <1>4, SameEnd
<1> QED BY <1>5 DEF Unseen, n, f, g

\* A log with unstable entries ends with the last of them.
LEMMA UnstableLast ==
  ASSUME NEW s, NEW hs, NEW l, StorageOK(s, hs), RaftLogOK(s, l), l.unstable # <<>>
  PROVE  /\ LastIndex(s, l) = l.offset + Len(l.unstable) - 1
         /\ LastIndex(s, l) \in Nat
         /\ Over(s, l.offset, l.unstable)[LastIndex(s, l)] = l.unstable[Len(l.unstable)]
<1> DEFINE n == LastIndex(s, l)
<1>1. /\ StorageType(s) /\ LogOK(s, l.offset, l.unstable, l.committed)
      /\ n = Last(s, l.offset, l.unstable)
  BY RaftLogFacts DEF StorageOK
<1>2. /\ l.offset \in Nat \ {0} /\ l.unstable \in Seq(Terms) /\ Len(l.unstable) \in Nat \ {0}
      /\ n = l.offset + Len(l.unstable) - 1 /\ n \in Nat
  BY <1>1, OverLast
<1>3. Over(s, l.offset, l.unstable)[n] = IF l.offset <= n /\ n < l.offset + Len(l.unstable)
                                           THEN l.unstable[n - l.offset + 1] ELSE SAt(s, n)
  BY <1>1, <1>2, OverFacts
<1> HIDE DEF n
<1>4. l.offset <= n /\ n < l.offset + Len(l.unstable) /\ n - l.offset + 1 = Len(l.unstable)
  BY <1>2
<1> QED BY <1>2, <1>3, <1>4 DEF n

\* A log without unstable entries is the storage.
LEMMA StableLast ==
  ASSUME NEW s, NEW hs, NEW l, StorageOK(s, hs), RaftLogOK(s, l), l.unstable = <<>>
  PROVE  /\ LastIndex(s, l) = MSLastIndex(s) /\ l.offset = MSLastIndex(s) + 1
         /\ LastIndex(s, l) \in Nat
         /\ Over(s, l.offset, l.unstable)[LastIndex(s, l)] = SAt(s, LastIndex(s, l))
<1> DEFINE n == LastIndex(s, l)
<1>1. /\ StorageType(s) /\ LogOK(s, l.offset, l.unstable, l.committed)
  BY RaftLogFacts DEF StorageOK
<1>2. n = MSLastIndex(s) /\ l.offset = MSLastIndex(s) + 1 /\ n \in Nat
  BY <1>1, StorageFacts DEF LastIndex, LogOK
<1>3. Over(s, l.offset, l.unstable)[n] = IF l.offset <= n /\ n < l.offset + Len(l.unstable)
                                           THEN l.unstable[n - l.offset + 1] ELSE SAt(s, n)
  BY <1>1, <1>2, OverFacts
<1> HIDE DEF n
<1>4. ~(l.offset <= n)
  BY <1>2
<1> QED BY <1>2, <1>3, <1>4 DEF n

\* A tail ends as the sequence does.
LEMMA LastOfTail ==
  ASSUME NEW u \in Seq(Terms), NEW a \in Nat \ {0}, NEW v, v = SubSeq(u, a, Len(u)), v # <<>>
  PROVE  v[Len(v)] = u[Len(u)]
<1>1. Len(u) \in Nat
  OBVIOUS
<1>2. CASE a > Len(u)
  BY <1>1, <1>2
<1>3. CASE a <= Len(u)
  <2>1. Len(v) = Len(u) - a + 1 /\ \A k \in 1 .. Len(u) - a + 1 : v[k] = u[a + k - 1]
    BY <1>1, <1>3
  <2>2. Len(u) - a + 1 \in 1 .. Len(u) - a + 1 /\ a + (Len(u) - a + 1) - 1 = Len(u)
    BY <1>1, <1>3
  <2> QED BY <2>1, <2>2
<1> QED BY <1>1, <1>2, <1>3

\* Storage.Append writes below what the raft goroutine has unstable, or nothing.
LEMMA PersistUnseen ==
  ASSUME NEW s, NEW hs, NEW l, NEW r, NEW m, SafeState(s, hs, l, r, m), r.stage = "taken",
         NEW s2, s2 = MSAppend(s, r.first, r.ents),
         NEW hs2, StorageOK(s2, hs2), RaftLogOK(s2, l)
  PROVE  Unseen(s, l, s2, l)
<1>1. StorageOK(s, hs) /\ RaftLogOK(s, l) /\ BatchOK(s, hs, l, r, m)
  BY SafeFacts
<1>2. CASE l.unstable # <<>>
  <2>1. LastIndex(s2, l) = LastIndex(s, l)
    BY <1>1, <1>2, UnstableLast
  <2> DEFINE n == LastIndex(s, l)
  <2>2. Over(s2, l.offset, l.unstable)[n] = Over(s, l.offset, l.unstable)[n]
    BY <1>1, <1>2, <2>1, UnstableLast
  <2> QED BY <1>1, <2>1, <2>2, SameLastUnseen
<1>3. CASE l.unstable = <<>>
  <2>1. r.ents = <<>>
    BY <1>1, <1>3 DEF BatchOK
  <2>2. s2 = s
    BY <2>1 DEF MSAppend, MSAppendIgnored
  <2> QED BY <2>2 DEF Unseen, Same
<1> QED BY <1>2, <1>3

\* stableTo drops an unstable entry only when the storage has it, and the last one
\* only when the storage ends with it; appliedTo touches no entry.
LEMMA AdvanceUnseen ==
  ASSUME NEW s, NEW hs, NEW l, NEW r, NEW m, SafeState(s, hs, l, r, m), r.stage = "applied",
         NEW l1, l1 = (IF r.ents = <<>> THEN l
                       ELSE StableTo(l, BatchLast(r), r.ents[Len(r.ents)])),
         NEW ai, NEW l2, l2 = AppliedTo(l1, ai), RaftLogOK(s, l2)
  PROVE  Unseen(s, l, s, l2) /\ l2.committed = l.committed
<1> DEFINE i == BatchLast(r)
           n == LastIndex(s, l)
           u2 == SubSeq(l.unstable, i + 1 - l.offset + 1, Len(l.unstable))
<1>1. /\ StorageOK(s, hs) /\ RaftLogOK(s, l) /\ BatchOK(s, hs, l, r, m)
      /\ l.offset \in Nat \ {0} /\ MSLastIndex(s) \in Nat /\ StorageType(s)
      /\ i \in Int /\ n \in Nat
  BY SafeFacts
<1>2. l.unstable \in Seq(Terms)
  BY <1>1 DEF RaftLogOK
<1>3. CASE l1 = l
  <2>1. l2.offset = l.offset /\ l2.unstable = l.unstable /\ l2.committed = l.committed
    BY <1>1, <1>3 DEF AppliedTo, RaftLogOK
  <2>2. LastIndex(s, l2) = LastIndex(s, l)
    BY <2>1 DEF LastIndex
  <2> QED BY <2>1, <2>2 DEF Unseen, Same
<1>4. CASE l1 # l
  <2>1. /\ r.ents # <<>> /\ InUnstable(l, i) /\ UnstableTerm(l, i) = r.ents[Len(r.ents)]
        /\ l1 = [l EXCEPT !.offset = i + 1, !.unstable = u2]
    BY <1>4 DEF StableTo
  <2>2. i = MSLastIndex(s) /\ SAt(s, i) = r.ents[Len(r.ents)]
    BY <1>1, <2>1 DEF BatchOK
  <2>3. u2 \in Seq(Terms) /\ Last(s, i + 1, u2) = n /\ LogOK(s, i + 1, u2, l.committed)
    BY <1>1, <2>1, <2>2, StableFacts
  <2>4. l2.offset = i + 1 /\ l2.unstable = u2 /\ l2.committed = l.committed
    <3> HIDE DEF u2, i
    <3>1. l1.offset = i + 1 /\ l1.unstable = u2 /\ l1.committed = l.committed
      BY <1>1, <2>1 DEF RaftLogOK
    <3>2. l1 \in [offset : Nat, unstable : Seq(Terms), committed : Nat, applied : Nat]
      <4>1. l \in [offset : Nat, unstable : Seq(Terms), committed : Nat, applied : Nat]
        BY <1>1 DEF RaftLogOK
      <4>2. i + 1 \in Nat /\ u2 \in Seq(Terms)
        BY <1>1, <2>2, <2>3
      <4> QED BY <2>1, <4>1, <4>2
    <3> QED BY <3>1, <3>2 DEF AppliedTo
  <2>5. LastIndex(s, l2) = n
    BY <1>1, <2>3, <2>4, RaftLogFacts
  <2> DEFINE g == Over(s, l2.offset, l2.unstable)
             f == Over(s, l.offset, l.unstable)
  <2>6. l.unstable # <<>> /\ l.offset <= i /\ i < l.offset + Len(l.unstable)
    <3>1. l.offset <= i /\ i < l.offset + Len(l.unstable)
      BY <2>1 DEF InUnstable
    <3> QED BY <1>1, <1>2, <2>2, <3>1
  <2>7. n = l.offset + Len(l.unstable) - 1 /\ f[n] = l.unstable[Len(l.unstable)]
    BY <1>1, <2>6, UnstableLast
  <2>8. g[n] = f[n]
    <3>1. CASE u2 = <<>>
      <4>1. n = MSLastIndex(s) /\ g[n] = SAt(s, n)
        BY <1>1, <2>4, <2>5, <3>1, StableLast
      <4>2. UnstableTerm(l, n) = l.unstable[Len(l.unstable)]
        <5>1. n - l.offset + 1 = Len(l.unstable)
          BY <1>1, <1>2, <2>7
        <5> QED BY <5>1 DEF UnstableTerm
      <4> QED BY <2>1, <2>2, <2>7, <4>1, <4>2
    <3>2. CASE u2 # <<>>
      <4>1. g[n] = u2[Len(u2)]
        <5>1. l2.unstable # <<>>
          BY <2>4, <3>2
        <5>2. /\ LastIndex(s, l2) = l2.offset + Len(l2.unstable) - 1
              /\ g[LastIndex(s, l2)] = l2.unstable[Len(l2.unstable)]
          BY <1>1, <5>1, UnstableLast
        <5> HIDE DEF n, i, u2, g
        <5> QED BY <2>4, <2>5, <5>2
      <4>2. i + 1 - l.offset + 1 \in Nat \ {0}
        BY <1>1, <2>2, <2>6
      <4>3. u2[Len(u2)] = l.unstable[Len(l.unstable)]
        BY <1>2, <3>2, <4>2, LastOfTail
      <4> QED BY <2>7, <4>1, <4>3
    <3> QED BY <3>1, <3>2
  <2> QED BY <1>1, <2>4, <2>5, <2>8, SameLastUnseen
<1> QED BY <1>3, <1>4

\* CreateSnapshot changes no entry, Compact those that the snapshot has.
LEMMA StorageUnseen ==
  ASSUME NEW s, NEW hs, NEW l, NEW s2, StorageOK(s, hs), RaftLogOK(s, l),
         StorageOK(s2, hs), RaftLogOK(s2, l), MSLastIndex(s2) = MSLastIndex(s),
         MSLastIndex(s) > s2.index => SAt(s2, MSLastIndex(s)) = SAt(s, MSLastIndex(s))
  PROVE  Unseen(s, l, s2, l)
<1> DEFINE n == LastIndex(s, l)
           f == Over(s, l.offset, l.unstable)
           g == Over(s2, l.offset, l.unstable)
<1>1. LastIndex(s2, l) = n
  BY DEF LastIndex
<1>2. CASE l.unstable # <<>>
  <2>1. g[n] = f[n]
    BY <1>1, <1>2, UnstableLast
  <2> QED BY <1>1, <2>1, SameLastUnseen
<1>3. CASE l.unstable = <<>>
  <2>1. n = MSLastIndex(s) /\ g[n] = SAt(s2, n) /\ f[n] = SAt(s, n) /\ n \in Nat
    BY <1>1, <1>3, StableLast
  <2>2. CASE n > s2.index
    BY <1>1, <2>1, <2>2, SameLastUnseen
  <2>3. CASE ~(n > s2.index)
    <3>1. StorageType(s) /\ StorageType(s2)
      BY DEF StorageOK
    <3>2. /\ LogOK(s, l.offset, l.unstable, l.committed)
          /\ LogOK(s2, l.offset, l.unstable, l.committed)
          /\ s2.index <= l.committed /\ l.committed \in Nat /\ s2.index \in Nat
      BY <3>1, RaftLogFacts, StorageFacts
    <3>3. DecidedTo(f, l.committed) /\ DecidedTo(g, l.committed) /\ n <= l.committed
      BY <2>1, <2>3, <3>2 DEF LogOK
    <3>4. n # 0 => g[n] = f[n]
      <4> HAVE n # 0
      <4>1. n \in 1 .. l.committed
        BY <2>1, <3>2, <3>3
      <4> QED BY <3>3, <4>1 DEF DecidedTo
    <3> QED BY <1>1, <3>4, SameLastUnseen
  <2> QED BY <2>2, <2>3
<1> QED BY <1>2, <1>3

\* Entries that are the same make the same view.
LEMMA SameView ==
  ASSUME NEW s, NEW l, NEW s2, NEW l2, Unseen(s, l, s2, l2)
  PROVE  View(s2, l2) = View(s, l)
  BY DEF Unseen, Same, View

\* What LogAt reads is the view.
LEMMA EntriesAreView ==
  ASSUME NEW s, NEW hs, NEW l, StorageOK(s, hs), RaftLogOK(s, l)
  PROVE  [i \in 1 .. LastIndex(s, l) |-> EntryAt(s, l, i)] = View(s, l)
  BY EntryAtFacts DEF View

\* The state before and after a step, in the terms of the lemmas.
LEMMA TwoStates ==
  ASSUME IInv, IInv'
  PROVE  /\ SafeState(storage, hardState, log, ready, machine)
         /\ StorageOK(storage, hardState) /\ RaftLogOK(storage, log)
         /\ BatchOK(storage, hardState, log, ready, machine)
         /\ MachineOK(storage, hardState, log, ready, machine)
         /\ StorageType(storage) /\ storage.index \in Nat /\ MSLastIndex(storage) \in Nat
         /\ log.committed \in Nat /\ log.committed <= LogLast /\ hardState \in Nat
         /\ LogLast \in Nat
         /\ StorageOK(storage', hardState') /\ RaftLogOK(storage', log')
         /\ log'.committed \in Nat /\ hardState' \in Nat
         /\ panicked' = FALSE
         /\ Entries = View(storage, log) /\ Entries' = View(storage', log')
<1>1. /\ SafeState(storage, hardState, log, ready, machine)
      /\ SafeState(storage', hardState', log', ready', machine')
      /\ panicked' = FALSE
  BY DEF IInv
<1>2. /\ StorageOK(storage, hardState) /\ RaftLogOK(storage, log)
      /\ BatchOK(storage, hardState, log, ready, machine)
      /\ MachineOK(storage, hardState, log, ready, machine)
      /\ StorageType(storage) /\ storage.index \in Nat /\ MSLastIndex(storage) \in Nat
      /\ log.committed \in Nat /\ log.committed <= LastIndex(storage, log) /\ hardState \in Nat
      /\ LastIndex(storage, log) \in Nat
  BY <1>1, SafeFacts
<1>3. /\ StorageOK(storage', hardState') /\ RaftLogOK(storage', log')
      /\ log'.committed \in Nat /\ hardState' \in Nat
  BY <1>1, SafeFacts
<1>4. Entries = [i \in 1 .. LastIndex(storage, log) |-> EntryAt(storage, log, i)]
  BY DEF Entries, LogLast, LogAt
<1>5. Entries' = [i \in 1 .. LastIndex(storage', log') |-> EntryAt(storage', log', i)]
  BY DEF Entries, LogLast, LogAt
<1>6. Entries = View(storage, log)
  BY <1>2, <1>4, EntriesAreView
<1>7. Entries' = View(storage', log')
  BY <1>3, <1>5, EntriesAreView
<1> QED BY <1>1, <1>2, <1>3, <1>6, <1>7 DEF LogLast

Bookkeeping ==
  \/ TakeReady \/ Persist \/ Apply \/ Advance \/ TakeSnapshot
  \/ \E i \in 1 .. Len(Decided) : CompactStorage(i)

\* No step of the user's changes an entry, the end of the log or the commit index.
LEMMA BookkeepingUnseen ==
  ASSUME IInv, IInv', Bookkeeping
  PROVE  Unseen(storage, log, storage', log') /\ log'.committed = log.committed
<1>1. /\ SafeState(storage, hardState, log, ready, machine)
      /\ StorageOK(storage, hardState) /\ RaftLogOK(storage, log)
      /\ StorageType(storage) /\ storage.index \in Nat /\ MSLastIndex(storage) \in Nat
      /\ StorageOK(storage', hardState') /\ RaftLogOK(storage', log')
      /\ panicked' = FALSE
  BY TwoStates
<1>2. ASSUME storage' = storage, log' = log
      PROVE  Unseen(storage, log, storage', log') /\ log'.committed = log.committed
  BY <1>2 DEF Unseen, Same
<1>3. CASE TakeReady
  BY <1>1, <1>2, <1>3 DEF TakeReady, Panic
<1>4. CASE Persist
  <2>1. /\ ready.stage = "taken" /\ log' = log
        /\ storage' = MSAppend(storage, ready.first, ready.ents)
    BY <1>1, <1>4 DEF Persist, Panic
  <2>2. RaftLogOK(storage', log)
    BY <1>1, <2>1
  <2>3. Unseen(storage, log, storage', log)
    BY <1>1, <2>1, <2>2, PersistUnseen
  <2> QED BY <2>1, <2>3
<1>5. CASE Apply
  BY <1>2, <1>5 DEF Apply
<1>6. CASE Advance
  <2>1. /\ ready.stage = "applied" /\ storage' = storage
        /\ log' = AppliedTo(StabilizedLog, AppliedIndex)
    BY <1>1, <1>6 DEF Advance, Panic
  <2>2. StabilizedLog = (IF ready.ents = <<>> THEN log
                         ELSE StableTo(log, BatchLast(ready), ready.ents[Len(ready.ents)]))
    BY DEF StabilizedLog, BatchLast
  <2>3. RaftLogOK(storage, log')
    BY <1>1, <2>1
  <2>4. Unseen(storage, log, storage, log') /\ log'.committed = log.committed
    BY <1>1, <2>1, <2>2, <2>3, AdvanceUnseen
  <2> QED BY <2>1, <2>4
<1>7. CASE TakeSnapshot
  <2>1. storage' = CreateSnapshot(storage, Len(machine)) /\ UNCHANGED <<hardState, log>>
    BY <1>1, <1>7 DEF TakeSnapshot, Panic
  <2>2. storage'.index = storage.index /\ storage'.ents = storage.ents
    BY <1>1, <2>1 DEF CreateSnapshot, StorageType
  <2>3. MSLastIndex(storage') = MSLastIndex(storage)
    BY <2>2 DEF MSLastIndex
  <2>4. SAt(storage', MSLastIndex(storage)) = SAt(storage, MSLastIndex(storage))
    BY <2>2 DEF SAt
  <2>5. StorageOK(storage', hardState) /\ RaftLogOK(storage', log)
    BY <1>1, <2>1
  <2>6. Unseen(storage, log, storage', log)
    BY <1>1, <2>3, <2>4, <2>5, StorageUnseen
  <2> QED BY <2>1, <2>6
<1>8. ASSUME NEW i \in 1 .. Len(Decided), CompactStorage(i)
      PROVE  Unseen(storage, log, storage', log') /\ log'.committed = log.committed
  <2>1. /\ storage' = Compact(storage, i) /\ UNCHANGED <<hardState, log>>
        /\ ~CompactRefused(storage, i) /\ ~CompactPanics(storage, i)
    BY <1>1, <1>8 DEF CompactStorage, Panic
  <2> DEFINE e == storage.ents
             x == storage.index
             a == i - x + 1
             e2 == SubSeq(e, a, Len(e))
  <2>2. /\ i \in Nat /\ x \in Nat /\ x < i /\ i <= MSLastIndex(storage)
        /\ e \in Seq(Terms \cup {0}) /\ Len(e) \in Nat /\ MSLastIndex(storage) = x + Len(e) - 1
    BY <1>1, <2>1, StorageFacts DEF CompactRefused, CompactPanics
  <2>3. storage'.index = i /\ storage'.ents = e2
    BY <1>1, <2>1 DEF Compact, StorageType
  <2> HIDE DEF e, x
  <2>4. /\ a \in 1 .. Len(e) /\ Len(e2) = Len(e) - a + 1
        /\ \A k \in 1 .. Len(e) - a + 1 : e2[k] = e[a + k - 1]
    BY <2>2
  <2>5. MSLastIndex(storage') = MSLastIndex(storage)
    BY <2>2, <2>3, <2>4 DEF MSLastIndex
  <2>6. SAt(storage', MSLastIndex(storage)) = SAt(storage, MSLastIndex(storage))
        \/ ~(MSLastIndex(storage) > storage'.index)
    <3> DEFINE n == MSLastIndex(storage)
    <3> SUFFICES ASSUME n > i PROVE SAt(storage', n) = SAt(storage, n)
      BY <2>3
    <3>1. ~(n <= i) /\ ~(n <= x)
      BY <2>2
    <3>2. SAt(storage', n) = e2[n - i + 1]
      BY <2>3, <3>1 DEF SAt
    <3>3. SAt(storage, n) = e[n - x + 1]
      BY <3>1 DEF SAt, e, x
    <3>4. n - i + 1 \in 1 .. Len(e) - a + 1 /\ a + (n - i + 1) - 1 = n - x + 1
      BY <2>2
    <3> QED BY <2>4, <3>2, <3>3, <3>4
  <2>7. StorageOK(storage', hardState) /\ RaftLogOK(storage', log)
    BY <1>1, <2>1
  <2>8. Unseen(storage, log, storage', log)
    BY <1>1, <2>5, <2>6, <2>7, StorageUnseen
  <2> QED BY <2>1, <2>8
<1> QED BY <1>3, <1>4, <1>5, <1>6, <1>7, <1>8 DEF Bookkeeping

\* What the user does with the log, however its calls and the messages are
\* interleaved, changes no entry of it and not its end.
THEOREM BookkeepingStaysInvisible == Spec => BookkeepingIsInvisible
<1> DEFINE Kept == LogLast' = LogLast /\ \A i \in 1 .. LogLast : LogAt(i)' = LogAt(i)
<1>1. ASSUME IInv, IInv', Bookkeeping PROVE Kept
  <2>1. Unseen(storage, log, storage', log')
    BY <1>1, BookkeepingUnseen
  <2>2. LogLast' = LogLast
    BY <2>1 DEF Unseen, LogLast
  <2>3. Entries' = Entries
    BY <1>1, <2>1, TwoStates, SameView
  <2>4. Entries = [i \in 1 .. LogLast |-> LogAt(i)]
    BY DEF Entries
  <2>5. Entries' = [i \in 1 .. LogLast' |-> LogAt(i)']
    BY DEF Entries
  <2>6. \A i \in 1 .. LogLast : Entries[i] = LogAt(i)
    BY <2>4
  <2>7. \A i \in 1 .. LogLast' : (Entries')[i] = LogAt(i)'
    BY <2>5
  <2>8. \A i \in 1 .. LogLast : LogAt(i)' = LogAt(i)
    BY <2>2, <2>3, <2>6, <2>7
  <2> QED BY <2>2, <2>8
<1>2. IInv /\ [Next]_vars => (Bookkeeping => Kept)
  BY <1>1, StepIInv
<1>3. IInv /\ [Next]_vars =>
        [TakeReady \/ Persist \/ Apply \/ Advance \/ TakeSnapshot
           \/ (\E i \in 1 .. Len(Decided) : CompactStorage(i))
         => LogLast' = LogLast /\ \A i \in 1 .. LogLast : LogAt(i)' = LogAt(i)]_vars
  BY <1>2 DEF Bookkeeping
<1> QED BY <1>3, Invariant, PTL DEF Spec, BookkeepingIsInvisible
-----------------------------------------------------------------------------
(* FollowerLog implements LogReplica. *)

\* Prefixes are equal when their entries are.
LEMMA SamePrefix ==
  ASSUME NEW u \in Seq(Terms), NEW v \in Seq(Terms), NEW n \in Nat, n <= Len(u), n <= Len(v)
  PROVE  SubSeq(u, 1, n) = SubSeq(v, 1, n) <=> Same(u, v, n)
<1> DEFINE p == SubSeq(u, 1, n)
           q == SubSeq(v, 1, n)
<1>1. p \in Seq(Terms) /\ Len(p) = n /\ \A k \in 1 .. n : p[k] = u[k]
  OBVIOUS
<1>2. q \in Seq(Terms) /\ Len(q) = n /\ \A k \in 1 .. n : q[k] = v[k]
  OBVIOUS
<1> HIDE DEF p, q
<1>3. ASSUME p = q PROVE Same(u, v, n)
  BY <1>1, <1>2, <1>3 DEF Same
<1>4. ASSUME Same(u, v, n) PROVE p = q
  BY <1>1, <1>2, <1>4, SeqEqual DEF Same
<1> QED BY <1>3, <1>4 DEF p, q

\* A sequence that ends at n and agrees with another up to n is its prefix.
LEMMA IsPrefix ==
  ASSUME NEW u \in Seq(Terms), NEW v \in Seq(Terms), Len(u) <= Len(v), Same(u, v, Len(u))
  PROVE  u = SubSeq(v, 1, Len(u))
<1>1. SubSeq(u, 1, Len(u)) = u
  OBVIOUS
<1>2. SubSeq(u, 1, Len(u)) = SubSeq(v, 1, Len(u))
  BY SamePrefix
<1> QED BY <1>1, <1>2

\* What Holds of LogReplica says of a sequence.
LEMMA HoldsFacts ==
  ASSUME NEW e \in Seq(Terms), NEW t \in Terms, NEW n \in 0 .. Len(LeaderLog[t])
  PROVE  Replica!Holds(e, t, n) <=> n <= Len(e) /\ Same(e, LeaderLog[t], n)
<1>1. LeaderLog[t] \in Seq(Terms)
  BY LeadersAssumption
<1>2. n \in Nat /\ n <= Len(LeaderLog[t])
  BY <1>1
<1>3. CASE n <= Len(e)
  <2>1. SubSeq(e, 1, n) = SubSeq(LeaderLog[t], 1, n) <=> Same(e, LeaderLog[t], n)
    BY <1>1, <1>2, <1>3, SamePrefix
  <2> QED BY <1>3, <2>1 DEF Replica!Holds, Replica!Prefix
<1>4. CASE ~(n <= Len(e))
  BY <1>4 DEF Replica!Holds
<1> QED BY <1>3, <1>4

\* maybeAppend changes nothing if the log has what the message carries; otherwise the
\* log ends with the message, and is the leader's.
LEMMA AppendView ==
  ASSUME NEW s, NEW hs, NEW l, StorageOK(s, hs), RaftLogOK(s, l),
         NEW t \in Terms, NEW prev \in 0 .. Len(LeaderLog[t]),
         l.committed <= prev, MatchTerm(s, l, prev, LeaderTerm(t, prev)),
         NEW ents, Carries(t, prev, ents), NEW c \in Nat,
         NEW n, n = prev + Len(ents), NEW l2, l2 = MaybeAppend(s, l, prev, c, ents)
  PROVE  /\ l2.committed = Max2(l.committed, Min2(c, n))
         /\ LET held == n <= LastIndex(s, l) /\ Same(Over(s, l.offset, l.unstable), LeaderLog[t], n) IN
            \/ held /\ l2.offset = l.offset /\ l2.unstable = l.unstable
            \/ /\ ~held
               /\ LastIndex(s, l2) = n
               /\ Same(Over(s, l2.offset, l2.unstable), LeaderLog[t], n)
<1> DEFINE f == Over(s, l.offset, l.unstable)
           held == n <= LastIndex(s, l) /\ Same(f, LeaderLog[t], n)
           ci == FindConflict(s, l, prev + 1, ents)
           l1 == AppendFromConflict(s, l, prev, ents)
<1>1. StorageType(s) /\ prev \in Nat /\ ents \in Seq(Terms) /\ Len(ents) \in Nat /\ n \in Nat
  <2>1. Len(LeaderLog[t]) \in Nat
    BY LeadersAssumption
  <2> QED BY <2>1 DEF StorageOK, Carries
<1>2. Appended(s, l, l1, t, n)
  BY AppendFromConflictFacts
<1>3. prev <= LastIndex(s, l) /\ LastIndex(s, l) \in Nat
  BY PrevMatches
<1>4. /\ l2.offset = l1.offset /\ l2.unstable = l1.unstable
      /\ l2.committed = Max2(l.committed, Min2(c, n))
  <2>1. LogType(l1) /\ l1.committed = l.committed
    BY <1>2 DEF Appended
  <2>2. l2 = [l1 EXCEPT !.committed = Max2(l1.committed, Min2(c, n))]
    BY DEF MaybeAppend, CommitTo
  <2> HIDE DEF l1
  <2> QED BY <2>1, <2>2 DEF LogType
<1>5. LastIndex(s, l2) = LastIndex(s, l1)
  BY <1>4 DEF LastIndex
<1>6. n <= LastIndex(s, l1) /\ Same(Over(s, l1.offset, l1.unstable), LeaderLog[t], n)
  BY <1>2 DEF Appended
<1>7. \/ /\ ci = 0
         /\ \A j \in prev + 1 .. n : MatchTerm(s, l, j, ents[j - prev])
      \/ /\ ci \in prev + 1 .. n
         /\ ~MatchTerm(s, l, ci, ents[ci - prev])
         /\ \A j \in prev + 1 .. ci - 1 : MatchTerm(s, l, j, ents[j - prev])
  <2>1. prev + 1 \in Nat \ {0} /\ prev + 1 + Len(ents) - 1 = n
        /\ \A j \in Int : j - (prev + 1) + 1 = j - prev
    BY <1>1
  <2>2. \/ /\ ci = 0
           /\ \A j \in prev + 1 .. prev + 1 + Len(ents) - 1 : MatchTerm(s, l, j, ents[j - (prev + 1) + 1])
        \/ /\ ci \in prev + 1 .. prev + 1 + Len(ents) - 1
           /\ ~MatchTerm(s, l, ci, ents[ci - (prev + 1) + 1])
           /\ \A j \in prev + 1 .. ci - 1 : MatchTerm(s, l, j, ents[j - (prev + 1) + 1])
    BY <1>1, <2>1, FindConflictFacts
  <2> HIDE DEF ci
  <2> QED BY <1>1, <2>1, <2>2
<1>8. CASE ci = 0
  <2>1. l1 = l
    BY <1>8 DEF AppendFromConflict
  <2>2. held
    BY <1>6, <2>1
  <2> QED BY <1>4, <2>1, <2>2
<1>9. CASE ci # 0
  <2> DEFINE tail == SubSeq(ents, ci - prev, Len(ents))
  <2>1. l1 = TruncateAndAppend(l, ci, tail)
    BY <1>9 DEF AppendFromConflict, AppendEntries
  <2>2. /\ ci \in prev + 1 .. n
        /\ ~MatchTerm(s, l, ci, ents[ci - prev])
        /\ \A j \in prev + 1 .. ci - 1 : MatchTerm(s, l, j, ents[j - prev])
    BY <1>7, <1>9
  <2>3. ASSUME NEW j \in prev + 1 .. n
        PROVE  /\ j \in Nat \ {0} /\ ents[j - prev] \in Terms /\ ents[j - prev] = LeaderLog[t][j]
    <3>1. j - prev \in 1 .. Len(ents) /\ prev + (j - prev) = j /\ j \in Nat \ {0}
      BY <1>1
    <3>2. ents[j - prev] \in Terms
      BY <1>1, <3>1
    <3> QED BY <3>1, <3>2 DEF Carries
  <2> HIDE DEF ci
  <2>4. ci - 1 <= LastIndex(s, l)
    <3>1. CASE ci = prev + 1
      BY <1>1, <1>3, <3>1
    <3>2. CASE ci # prev + 1
      <4>1. ci - 1 \in prev + 1 .. ci - 1 /\ ci - 1 \in prev + 1 .. n
        BY <1>1, <2>2, <3>2
      <4>2. MatchTerm(s, l, ci - 1, ents[(ci - 1) - prev])
        BY <2>2, <4>1
      <4>3. ci - 1 \in Nat \ {0} /\ ents[(ci - 1) - prev] \in Terms
        BY <2>3, <4>1
      <4> QED BY <4>2, <4>3, MatchFacts
    <3> QED BY <3>1, <3>2
  <2>5. /\ tail \in Seq(Terms) /\ tail # <<>> /\ ci + Len(tail) - 1 = n
        /\ ci \in Nat \ {0} /\ ci <= LastIndex(s, l) + 1
    <3>1. ci - prev \in 1 .. Len(ents)
      BY <1>1, <2>2
    <3>2. tail \in Seq(Terms) /\ Len(tail) = Len(ents) - (ci - prev) + 1
      BY <1>1, <3>1
    <3> HIDE DEF tail
    <3> QED BY <1>1, <1>3, <2>2, <2>4, <3>1, <3>2
  <2>6. LastIndex(s, l1) = n
    <3> HIDE DEF tail, l1
    <3>1. LastIndex(s, TruncateAndAppend(l, ci, tail)) = ci + Len(tail) - 1
      BY <1>1, <2>5, TruncateFacts
    <3> QED BY <2>1, <2>5, <3>1
  <2>7. ~held
    <3> SUFFICES ASSUME held PROVE FALSE
      OBVIOUS
    <3>1. /\ LogOK(s, l.offset, l.unstable, l.committed)
          /\ s.index <= l.committed /\ l.committed \in Nat /\ s.index \in Nat
      BY <1>1, RaftLogFacts, StorageFacts
    <3>2. f[ci] = LeaderLog[t][ci] /\ ci <= LastIndex(s, l) /\ s.index <= ci
      <4>1. ci \in 1 .. n
        BY <1>1, <2>2
      <4>2. f[ci] = LeaderLog[t][ci]
        BY <4>1 DEF Same
      <4>3. ci <= LastIndex(s, l) /\ s.index <= ci
        BY <1>1, <1>3, <2>2, <3>1
      <4> QED BY <4>2, <4>3
    <3>3. ci \in Nat \ {0} /\ ents[ci - prev] \in Terms /\ ents[ci - prev] = LeaderLog[t][ci]
      BY <2>2, <2>3
    <3>4. MatchTerm(s, l, ci, ents[ci - prev])
      <4> DEFINE x == ents[ci - prev]
      <4>1. x \in Terms /\ f[ci] = x
        BY <3>2, <3>3
      <4> HIDE DEF x
      <4>2. MatchTerm(s, l, ci, x)
        BY <3>2, <3>3, <4>1, MatchFacts
      <4> QED BY <4>2 DEF x
    <3> QED BY <2>2, <3>4
  <2> QED BY <1>4, <1>5, <1>6, <2>6, <2>7
<1> QED BY <1>4, <1>8, <1>9

\* A MsgApp that matches is an Accept: of nothing, if its last entry lies before prev.
LEMMA AppendImplements ==
  ASSUME IInv, IInv', NEW t \in Terms,
         NEW prev \in 0 .. Len(LeaderLog[t]), NEW last \in 0 .. Len(LeaderLog[t]),
         NEW c \in CommitsOf(t), AppendMatching(MsgApp(t, prev, last, c))
  PROVE  Replica!Next
<1> DEFINE msg == MsgApp(t, prev, last, c)
           ents == msg.ents
           n == prev + Len(ents)
           f == Over(storage, log.offset, log.unstable)
           f2 == Over(storage, log'.offset, log'.unstable)
           held == n <= LogLast /\ Same(f, LeaderLog[t], n)
<1>1. /\ StorageOK(storage, hardState) /\ RaftLogOK(storage, log)
      /\ log.committed \in Nat /\ LogLast \in Nat /\ panicked' = FALSE
      /\ StorageOK(storage', hardState') /\ RaftLogOK(storage', log')
      /\ Entries = View(storage, log) /\ Entries' = View(storage', log')
  BY TwoStates
<1>2. /\ msg.index = prev /\ msg.commit = c /\ msg.logTerm = LeaderTerm(t, prev)
      /\ Carries(t, prev, ents) /\ c \in Nat
  <2>1. /\ msg.index = prev /\ msg.commit = c /\ c \in Nat
        /\ msg.logTerm = IF prev = 0 THEN 0 ELSE LeaderLog[t][prev]
        /\ msg.ents \in Seq(Terms)
        /\ prev + Len(msg.ents) <= Len(LeaderLog[t])
        /\ \A k \in 1 .. Len(msg.ents) : msg.ents[k] = LeaderLog[t][prev + k]
    BY MessageFacts, SMTT(20)
  <2> QED BY <2>1 DEF LeaderTerm, Carries
<1>3. /\ LeaderLog[t] \in Seq(Terms) /\ Len(LeaderLog[t]) \in Nat /\ prev \in Nat
      /\ Len(ents) \in Nat /\ n \in 0 .. Len(LeaderLog[t]) /\ prev <= n
  <2>1. LeaderLog[t] \in Seq(Terms) /\ Len(LeaderLog[t]) \in Nat
    BY LeadersAssumption
  <2>2. Len(ents) \in Nat /\ n <= Len(LeaderLog[t])
    BY <1>2 DEF Carries
  <2> QED BY <2>1, <2>2
<1> HIDE DEF msg, ents
<1>4. /\ ~(prev < log.committed) /\ MatchTerm(storage, log, prev, LeaderTerm(t, prev))
      /\ log' = MaybeAppend(storage, log, prev, c, ents)
      /\ UNCHANGED <<storage, hardState, ready, machine>>
  BY <1>1, <1>2 DEF AppendMatching, Matches, AlreadyCommitted, Panic, msg, ents
<1>5. log.committed <= prev
  BY <1>1, <1>3, <1>4
<1> HIDE DEF n
<1>6. /\ log'.committed = Max2(log.committed, Min2(c, n))
      /\ \/ held /\ log'.offset = log.offset /\ log'.unstable = log.unstable
         \/ ~held /\ LastIndex(storage, log') = n /\ Same(f2, LeaderLog[t], n)
  BY <1>1, <1>2, <1>4, <1>5, AppendView DEF LogLast, n
<1>7. prev <= LogLast /\ Same(f, LeaderLog[t], prev)
  BY <1>1, <1>4, <1>5, PrevMatches DEF LogLast
<1> DEFINE e == View(storage, log)
           e2 == View(storage, log')
<1>8. /\ e \in Seq(Terms) /\ Len(e) = LogLast /\ \A i \in 1 .. LogLast : e[i] = f[i]
  BY <1>1, ViewFacts DEF LogLast
<1>9. /\ e2 \in Seq(Terms) /\ Len(e2) = LastIndex(storage, log')
      /\ \A i \in 1 .. LastIndex(storage, log') : e2[i] = f2[i]
  BY <1>1, <1>4, ViewFacts
<1> HIDE DEF e, e2, f, f2
<1>10. Replica!Holds(e, t, prev)
  <2>1. \A j \in 1 .. prev : e[j] = f[j]
    BY <1>1, <1>3, <1>7, <1>8
  <2>2. Same(e, LeaderLog[t], prev)
    BY <1>7, <2>1 DEF Same
  <2> QED BY <1>7, <1>8, <2>2, HoldsFacts
<1>11. Replica!Holds(e, t, n) <=> held
  <2>1. n <= LogLast => (Same(e, LeaderLog[t], n) <=> Same(f, LeaderLog[t], n))
    <3> HAVE n <= LogLast
    <3>1. \A j \in 1 .. n : e[j] = f[j]
      BY <1>1, <1>3, <1>8
    <3> QED BY <3>1 DEF Same
  <2> QED BY <1>3, <1>8, <2>1, HoldsFacts
<1>12. e2 = IF Replica!Holds(e, t, n) THEN e ELSE Replica!Prefix(LeaderLog[t], n)
  <2>1. CASE held
    <3>1. Unseen(storage, log, storage, log')
      BY <1>6, <2>1 DEF Unseen, Same, LastIndex
    <3> QED BY <1>11, <2>1, <3>1, SameView DEF e, e2
  <2>2. CASE ~held
    <3>1. Len(e2) = n /\ Same(e2, LeaderLog[t], n)
      BY <1>6, <1>9, <2>2 DEF Same
    <3>2. e2 = SubSeq(LeaderLog[t], 1, Len(e2))
      BY <1>3, <1>9, <3>1, IsPrefix
    <3> QED BY <1>11, <2>2, <3>1, <3>2 DEF Replica!Prefix
  <2> QED BY <2>1, <2>2
<1>13. log'.committed = IF c <= n THEN (IF c > log.committed THEN c ELSE log.committed)
                        ELSE (IF n > log.committed THEN n ELSE log.committed)
  BY <1>1, <1>2, <1>3, <1>6 DEF Max2, Min2
<1>14. Replica!Accept(t, prev, n, c)
  <2>1. Entries = e /\ Entries' = e2
    BY <1>1, <1>4 DEF e, e2
  <2> QED BY <1>3, <1>4, <1>5, <1>10, <1>12, <1>13, <2>1 DEF Replica!Accept, Entries
<1>15. c \in Replica!CommitsOf(t)
  BY DEF CommitsOf, Replica!CommitsOf
<1> QED BY <1>3, <1>14, <1>15 DEF Replica!Next

\* Executing the entries of nextEnts is an Execute, or nothing if there are none.
LEMMA ApplyImplements ==
  ASSUME IInv, IInv', Apply
  PROVE  Replica!Next \/ UNCHANGED <<Entries, log.committed, machine>>
<1> DEFINE e == ready.apply
           n == Len(machine) + Len(e)
           v == View(storage, log)
<1>1. /\ StorageOK(storage, hardState) /\ RaftLogOK(storage, log)
      /\ BatchOK(storage, hardState, log, ready, machine)
      /\ log.committed \in Nat /\ log.committed <= LogLast /\ LogLast \in Nat
      /\ Entries = v /\ Entries' = View(storage', log')
  BY TwoStates
<1>2. machine \in Seq(Terms) /\ Len(machine) \in Nat /\ e \in Seq(Terms) /\ Len(e) \in Nat
      /\ ready.commit \in Nat
  BY SafeFacts DEF IInv
<1>3. /\ ready.stage = "stored" /\ machine' = machine \o e
      /\ storage' = storage /\ log' = log
  BY DEF Apply
<1>4. /\ n <= ready.commit /\ ready.commit <= log.committed
      /\ e = SubSeq(Decided, Len(machine) + 1, n)
  BY <1>1, <1>3 DEF BatchOK
<1>5. Entries' = Entries
  BY <1>1, <1>3
<1> HIDE DEF e, v
<1>6. CASE e = <<>>
  BY <1>2, <1>3, <1>5, <1>6
<1>7. CASE e # <<>>
  <2>1. n \in Len(machine) + 1 .. log.committed
    BY <1>1, <1>2, <1>4, <1>7
  <2>2. /\ v \in Seq(Terms) /\ Len(v) = LogLast
        /\ DecidedTo(v, log.committed)
    BY <1>1, ViewFacts DEF v, LogLast
  <2>3. SubSeq(v, Len(machine) + 1, n) = SubSeq(Decided, Len(machine) + 1, n)
    <3> DEFINE a == Len(machine) + 1
    <3>1. /\ a \in Nat \ {0} /\ n \in Nat /\ a <= n /\ n <= Len(v) /\ n <= Len(Decided)
          /\ \A i \in a .. n : v[i] = Decided[i]
      <4>1. PICK c \in Nat : c = log.committed /\ c <= LogLast
        BY <1>1, Zenon
      <4>2. /\ n \in Len(machine) + 1 .. c /\ Len(v) = LogLast /\ LogLast \in Nat
            /\ Len(machine) \in Nat
        BY <1>1, <1>2, <2>1, <2>2, <4>1, Zenon
      <4>3. c <= Len(Decided) /\ \A i \in 1 .. c : v[i] = Decided[i]
        BY <2>2, <4>1, Zenon DEF DecidedTo
      <4>4. Len(Decided) \in Nat
        BY LeadersAssumption
      <4> HIDE DEF n
      <4>5. a \in Nat \ {0} /\ n \in Nat /\ a <= n /\ n <= Len(v) /\ n <= Len(Decided)
        BY <4>1, <4>2, <4>3, <4>4
      <4>6. \A i \in a .. n : i \in 1 .. c
        BY <4>1, <4>2
      <4> QED
        BY <4>3, <4>5, <4>6, Zenon
    <3>2. Decided \in Seq(Terms)
      BY LeadersAssumption
    <3> HIDE DEF a, n
    <3>3. \A k \in 1 .. n - a + 1 : a + k - 1 \in a .. n
      BY <3>1
    <3>4. SubSeq(v, a, n) = [k \in 1 .. n - a + 1 |-> v[a + k - 1]]
      BY <2>2, <3>1
    <3>5. SubSeq(Decided, a, n) = [k \in 1 .. n - a + 1 |-> Decided[a + k - 1]]
      BY <3>1, <3>2
    <3>6. \A k \in 1 .. n - a + 1 : v[a + k - 1] = Decided[a + k - 1]
      BY <3>1, <3>3
    <3>7. SubSeq(v, a, n) = SubSeq(Decided, a, n)
      BY <3>4, <3>5, <3>6
    <3> QED BY <3>7 DEF a
  <2>4. machine' = machine \o SubSeq(Entries, Len(machine) + 1, n)
    BY <1>1, <1>3, <1>4, <2>3
  <2> HIDE DEF n
  <2>5. Replica!Execute
    BY <1>3, <1>5, <2>1, <2>4 DEF Replica!Execute, Entries
  <2> QED BY <2>5 DEF Replica!Next
<1> QED BY <1>6, <1>7

\* A restart begins with a log that is coherent, and the decided one up to a commit
\* index that is no less than what the machine had executed.
LEMMA RestartImplements ==
  ASSUME IInv, IInv', hardState <= log.committed, Restart
  PROVE  Replica!Next
<1> DEFINE v == View(storage, log)
           v2 == View(storage', log')
           c2 == log'.committed
           x == storage.snap.index
<1>1. /\ SafeState(storage, hardState, log, ready, machine)
      /\ StorageOK(storage, hardState) /\ RaftLogOK(storage, log)
      /\ MachineOK(storage, hardState, log, ready, machine)
      /\ StorageType(storage) /\ storage.index \in Nat
      /\ log.committed \in Nat /\ hardState \in Nat /\ LogLast \in Nat
      /\ log.committed <= LogLast
      /\ StorageOK(storage', hardState') /\ RaftLogOK(storage', log')
      /\ c2 \in Nat
      /\ Entries = v /\ Entries' = v2
  BY TwoStates
<1>2. /\ log' = AppliedTo(LoadedLog, x) /\ machine' = SubSeq(machine, 1, x)
      /\ UNCHANGED <<storage, hardState>>
  BY DEF Restart
<1>3. machine \in Seq(Terms) /\ Len(machine) \in Nat /\ x \in Nat
  BY <1>1, SafeFacts
<1>4. x <= Len(machine) /\ Len(machine) <= Max2(hardState, storage.index)
      /\ (hardState # 0 => Len(machine) <= hardState)
  BY <1>1 DEF MachineOK
<1>5. c2 = IF hardState = 0 THEN storage.index ELSE hardState
  <2>1. NewLog(storage).committed = storage.index
    BY <1>1 DEF NewLog, MSFirstIndex
  <2>2. LoadedLog.committed = IF hardState = 0 THEN storage.index ELSE hardState
    BY <2>1 DEF LoadedLog, NewLog
  <2>3. AppliedTo(LoadedLog, x).committed = LoadedLog.committed
    BY DEF AppliedTo, LoadedLog, NewLog
  <2> QED BY <1>2, <2>2, <2>3
<1>6. Len(machine) <= c2 /\ c2 <= log.committed
  <2>1. storage.index <= log.committed
    BY <1>1, RaftLogFacts
  <2> QED BY <1>1, <1>3, <1>4, <1>5, <2>1 DEF Max2
<1>7. /\ v \in Seq(Terms) /\ Len(v) = LogLast /\ DecidedTo(v, log.committed)
  BY <1>1, ViewFacts DEF LogLast
<1>8. /\ v2 \in Seq(Terms) /\ c2 <= Len(v2) /\ CoherentTo(v2, Len(v2)) /\ DecidedTo(v2, c2)
      /\ Len(v2) \in Nat
  BY <1>1, ViewFacts
<1> HIDE DEF v, v2, c2, x
<1>9. Replica!Coherent(v2)
  <2> SUFFICES ASSUME NEW i \in 1 .. Len(v2)
               PROVE  i <= Len(LeaderLog[v2[i]]) /\ Replica!Holds(v2, v2[i], i)
    BY DEF Replica!Coherent
  <2>1. /\ v2[i] \in Terms /\ i <= Len(LeaderLog[v2[i]])
        /\ \A j \in 1 .. i : v2[j] = LeaderLog[v2[i]][j]
    BY <1>8 DEF CoherentTo, Had
  <2>2. i \in 0 .. Len(LeaderLog[v2[i]])
    BY <2>1, LeadersAssumption
  <2>3. Same(v2, LeaderLog[v2[i]], i) /\ i <= Len(v2)
    BY <1>8, <2>1 DEF Same
  <2> QED BY <1>8, <2>1, <2>2, <2>3, HoldsFacts
<1>10. Replica!Prefix(v2, c2) = Replica!Prefix(v, c2)
  <2>1. Same(v2, v, c2) /\ c2 <= Len(v)
    <3>1. \A j \in 1 .. c2 : v2[j] = Decided[j]
      BY <1>8 DEF DecidedTo
    <3>2. \A j \in 1 .. c2 : v[j] = Decided[j]
      BY <1>1, <1>6, <1>7 DEF DecidedTo
    <3> QED BY <1>1, <1>6, <1>7, <3>1, <3>2 DEF Same
  <2> QED BY <1>1, <1>7, <1>8, <2>1, SamePrefix DEF Replica!Prefix
<1>11. Replica!Crash
  <2>1. c2 \in Len(machine) .. log.committed
    BY <1>1, <1>3, <1>6
  <2>2. x \in 0 .. Len(machine) /\ machine' = Replica!Prefix(machine, x)
    BY <1>2, <1>3, <1>4 DEF x, Replica!Prefix
  <2>3. log'.committed = c2
    BY DEF c2
  <2> QED BY <1>1, <1>8, <1>9, <1>10, <2>1, <2>2, <2>3 DEF Replica!Crash, Entries
<1> QED BY <1>11 DEF Replica!Next

\* A new node begins with a prefix of the decided log.
LEMMA InitImplements ==
  ASSUME Init
  PROVE  Replica!Init
<1>1. PICK n \in 0 .. Len(Decided) :
        LET snap == [index |-> n, term |-> IF n = 0 THEN 0 ELSE Decided[n]] IN
        /\ storage = IF n = 0 THEN NewMemoryStorage ELSE ApplySnapshot(NewMemoryStorage, snap)
        /\ machine = SubSeq(Decided, 1, n)
  BY DEF Init
<1>2. log = NewLog(storage)
  BY DEF Init
<1>3. Decided \in Seq(Terms) /\ Len(Decided) \in Nat /\ n \in Nat /\ n <= Len(Decided)
  BY LeadersAssumption
<1>4. storage.index = n /\ Len(storage.ents) = 1
  BY <1>1 DEF NewMemoryStorage, ApplySnapshot
<1>5. log.offset = n + 1 /\ log.unstable = <<>> /\ log.committed = n
  BY <1>2, <1>3, <1>4 DEF NewLog, MSLastIndex, MSFirstIndex
<1>6. LogLast = n
  BY <1>3, <1>4, <1>5 DEF LogLast, LastIndex, MSLastIndex
<1>7. \A i \in 1 .. LogLast : LogAt(i) = Decided[i]
  BY <1>3, <1>4, <1>6 DEF LogAt, EntryAt
<1>8. Entries = SubSeq(Decided, 1, n)
  <2>1. SubSeq(Decided, 1, n) = [i \in 1 .. n |-> Decided[i]]
    BY <1>3
  <2>2. Entries = [i \in 1 .. n |-> Decided[i]]
    BY <1>6, <1>7 DEF Entries
  <2> QED BY <2>1, <2>2
<1> QED BY <1>1, <1>5, <1>8 DEF Replica!Init, Replica!Prefix, Entries

\* What was saved as committed is committed: the batch carried it over.
CommitSaved == IInv /\ hardState <= log.committed

\* Committing, saving and restarting keep it so.
LEMMA CommitSavedHolds == Spec => []CommitSaved
<1>1. Init => CommitSaved
  <2> SUFFICES ASSUME Init PROVE CommitSaved
    OBVIOUS
  <2>1. IInv /\ hardState = 0
    BY InitIInv DEF Init
  <2>2. log.committed \in Nat
    BY <2>1, StateFacts
  <2> QED BY <2>1, <2>2 DEF CommitSaved
<1>2. CommitSaved /\ [Next]_vars => CommitSaved'
  <2> SUFFICES ASSUME CommitSaved, [Next]_vars PROVE CommitSaved'
    OBVIOUS
  <2>1. IInv /\ IInv' /\ hardState <= log.committed
    BY StepIInv DEF CommitSaved
  <2>2. /\ StorageOK(storage, hardState) /\ RaftLogOK(storage, log)
        /\ BatchOK(storage, hardState, log, ready, machine)
        /\ log.committed \in Nat /\ hardState \in Nat /\ log'.committed \in Nat
        /\ hardState' \in Nat /\ panicked' = FALSE
        /\ StorageType(storage) /\ storage.index \in Nat
    BY <2>1, TwoStates
  <2>3. ASSUME hardState' <= log'.committed PROVE CommitSaved'
    BY <2>1, <2>3 DEF CommitSaved
  <2>4. ASSUME hardState' = hardState, log.committed <= log'.committed PROVE CommitSaved'
    BY <2>1, <2>2, <2>3, <2>4
  <2>5. CASE UNCHANGED vars
    BY <2>2, <2>4, <2>5 DEF vars
  <2>6. CASE Receive
    <3>1. PICK t \in Terms : \E prev \in 0 .. Len(LeaderLog[t]), last \in 0 .. Len(LeaderLog[t]),
                                c \in CommitsOf(t) : HandleAppendEntries(MsgApp(t, prev, last, c))
      BY <2>6 DEF Receive
    <3>2. PICK prev \in 0 .. Len(LeaderLog[t]), last \in 0 .. Len(LeaderLog[t]),
               c \in CommitsOf(t) : HandleAppendEntries(MsgApp(t, prev, last, c))
      BY <3>1
    <3> DEFINE m == MsgApp(t, prev, last, c)
    <3>3. CASE AppendMatching(m)
      <4> DEFINE l2 == MaybeAppend(storage, log, m.index, m.commit, m.ents)
      <4>1. log' = l2 /\ hardState' = hardState
        BY <2>2, <3>3 DEF AppendMatching, Panic
      <4>2. ~(m.index < log.committed) /\ MatchTerm(storage, log, m.index, m.logTerm)
        BY <3>3 DEF AppendMatching, Matches, AlreadyCommitted
      <4>3. Grown(storage, log, l2)
        <5> HIDE DEF m
        <5> QED BY <2>2, <4>2, MatchingMessage DEF m
      <4> HIDE DEF l2
      <4> QED BY <2>4, <4>1, <4>3 DEF Grown
    <3>4. CASE AnswerOnly(m)
      <4>1. UNCHANGED vars
        BY <2>2, <3>4 DEF AnswerOnly, Panic
      <4> QED BY <2>2, <2>4, <4>1 DEF vars
    <3> QED BY <3>2, <3>3, <3>4 DEF HandleAppendEntries
  <2>7. CASE Bookkeeping
    <3>1. log'.committed = log.committed
      BY <2>1, <2>7, BookkeepingUnseen
    <3>2. CASE Persist
      <4>1. ready.stage = "taken" /\ hardState' = ready.commit
        BY <2>2, <3>2 DEF Persist, Panic
      <4>2. ready.commit <= log.committed
        BY <2>2, <4>1 DEF BatchOK
      <4> QED BY <2>3, <3>1, <4>1, <4>2
    <3>3. CASE ~Persist
      <4>1. hardState' = hardState
        BY <2>2, <2>7, <3>3
           DEF Bookkeeping, TakeReady, Apply, Advance, TakeSnapshot, CompactStorage, Panic
      <4> QED BY <2>2, <2>4, <3>1, <4>1
    <3> QED BY <3>2, <3>3
  <2>8. CASE Restart
    <3>1. log' = AppliedTo(LoadedLog, storage.snap.index) /\ hardState' = hardState
      BY <2>8 DEF Restart
    <3>2. NewLog(storage).committed = storage.index
      BY <2>2 DEF NewLog, MSFirstIndex
    <3>3. LoadedLog.committed = IF hardState = 0 THEN storage.index ELSE hardState
      BY <3>2 DEF LoadedLog, NewLog
    <3>4. AppliedTo(LoadedLog, storage.snap.index).committed = LoadedLog.committed
      BY DEF AppliedTo, LoadedLog, NewLog
    <3>5. log'.committed = IF hardState = 0 THEN storage.index ELSE hardState
      BY <3>1, <3>3, <3>4
    <3> QED BY <2>2, <2>3, <3>1, <3>5
  <2> QED BY <2>5, <2>6, <2>7, <2>8 DEF Next, Bookkeeping
<1> QED BY <1>1, <1>2, PTL DEF Spec

\* Every step is one of LogReplica or is not seen there.
LEMMA StepImplements ==
  ASSUME IInv, IInv', hardState <= log.committed, [Next]_vars
  PROVE  Replica!Next \/ UNCHANGED <<Entries, log.committed, machine>>
<1>1. /\ Entries = View(storage, log) /\ Entries' = View(storage', log') /\ panicked' = FALSE
  BY TwoStates
<1>2. CASE UNCHANGED vars
  <2>1. UNCHANGED <<storage, log, machine>>
    BY <1>2 DEF vars
  <2> QED BY <1>1, <2>1
<1>3. ASSUME NEW t \in Terms,
             NEW prev \in 0 .. Len(LeaderLog[t]), NEW last \in 0 .. Len(LeaderLog[t]),
             NEW c \in CommitsOf(t), HandleAppendEntries(MsgApp(t, prev, last, c))
      PROVE  Replica!Next \/ UNCHANGED <<Entries, log.committed, machine>>
  <2>1. CASE AppendMatching(MsgApp(t, prev, last, c))
    BY <2>1, AppendImplements
  <2>2. CASE AnswerOnly(MsgApp(t, prev, last, c))
    <3>1. UNCHANGED vars
      BY <1>1, <2>2 DEF AnswerOnly, Panic
    <3> QED BY <1>2, <3>1
  <2> QED BY <1>3, <2>1, <2>2 DEF HandleAppendEntries
<1>4. CASE Apply
  BY <1>4, ApplyImplements
<1>5. CASE Bookkeeping /\ ~Apply
  <2>1. Unseen(storage, log, storage', log') /\ log'.committed = log.committed
    BY <1>5, BookkeepingUnseen
  <2>2. Entries' = Entries
    BY <1>1, <2>1, SameView
  <2>3. machine' = machine
    BY <1>1, <1>5
       DEF Bookkeeping, TakeReady, Persist, Advance, TakeSnapshot, CompactStorage, Panic
  <2> QED BY <2>1, <2>2, <2>3
<1>6. CASE Restart
  BY <1>6, RestartImplements
<1> QED BY <1>2, <1>3, <1>4, <1>5, <1>6 DEF Next, Receive, Bookkeeping

\* A follower is one sequence of entries, a commit index and a machine that executes
\* in order: storage, unstable entries, batches, snapshots and compaction never show.
THEOREM FollowerImplementsReplica == Spec => ReplicaSpec
<1>1. Init => Replica!Init
  BY InitImplements
<1>2. CommitSaved /\ [Next]_vars => [Replica!Next]_<<Entries, log.committed, machine>>
  <2> SUFFICES ASSUME CommitSaved, [Next]_vars
               PROVE  Replica!Next \/ UNCHANGED <<Entries, log.committed, machine>>
    OBVIOUS
  <2>1. IInv /\ IInv' /\ hardState <= log.committed
    BY StepIInv DEF CommitSaved
  <2> QED BY <2>1, StepImplements
<1>3. Spec => []CommitSaved
  BY CommitSavedHolds
<1>4. CommitSaved /\ [Next]_vars => [Replica!Next]_(Replica!vars)
  BY <1>2 DEF Replica!vars, Entries
<1> QED BY <1>1, <1>3, <1>4, PTL DEF Spec, ReplicaSpec, Replica!Spec
=============================================================================
