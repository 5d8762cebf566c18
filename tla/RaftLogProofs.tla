--------------------------- MODULE RaftLogProofs ---------------------------
(***************************************************************************)
(* What MemoryStorage and RaftLog do to a log of one node, for every       *)
(* history of leaders: lemmas without variables, for the modules that have *)
(* nodes in them.                                                          *)
(*                                                                         *)
(* There are up to three logs around: the one of the storage, the one the  *)
(* raft goroutine sees (storage below offset, unstable entries from there  *)
(* on), and the one the storage will hold once the batch is persisted.     *)
(* Each is a storage with a run of entries laid over it, and of each the   *)
(* same is said, LogOK: it is coherent with the leaders, and decided up to *)
(* its commit index.  What remains is how the three are related in each    *)
(* stage of a batch, BatchOK.                                              *)
(***************************************************************************)
EXTENDS Leaders, RaftLog, SequenceTheorems, WellFoundedInduction, TLAPS

\* Storage s with the entries u laid over it from index off on.
SAt(s, i) == IF i <= s.index THEN Decided[i] ELSE s.ents[i - s.index + 1]
Over(s, off, u) ==
  [i \in Nat |-> IF off <= i /\ i < off + Len(u) THEN u[i - off + 1] ELSE SAt(s, i)]
Last(s, off, u) == IF u # <<>> THEN off + Len(u) - 1 ELSE MSLastIndex(s)

\* Entry n of f came with what its leader had before it.
Had(f, n) ==
  /\ f[n] \in Terms
  /\ n <= Len(LeaderLog[f[n]])
  /\ \A j \in 1 .. n : f[j] = LeaderLog[f[n]][j]
CoherentTo(f, n) == \A i \in 1 .. n : Had(f, i)
DecidedTo(f, n) == n <= Len(Decided) /\ \A i \in 1 .. n : f[i] = Decided[i]

\* f and g are the same up to n; f has the entries of tail from i on.
Same(f, g, n) == \A j \in 1 .. n : f[j] = g[j]
TailFrom(f, i, tail) == \A k \in 1 .. Len(tail) : f[i + k - 1] = tail[k]

StorageType(s) ==
  /\ s \in [index : Nat, ents : Seq(Terms \cup {0}), snap : [index : Nat, term : Nat]]
  /\ s.ents # <<>>

LogOK(s, off, u, c) ==
  /\ off \in 1 .. MSLastIndex(s) + 1
  /\ u \in Seq(Terms)
  /\ u = <<>> => off = MSLastIndex(s) + 1
  /\ c \in Nat /\ s.index <= c /\ c <= Last(s, off, u)
  /\ CoherentTo(Over(s, off, u), Last(s, off, u))
  /\ DecidedTo(Over(s, off, u), c)

\* The dummy entry has the term a leader would name for it.
StorageOK(s, hs) ==
  /\ StorageType(s)
  /\ s.ents[1] = IF s.index = 0 THEN 0 ELSE Decided[s.index]
  /\ s.index <= s.snap.index
  /\ hs \in Nat
  /\ LogOK(s, MSLastIndex(s) + 1, <<>>, Max2(hs, s.index))

RaftLogOK(s, l) ==
  /\ l \in [offset : Nat, unstable : Seq(Terms), committed : Nat, applied : Nat]
  /\ LogOK(s, l.offset, l.unstable, l.committed)

MachineOK(s, hs, l, r, m) ==
  /\ m \in Seq(Terms)
  /\ m = SubSeq(Decided, 1, Len(m))
  /\ s.snap.index <= Len(m)
  /\ Len(m) <= l.committed
  /\ Len(m) <= Max2(hs, s.index)
  /\ hs # 0 => Len(m) <= hs
  /\ l.applied = Len(m) - (IF r.stage = "applied" THEN Len(r.apply) ELSE 0)

BatchLast(r) == r.first + Len(r.ents) - 1

\* The batch still ends as the log does, or the log has grown past what was
\* committed when the batch was taken.
StillLast(s, l, r) ==
  l.unstable # <<>> =>
    \/ r.commit < LastIndex(s, l)
    \/ /\ r.ents # <<>>
       /\ BatchLast(r) = LastIndex(s, l)
       /\ r.ents[Len(r.ents)] = l.unstable[Len(l.unstable)]

BatchOK(s, hs, l, r, m) ==
  /\ r \in [stage : {"none", "taken", "stored", "applied"}, first : Nat,
            ents : Seq(Terms), apply : Seq(Terms), commit : Nat]
  /\ r.stage = "none" => (l.unstable # <<>> => Len(m) < LastIndex(s, l))
  /\ r.stage # "none" => r.commit <= l.committed /\ StillLast(s, l, r)
  /\ r.stage = "taken" =>
       /\ LogOK(s, r.first, r.ents, r.commit)
       /\ l.offset <= r.first
       /\ r.ents # <<>> => l.unstable # <<>> /\ Len(m) < BatchLast(r)
  /\ r.stage \in {"taken", "stored"} =>
       /\ Len(m) + Len(r.apply) <= r.commit
       /\ r.apply = SubSeq(Decided, Len(m) + 1, Len(m) + Len(r.apply))
  /\ r.stage \in {"stored", "applied"} =>
       /\ hs = r.commit
       /\ Len(m) <= r.commit
       /\ r.ents # <<>> => /\ MSLastIndex(s) = BatchLast(r)
                           /\ SAt(s, BatchLast(r)) = r.ents[Len(r.ents)]

SafeState(s, hs, l, r, m) ==
  /\ StorageOK(s, hs)
  /\ RaftLogOK(s, l)
  /\ MachineOK(s, hs, l, r, m)
  /\ BatchOK(s, hs, l, r, m)
-----------------------------------------------------------------------------
(* Leaders. *)

\* What agrees with a leader's log up to n is coherent up to n.
LEMMA PrefixIsCoherent ==
  ASSUME NEW t \in Terms, NEW n \in Nat, n <= Len(LeaderLog[t]),
         NEW f, \A j \in 1 .. n : f[j] = LeaderLog[t][j]
  PROVE  CoherentTo(f, n)
<1> SUFFICES ASSUME NEW i \in 1 .. n PROVE Had(f, i)
  BY DEF CoherentTo
<1>1. i \in 1 .. Len(LeaderLog[t]) /\ f[i] = LeaderLog[t][i]
  BY LeadersAssumption
<1>2. f[i] \in Terms
  BY <1>1, LeadersAssumption
<1>3. /\ i <= Len(LeaderLog[f[i]])
      /\ \A j \in 1 .. i : LeaderLog[f[i]][j] = LeaderLog[t][j]
  <2>1. /\ i <= Len(LeaderLog[LeaderLog[t][i]])
        /\ \A j \in 1 .. i : LeaderLog[LeaderLog[t][i]][j] = LeaderLog[t][j]
    BY <1>1, LeadersAssumption DEF LogMatching
  <2> QED BY <1>1, <2>1
<1> QED BY <1>2, <1>3 DEF Had

\* One entry in common with a leader, and everything before is in common.
LEMMA MatchIsPrefix ==
  ASSUME NEW t \in Terms, NEW n \in Nat \ {0}, n <= Len(LeaderLog[t]),
         NEW f, Had(f, n), f[n] = LeaderLog[t][n]
  PROVE  \A j \in 1 .. n : f[j] = LeaderLog[t][j]
<1>1. \A j \in 1 .. n : LeaderLog[f[n]][j] = LeaderLog[t][j]
  BY LeadersAssumption DEF LogMatching
<1> QED BY <1>1 DEF Had

\* What was decided up to n is coherent up to n: a decided entry stands on what its
\* leader had.
LEMMA DecidedIsCoherent ==
  ASSUME NEW n \in Nat, NEW f, DecidedTo(f, n)
  PROVE  CoherentTo(f, n)
<1> SUFFICES ASSUME NEW i \in 1 .. n PROVE Had(f, i)
  BY DEF CoherentTo
<1>1. i \in 1 .. Len(Decided) /\ f[i] = Decided[i]
  BY LeadersAssumption DEF DecidedTo
<1>2. f[i] \in Terms
  BY <1>1, LeadersAssumption
<1>3. /\ i <= Len(LeaderLog[f[i]])
      /\ \A j \in 1 .. i : LeaderLog[f[i]][j] = Decided[j]
  BY <1>1, LeadersAssumption DEF DecidedByLeaders
<1> QED BY <1>1, <1>2, <1>3 DEF Had, DecidedTo

\* A MsgApp carries a slice of its leader's log and a decided prefix's length.
LEMMA MessageFacts ==
  ASSUME NEW t \in Terms, NEW prev \in 0 .. Len(LeaderLog[t]),
         NEW last \in 0 .. Len(LeaderLog[t]), NEW c \in CommitsOf(t)
  PROVE  LET m == MsgApp(t, prev, last, c) IN
         /\ m.index = prev /\ m.commit = c /\ c \in Nat
         /\ m.logTerm = IF prev = 0 THEN 0 ELSE LeaderLog[t][prev]
         /\ m.ents \in Seq(Terms)
         /\ prev + Len(m.ents) <= Len(LeaderLog[t])
         /\ \A k \in 1 .. Len(m.ents) : m.ents[k] = LeaderLog[t][prev + k]
         /\ c <= Len(Decided) /\ c <= Len(LeaderLog[t])
         /\ \A j \in 1 .. c : LeaderLog[t][j] = Decided[j]
<1>1. LeaderLog[t] \in Seq(Terms)
  BY LeadersAssumption
<1>2. \A i \in prev + 1 .. last : LeaderLog[t][i] \in Terms
  BY <1>1
<1>3. /\ SubSeq(LeaderLog[t], prev + 1, last) \in Seq(Terms)
      /\ Len(SubSeq(LeaderLog[t], prev + 1, last)) = IF prev + 1 <= last THEN last - prev ELSE 0
      /\ \A k \in 1 .. last - prev : SubSeq(LeaderLog[t], prev + 1, last)[k] = LeaderLog[t][prev + k]
  BY <1>1, <1>2, SubSeqProperties, SMTT(20)
<1>4. Len(LeaderLog[t]) \in Nat
  BY <1>1
<1> QED BY <1>3, <1>4, LeadersAssumption DEF MsgApp, LeaderTerm, CommitsOf

\* A nonempty set of naturals has a least element (findConflict's CHOOSE).
LEMMA MinExists == ASSUME NEW S \in SUBSET Nat, S # {}
                   PROVE  \E i \in S : \A j \in S : i <= j
<1> DEFINE Less == {p \in Nat \X Nat : p[1] < p[2]}
<1>1. IsWellFoundedOn(Less, Nat)
  BY NatLessThanWellFounded DEF OpToRel
<1>2. PICK i \in S : \A j \in S : ~(<<j, i>> \in Less)
  BY <1>1, WFMin
<1>3. ASSUME NEW j \in S PROVE i <= j
  <2>1. <<j, i>> \in Nat \X Nat
    OBVIOUS
  <2>2. j < i => <<j, i>> \in Less
    BY <2>1
  <2>3. ~(<<j, i>> \in Less)
    BY <1>2
  <2> QED BY <2>2, <2>3
<1> QED BY <1>3
-----------------------------------------------------------------------------
(* The log as a whole. *)

\* Types and the last index of a storage.
LEMMA StorageFacts ==
  ASSUME NEW s, StorageType(s)
  PROVE  /\ s.index \in Nat /\ s.ents \in Seq(Terms \cup {0}) /\ s.snap.index \in Nat
         /\ Len(s.ents) \in Nat \ {0}
         /\ MSLastIndex(s) \in Nat /\ s.index <= MSLastIndex(s)
         /\ MSLastIndex(s) = s.index + Len(s.ents) - 1
<1>1. s.index \in Nat /\ s.ents \in Seq(Terms \cup {0}) /\ s.snap.index \in Nat /\ s.ents # <<>>
  BY DEF StorageType
<1>2. Len(s.ents) \in Nat \ {0}
  BY <1>1
<1> QED BY <1>1, <1>2 DEF MSLastIndex

\* Where the overlaid log ends, and what is in it.
LEMMA OverFacts ==
  ASSUME NEW s, StorageType(s), NEW off, NEW u, NEW c, LogOK(s, off, u, c)
  PROVE  /\ off \in Nat \ {0} /\ u \in Seq(Terms) /\ c \in Nat /\ Len(u) \in Nat
         /\ Last(s, off, u) \in Nat
         /\ u # <<>> => Last(s, off, u) = off + Len(u) - 1 /\ Len(u) > 0
         /\ off + Len(u) = Last(s, off, u) + 1
         /\ s.index <= Last(s, off, u)
         /\ \A i \in 1 .. Last(s, off, u) : Over(s, off, u)[i] \in Terms
         /\ \A i \in Nat : Over(s, off, u)[i] =
              IF off <= i /\ i < off + Len(u) THEN u[i - off + 1] ELSE SAt(s, i)
<1>1. off \in Nat \ {0} /\ u \in Seq(Terms) /\ c \in Nat /\ Len(u) \in Nat
  BY StorageFacts DEF LogOK
<1>2. u # <<>> => Last(s, off, u) = off + Len(u) - 1 /\ Len(u) > 0
  BY <1>1 DEF Last
<1>3. off + Len(u) = Last(s, off, u) + 1
  BY <1>1, <1>2, StorageFacts DEF Last, LogOK
<1>4. Last(s, off, u) \in Nat
  BY <1>1, <1>2, StorageFacts DEF Last
<1>5. s.index <= Last(s, off, u)
  BY <1>4, StorageFacts DEF LogOK
<1>6. \A i \in 1 .. Last(s, off, u) : Over(s, off, u)[i] \in Terms
  BY DEF LogOK, CoherentTo, Had
<1>7. \A i \in Nat : Over(s, off, u)[i] =
              IF off <= i /\ i < off + Len(u) THEN u[i - off + 1] ELSE SAt(s, i)
  BY DEF Over
<1> QED BY <1>1, <1>2, <1>3, <1>4, <1>5, <1>6, <1>7

\* A log that has entries over the storage ends with them.
LEMMA OverLast ==
  ASSUME NEW s, StorageType(s), NEW off, NEW u, NEW c, LogOK(s, off, u, c), u # <<>>
  PROVE  /\ off \in Nat \ {0} /\ u \in Seq(Terms) /\ Len(u) \in Nat \ {0} /\ c \in Nat
         /\ Last(s, off, u) = off + Len(u) - 1 /\ Last(s, off, u) \in Nat
<1>1. /\ off \in Nat \ {0} /\ u \in Seq(Terms) /\ c \in Nat /\ Len(u) \in Nat
      /\ Last(s, off, u) \in Nat
      /\ Last(s, off, u) = off + Len(u) - 1 /\ Len(u) > 0
  BY OverFacts
<1> QED BY <1>1

\* The log of the raft goroutine is an overlaid log that ends at lastIndex().
LEMMA RaftLogFacts ==
  ASSUME NEW s, NEW l, StorageType(s), RaftLogOK(s, l)
  PROVE  /\ LogOK(s, l.offset, l.unstable, l.committed)
         /\ LastIndex(s, l) = Last(s, l.offset, l.unstable)
         /\ l.offset \in Nat \ {0} /\ l.unstable \in Seq(Terms)
         /\ l.committed \in Nat /\ l.applied \in Nat
         /\ s.index <= l.committed /\ l.committed <= LastIndex(s, l)
  BY OverFacts DEF RaftLogOK, LastIndex, Last, LogOK

\* term() answers the entry, 0 outside the log, and never ErrUnavailable.
LEMMA TermFacts ==
  ASSUME NEW s, NEW hs, NEW l, StorageOK(s, hs), RaftLogOK(s, l), NEW i \in Nat
  PROVE  Term(s, l, i) =
           IF i = 0 \/ i < s.index \/ i > LastIndex(s, l) THEN 0
           ELSE Over(s, l.offset, l.unstable)[i]
<1> DEFINE off == l.offset
           u == l.unstable
<1>1. StorageType(s)
  BY DEF StorageOK
<1>2. LogOK(s, off, u, l.committed) /\ LastIndex(s, l) = Last(s, off, u)
  BY <1>1, RaftLogFacts
<1>3. /\ off \in Nat \ {0} /\ u \in Seq(Terms) /\ Len(u) \in Nat
      /\ Last(s, off, u) \in Nat /\ off + Len(u) = Last(s, off, u) + 1
      /\ Over(s, off, u)[i] = IF off <= i /\ i < off + Len(u) THEN u[i - off + 1] ELSE SAt(s, i)
  BY <1>1, <1>2, OverFacts
<1>4. /\ s.index \in Nat /\ Len(s.ents) \in Nat \ {0}
      /\ MSLastIndex(s) \in Nat /\ MSLastIndex(s) = s.index + Len(s.ents) - 1
  BY <1>1, StorageFacts
<1>5. off <= MSLastIndex(s) + 1
  BY <1>2, <1>4 DEF LogOK
<1>6. FirstIndex(s, l) - 1 = s.index
  BY <1>4 DEF FirstIndex, MSFirstIndex
<1>7. CASE i < s.index \/ i > LastIndex(s, l)
  BY <1>6, <1>7 DEF Term
<1>8. CASE ~(i < s.index \/ i > LastIndex(s, l)) /\ InUnstable(l, i)
  BY <1>2, <1>3, <1>6, <1>8 DEF Term, InUnstable, UnstableTerm
<1>9. CASE ~(i < s.index \/ i > LastIndex(s, l)) /\ ~InUnstable(l, i)
  <2>1. i < off
    BY <1>2, <1>3, <1>9 DEF InUnstable
  <2>2. i <= MSLastIndex(s)
    BY <1>3, <1>4, <1>5, <2>1
  <2>3. Term(s, l, i) = s.ents[i - s.index + 1]
    BY <1>4, <1>6, <1>9, <2>2 DEF Term, MSTerm
  <2>4. CASE i = s.index
    <3>1. s.ents[1] = IF i = 0 THEN 0 ELSE Decided[i]
      BY <2>4 DEF StorageOK
    <3>2. i - s.index + 1 = 1
      BY <1>4, <2>4
    <3>3. SAt(s, i) = Decided[i]
      BY <1>4, <2>4 DEF SAt
    <3>4. Term(s, l, i) = s.ents[1]
      BY <2>3, <3>2
    <3>5. Over(s, off, u)[i] = Decided[i]
      BY <1>3, <2>1, <3>3
    <3> HIDE DEF off, u
    <3>6. Term(s, l, i) = IF i = 0 THEN 0 ELSE Over(s, off, u)[i]
      BY <3>1, <3>4, <3>5
    <3> QED BY <1>9, <3>6 DEF off, u
  <2>5. CASE i > s.index
    <3>1. SAt(s, i) = s.ents[i - s.index + 1]
      BY <1>4, <2>5 DEF SAt
    <3> QED BY <1>3, <1>4, <1>9, <2>1, <2>3, <2>5, <3>1
  <2> QED BY <1>4, <1>9, <2>4, <2>5
<1> QED BY <1>7, <1>8, <1>9
-----------------------------------------------------------------------------
(* Appending. *)

\* Entry j of an overlaid log.
LEMMA OverAt ==
  ASSUME NEW s, NEW off, NEW u, NEW j \in Nat
  PROVE  Over(s, off, u)[j] =
           IF off <= j /\ j < off + Len(u) THEN u[j - off + 1] ELSE SAt(s, j)
  BY DEF Over

\* v keeps n entries of u and goes on with tail.
Spliced(v, u, n, tail) ==
  /\ Len(v) = n + Len(tail)
  /\ \A j \in 1 .. n : v[j] = u[j]
  /\ \A k \in 1 .. Len(tail) : v[n + k] = tail[k]

\* What a splice does to an overlaid log: the same up to the cut, the tail from there.
LEMMA SpliceFacts ==
  ASSUME NEW s, NEW off \in Nat \ {0}, NEW u \in Seq(Terms), NEW n \in 0 .. Len(u),
         NEW tail \in Seq(Terms), NEW v \in Seq(Terms), Spliced(v, u, n, tail)
  PROVE  /\ Same(Over(s, off, v), Over(s, off, u), off + n - 1)
         /\ TailFrom(Over(s, off, v), off + n, tail)
<1> USE DEF Spliced
<1>1. Len(u) \in Nat /\ Len(tail) \in Nat /\ n \in Nat
  OBVIOUS
<1>2. ASSUME NEW j \in 1 .. off + n - 1
      PROVE  Over(s, off, v)[j] = Over(s, off, u)[j]
  <2>1. j \in Nat
    OBVIOUS
  <2>2. Over(s, off, v)[j] = IF off <= j /\ j < off + Len(v) THEN v[j - off + 1] ELSE SAt(s, j)
    BY <2>1, OverAt
  <2>5. Over(s, off, u)[j] = IF off <= j /\ j < off + Len(u) THEN u[j - off + 1] ELSE SAt(s, j)
    BY <2>1, OverAt
  <2>3. CASE j < off
    <3>1. ~(off <= j)
      BY <2>3, <2>1
    <3> QED BY <2>2, <2>5, <3>1
  <2>4. CASE off <= j
    <3>1. j - off + 1 \in 1 .. n /\ j < off + Len(v) /\ j < off + Len(u)
      BY <2>4, <1>1
    <3>2. v[j - off + 1] = u[j - off + 1]
      BY <3>1
    <3> QED BY <2>2, <2>5, <2>4, <3>1, <3>2
  <2> QED BY <2>1, <2>3, <2>4
<1>3. ASSUME NEW k \in 1 .. Len(tail)
      PROVE  Over(s, off, v)[off + n + k - 1] = tail[k]
  <2>1. PICK j \in Nat : j = off + n + k - 1
    BY <1>1
  <2>2. off <= j /\ j < off + Len(v) /\ j - off + 1 = n + k
    BY <2>1, <1>1
  <2>3. Over(s, off, v)[j] = v[j - off + 1]
    BY <2>2, OverAt
  <2>4. v[n + k] = tail[k]
    OBVIOUS
  <2> QED BY <2>1, <2>2, <2>3, <2>4
<1> QED BY <1>2, <1>3 DEF Same, TailFrom

\* The result of truncateAndAppend, in the three cases of its code.
LEMMA TruncateCases ==
  ASSUME NEW l, l \in [offset : Nat, unstable : Seq(Terms), committed : Nat, applied : Nat],
         NEW i \in Nat \ {0}, i <= l.offset + Len(l.unstable),
         NEW tail \in Seq(Terms), tail # <<>>
  PROVE  LET l2 == TruncateAndAppend(l, i, tail) IN
         /\ l2 \in [offset : Nat, unstable : Seq(Terms), committed : Nat, applied : Nat]
         /\ l2.committed = l.committed /\ l2.applied = l.applied
         /\ \/ /\ i <= l.offset /\ l2.offset = i
               /\ Len(l2.unstable) = Len(tail)
               /\ \A k \in 1 .. Len(tail) : l2.unstable[k] = tail[k]
            \/ /\ l.offset < i \/ (i = l.offset /\ l.unstable = <<>>)
               /\ l2.offset = l.offset
               /\ Spliced(l2.unstable, l.unstable, i - l.offset, tail)
<1> USE DEF Spliced
<1> DEFINE off == l.offset
           u == l.unstable
           l2 == TruncateAndAppend(l, i, tail)
<1>1. off \in Nat /\ u \in Seq(Terms) /\ Len(u) \in Nat /\ Len(tail) \in Nat \ {0}
  OBVIOUS
<1>2. ASSUME NEW kept \in Seq(Terms), Len(kept) = i - off, i >= off,
             \A j \in 1 .. i - off : kept[j] = u[j]
      PROVE  /\ kept \o tail \in Seq(Terms) /\ Len(kept \o tail) = i - off + Len(tail)
             /\ \A j \in 1 .. i - off : (kept \o tail)[j] = u[j]
             /\ \A k \in 1 .. Len(tail) : (kept \o tail)[i - off + k] = tail[k]
  <2>1. /\ kept \o tail \in Seq(Terms) /\ Len(kept \o tail) = Len(kept) + Len(tail)
        /\ \A j \in 1 .. Len(kept) + Len(tail) :
             (kept \o tail)[j] = IF j <= Len(kept) THEN kept[j] ELSE tail[j - Len(kept)]
    BY ConcatProperties
  <2>2. ASSUME NEW j \in 1 .. i - off PROVE (kept \o tail)[j] = u[j]
    BY <1>1, <1>2, <2>1
  <2>3. ASSUME NEW k \in 1 .. Len(tail) PROVE (kept \o tail)[i - off + k] = tail[k]
    <3>1. /\ i - off + k \in 1 .. Len(kept) + Len(tail) /\ ~(i - off + k <= Len(kept))
          /\ (i - off + k) - Len(kept) = k
      <4>1. off \in Nat /\ i \in Nat /\ Len(tail) \in Nat /\ k \in Nat /\ Len(kept) = i - off /\ i >= off
        BY <1>1, <1>2
      <4> HIDE DEF off
      <4> QED BY <4>1
    <3> QED BY <2>1, <3>1
  <2> QED BY <1>2, <2>1, <2>2, <2>3
<1>3. CASE i = off + Len(u)
  <2>1. l2 = [l EXCEPT !.unstable = u \o tail]
    BY <1>3 DEF TruncateAndAppend
  <2>2. i - off = Len(u) /\ i >= off
    BY <1>1, <1>3
  <2>3. /\ u \o tail \in Seq(Terms) /\ Len(u \o tail) = i - off + Len(tail)
        /\ \A j \in 1 .. i - off : (u \o tail)[j] = u[j]
        /\ \A k \in 1 .. Len(tail) : (u \o tail)[i - off + k] = tail[k]
    BY <1>1, <1>2, <2>2
  <2>4. l.offset < i \/ (i = l.offset /\ l.unstable = <<>>)
    BY <1>1, <1>3
  <2>5. /\ l2.offset = off /\ l2.unstable = u \o tail
        /\ l2.committed = l.committed /\ l2.applied = l.applied
        /\ l2 \in [offset : Nat, unstable : Seq(Terms), committed : Nat, applied : Nat]
    BY <2>1, <2>3
  <2> HIDE DEF l2
  <2> QED BY <2>3, <2>4, <2>5 DEF l2
<1>4. CASE i # off + Len(u) /\ i <= off
  <2>1. l2 = [l EXCEPT !.offset = i, !.unstable = tail]
    BY <1>4 DEF TruncateAndAppend
  <2> QED BY <1>4, <2>1
<1>5. CASE i # off + Len(u) /\ ~(i <= off)
  <2> DEFINE kept == SubSeq(u, 1, i - off)
  <2>1. l2 = [l EXCEPT !.unstable = kept \o tail]
    BY <1>5 DEF TruncateAndAppend
  <2>2. /\ kept \in Seq(Terms) /\ Len(kept) = i - off
        /\ \A j \in 1 .. i - off : kept[j] = u[j]
    BY <1>1, <1>5
  <2>4. l.offset < i /\ i >= off
    BY <1>1, <1>5
  <2> HIDE DEF kept
  <2>3. /\ kept \o tail \in Seq(Terms) /\ Len(kept \o tail) = i - off + Len(tail)
        /\ \A j \in 1 .. i - off : (kept \o tail)[j] = u[j]
        /\ \A k \in 1 .. Len(tail) : (kept \o tail)[i - off + k] = tail[k]
    BY <1>2, <2>2, <2>4
  <2>5. /\ l2.offset = off /\ l2.unstable = kept \o tail
        /\ l2.committed = l.committed /\ l2.applied = l.applied
        /\ l2 \in [offset : Nat, unstable : Seq(Terms), committed : Nat, applied : Nat]
    BY <2>1, <2>3
  <2> HIDE DEF l2
  <2> QED BY <2>3, <2>4, <2>5 DEF l2
<1> QED BY <1>3, <1>4, <1>5

\* truncateAndAppend: what was before index i stays, the rest is the new tail.
LEMMA TruncateFacts ==
  ASSUME NEW s, NEW l, StorageType(s), RaftLogOK(s, l),
         NEW i \in Nat \ {0}, i <= LastIndex(s, l) + 1,
         NEW tail \in Seq(Terms), tail # <<>>
  PROVE  LET l2 == TruncateAndAppend(l, i, tail) IN
         /\ l2 \in [offset : Nat, unstable : Seq(Terms), committed : Nat, applied : Nat]
         /\ l2.committed = l.committed /\ l2.applied = l.applied
         /\ l2.offset \in 1 .. l.offset
         /\ l2.unstable # <<>>
         /\ LastIndex(s, l2) = i + Len(tail) - 1
         /\ Same(Over(s, l2.offset, l2.unstable), Over(s, l.offset, l.unstable), i - 1)
         /\ TailFrom(Over(s, l2.offset, l2.unstable), i, tail)
<1> DEFINE l2 == TruncateAndAppend(l, i, tail)
<1>1. /\ LogOK(s, l.offset, l.unstable, l.committed)
      /\ LastIndex(s, l) = Last(s, l.offset, l.unstable)
  BY RaftLogFacts
<1>2. /\ l.offset \in Nat \ {0} /\ l.unstable \in Seq(Terms) /\ Len(l.unstable) \in Nat
      /\ l.offset + Len(l.unstable) = LastIndex(s, l) + 1
  BY <1>1, OverFacts
<1>3. Len(tail) \in Nat \ {0}
  OBVIOUS
<1>4. l \in [offset : Nat, unstable : Seq(Terms), committed : Nat, applied : Nat]
  BY DEF RaftLogOK
<1>5. i <= l.offset + Len(l.unstable)
  BY <1>2
<1>6. /\ l2 \in [offset : Nat, unstable : Seq(Terms), committed : Nat, applied : Nat]
      /\ l2.committed = l.committed /\ l2.applied = l.applied
      /\ \/ /\ i <= l.offset /\ l2.offset = i
            /\ Len(l2.unstable) = Len(tail)
            /\ \A k \in 1 .. Len(tail) : l2.unstable[k] = tail[k]
         \/ /\ l.offset < i \/ (i = l.offset /\ l.unstable = <<>>)
            /\ l2.offset = l.offset
            /\ Spliced(l2.unstable, l.unstable, i - l.offset, tail)
  BY <1>4, <1>5, TruncateCases
<1> HIDE DEF l2
<1>7. l2.unstable \in Seq(Terms) /\ Len(l2.unstable) \in Nat
  BY <1>6
<1>8. CASE /\ i <= l.offset /\ l2.offset = i
           /\ Len(l2.unstable) = Len(tail)
           /\ \A k \in 1 .. Len(tail) : l2.unstable[k] = tail[k]
  <2>1. l2.unstable # <<>> /\ l2.offset \in 1 .. l.offset
    BY <1>2, <1>3, <1>8
  <2>2. LastIndex(s, l2) = i + Len(tail) - 1
    BY <1>8, <2>1 DEF LastIndex
  <2>3. ASSUME NEW j \in 1 .. i - 1
        PROVE  Over(s, i, l2.unstable)[j] = Over(s, l.offset, l.unstable)[j]
    <3>1. j \in Nat /\ j < i /\ j < l.offset
      BY <1>2, <1>8
    <3>2. Over(s, i, l2.unstable)[j] = SAt(s, j)
      BY <3>1, OverAt
    <3>3. Over(s, l.offset, l.unstable)[j] = SAt(s, j)
      BY <1>2, <3>1, OverAt
    <3> QED BY <3>2, <3>3
  <2>4. ASSUME NEW k \in 1 .. Len(tail)
        PROVE  Over(s, i, l2.unstable)[i + k - 1] = tail[k]
    <3>1. i + k - 1 \in Nat /\ i <= i + k - 1 /\ i + k - 1 < i + Len(l2.unstable)
          /\ (i + k - 1) - i + 1 = k
      BY <1>3, <1>8
    <3>2. Over(s, i, l2.unstable)[i + k - 1] = l2.unstable[k]
      BY <3>1, OverAt
    <3> QED BY <1>8, <3>2
  <2>5. /\ Same(Over(s, l2.offset, l2.unstable), Over(s, l.offset, l.unstable), i - 1)
        /\ TailFrom(Over(s, l2.offset, l2.unstable), i, tail)
    BY <1>8, <2>3, <2>4 DEF Same, TailFrom
  <2> QED BY <1>6, <2>1, <2>2, <2>5 DEF l2
<1>9. CASE /\ l.offset < i \/ (i = l.offset /\ l.unstable = <<>>)
           /\ l2.offset = l.offset
           /\ Spliced(l2.unstable, l.unstable, i - l.offset, tail)
  <2> DEFINE n == i - l.offset
  <2>1. n \in 0 .. Len(l.unstable) /\ l.offset + n = i
    BY <1>2, <1>5, <1>9
  <2>7. l.offset + n - 1 = i - 1
    BY <1>2
  <2>2. Len(l2.unstable) = n + Len(tail)
    BY <1>9 DEF Spliced
  <2>3. l2.unstable # <<>> /\ l2.offset \in 1 .. l.offset
    BY <1>2, <1>3, <1>9, <2>1, <2>2
  <2>4. LastIndex(s, l2) = i + Len(tail) - 1
    BY <1>2, <1>3, <1>9, <2>1, <2>2, <2>3 DEF LastIndex
  <2>5. /\ Same(Over(s, l.offset, l2.unstable), Over(s, l.offset, l.unstable), l.offset + n - 1)
        /\ TailFrom(Over(s, l.offset, l2.unstable), l.offset + n, tail)
    <3> DEFINE o == l.offset  u == l.unstable  v == l2.unstable
    <3>1. o \in Nat \ {0} /\ u \in Seq(Terms) /\ v \in Seq(Terms)
      BY <1>2, <1>7
    <3>2. n \in 0 .. Len(u) /\ Spliced(v, u, n, tail)
      BY <1>9, <2>1
    <3> HIDE DEF o, u, v, n
    <3>3. Same(Over(s, o, v), Over(s, o, u), o + n - 1) /\ TailFrom(Over(s, o, v), o + n, tail)
      BY <3>1, <3>2, SpliceFacts
    <3> QED BY <3>3 DEF o, u, v
  <2> HIDE DEF n
  <2>6. /\ Same(Over(s, l2.offset, l2.unstable), Over(s, l.offset, l.unstable), i - 1)
        /\ TailFrom(Over(s, l2.offset, l2.unstable), i, tail)
    <3>1. l.offset + n = i
      BY <2>1
    <3>2. l.offset + n - 1 = i - 1
      BY <2>7
    <3>3. l2.offset = l.offset
      BY <1>9
    <3> QED BY <2>5, <3>1, <3>2, <3>3
  <2> QED BY <1>6, <2>3, <2>4, <2>6 DEF l2
<1> QED BY <1>6, <1>8, <1>9

\* matchTerm with a term of an entry: the entry is there.
LEMMA MatchFacts ==
  ASSUME NEW s, NEW hs, NEW l, StorageOK(s, hs), RaftLogOK(s, l),
         NEW i \in Nat \ {0}, NEW t \in Terms
  PROVE  MatchTerm(s, l, i, t) <=>
           /\ s.index <= i /\ i <= LastIndex(s, l)
           /\ Over(s, l.offset, l.unstable)[i] = t
<1>1. Term(s, l, i) = IF i = 0 \/ i < s.index \/ i > LastIndex(s, l) THEN 0
                      ELSE Over(s, l.offset, l.unstable)[i]
  BY TermFacts
<1>2. t # 0 /\ i # 0
  BY LeadersAssumption
<1>3. s.index \in Nat /\ LastIndex(s, l) \in Nat
  <2>1. StorageType(s)
    BY DEF StorageOK
  <2>2. LogOK(s, l.offset, l.unstable, l.committed) /\ LastIndex(s, l) = Last(s, l.offset, l.unstable)
    BY <2>1, RaftLogFacts
  <2> QED BY <2>1, <2>2, StorageFacts, OverFacts
<1> QED BY <1>1, <1>2, <1>3 DEF MatchTerm

\* findConflict: the first entry that does not match, 0 if all do.
LEMMA FindConflictFacts ==
  ASSUME NEW s, NEW l, NEW first \in Nat \ {0}, NEW ents \in Seq(Terms)
  PROVE  LET ci == FindConflict(s, l, first, ents) IN
         \/ /\ ci = 0
            /\ \A j \in first .. first + Len(ents) - 1 : MatchTerm(s, l, j, ents[j - first + 1])
         \/ /\ ci \in first .. first + Len(ents) - 1
            /\ ~MatchTerm(s, l, ci, ents[ci - first + 1])
            /\ \A j \in first .. ci - 1 : MatchTerm(s, l, j, ents[j - first + 1])
<1> DEFINE C == Conflicts(s, l, first, ents)
           ci == FindConflict(s, l, first, ents)
<1>1. Len(ents) \in Nat
  OBVIOUS
<1>2. \A j : j \in C <=> j \in first .. first + Len(ents) - 1 /\ ~MatchTerm(s, l, j, ents[j - first + 1])
  BY DEF Conflicts
<1>3. C \subseteq Nat
  BY <1>1, <1>2
<1> HIDE DEF C
<1>4. CASE C = {}
  <2>1. ci = 0
    BY <1>4 DEF FindConflict, C
  <2> QED BY <1>2, <1>4, <2>1
<1>5. CASE C # {}
  <2>1. ci = CHOOSE i \in C : \A j \in C : i <= j
    BY <1>5 DEF FindConflict, C
  <2>2. \E i \in C : \A j \in C : i <= j
    BY <1>3, <1>5, MinExists
  <2>3. ci \in C /\ \A j \in C : ci <= j
    <3> HIDE DEF ci
    <3> QED BY <2>1, <2>2
  <2> HIDE DEF ci
  <2>4. ci \in first .. first + Len(ents) - 1 /\ ~MatchTerm(s, l, ci, ents[ci - first + 1])
    BY <1>2, <2>3
  <2>5. ASSUME NEW j \in first .. ci - 1 PROVE MatchTerm(s, l, j, ents[j - first + 1])
    <3>1. j \in first .. first + Len(ents) - 1 /\ ~(ci <= j)
      BY <1>1, <2>4
    <3>2. j \notin C
      BY <2>3, <3>1
    <3> QED BY <1>2, <3>1, <3>2
  <2> QED BY <2>4, <2>5 DEF ci
<1> QED BY <1>4, <1>5

\* The entries of a MsgApp are those of its leader's log after prev.
Carries(t, prev, ents) ==
  /\ ents \in Seq(Terms)
  /\ prev + Len(ents) <= Len(LeaderLog[t])
  /\ \A k \in 1 .. Len(ents) : ents[k] = LeaderLog[t][prev + k]

LogType(l) == l \in [offset : Nat, unstable : Seq(Terms), committed : Nat, applied : Nat]

\* A MsgApp that matches has the same log before its entries.
LEMMA PrevMatches ==
  ASSUME NEW s, NEW hs, NEW l, StorageOK(s, hs), RaftLogOK(s, l),
         NEW t \in Terms, NEW prev \in 0 .. Len(LeaderLog[t]),
         l.committed <= prev, MatchTerm(s, l, prev, LeaderTerm(t, prev))
  PROVE  /\ prev <= LastIndex(s, l) /\ LastIndex(s, l) \in Nat
         /\ Same(Over(s, l.offset, l.unstable), LeaderLog[t], prev)
<1> DEFINE f == Over(s, l.offset, l.unstable)
<1>1. StorageType(s)
  BY DEF StorageOK
<1>2. /\ LogOK(s, l.offset, l.unstable, l.committed)
      /\ LastIndex(s, l) = Last(s, l.offset, l.unstable)
  BY <1>1, RaftLogFacts
<1>3. LastIndex(s, l) \in Nat
  BY <1>1, <1>2, OverFacts
<1>4. Len(LeaderLog[t]) \in Nat
  BY LeadersAssumption
<1>5. CASE prev = 0
  BY <1>3, <1>5 DEF Same
<1>6. CASE prev # 0
  <2>1. prev \in Nat \ {0} /\ prev \in 1 .. Len(LeaderLog[t])
    BY <1>4, <1>6
  <2>2. LeaderLog[t][prev] \in Terms
    BY <2>1, LeadersAssumption
  <2>3. MatchTerm(s, l, prev, LeaderLog[t][prev])
    BY <2>1 DEF LeaderTerm
  <2>4. prev <= LastIndex(s, l) /\ f[prev] = LeaderLog[t][prev]
    BY <2>1, <2>2, <2>3, MatchFacts
  <2>5. CoherentTo(f, LastIndex(s, l))
    BY <1>2 DEF LogOK
  <2> HIDE DEF f
  <2>6. Had(f, prev)
    BY <1>3, <2>1, <2>4, <2>5 DEF CoherentTo
  <2>7. \A j \in 1 .. prev : f[j] = LeaderLog[t][j]
    BY <2>1, <2>4, <2>6, MatchIsPrefix
  <2> QED BY <1>3, <2>4, <2>7 DEF Same, f
<1> QED BY <1>5, <1>6

\* maybeAppend up to its commitTo: the log now has what the leader has up to n,
\* the last entry of the message, and everything up to the commit index stays.
Appended(s, l, l1, t, n) ==
  /\ LogType(l1)
  /\ l1.committed = l.committed /\ l1.applied = l.applied
  /\ l1.offset \in 1 .. l.offset
  /\ LastIndex(s, l1) \in Nat /\ n <= LastIndex(s, l1)
  /\ l1.unstable = <<>> => l1 = l
  /\ l1 = l \/ l.committed < LastIndex(s, l1)
  /\ Same(Over(s, l1.offset, l1.unstable), LeaderLog[t], n)
  /\ Same(Over(s, l1.offset, l1.unstable), Over(s, l.offset, l.unstable), l.committed)
  /\ CoherentTo(Over(s, l1.offset, l1.unstable), LastIndex(s, l1))

\* maybeAppend up to its commitTo keeps that promise, and none of its panics occurs.
LEMMA AppendFromConflictFacts ==
  ASSUME NEW s, NEW hs, NEW l, StorageOK(s, hs), RaftLogOK(s, l),
         NEW t \in Terms, NEW prev \in 0 .. Len(LeaderLog[t]),
         l.committed <= prev, MatchTerm(s, l, prev, LeaderTerm(t, prev)),
         NEW ents, Carries(t, prev, ents)
  PROVE  /\ Appended(s, l, AppendFromConflict(s, l, prev, ents), t, prev + Len(ents))
         /\ LET ci == FindConflict(s, l, prev + 1, ents) IN
            ci # 0 => ~(TermPanics(s, l, ci) \/ ci <= l.committed \/ AppendPanics(l, ci))
<1> DEFINE f == Over(s, l.offset, l.unstable)
           n == prev + Len(ents)
           ci == FindConflict(s, l, prev + 1, ents)
           l1 == AppendFromConflict(s, l, prev, ents)
<1>1. StorageType(s) /\ prev \in Nat /\ ents \in Seq(Terms) /\ Len(ents) \in Nat /\ n \in Nat
  <2>1. Len(LeaderLog[t]) \in Nat
    BY LeadersAssumption
  <2> QED BY <2>1 DEF StorageOK, Carries
<1>2. /\ LogOK(s, l.offset, l.unstable, l.committed)
      /\ LastIndex(s, l) = Last(s, l.offset, l.unstable)
      /\ l.committed \in Nat /\ l.offset \in Nat \ {0}
  BY <1>1, RaftLogFacts
<1>3. LastIndex(s, l) \in Nat /\ l.offset + Len(l.unstable) = LastIndex(s, l) + 1
  BY <1>1, <1>2, OverFacts
<1>4. prev <= LastIndex(s, l) /\ Same(f, LeaderLog[t], prev)
  BY PrevMatches
<1>5. LogType(l)
  BY DEF RaftLogOK, LogType
<1>6. CoherentTo(f, LastIndex(s, l))
  BY <1>2 DEF LogOK
<1>7. \A j \in prev + 1 .. n : /\ j - (prev + 1) + 1 = j - prev
                               /\ j - prev \in 1 .. Len(ents)
                               /\ ents[j - prev] \in Terms
                               /\ ents[j - prev] = LeaderLog[t][j]
  <2> SUFFICES ASSUME NEW j \in prev + 1 .. n
               PROVE  /\ j - (prev + 1) + 1 = j - prev
                      /\ j - prev \in 1 .. Len(ents)
                      /\ ents[j - prev] \in Terms
                      /\ ents[j - prev] = LeaderLog[t][j]
    OBVIOUS
  <2>1. /\ j - (prev + 1) + 1 = j - prev
        /\ j - prev \in 1 .. Len(ents) /\ prev + (j - prev) = j
    BY <1>1
  <2>2. ents[j - prev] \in Terms
    BY <1>1, <2>1
  <2>3. ents[j - prev] = LeaderLog[t][prev + (j - prev)]
    BY <2>1 DEF Carries
  <2> QED BY <2>1, <2>2, <2>3
<1>8. ASSUME NEW j \in prev + 1 .. n, MatchTerm(s, l, j, ents[j - (prev + 1) + 1])
      PROVE  j <= LastIndex(s, l) /\ f[j] = LeaderLog[t][j]
  <2>1. j \in Nat \ {0} /\ ents[j - prev] \in Terms /\ MatchTerm(s, l, j, ents[j - prev])
    BY <1>1, <1>7, <1>8
  <2>2. j <= LastIndex(s, l) /\ f[j] = ents[j - prev]
    BY <2>1, MatchFacts
  <2> QED BY <1>7, <2>2
<1> HIDE DEF f
<1>9. \/ /\ ci = 0
         /\ \A j \in prev + 1 .. n : MatchTerm(s, l, j, ents[j - (prev + 1) + 1])
      \/ /\ ci \in prev + 1 .. n
         /\ \A j \in prev + 1 .. ci - 1 : MatchTerm(s, l, j, ents[j - (prev + 1) + 1])
  <2>1. prev + 1 \in Nat \ {0} /\ prev + 1 + Len(ents) - 1 = n
    BY <1>1
  <2>2. \/ /\ ci = 0
           /\ \A j \in prev + 1 .. prev + 1 + Len(ents) - 1 : MatchTerm(s, l, j, ents[j - (prev + 1) + 1])
        \/ /\ ci \in prev + 1 .. prev + 1 + Len(ents) - 1
           /\ \A j \in prev + 1 .. ci - 1 : MatchTerm(s, l, j, ents[j - (prev + 1) + 1])
    BY <1>1, <2>1, FindConflictFacts
  <2> QED BY <2>1, <2>2
<1> HIDE DEF ci, n
<1>10. CASE ci = 0
  <2>1. l1 = l
    BY <1>10 DEF AppendFromConflict, ci
  <2>2. \A j \in prev + 1 .. n : j <= LastIndex(s, l) /\ f[j] = LeaderLog[t][j]
    BY <1>1, <1>8, <1>9, <1>10
  <2>3. n <= LastIndex(s, l)
    <3>1. prev <= n
      BY <1>1 DEF n
    <3>2. CASE n = prev
      BY <1>4, <3>2
    <3>3. CASE n # prev
      BY <1>1, <2>2, <3>1, <3>3
    <3> QED BY <3>2, <3>3
  <2>4. Same(f, LeaderLog[t], n)
    <3> SUFFICES ASSUME NEW j \in 1 .. n PROVE f[j] = LeaderLog[t][j]
      BY DEF Same
    <3>1. CASE j <= prev
      BY <1>4, <3>1 DEF Same
    <3>2. CASE ~(j <= prev)
      BY <1>1, <2>2, <3>2
    <3> QED BY <3>1, <3>2
  <2>5. Same(f, f, l.committed)
    BY DEF Same
  <2>6. l.offset \in 1 .. l.offset
    BY <1>2
  <2>7. Appended(s, l, l, t, n)
    BY <1>3, <1>5, <1>6, <2>3, <2>4, <2>5, <2>6 DEF Appended, f
  <2> QED BY <1>10, <2>1, <2>7 DEF ci, n
<1>11. CASE ci \in prev + 1 .. n
  <2> DEFINE tail == SubSeq(ents, ci - prev, Len(ents))
  <2>1. /\ ci \in Nat \ {0} /\ prev < ci /\ ci <= n /\ ci # 0
        /\ ci - prev \in 1 .. Len(ents)
    BY <1>1, <1>11 DEF n
  <2>2. l1 = TruncateAndAppend(l, ci, tail)
    BY <2>1 DEF AppendFromConflict, AppendEntries, ci
  <2>3. /\ tail \in Seq(Terms) /\ Len(tail) = Len(ents) - (ci - prev) + 1
        /\ \A k \in 1 .. Len(ents) - (ci - prev) + 1 : tail[k] = ents[ci - prev + k - 1]
    <3>1. \A k \in ci - prev .. Len(ents) : ents[k] \in Terms
      BY <1>1, <2>1
    <3> QED BY <1>1, <2>1, <3>1, SubSeqProperties
  <2> HIDE DEF tail
  <2>4. /\ Len(tail) \in Nat \ {0} /\ tail # <<>> /\ ci + Len(tail) - 1 = n
    <3>1. Len(tail) \in Nat \ {0}
      BY <1>1, <2>1, <2>3
    <3>2. ci + Len(tail) - 1 = n
      BY <1>1, <2>1, <2>3 DEF n
    <3>3. tail # <<>>
      BY <3>1
    <3> QED BY <3>1, <3>2, <3>3
  <2>5. \A k \in 1 .. Len(tail) : tail[k] = LeaderLog[t][ci + k - 1]
    <3> SUFFICES ASSUME NEW k \in 1 .. Len(tail) PROVE tail[k] = LeaderLog[t][ci + k - 1]
      OBVIOUS
    <3>1. /\ ci + k - 1 \in prev + 1 .. n
          /\ (ci + k - 1) - prev = ci - prev + k - 1
      BY <1>1, <2>1, <2>4
    <3>2. ents[(ci + k - 1) - prev] = LeaderLog[t][ci + k - 1]
      BY <1>7, <3>1
    <3>3. tail[k] = ents[ci - prev + k - 1]
      BY <2>3
    <3> QED BY <3>1, <3>2, <3>3
  <2>6. \A j \in prev + 1 .. ci - 1 : j <= LastIndex(s, l) /\ f[j] = LeaderLog[t][j]
    <3> SUFFICES ASSUME NEW j \in prev + 1 .. ci - 1
                 PROVE  j <= LastIndex(s, l) /\ f[j] = LeaderLog[t][j]
      OBVIOUS
    <3>1. j \in prev + 1 .. n /\ MatchTerm(s, l, j, ents[j - (prev + 1) + 1])
      BY <1>1, <1>9, <2>1
    <3> QED BY <1>8, <3>1
  <2>7. ci <= LastIndex(s, l) + 1
    <3>1. CASE ci = prev + 1
      BY <1>3, <1>4, <3>1
    <3>2. CASE ci # prev + 1
      <4>1. ci - 1 \in prev + 1 .. ci - 1
        BY <1>1, <2>1, <3>2
      <4>2. ci - 1 <= LastIndex(s, l)
        BY <2>6, <4>1
      <4> QED BY <1>3, <2>1, <4>2
    <3> QED BY <3>1, <3>2
  <2>8. Same(f, LeaderLog[t], ci - 1)
    <3> SUFFICES ASSUME NEW j \in 1 .. ci - 1 PROVE f[j] = LeaderLog[t][j]
      BY DEF Same
    <3>1. CASE j <= prev
      BY <1>4, <3>1 DEF Same
    <3>2. CASE ~(j <= prev)
      BY <1>1, <2>6, <3>2
    <3> QED BY <3>1, <3>2
  <2>9. /\ LogType(l1)
        /\ l1.committed = l.committed /\ l1.applied = l.applied
        /\ l1.offset \in 1 .. l.offset
        /\ l1.unstable # <<>>
        /\ LastIndex(s, l1) = ci + Len(tail) - 1
        /\ Same(Over(s, l1.offset, l1.unstable), f, ci - 1)
        /\ TailFrom(Over(s, l1.offset, l1.unstable), ci, tail)
    <3> HIDE DEF l1
    <3> DEFINE x == TruncateAndAppend(l, ci, tail)
    <3>1. /\ x \in [offset : Nat, unstable : Seq(Terms), committed : Nat, applied : Nat]
          /\ x.committed = l.committed /\ x.applied = l.applied
          /\ x.offset \in 1 .. l.offset
          /\ x.unstable # <<>>
          /\ LastIndex(s, x) = ci + Len(tail) - 1
          /\ Same(Over(s, x.offset, x.unstable), Over(s, l.offset, l.unstable), ci - 1)
          /\ TailFrom(Over(s, x.offset, x.unstable), ci, tail)
      <4>1. StorageType(s) /\ ci \in Nat \ {0} /\ tail \in Seq(Terms)
        BY <1>1, <2>1, <2>3
      <4>2. ci <= LastIndex(s, l) + 1 /\ tail # <<>>
        BY <2>4, <2>7
      <4> QED BY <4>1, <4>2, TruncateFacts
    <3> HIDE DEF x
    <3>2. l1 = x
      BY <2>2 DEF x
    <3> QED BY <3>1, <3>2 DEF LogType, f
  <2> HIDE DEF l1
  <2> DEFINE f1 == Over(s, l1.offset, l1.unstable)
  <2>10. Same(f1, LeaderLog[t], n)
    <3> HIDE DEF f1
    <3> SUFFICES ASSUME NEW j \in 1 .. n PROVE f1[j] = LeaderLog[t][j]
      BY DEF Same
    <3>1. CASE j <= ci - 1
      <4>1. j \in 1 .. ci - 1
        BY <2>1, <3>1
      <4> QED BY <2>8, <2>9, <4>1 DEF Same, f1
    <3>2. CASE ~(j <= ci - 1)
      <4>1. j - ci + 1 \in 1 .. Len(tail) /\ ci + (j - ci + 1) - 1 = j
        BY <1>1, <2>1, <2>4, <3>2
      <4>2. f1[ci + (j - ci + 1) - 1] = tail[j - ci + 1]
        BY <2>9, <4>1 DEF TailFrom, f1
      <4>3. tail[j - ci + 1] = LeaderLog[t][ci + (j - ci + 1) - 1]
        BY <2>5, <4>1
      <4> QED BY <4>1, <4>2, <4>3
    <3> QED BY <3>1, <3>2
  <2>11. l.committed <= ci - 1 /\ l.committed < n
    BY <1>1, <1>2, <2>1
  <2>12. Same(f1, f, l.committed)
    BY <1>2, <2>1, <2>9, <2>11 DEF Same
  <2>13. LastIndex(s, l1) = n
    BY <2>4, <2>9
  <2>14. CoherentTo(f1, n)
    <3>1. n <= Len(LeaderLog[t])
      BY DEF Carries, n
    <3> HIDE DEF f1
    <3> QED BY <1>1, <2>10, <3>1, PrefixIsCoherent DEF Same
  <2>15. Appended(s, l, l1, t, n)
    BY <1>1, <2>9, <2>10, <2>11, <2>12, <2>13, <2>14 DEF Appended, f
  <2>16. ~TermPanics(s, l, ci)
    <3>1. Term(s, l, ci) = IF ci = 0 \/ ci < s.index \/ ci > LastIndex(s, l) THEN 0 ELSE f[ci]
      BY <2>1, TermFacts DEF f
    <3>2. ci \in 1 .. LastIndex(s, l) => f[ci] \in Terms
      BY <1>1, <1>2, OverFacts DEF f
    <3>3. ci <= LastIndex(s, l) => f[ci] \in Nat
      <4>1. \A x \in Terms : x \in Nat
        BY LeadersAssumption
      <4>2. ci <= LastIndex(s, l) => ci \in 1 .. LastIndex(s, l)
        BY <1>3, <2>1
      <4> QED BY <3>2, <4>1, <4>2
    <3>4. Term(s, l, ci) \in Nat
      BY <1>3, <2>1, <3>1, <3>3
    <3> QED BY <3>4 DEF TermPanics, ErrUnavailable
  <2>17. ~(ci <= l.committed) /\ ~AppendPanics(l, ci)
    BY <1>1, <1>2, <1>3, <2>1, <2>7, <2>11 DEF AppendPanics
  <2> QED BY <2>15, <2>16, <2>17 DEF l1, ci, n
<1> QED BY <1>9, <1>10, <1>11

\* commitTo changes committed alone, and never decreases it.
LEMMA CommitToFacts ==
  ASSUME NEW l, LogType(l), NEW k \in Nat
  PROVE  /\ LogType(CommitTo(l, k))
         /\ CommitTo(l, k).offset = l.offset /\ CommitTo(l, k).unstable = l.unstable
         /\ CommitTo(l, k).applied = l.applied
         /\ CommitTo(l, k).committed = IF l.committed > k THEN l.committed ELSE k
  BY DEF LogType, CommitTo, Max2

\* What the handler of a MsgApp does to the log, seen from the batch: what is
\* unstable stays so, and the end of the log moves only beyond the commit index.
Grown(s, l, l2) ==
  /\ l2.applied = l.applied /\ l.committed <= l2.committed
  /\ l2.offset <= l.offset
  /\ l.unstable # <<>> => l2.unstable # <<>>
  /\ l2.unstable # <<>> =>
       \/ l2.unstable = l.unstable /\ LastIndex(s, l2) = LastIndex(s, l)
       \/ l.committed < LastIndex(s, l2)

\* maybeAppend of a message that matches: no panic, a log that is still coherent and
\* decided up to its commit index, and the leader's log up to the last entry of it.
LEMMA MaybeAppendFacts ==
  ASSUME NEW s, NEW hs, NEW l, StorageOK(s, hs), RaftLogOK(s, l),
         NEW t \in Terms, NEW prev \in 0 .. Len(LeaderLog[t]),
         l.committed <= prev, MatchTerm(s, l, prev, LeaderTerm(t, prev)),
         NEW ents, Carries(t, prev, ents), NEW c \in CommitsOf(t)
  PROVE  LET l2 == MaybeAppend(s, l, prev, c, ents) IN
         /\ ~MaybeAppendPanics(s, l, prev, c, ents)
         /\ RaftLogOK(s, l2) /\ Grown(s, l, l2)
         /\ prev + Len(ents) <= LastIndex(s, l2)
         /\ Same(Over(s, l2.offset, l2.unstable), LeaderLog[t], prev + Len(ents))
<1> DEFINE n == prev + Len(ents)
           k == Min2(c, n)
           l1 == AppendFromConflict(s, l, prev, ents)
           l2 == MaybeAppend(s, l, prev, c, ents)
<1>1. StorageType(s) /\ prev \in Nat /\ Len(ents) \in Nat /\ n \in Nat
  <2>1. Len(LeaderLog[t]) \in Nat
    BY LeadersAssumption
  <2> QED BY <2>1 DEF StorageOK, Carries
<1>2. /\ LogOK(s, l.offset, l.unstable, l.committed)
      /\ l.committed \in Nat /\ l.offset \in Nat \ {0}
      /\ s.index <= l.committed /\ l.committed <= LastIndex(s, l)
      /\ LastIndex(s, l) = Last(s, l.offset, l.unstable)
  BY <1>1, RaftLogFacts
<1>3. MSLastIndex(s) \in Nat /\ s.index \in Nat /\ LastIndex(s, l) \in Nat
  BY <1>1, <1>2, StorageFacts, OverFacts
<1>4. Appended(s, l, l1, t, n)
  BY AppendFromConflictFacts
<1>5. /\ c \in Nat /\ c <= Len(Decided) /\ c <= Len(LeaderLog[t])
      /\ \A j \in 1 .. c : LeaderLog[t][j] = Decided[j]
  <2>1. Len(Decided) \in Nat
    BY LeadersAssumption
  <2> QED BY <2>1 DEF CommitsOf
<1>6. k \in Nat /\ k <= c /\ k <= n
  <2> HIDE DEF n
  <2> QED BY <1>1, <1>5 DEF Min2
<1>7. l2 = CommitTo(l1, k)
  BY DEF MaybeAppend
<1>8. ~MaybeAppendPanics(s, l, prev, c, ents)
  <2>1. ~CommitToPanics(s, l1, k)
    <3> HIDE DEF l1, k, n
    <3>1. LastIndex(s, l1) \in Nat /\ n <= LastIndex(s, l1)
      BY <1>4 DEF Appended
    <3>2. k <= LastIndex(s, l1)
      BY <1>1, <1>6, <3>1
    <3> QED BY <1>6, <3>1, <3>2 DEF CommitToPanics
  <2>2. LET ci == FindConflict(s, l, prev + 1, ents) IN
        ci # 0 => ~(TermPanics(s, l, ci) \/ ci <= l.committed \/ AppendPanics(l, ci))
    BY AppendFromConflictFacts
  <2> QED BY <2>1, <2>2 DEF MaybeAppendPanics
<1> HIDE DEF l1, l2, k, n
<1>9. /\ LogType(l1) /\ l1.committed = l.committed /\ l1.applied = l.applied
      /\ l1.offset \in 1 .. l.offset
      /\ LastIndex(s, l1) \in Nat /\ n <= LastIndex(s, l1)
      /\ l1.unstable = <<>> => l1 = l
      /\ l1 = l \/ l.committed < LastIndex(s, l1)
      /\ Same(Over(s, l1.offset, l1.unstable), LeaderLog[t], n)
      /\ Same(Over(s, l1.offset, l1.unstable), Over(s, l.offset, l.unstable), l.committed)
      /\ CoherentTo(Over(s, l1.offset, l1.unstable), LastIndex(s, l1))
  BY <1>4 DEF Appended
<1>10. /\ LogType(l2) /\ l2.offset = l1.offset /\ l2.unstable = l1.unstable
       /\ l2.applied = l.applied
       /\ l2.committed = IF l.committed > k THEN l.committed ELSE k
  BY <1>6, <1>7, <1>9, CommitToFacts
<1>11. l2.committed \in Nat /\ l.committed <= l2.committed /\ s.index <= l2.committed
  BY <1>2, <1>3, <1>6, <1>10
<1>12. LastIndex(s, l2) = LastIndex(s, l1) /\ LastIndex(s, l2) = Last(s, l2.offset, l2.unstable)
  BY <1>10 DEF LastIndex, Last
<1>13. l2.committed <= LastIndex(s, l2)
  <2>1. l1 = l => l.committed <= LastIndex(s, l1)
    BY <1>2
  <2>2. l.committed <= LastIndex(s, l1)
    BY <1>2, <1>9, <2>1
  <2>3. k <= LastIndex(s, l1)
    BY <1>1, <1>6, <1>9
  <2> QED BY <1>10, <1>12, <2>2, <2>3
<1> DEFINE f2 == Over(s, l2.offset, l2.unstable)
           f == Over(s, l.offset, l.unstable)
<1>14. /\ Same(f2, LeaderLog[t], n) /\ Same(f2, f, l.committed)
       /\ CoherentTo(f2, LastIndex(s, l2))
  BY <1>9, <1>10, <1>12
<1>15. DecidedTo(f, l.committed)
  BY <1>2 DEF LogOK
<1>16. DecidedTo(f2, l2.committed)
  <2> HIDE DEF f2, f
  <2>1. ASSUME NEW j \in 1 .. l.committed PROVE f2[j] = Decided[j]
    BY <1>14, <1>15 DEF Same, DecidedTo
  <2>2. ASSUME NEW j \in 1 .. k PROVE f2[j] = Decided[j]
    <3>1. j \in 1 .. n /\ j \in 1 .. c
      BY <1>1, <1>5, <1>6
    <3> QED BY <1>5, <1>14, <3>1 DEF Same
  <2>3. l.committed <= Len(Decided)
    BY <1>15 DEF DecidedTo
  <2>4. Len(Decided) \in Nat
    BY LeadersAssumption
  <2>5. CASE l.committed > k
    BY <1>10, <2>1, <2>3, <2>5 DEF DecidedTo
  <2>6. CASE ~(l.committed > k)
    <3>1. l2.committed = k /\ k <= Len(Decided)
      BY <1>5, <1>6, <1>10, <2>4, <2>6
    <3> QED BY <2>2, <3>1 DEF DecidedTo
  <2> QED BY <2>5, <2>6
<1>17. l2.offset \in 1 .. MSLastIndex(s) + 1 /\ (l2.unstable = <<>> => l2.offset = MSLastIndex(s) + 1)
  <2>1. /\ l.offset \in 1 .. MSLastIndex(s) + 1
        /\ l.unstable = <<>> => l.offset = MSLastIndex(s) + 1
    BY <1>2 DEF LogOK
  <2> QED BY <1>2, <1>3, <1>9, <1>10, <2>1
<1>18. l2.unstable \in Seq(Terms)
  BY <1>10 DEF LogType
<1>19. LogOK(s, l2.offset, l2.unstable, l2.committed)
  BY <1>11, <1>12, <1>13, <1>14, <1>16, <1>17, <1>18 DEF LogOK
<1>20. RaftLogOK(s, l2)
  BY <1>10, <1>19 DEF RaftLogOK, LogType
<1>21. Grown(s, l, l2)
  <2>1. l2.offset <= l.offset
    BY <1>2, <1>9, <1>10
  <2>2. l.unstable # <<>> => l2.unstable # <<>>
    BY <1>9, <1>10
  <2>3. \/ l2.unstable = l.unstable /\ LastIndex(s, l2) = LastIndex(s, l)
        \/ l.committed < LastIndex(s, l2)
    BY <1>9, <1>10, <1>12
  <2> QED BY <1>10, <1>11, <2>1, <2>2, <2>3 DEF Grown
<1>22. n <= LastIndex(s, l2)
  BY <1>9, <1>12
<1> QED BY <1>8, <1>14, <1>20, <1>21, <1>22 DEF l2, n

\* The types behind SafeState.
LEMMA SafeFacts ==
  ASSUME NEW s, NEW hs, NEW l, NEW r, NEW m, SafeState(s, hs, l, r, m)
  PROVE  /\ StorageOK(s, hs) /\ StorageType(s) /\ RaftLogOK(s, l)
         /\ MachineOK(s, hs, l, r, m) /\ BatchOK(s, hs, l, r, m)
         /\ hs \in Nat /\ s.index \in Nat /\ s.snap.index \in Nat /\ MSLastIndex(s) \in Nat
         /\ LastIndex(s, l) \in Nat /\ l.committed \in Nat /\ l.offset \in Nat \ {0}
         /\ l.committed <= LastIndex(s, l)
         /\ m \in Seq(Terms) /\ Len(m) \in Nat /\ Len(m) <= l.committed
         /\ r.first \in Nat /\ r.ents \in Seq(Terms) /\ r.apply \in Seq(Terms)
         /\ r.commit \in Nat /\ Len(r.ents) \in Nat /\ Len(r.apply) \in Nat
         /\ BatchLast(r) \in Int
<1>1. /\ StorageOK(s, hs) /\ RaftLogOK(s, l)
      /\ MachineOK(s, hs, l, r, m) /\ BatchOK(s, hs, l, r, m)
  BY DEF SafeState
<1>2. StorageType(s) /\ hs \in Nat
  BY <1>1 DEF StorageOK
<1>3. s.index \in Nat /\ s.snap.index \in Nat /\ MSLastIndex(s) \in Nat
  BY <1>2, StorageFacts
<1>4. /\ l.committed \in Nat /\ l.offset \in Nat \ {0} /\ l.committed <= LastIndex(s, l)
      /\ LastIndex(s, l) \in Nat
  BY <1>1, <1>2, RaftLogFacts, OverFacts
<1>5. m \in Seq(Terms) /\ Len(m) <= l.committed
  BY <1>1 DEF MachineOK
<1>6. r \in [stage : {"none", "taken", "stored", "applied"}, first : Nat,
             ents : Seq(Terms), apply : Seq(Terms), commit : Nat]
  BY <1>1 DEF BatchOK
<1>7. /\ r.first \in Nat /\ r.ents \in Seq(Terms) /\ r.apply \in Seq(Terms) /\ r.commit \in Nat
      /\ Len(r.ents) \in Nat /\ Len(r.apply) \in Nat
  BY <1>6
<1> QED BY <1>1, <1>2, <1>3, <1>4, <1>5, <1>7 DEF BatchLast

\* Handling a MsgApp.
LEMMA AppendSafe ==
  ASSUME NEW s, NEW hs, NEW l, NEW r, NEW m, SafeState(s, hs, l, r, m),
         NEW l2, RaftLogOK(s, l2), Grown(s, l, l2)
  PROVE  SafeState(s, hs, l2, r, m)
<1>1. /\ StorageOK(s, hs) /\ StorageType(s) /\ RaftLogOK(s, l)
      /\ MachineOK(s, hs, l, r, m) /\ BatchOK(s, hs, l, r, m)
      /\ LastIndex(s, l) \in Nat /\ l.committed \in Nat /\ l.offset \in Nat
      /\ Len(m) \in Nat /\ Len(m) <= l.committed
      /\ r.first \in Nat /\ r.commit \in Nat
  BY SafeFacts
<1>2. l2.committed \in Nat /\ l2.offset \in Nat /\ LastIndex(s, l2) \in Nat
  BY <1>1, RaftLogFacts, OverFacts
<1>3. /\ l2.applied = l.applied /\ l.committed <= l2.committed
      /\ l2.offset <= l.offset
      /\ l.unstable # <<>> => l2.unstable # <<>>
      /\ l2.unstable # <<>> =>
           \/ l2.unstable = l.unstable /\ LastIndex(s, l2) = LastIndex(s, l)
           \/ l.committed < LastIndex(s, l2)
  BY DEF Grown
<1>4. MachineOK(s, hs, l2, r, m)
  BY <1>1, <1>2, <1>3 DEF MachineOK
<1>5. r.stage = "none" => (l2.unstable # <<>> => Len(m) < LastIndex(s, l2))
  BY <1>1, <1>2, <1>3 DEF BatchOK
<1>6. r.stage # "none" => r.commit <= l2.committed /\ StillLast(s, l2, r)
  <2> HAVE r.stage # "none"
  <2>1. r.commit <= l.committed /\ StillLast(s, l, r)
    BY <1>1 DEF BatchOK
  <2>2. r.commit <= l2.committed
    BY <1>1, <1>2, <1>3, <2>1
  <2>3. l.committed < LastIndex(s, l2) => r.commit < LastIndex(s, l2)
    BY <1>1, <1>2, <2>1
  <2>4. StillLast(s, l2, r)
    BY <1>3, <2>1, <2>3 DEF StillLast
  <2> QED BY <2>2, <2>4
<1>7. r.stage = "taken" =>
        /\ LogOK(s, r.first, r.ents, r.commit)
        /\ l2.offset <= r.first
        /\ r.ents # <<>> => l2.unstable # <<>> /\ Len(m) < BatchLast(r)
  BY <1>1, <1>2, <1>3 DEF BatchOK
<1>8. BatchOK(s, hs, l2, r, m)
  BY <1>1, <1>5, <1>6, <1>7 DEF BatchOK
<1> QED BY <1>1, <1>4, <1>8 DEF SafeState
-----------------------------------------------------------------------------
(* slice and nextEnts. *)

\* e is the n entries of f from lo on.
Reads(e, f, lo, n) ==
  e \in Seq(Terms) /\ Len(e) = n /\ \A k \in 1 .. n : e[k] = f[lo + k - 1]

Limited(n, maxSize) == Min2(n, Max2(1, maxSize))

\* limitSize keeps the front, and at least one entry.
LEMMA LimitReads ==
  ASSUME NEW e, NEW f, NEW lo \in Nat, NEW n \in Nat, Reads(e, f, lo, n), NEW maxSize \in Nat
  PROVE  Reads(LimitSize(e, maxSize), f, lo, Limited(n, maxSize)) /\ Limited(n, maxSize) \in Nat
<1> DEFINE limit == IF maxSize < 1 THEN 1 ELSE maxSize
<1>1. e \in Seq(Terms) /\ Len(e) = n /\ \A k \in 1 .. n : e[k] = f[lo + k - 1]
  BY DEF Reads
<1>2. limit \in Nat \ {0} /\ LimitSize(e, maxSize) = IF Len(e) <= limit THEN e ELSE SubSeq(e, 1, limit)
  BY DEF LimitSize
<1>3. Limited(n, maxSize) = IF n <= limit THEN n ELSE limit
  BY DEF Limited, Min2, Max2
<1> HIDE DEF limit
<1>4. CASE n <= limit
  BY <1>1, <1>2, <1>3, <1>4
<1>5. CASE ~(n <= limit)
  <2>1. /\ SubSeq(e, 1, limit) \in Seq(Terms) /\ Len(SubSeq(e, 1, limit)) = limit
        /\ \A k \in 1 .. limit : SubSeq(e, 1, limit)[k] = e[k]
    BY <1>1, <1>2, <1>5
  <2>2. \A k \in 1 .. limit : k \in 1 .. n
    BY <1>2, <1>5
  <2> QED BY <1>1, <1>2, <1>3, <1>5, <2>1, <2>2 DEF Reads
<1> QED BY <1>4, <1>5

\* Two adjacent runs of entries, one after the other.
LEMMA ConcatReads ==
  ASSUME NEW f, NEW lo \in Nat, NEW n1 \in Nat, NEW n2 \in Nat, NEW e1, NEW e2,
         Reads(e1, f, lo, n1), Reads(e2, f, lo + n1, n2)
  PROVE  Reads(e1 \o e2, f, lo, n1 + n2)
<1>1. /\ e1 \in Seq(Terms) /\ Len(e1) = n1 /\ \A k \in 1 .. n1 : e1[k] = f[lo + k - 1]
      /\ e2 \in Seq(Terms) /\ Len(e2) = n2 /\ \A k \in 1 .. n2 : e2[k] = f[lo + n1 + k - 1]
  BY DEF Reads
<1>2. /\ e1 \o e2 \in Seq(Terms) /\ Len(e1 \o e2) = Len(e1) + Len(e2)
      /\ \A k \in 1 .. Len(e1) + Len(e2) :
           (e1 \o e2)[k] = IF k <= Len(e1) THEN e1[k] ELSE e2[k - Len(e1)]
  BY <1>1, ConcatProperties
<1>3. ASSUME NEW k \in 1 .. n1 + n2 PROVE (e1 \o e2)[k] = f[lo + k - 1]
  <2>1. CASE k <= n1
    BY <1>1, <1>2, <2>1
  <2>2. CASE ~(k <= n1)
    <3>1. k - n1 \in 1 .. n2 /\ lo + n1 + (k - n1) - 1 = lo + k - 1
      BY <2>2
    <3>2. e2[k - n1] = f[lo + n1 + (k - n1) - 1]
      BY <1>1, <3>1
    <3> QED BY <1>1, <1>2, <2>2, <3>1, <3>2
  <2> QED BY <2>1, <2>2
<1> QED BY <1>1, <1>2, <1>3 DEF Reads

\* The part of a slice that is in the storage, and the part that is not.
LEMMA StoredReads ==
  ASSUME NEW s, NEW hs, NEW l, StorageOK(s, hs), RaftLogOK(s, l),
         NEW lo \in Nat, s.index < lo, NEW h \in Nat, lo <= h, h <= l.offset
  PROVE  Reads(SubSeq(s.ents, lo - s.index + 1, h - s.index),
               Over(s, l.offset, l.unstable), lo, h - lo)
<1> DEFINE f == Over(s, l.offset, l.unstable)
           a == lo - s.index + 1
           b == h - s.index
<1>1. /\ StorageType(s) /\ LogOK(s, l.offset, l.unstable, l.committed) /\ l.offset \in Nat \ {0}
      /\ l.unstable \in Seq(Terms) /\ Len(l.unstable) \in Nat
      /\ l.offset + Len(l.unstable) = Last(s, l.offset, l.unstable) + 1
      /\ Last(s, l.offset, l.unstable) \in Nat
  BY RaftLogFacts, OverFacts DEF StorageOK
<1>2. /\ s.index \in Nat /\ s.ents \in Seq(Terms \cup {0}) /\ Len(s.ents) \in Nat
      /\ MSLastIndex(s) = s.index + Len(s.ents) - 1
  BY <1>1, StorageFacts
<1>3. l.offset <= MSLastIndex(s) + 1
  BY <1>1, <1>2 DEF LogOK
<1>4. ASSUME NEW i \in lo .. h - 1
      PROVE  s.ents[i - s.index + 1] = f[i] /\ f[i] \in Terms
  <2>1. i \in Nat /\ s.index < i /\ i < l.offset
    BY <1>1, <1>2
  <2>2. f[i] = SAt(s, i)
    BY <1>1, <2>1, OverAt
  <2>3. SAt(s, i) = s.ents[i - s.index + 1]
    BY <1>2, <2>1 DEF SAt
  <2>4. i \in 1 .. Last(s, l.offset, l.unstable)
    BY <1>1, <1>2, <2>1, SMTT(20)
  <2>5. f[i] \in Terms
    BY <1>1, <2>4, OverFacts
  <2> QED BY <2>2, <2>3, <2>5
<1>5. /\ a \in Nat /\ b \in Nat /\ 1 <= a /\ a <= Len(s.ents) + 1
      /\ a - 1 <= b /\ b <= Len(s.ents) /\ b - a + 1 = h - lo
  <2>1. /\ a \in Nat /\ b \in Nat /\ 1 <= a /\ a - 1 <= b
    BY <1>2, SMTT(20)
  <2>2. b <= Len(s.ents) /\ a <= Len(s.ents) + 1
    <3>1. l.offset \in Nat /\ l.offset <= s.index + Len(s.ents)
      BY <1>1, <1>2, <1>3
    <3>2. h <= s.index + Len(s.ents)
      BY <1>2, <3>1
    <3> QED BY <1>2, <3>2
  <2>3. b - a + 1 = h - lo
    BY <1>2
  <2> QED BY <2>1, <2>2, <2>3
<1> HIDE DEF f
<1>6. ASSUME NEW k \in 1 .. h - lo
      PROVE  s.ents[a + k - 1] = f[lo + k - 1] /\ f[lo + k - 1] \in Terms
  <2>1. lo + k - 1 \in lo .. h - 1 /\ a + k - 1 = (lo + k - 1) - s.index + 1
    BY <1>2
  <2> QED BY <1>4, <2>1
<1>7. \A i \in a .. b : s.ents[i] \in Terms
  <2> SUFFICES ASSUME NEW i \in a .. b PROVE s.ents[i] \in Terms
    OBVIOUS
  <2> HIDE DEF a, b
  <2>1. i - a + 1 \in 1 .. h - lo /\ a + (i - a + 1) - 1 = i
    BY <1>5
  <2> QED BY <1>6, <2>1
<1> HIDE DEF a, b
<1>8. /\ SubSeq(s.ents, a, b) \in Seq(Terms)
      /\ Len(SubSeq(s.ents, a, b)) = IF a <= b THEN b - a + 1 ELSE 0
      /\ \A k \in 1 .. b - a + 1 : SubSeq(s.ents, a, b)[k] = s.ents[a + k - 1]
  BY <1>2, <1>5, <1>7, SubSeqProperties
<1>9. Len(SubSeq(s.ents, a, b)) = h - lo
  BY <1>2, <1>5, <1>8
<1> QED BY <1>5, <1>6, <1>8, <1>9 DEF Reads, a, b, f

\* The second of them.
LEMMA UnstableReads ==
  ASSUME NEW s, NEW hs, NEW l, StorageOK(s, hs), RaftLogOK(s, l),
         NEW lo \in Nat, l.offset <= lo, NEW h \in Nat, lo <= h, h <= LastIndex(s, l) + 1
  PROVE  Reads(SubSeq(l.unstable, lo - l.offset + 1, h - l.offset),
               Over(s, l.offset, l.unstable), lo, h - lo)
<1> DEFINE f == Over(s, l.offset, l.unstable)
           u == l.unstable
           a == lo - l.offset + 1
           b == h - l.offset
<1>1. /\ StorageType(s) /\ LogOK(s, l.offset, l.unstable, l.committed) /\ l.offset \in Nat \ {0}
      /\ u \in Seq(Terms) /\ Len(u) \in Nat
      /\ LastIndex(s, l) = Last(s, l.offset, u)
      /\ l.offset + Len(u) = LastIndex(s, l) + 1
      /\ LastIndex(s, l) \in Nat
  BY RaftLogFacts, OverFacts DEF StorageOK
<1>2. /\ a \in Nat /\ b \in Nat /\ 1 <= a /\ a <= Len(u) + 1
      /\ a - 1 <= b /\ b <= Len(u) /\ b - a + 1 = h - lo
  <2>1. /\ a \in Nat /\ b \in Nat /\ 1 <= a /\ a - 1 <= b
    BY <1>1
  <2>2. b <= Len(u) /\ a <= Len(u) + 1
    BY <1>1
  <2>3. b - a + 1 = h - lo
    BY <1>1
  <2> QED BY <2>1, <2>2, <2>3
<1>3. ASSUME NEW k \in 1 .. h - lo PROVE u[a + k - 1] = f[lo + k - 1]
  <2>1. /\ lo + k - 1 \in Nat /\ l.offset <= lo + k - 1 /\ lo + k - 1 < l.offset + Len(u)
        /\ (lo + k - 1) - l.offset + 1 = a + k - 1
    BY <1>1
  <2>2. f[lo + k - 1] = u[(lo + k - 1) - l.offset + 1]
    BY <2>1, OverAt
  <2> QED BY <2>1, <2>2
<1> HIDE DEF f
<1> HIDE DEF a, b
<1>4. \A i \in a .. b : u[i] \in Terms
  <2> SUFFICES ASSUME NEW i \in a .. b PROVE u[i] \in Terms
    OBVIOUS
  <2>1. i \in 1 .. Len(u)
    BY <1>1, <1>2
  <2> QED BY <1>1, <2>1
<1>5. /\ SubSeq(u, a, b) \in Seq(Terms)
      /\ Len(SubSeq(u, a, b)) = IF a <= b THEN b - a + 1 ELSE 0
      /\ \A k \in 1 .. b - a + 1 : SubSeq(u, a, b)[k] = u[a + k - 1]
  BY <1>1, <1>2, <1>4, SubSeqProperties
<1>6. Len(SubSeq(u, a, b)) = h - lo
  BY <1>1, <1>2, <1>5
<1> QED BY <1>2, <1>3, <1>5, <1>6 DEF Reads, a, b, f

\* slice: the entries asked for, as many as the limit lets through.
LEMMA SliceFacts ==
  ASSUME NEW s, NEW hs, NEW l, StorageOK(s, hs), RaftLogOK(s, l),
         NEW lo \in Nat, s.index < lo, NEW hi \in Nat, lo < hi, hi <= LastIndex(s, l) + 1,
         NEW maxSize \in Nat
  PROVE  /\ ~SliceCompacted(s, l, lo) /\ ~SlicePanics(s, l, lo, hi)
         /\ Reads(Slice(s, l, lo, hi, maxSize), Over(s, l.offset, l.unstable), lo,
                  Limited(hi - lo, maxSize))
<1> DEFINE f == Over(s, l.offset, l.unstable)
           off == l.offset
           u == l.unstable
           h == Min2(hi, off)
           stored == StoredPart(s, l, lo, hi, maxSize)
<1>1. /\ StorageType(s) /\ LogOK(s, off, u, l.committed) /\ off \in Nat \ {0}
      /\ u \in Seq(Terms) /\ Len(u) \in Nat
      /\ LastIndex(s, l) = Last(s, off, u)
      /\ off + Len(u) = LastIndex(s, l) + 1
      /\ LastIndex(s, l) \in Nat
  BY RaftLogFacts, OverFacts, SMTT(20) DEF StorageOK
<1>2. /\ s.index \in Nat /\ Len(s.ents) \in Nat /\ MSLastIndex(s) \in Nat
      /\ MSLastIndex(s) = s.index + Len(s.ents) - 1
  BY <1>1, StorageFacts
<1>3. off <= MSLastIndex(s) + 1
  BY <1>1, <1>2 DEF LogOK
<1>4. h \in Nat /\ h <= off /\ h <= hi /\ (h = hi \/ h = off)
  BY <1>1 DEF Min2
<1>5. ~SliceCompacted(s, l, lo)
  BY <1>2 DEF SliceCompacted, FirstIndex, MSFirstIndex
<1>6. ~SlicePanics(s, l, lo, hi)
  <2>1. lo < off => ~MSEntriesUnavailable(s, h)
    <3> HIDE DEF h
    <3> HAVE lo < off
    <3>1. off \in Nat
      BY <1>1
    <3>2. ~(h > MSLastIndex(s) + 1)
      <4>1. h \in Nat /\ h <= off /\ MSLastIndex(s) \in Nat
        BY <1>2, <1>4
      <4> HIDE DEF off
      <4> QED BY <1>3, <3>1, <4>1
    <3>3. s.index + 1 < MSLastIndex(s) + 1
      BY <1>2, <1>3, <3>1
    <3>4. Len(s.ents) # 1
      <4> SUFFICES ASSUME Len(s.ents) = 1 PROVE FALSE
        OBVIOUS
      <4>1. MSLastIndex(s) = s.index
        BY <1>2
      <4> QED BY <1>2, <3>3, <4>1
    <3> QED BY <3>2, <3>4 DEF MSEntriesUnavailable
  <2>2. ~(hi > off + Len(u)) /\ ~(hi > LastIndex(s, l) + 1) /\ ~(lo > hi)
    BY <1>1
  <2> QED BY <2>1, <2>2 DEF SlicePanics
<1>7. lo < off => Reads(stored, f, lo, Limited(h - lo, maxSize)) /\ h - lo \in Nat
  <2> HAVE lo < off
  <2>1. lo <= h /\ h - lo \in Nat
    BY <1>1, <1>4
  <2> DEFINE e == SubSeq(s.ents, lo - s.index + 1, h - s.index)
  <2>2. Reads(e, f, lo, h - lo)
    BY <1>4, <2>1, StoredReads
  <2>3. stored = LimitSize(e, maxSize)
    BY DEF StoredPart, MSEntries
  <2> HIDE DEF e, f, h, stored
  <2> QED BY <2>1, <2>2, <2>3, LimitReads
<1>8. ~(lo < off) => stored = <<>>
  BY DEF StoredPart
<1> HIDE DEF stored, f, h
<1> DEFINE lim == IF maxSize < 1 THEN 1 ELSE maxSize
<1>9. lim \in Nat \ {0} /\ \A n \in Nat : Limited(n, maxSize) = IF n <= lim THEN n ELSE lim
  BY DEF Limited, Min2, Max2
<1> HIDE DEF lim
<1>10. CASE lo < off /\ Len(stored) < h - lo
  <2>1. Slice(s, l, lo, hi, maxSize) = stored
    BY <1>10 DEF Slice, stored, h
  <2>2. Len(stored) = Limited(h - lo, maxSize)
    BY <1>7, <1>10 DEF Reads
  <2>3. Limited(h - lo, maxSize) = Limited(hi - lo, maxSize)
    <3>1. h - lo \in Nat /\ hi - lo \in Nat
      BY <1>7, <1>10
    <3>2. ~(h - lo <= lim)
      BY <1>9, <1>10, <2>2, <3>1
    <3>3. ~(hi - lo <= lim)
      BY <1>4, <1>9, <3>1, <3>2
    <3> QED BY <1>9, <3>1, <3>2, <3>3
  <2> QED BY <1>5, <1>6, <1>7, <1>10, <2>1, <2>3 DEF f
<1>11. CASE ~(lo < off /\ Len(stored) < h - lo)
  <2> DEFINE rest == UnstablePart(l, lo, hi)
  <2>1. Slice(s, l, lo, hi, maxSize) = LimitSize(stored \o rest, maxSize)
    <3>1. lo # hi
      OBVIOUS
    <3> QED BY <1>11, <3>1 DEF Slice, stored, h
  <2>2. Reads(stored \o rest, f, lo, hi - lo)
    <3>1. CASE lo < off
      <4>1. Reads(stored, f, lo, h - lo)
        <5>1. Reads(stored, f, lo, Limited(h - lo, maxSize)) /\ h - lo \in Nat
          BY <1>7, <3>1
        <5>2. Len(stored) = Limited(h - lo, maxSize)
          BY <5>1 DEF Reads
        <5>3. Limited(h - lo, maxSize) = h - lo
          BY <1>9, <1>11, <3>1, <5>1, <5>2
        <5> QED BY <5>1, <5>3
      <4>2. CASE hi > off
        <5>1. h = off
          BY <1>1, <4>2 DEF h, Min2
        <5>2. rest = SubSeq(u, off - off + 1, hi - off)
          <6>1. Max2(lo, off) = off
            BY <1>1, <3>1 DEF Max2
          <6> QED BY <4>2, <6>1 DEF UnstablePart
        <5>3. Reads(rest, f, off, hi - off)
          <6>1. off \in Nat /\ off <= off /\ off <= hi
            BY <1>1, <4>2
          <6>2. Reads(SubSeq(u, off - off + 1, hi - off), Over(s, off, u), off, hi - off)
            BY <6>1, UnstableReads
          <6> QED BY <5>2, <6>2 DEF f
        <5>4. lo + (off - lo) = off /\ (off - lo) + (hi - off) = hi - lo
              /\ off - lo \in Nat /\ hi - off \in Nat
          BY <1>1, <3>1, <4>2, SMTT(20)
        <5> HIDE DEF rest
        <5>5. Reads(stored \o rest, f, lo, (off - lo) + (hi - off))
          BY <4>1, <5>1, <5>3, <5>4, ConcatReads
        <5> QED BY <5>4, <5>5
      <4>3. CASE ~(hi > off)
        <5>1. h = hi
          BY <1>1, <4>3 DEF h, Min2
        <5>2. rest = <<>>
          BY <4>3 DEF UnstablePart
        <5>3. Reads(<<>>, f, lo + (hi - lo), 0)
          BY DEF Reads
        <5>4. hi - lo \in Nat /\ (hi - lo) + 0 = hi - lo
          OBVIOUS
        <5> HIDE DEF rest
        <5>5. Reads(stored \o <<>>, f, lo, (hi - lo) + 0)
          BY <4>1, <5>1, <5>3, <5>4, ConcatReads
        <5> QED BY <5>2, <5>4, <5>5
      <4> QED BY <4>2, <4>3
    <3>2. CASE ~(lo < off)
      <4>1. rest = SubSeq(u, lo - off + 1, hi - off)
        <5>1. Max2(lo, off) = lo /\ hi > off
          BY <1>1, <3>2 DEF Max2
        <5> QED BY <5>1 DEF UnstablePart
      <4>2. Reads(rest, f, lo, hi - lo)
        <5>1. off <= lo /\ lo <= hi
          BY <1>1, <3>2
        <5>2. Reads(SubSeq(u, lo - off + 1, hi - off), Over(s, off, u), lo, hi - lo)
          BY <5>1, UnstableReads
        <5> QED BY <4>1, <5>2 DEF f
      <4>3. Reads(<<>>, f, lo, 0)
        BY DEF Reads
      <4>4. lo + 0 = lo /\ 0 + (hi - lo) = hi - lo /\ hi - lo \in Nat
        OBVIOUS
      <4> HIDE DEF rest
      <4>5. Reads(<<>> \o rest, f, lo, 0 + (hi - lo))
        BY <4>2, <4>3, <4>4, ConcatReads
      <4> QED BY <1>8, <3>2, <4>4, <4>5
    <3> QED BY <3>1, <3>2
  <2>3. hi - lo \in Nat
    OBVIOUS
  <2> HIDE DEF rest
  <2>4. Reads(LimitSize(stored \o rest, maxSize), f, lo, Limited(hi - lo, maxSize))
    BY <2>2, <2>3, LimitReads
  <2> QED BY <1>5, <1>6, <2>1, <2>4 DEF f
<1> QED BY <1>10, <1>11
-----------------------------------------------------------------------------
(* Batches. *)

ReadyType(r) ==
  r \in [stage : {"none", "taken", "stored", "applied"}, first : Nat,
         ents : Seq(Terms), apply : Seq(Terms), commit : Nat]

\* The k decided entries after n.
LEMMA RunFacts ==
  ASSUME NEW n \in Nat, NEW k \in Nat, n + k <= Len(Decided)
  PROVE  /\ SubSeq(Decided, n + 1, n + k) \in Seq(Terms)
         /\ Len(SubSeq(Decided, n + 1, n + k)) = k
         /\ \A i \in 1 .. k : SubSeq(Decided, n + 1, n + k)[i] = Decided[n + i]
<1>1. Decided \in Seq(Terms) /\ Len(Decided) \in Nat
  BY LeadersAssumption
<1> DEFINE a == n + 1
           b == n + k
<1>2. a \in Nat /\ b \in Nat /\ 1 <= a /\ b <= Len(Decided) /\ a - 1 <= b /\ b - a + 1 = k
  OBVIOUS
<1>3. \A i \in a .. b : Decided[i] \in Terms
  <2> SUFFICES ASSUME NEW i \in a .. b PROVE Decided[i] \in Terms
    OBVIOUS
  <2>1. i \in 1 .. Len(Decided)
    BY <1>1
  <2> QED BY <1>1, <2>1
<1>4. \A i \in 1 .. k : a + i - 1 = n + i
  OBVIOUS
<1> HIDE DEF a, b
<1>5. /\ SubSeq(Decided, a, b) \in Seq(Terms)
      /\ Len(SubSeq(Decided, a, b)) = IF a <= b THEN b - a + 1 ELSE 0
      /\ \A i \in 1 .. b - a + 1 : SubSeq(Decided, a, b)[i] = Decided[a + i - 1]
  BY <1>1, <1>2, <1>3, SubSeqProperties
<1>6. Len(SubSeq(Decided, a, b)) = k
  BY <1>2, <1>5
<1> QED BY <1>2, <1>4, <1>5, <1>6 DEF a, b

\* A sequence that has these entries is that run.
LEMMA IsRun ==
  ASSUME NEW n \in Nat, NEW e \in Seq(Terms), n + Len(e) <= Len(Decided),
         \A k \in 1 .. Len(e) : e[k] = Decided[n + k]
  PROVE  e = SubSeq(Decided, n + 1, n + Len(e))
<1> DEFINE d == SubSeq(Decided, n + 1, n + Len(e))
<1>1. Len(e) \in Nat
  OBVIOUS
<1>2. /\ d \in Seq(Terms) /\ Len(d) = Len(e)
      /\ \A i \in 1 .. Len(e) : d[i] = Decided[n + i]
  BY <1>1, RunFacts
<1> HIDE DEF d
<1>3. e = d
  BY <1>2, SeqEqual
<1> QED BY <1>3 DEF d

\* Being coherent and being decided carry over to a log with the same entries.
LEMMA SameTransport ==
  ASSUME NEW f, NEW g, NEW n \in Nat, Same(f, g, n)
  PROVE  /\ CoherentTo(g, n) => CoherentTo(f, n)
         /\ \A k \in 0 .. n : DecidedTo(g, k) => DecidedTo(f, k)
<1>1. ASSUME CoherentTo(g, n) PROVE CoherentTo(f, n)
  <2> SUFFICES ASSUME NEW i \in 1 .. n PROVE Had(f, i)
    BY DEF CoherentTo
  <2>1. Had(g, i)
    BY <1>1 DEF CoherentTo
  <2>2. f[i] = g[i] /\ \A j \in 1 .. i : f[j] = g[j]
    BY DEF Same
  <2> QED BY <2>1, <2>2 DEF Had
<1>2. ASSUME NEW k \in 0 .. n, DecidedTo(g, k) PROVE DecidedTo(f, k)
  BY <1>2 DEF DecidedTo, Same
<1> QED BY <1>1, <1>2

\* A storage with the same entries carries the same logs, as far as its dummy
\* entry allows.
LEMMA StorageSwap ==
  ASSUME NEW s, NEW s2, StorageType(s), StorageType(s2), MSLastIndex(s2) = MSLastIndex(s),
         \A j \in 1 .. MSLastIndex(s) : SAt(s2, j) = SAt(s, j),
         NEW off, NEW u, NEW c, LogOK(s, off, u, c), s2.index <= c
  PROVE  LogOK(s2, off, u, c) /\ Last(s2, off, u) = Last(s, off, u)
<1>1. Last(s2, off, u) = Last(s, off, u)
  BY DEF Last
<1>2. /\ off \in Nat \ {0} /\ u \in Seq(Terms) /\ c \in Nat /\ Len(u) \in Nat
      /\ Last(s, off, u) \in Nat
      /\ off + Len(u) = Last(s, off, u) + 1
  BY OverFacts
<1>3. /\ off \in 1 .. MSLastIndex(s) + 1 /\ (u = <<>> => off = MSLastIndex(s) + 1)
      /\ c <= Last(s, off, u)
      /\ CoherentTo(Over(s, off, u), Last(s, off, u))
      /\ DecidedTo(Over(s, off, u), c)
  BY DEF LogOK
<1>4. MSLastIndex(s) \in Nat
  BY StorageFacts
<1>5. Same(Over(s2, off, u), Over(s, off, u), Last(s, off, u))
  <2> SUFFICES ASSUME NEW j \in 1 .. Last(s, off, u)
               PROVE  Over(s2, off, u)[j] = Over(s, off, u)[j]
    BY DEF Same
  <2>1. j \in Nat /\ j < off + Len(u)
    BY <1>2
  <2>2. Over(s2, off, u)[j] = IF off <= j /\ j < off + Len(u) THEN u[j - off + 1] ELSE SAt(s2, j)
    BY <2>1, OverAt
  <2>3. Over(s, off, u)[j] = IF off <= j /\ j < off + Len(u) THEN u[j - off + 1] ELSE SAt(s, j)
    BY <2>1, OverAt
  <2>4. ~(off <= j) => SAt(s2, j) = SAt(s, j)
    <3> HAVE ~(off <= j)
    <3>1. j \in 1 .. MSLastIndex(s)
      BY <1>2, <1>3, <1>4
    <3> QED BY <3>1
  <2> QED BY <2>1, <2>2, <2>3, <2>4
<1>6. CoherentTo(Over(s2, off, u), Last(s, off, u)) /\ DecidedTo(Over(s2, off, u), c)
  <2>1. c \in 0 .. Last(s, off, u)
    BY <1>2, <1>3
  <2> QED BY <1>2, <1>3, <1>5, <2>1, SameTransport
<1>7. LogOK(s2, off, u, c)
  BY <1>1, <1>2, <1>3, <1>6 DEF LogOK
<1> QED BY <1>1, <1>7
-----------------------------------------------------------------------------
(* The steps of a batch. *)

\* nextEnts: the decided entries that follow what is applied.
LEMMA NextEntsFacts ==
  ASSUME NEW s, NEW hs, NEW l, NEW r, NEW m, SafeState(s, hs, l, r, m),
         r.stage # "applied", NEW maxSize \in Nat
  PROVE  LET e == NextEnts(s, l, maxSize) IN
         /\ ~NextEntsPanics(s, l)
         /\ e \in Seq(Terms) /\ Len(m) + Len(e) <= l.committed
         /\ e = SubSeq(Decided, Len(m) + 1, Len(m) + Len(e))
<1> DEFINE lo == Len(m) + 1
           hi == l.committed + 1
           f == Over(s, l.offset, l.unstable)
           e == NextEnts(s, l, maxSize)
<1>1. /\ StorageOK(s, hs) /\ StorageType(s) /\ RaftLogOK(s, l) /\ MachineOK(s, hs, l, r, m)
      /\ s.index \in Nat /\ s.snap.index \in Nat
      /\ l.committed \in Nat /\ LastIndex(s, l) \in Nat /\ l.committed <= LastIndex(s, l)
      /\ Len(m) \in Nat /\ Len(m) <= l.committed
  BY SafeFacts
<1>2. l.applied = Len(m) /\ s.index <= Len(m)
  BY <1>1 DEF MachineOK, StorageOK
<1>3. NextOffset(s, l) = lo
  BY <1>1, <1>2 DEF NextOffset, FirstIndex, MSFirstIndex, Max2
<1>4. /\ DecidedTo(f, l.committed) /\ l.committed <= Len(Decided)
      /\ \A j \in 1 .. l.committed : f[j] = Decided[j]
  BY <1>1 DEF RaftLogOK, LogOK, DecidedTo
<1>5. CASE ~HasNextEnts(s, l)
  <2>1. e = <<>> /\ ~NextEntsPanics(s, l)
    BY <1>5 DEF NextEnts, NextEntsPanics
  <2>2. Len(m) + Len(<<>>) <= Len(Decided) /\ Len(m) + Len(<<>>) <= l.committed
    <3>1. Len(Decided) \in Nat
      BY LeadersAssumption
    <3> QED BY <1>1, <1>4, <3>1
  <2>3. <<>> = SubSeq(Decided, Len(m) + 1, Len(m) + Len(<<>>))
    BY <1>1, <2>2, IsRun
  <2> QED BY <2>1, <2>2, <2>3
<1>6. CASE HasNextEnts(s, l)
  <2>1. lo \in Nat /\ hi \in Nat /\ s.index < lo /\ lo < hi /\ hi <= LastIndex(s, l) + 1
    BY <1>1, <1>2, <1>3, <1>6 DEF HasNextEnts
  <2>2. e = Slice(s, l, lo, hi, maxSize)
    BY <1>3, <1>6 DEF NextEnts
  <2>3. hi - lo = l.committed - Len(m) /\ hi - lo \in Nat
    BY <1>1
  <2>4. \A k \in Nat : lo + k - 1 = Len(m) + k
    BY <1>1
  <2> HIDE DEF lo, hi, f, e
  <2>5. /\ ~SliceCompacted(s, l, lo) /\ ~SlicePanics(s, l, lo, hi)
        /\ Reads(e, f, lo, Limited(hi - lo, maxSize))
    BY <1>1, <2>1, <2>2, SliceFacts DEF f
  <2>6. ~NextEntsPanics(s, l)
    BY <1>3, <2>5 DEF NextEntsPanics, hi
  <2>7. Limited(hi - lo, maxSize) \in Nat /\ Limited(hi - lo, maxSize) <= hi - lo
    BY <2>3 DEF Limited, Min2, Max2
  <2>8. /\ e \in Seq(Terms) /\ Len(e) \in Nat /\ Len(e) <= hi - lo
        /\ \A k \in 1 .. Len(e) : e[k] = f[lo + k - 1]
    BY <2>5, <2>7 DEF Reads
  <2>9. Len(m) + Len(e) <= l.committed
    BY <1>1, <2>3, <2>8
  <2>10. \A k \in 1 .. Len(e) : e[k] = Decided[Len(m) + k]
    <3> SUFFICES ASSUME NEW k \in 1 .. Len(e) PROVE e[k] = Decided[Len(m) + k]
      OBVIOUS
    <3>1. Len(m) + k \in 1 .. l.committed /\ lo + k - 1 = Len(m) + k
      BY <1>1, <2>4, <2>8, <2>9
    <3> QED BY <1>4, <2>8, <3>1
  <2>11. Len(m) + Len(e) <= Len(Decided)
    <3>1. Len(Decided) \in Nat
      BY LeadersAssumption
    <3> QED BY <1>1, <1>4, <2>8, <2>9, <3>1
  <2>12. e = SubSeq(Decided, Len(m) + 1, Len(m) + Len(e))
    BY <1>1, <2>8, <2>10, <2>11, IsRun
  <2> QED BY <2>6, <2>8, <2>9, <2>12 DEF e
<1> QED BY <1>5, <1>6

\* TakeReady: the batch is the log as it is, and the entries nextEnts found.
LEMMA TakeReadySafe ==
  ASSUME NEW s, NEW hs, NEW l, NEW r, NEW m, SafeState(s, hs, l, r, m), r.stage = "none",
         NEW e, e \in Seq(Terms), Len(m) + Len(e) <= l.committed,
         e = SubSeq(Decided, Len(m) + 1, Len(m) + Len(e)),
         NEW r2, ReadyType(r2), r2.stage = "taken", r2.first = l.offset,
         r2.ents = l.unstable, r2.apply = e, r2.commit = l.committed
  PROVE  SafeState(s, hs, l, r2, m)
<1>1. /\ StorageOK(s, hs) /\ StorageType(s) /\ RaftLogOK(s, l)
      /\ MachineOK(s, hs, l, r, m) /\ BatchOK(s, hs, l, r, m)
      /\ l.committed \in Nat /\ l.offset \in Nat
  BY SafeFacts
<1>2. /\ LogOK(s, l.offset, l.unstable, l.committed)
      /\ LastIndex(s, l) = Last(s, l.offset, l.unstable)
  BY <1>1, RaftLogFacts
<1>3. MachineOK(s, hs, l, r2, m)
  BY <1>1 DEF MachineOK
<1>4. l.unstable # <<>> => /\ BatchLast(r2) = LastIndex(s, l)
                           /\ Len(m) < BatchLast(r2)
  BY <1>1, <1>2 DEF BatchLast, LastIndex, BatchOK
<1>5. StillLast(s, l, r2)
  BY <1>4 DEF StillLast
<1>6. BatchOK(s, hs, l, r2, m)
  BY <1>1, <1>2, <1>4, <1>5 DEF BatchOK, ReadyType
<1> QED BY <1>1, <1>3, <1>6 DEF SafeState

\* Storage.Append: the storage then holds what the batch said the log was.
LEMMA MSAppendFacts ==
  ASSUME NEW s, StorageType(s), NEW first, NEW ents, NEW c, LogOK(s, first, ents, c),
         ents # <<>>, s.index < first + Len(ents) - 1
  PROVE  LET s2 == MSAppend(s, first, ents) IN
         /\ ~MSAppendPanics(s, first, ents)
         /\ StorageType(s2)
         /\ s2.index = s.index /\ s2.snap = s.snap /\ s2.ents[1] = s.ents[1]
         /\ MSLastIndex(s2) = first + Len(ents) - 1
         /\ \A j \in 1 .. MSLastIndex(s2) : SAt(s2, j) = Over(s, first, ents)[j]
<1> DEFINE x == s.index
           nf == NewFirst(s, first)
           ne == NewEntries(s, first, ents)
           kept == SubSeq(s.ents, 1, nf - x)
           s2 == MSAppend(s, first, ents)
<1>1. /\ first \in Nat \ {0} /\ ents \in Seq(Terms) /\ Len(ents) \in Nat \ {0} /\ c \in Nat
      /\ Last(s, first, ents) = first + Len(ents) - 1
  BY OverFacts
<1>2. /\ x \in Nat /\ s.ents \in Seq(Terms \cup {0}) /\ Len(s.ents) \in Nat \ {0}
      /\ MSLastIndex(s) = x + Len(s.ents) - 1
  BY StorageFacts
<1>3. /\ first <= MSLastIndex(s) + 1 /\ x <= c /\ c <= Last(s, first, ents)
      /\ DecidedTo(Over(s, first, ents), c)
  BY <1>2 DEF LogOK
<1>4. /\ nf \in Nat /\ x < nf /\ first <= nf /\ nf - x \in 1 .. Len(s.ents)
      /\ nf <= first + Len(ents) - 1
      /\ nf = first \/ nf = x + 1
  <2>1. /\ x \in Nat /\ first \in Nat \ {0} /\ Len(s.ents) \in Nat \ {0} /\ Len(ents) \in Nat \ {0}
        /\ first <= x + Len(s.ents) /\ x < first + Len(ents) - 1
    BY <1>1, <1>2, <1>3
  <2>2. nf = IF x + 1 > first THEN x + 1 ELSE first
    BY DEF NewFirst, MSFirstIndex
  <2> HIDE DEF x, nf
  <2>3. /\ nf \in Nat /\ x < nf /\ first <= nf /\ nf <= first + Len(ents) - 1
        /\ nf = first \/ nf = x + 1
    BY <2>1, <2>2
  <2>4. nf - x \in 1 .. Len(s.ents)
    BY <2>1, <2>2
  <2> QED BY <2>3, <2>4
<1>5. /\ ne \in Seq(Terms) /\ Len(ne) = first + Len(ents) - nf
      /\ \A k \in 1 .. Len(ne) : ne[k] = ents[nf - first + k]
  <2>1. CASE x + 1 > first
    <3> DEFINE a == MSFirstIndex(s) - first + 1
    <3>1. nf = x + 1 /\ ne = SubSeq(ents, a, Len(ents))
      <4>1. MSFirstIndex(s) = x + 1
        BY DEF MSFirstIndex
      <4>2. nf = x + 1
        BY <2>1, <4>1 DEF NewFirst
      <4>3. ne = SubSeq(ents, a, Len(ents))
        <5>1. MSFirstIndex(s) > first
          BY <2>1, <4>1
        <5> QED BY <5>1 DEF NewEntries
      <4> QED BY <4>2, <4>3
    <3>9. a = x + 1 - first + 1
      <4>1. MSFirstIndex(s) = x + 1
        BY DEF MSFirstIndex
      <4>2. x \in Nat /\ first \in Nat
        BY <1>1, <1>2
      <4> HIDE DEF x
      <4> QED BY <4>1, <4>2
    <3> HIDE DEF a
    <3>2. a \in Nat /\ 1 <= a /\ a <= Len(ents)
      BY <1>1, <1>2, <2>1, <3>9, SMTT(20)
    <3>3. \A i \in a .. Len(ents) : ents[i] \in Terms
      BY <1>1, <3>2
    <3>4. \A k \in Nat : a + k - 1 = x + 1 - first + k
      <4>1. x \in Nat /\ first \in Nat
        BY <1>1, <1>2
      <4> HIDE DEF x
      <4> QED BY <3>9, <4>1
    <3>5. Len(ents) - a + 1 = first + Len(ents) - (x + 1)
      <4>1. x \in Nat /\ first \in Nat /\ Len(ents) \in Nat
        BY <1>1, <1>2
      <4> HIDE DEF x
      <4> QED BY <3>9, <4>1
    <3> HIDE DEF ne
    <3>6. /\ SubSeq(ents, a, Len(ents)) \in Seq(Terms)
          /\ Len(SubSeq(ents, a, Len(ents))) = IF a <= Len(ents) THEN Len(ents) - a + 1 ELSE 0
          /\ \A k \in 1 .. Len(ents) - a + 1 : SubSeq(ents, a, Len(ents))[k] = ents[a + k - 1]
      BY <1>1, <3>2, <3>3, SubSeqProperties
    <3>7. ne \in Seq(Terms) /\ Len(ne) = Len(ents) - a + 1
          /\ \A k \in 1 .. Len(ents) - a + 1 : ne[k] = ents[a + k - 1]
      BY <3>1, <3>2, <3>6
    <3>8. \A k \in 1 .. Len(ne) : ne[k] = ents[x + 1 - first + k]
      <4> SUFFICES ASSUME NEW k \in 1 .. Len(ne) PROVE ne[k] = ents[x + 1 - first + k]
        OBVIOUS
      <4>1. k \in Nat /\ k \in 1 .. Len(ents) - a + 1
        BY <3>7
      <4>2. a + k - 1 = x + 1 - first + k
        BY <3>4, <4>1
      <4> QED BY <3>7, <4>1, <4>2
    <3> HIDE DEF nf, x
    <3>10. nf = x + 1 /\ ne \in Seq(Terms) /\ Len(ne) = first + Len(ents) - (x + 1)
      BY <3>1, <3>5, <3>7
    <3> USE <3>10
    <3>11. Len(ne) = first + Len(ents) - nf
      OBVIOUS
    <3>12. \A k \in Nat : nf - first + k = x + 1 - first + k
      BY <1>1, <1>2
    <3>13. \A k \in 1 .. Len(ne) : k \in Nat
      OBVIOUS
    <3>14. \A k \in 1 .. Len(ne) : ne[k] = ents[nf - first + k]
      BY <3>8, <3>12, <3>13
    <3> QED BY <3>11, <3>14
  <2>2. CASE ~(x + 1 > first)
    <3>1. nf = first /\ ne = ents
      BY <2>2 DEF NewFirst, NewEntries, MSFirstIndex
    <3>2. \A k \in Nat : first - first + k = k
      BY <1>1
    <3>3. Len(ents) = first + Len(ents) - first
      BY <1>1
    <3> HIDE DEF nf, ne
    <3>4. \A k \in 1 .. Len(ents) : ents[k] = ents[first - first + k]
      BY <3>2
    <3> QED BY <1>1, <3>1, <3>3, <3>4
  <2> QED BY <2>1, <2>2
<1>6. ~MSAppendIgnored(s, first, ents)
  BY <1>1, <1>2 DEF MSAppendIgnored, MSFirstIndex
<1>7. ~MSAppendPanics(s, first, ents)
  BY <1>2, <1>4 DEF MSAppendPanics
<1>8. s2 = [s EXCEPT !.ents = kept \o ne]
  BY <1>6 DEF MSAppend
<1>9. /\ kept \in Seq(Terms \cup {0}) /\ Len(kept) = nf - x
      /\ \A k \in 1 .. nf - x : kept[k] = s.ents[k]
  <2> HIDE DEF nf
  <2> QED BY <1>2, <1>4, SMTT(20)
<1> HIDE DEF nf, ne, kept
<1>10. /\ kept \o ne \in Seq(Terms \cup {0}) /\ Len(kept \o ne) = Len(kept) + Len(ne)
       /\ \A k \in 1 .. Len(kept) + Len(ne) :
            (kept \o ne)[k] = IF k <= Len(kept) THEN kept[k] ELSE ne[k - Len(kept)]
  <2>1. ne \in Seq(Terms \cup {0})
    BY <1>5
  <2> QED BY <1>9, <2>1, ConcatProperties
<1>12. /\ Len(kept) + Len(ne) = first + Len(ents) - x
       /\ Len(kept) + Len(ne) \in Nat \ {0}
       /\ nf - x <= Len(kept) + Len(ne)
  <2>1. /\ x \in Nat /\ nf \in Nat /\ x < nf /\ first \in Nat /\ Len(ents) \in Nat
        /\ Len(kept) = nf - x /\ Len(ne) = first + Len(ents) - nf
        /\ nf <= first + Len(ents) - 1
    BY <1>1, <1>2, <1>4, <1>5, <1>9
  <2> HIDE DEF x
  <2> QED BY <2>1
<1>11. StorageType(s2) /\ s2.index = x /\ s2.snap = s.snap /\ s2.ents = kept \o ne
  <2>1. s \in [index : Nat, ents : Seq(Terms \cup {0}), snap : [index : Nat, term : Nat]]
    BY DEF StorageType
  <2>2. kept \o ne # <<>>
    <3>1. Len(kept \o ne) \in Nat \ {0}
      BY <1>10, <1>12
    <3> QED BY <3>1
  <2>3. /\ s2 \in [index : Nat, ents : Seq(Terms \cup {0}), snap : [index : Nat, term : Nat]]
        /\ s2.index = x /\ s2.snap = s.snap /\ s2.ents = kept \o ne
    BY <1>8, <1>10, <2>1
  <2> QED BY <2>2, <2>3 DEF StorageType
<1> HIDE DEF s2
<1>13. MSLastIndex(s2) = first + Len(ents) - 1
  <2>1. Len(s2.ents) = first + Len(ents) - x /\ s2.index = x
    BY <1>10, <1>11, <1>12
  <2>2. first \in Nat /\ Len(ents) \in Nat /\ x \in Nat
    BY <1>1, <1>2
  <2> HIDE DEF x
  <2> QED BY <2>1, <2>2 DEF MSLastIndex
<1>14. s2.ents[1] = s.ents[1]
  <2>1. 1 \in 1 .. Len(kept) + Len(ne) /\ 1 \in 1 .. nf - x
    BY <1>2, <1>4, <1>12
  <2>2. (kept \o ne)[1] = kept[1]
    BY <1>9, <1>10, <2>1
  <2> QED BY <1>9, <1>11, <2>1, <2>2
<1>15. ASSUME NEW j \in 1 .. first + Len(ents) - 1
       PROVE  SAt(s2, j) = Over(s, first, ents)[j]
  <2>1. j \in Nat /\ j < first + Len(ents)
    BY <1>1
  <2>2. Over(s, first, ents)[j] = IF first <= j /\ j < first + Len(ents)
                                    THEN ents[j - first + 1] ELSE SAt(s, j)
    BY <2>1, OverAt
  <2>3. CASE j <= x
    <3>1. SAt(s2, j) = Decided[j]
      BY <1>11, <2>3 DEF SAt
    <3>2. j \in 1 .. c
      BY <1>1, <1>2, <1>3, <2>3
    <3>3. Over(s, first, ents)[j] = Decided[j]
      BY <1>3, <3>2 DEF DecidedTo
    <3> QED BY <3>1, <3>3
  <2>4. CASE ~(j <= x)
    <3> DEFINE p == j - x + 1
    <3>1. SAt(s2, j) = (kept \o ne)[p]
      BY <1>11, <2>4 DEF SAt
    <3>2. p \in 1 .. Len(kept) + Len(ne)
      <4>1. x \in Nat /\ first \in Nat /\ Len(ents) \in Nat /\ j \in Nat /\ x < j
            /\ Len(kept) + Len(ne) = first + Len(ents) - x /\ j < first + Len(ents)
        BY <1>1, <1>2, <1>12, <2>1, <2>4
      <4> HIDE DEF x
      <4> QED BY <4>1
    <3>3. CASE j < nf
      <4>1. j < first /\ p \in 1 .. nf - x
        <5>1. x \in Nat /\ first \in Nat /\ nf \in Nat /\ (nf = first \/ nf = x + 1)
          BY <1>1, <1>2, <1>4
        <5> HIDE DEF x
        <5> QED BY <5>1, <2>1, <2>4, <3>3
      <4>2. SAt(s, j) = s.ents[p]
        BY <2>4 DEF SAt
      <4> HIDE DEF p
      <4>3. (kept \o ne)[p] = s.ents[p]
        <5>1. p <= Len(kept)
          BY <1>9, <4>1
        <5> QED BY <1>9, <1>10, <3>2, <4>1, <5>1
      <4>4. ~(first <= j)
        BY <1>1, <2>1, <4>1
      <4> QED BY <2>2, <3>1, <4>2, <4>3, <4>4
    <3>4. CASE ~(j < nf)
      <4>1. /\ ~(p <= Len(kept)) /\ p - Len(kept) = j - nf + 1
            /\ first <= j
            /\ j - nf + 1 \in 1 .. Len(ne)
            /\ nf - first + (j - nf + 1) = j - first + 1
        <5>1. /\ x \in Nat /\ first \in Nat /\ nf \in Nat /\ first <= nf /\ x < nf
              /\ Len(kept) = nf - x /\ Len(ne) = first + Len(ents) - nf /\ Len(ents) \in Nat
          BY <1>1, <1>2, <1>4, <1>5, <1>9
        <5> HIDE DEF x
        <5> QED BY <5>1, <2>1, <2>4, <3>4
      <4> HIDE DEF p
      <4>2. (kept \o ne)[p] = ne[p - Len(kept)]
        BY <1>10, <3>2, <4>1
      <4>3. ne[j - nf + 1] = ents[nf - first + (j - nf + 1)]
        BY <1>5, <4>1
      <4>4. Over(s, first, ents)[j] = ents[j - first + 1]
        BY <2>1, <2>2, <4>1
      <4> QED BY <3>1, <4>1, <4>2, <4>3, <4>4
    <3> QED BY <3>3, <3>4
  <2> QED BY <2>3, <2>4
<1> QED BY <1>7, <1>11, <1>13, <1>14, <1>15 DEF s2

\* Persist.  The storage then carries the log of the batch, and under the
\* unstable entries of the raft goroutine nothing has changed.
LEMMA PersistSafe ==
  ASSUME NEW s, NEW hs, NEW l, NEW r, NEW m, SafeState(s, hs, l, r, m), r.stage = "taken",
         NEW r2, ReadyType(r2), r2.stage = "stored", r2.first = r.first,
         r2.ents = r.ents, r2.apply = r.apply, r2.commit = r.commit
  PROVE  /\ ~MSAppendPanics(s, r.first, r.ents)
         /\ SafeState(MSAppend(s, r.first, r.ents), r.commit, l, r2, m)
<1> DEFINE first == r.first
           ents == r.ents
           c == r.commit
           off == l.offset
           u == l.unstable
           s2 == MSAppend(s, first, ents)
<1>1. /\ StorageOK(s, hs) /\ StorageType(s) /\ RaftLogOK(s, l)
      /\ MachineOK(s, hs, l, r, m) /\ BatchOK(s, hs, l, r, m)
      /\ s.index \in Nat /\ MSLastIndex(s) \in Nat
      /\ l.committed \in Nat /\ off \in Nat \ {0} /\ LastIndex(s, l) \in Nat
      /\ Len(m) \in Nat /\ c \in Nat /\ first \in Nat /\ ents \in Seq(Terms) /\ Len(ents) \in Nat
      /\ Len(r.apply) \in Nat
  BY SafeFacts
<1>2. /\ LogOK(s, first, ents, c) /\ off <= first
      /\ ents # <<>> => u # <<>> /\ Len(m) < first + Len(ents) - 1
      /\ c <= l.committed /\ StillLast(s, l, r)
      /\ Len(m) + Len(r.apply) <= c
      /\ r.apply = SubSeq(Decided, Len(m) + 1, Len(m) + Len(r.apply))
  BY <1>1 DEF BatchOK, BatchLast
<1>3. s.index <= s.snap.index /\ s.snap.index <= Len(m) /\ s.index <= Len(m)
  BY <1>1, SafeFacts DEF StorageOK, MachineOK
<1>4. s.index <= c /\ Max2(c, s.index) = c /\ Len(m) <= c
  BY <1>1, <1>2, <1>3 DEF Max2
<1>5. /\ LogOK(s, off, u, l.committed)
      /\ LastIndex(s, l) = Last(s, off, u)
      /\ s.index <= l.committed
  BY <1>1, RaftLogFacts
<1>6. /\ ~MSAppendPanics(s, first, ents)
      /\ StorageType(s2)
      /\ s2.index = s.index /\ s2.snap = s.snap /\ s2.ents[1] = s.ents[1]
      /\ LogOK(s2, MSLastIndex(s2) + 1, <<>>, c)
      /\ LogOK(s2, off, u, l.committed) /\ LastIndex(s2, l) = LastIndex(s, l)
      /\ ents # <<>> => /\ MSLastIndex(s2) = first + Len(ents) - 1
                        /\ SAt(s2, first + Len(ents) - 1) = ents[Len(ents)]
  <2>1. CASE ents = <<>>
    <3>1. s2 = s /\ ~MSAppendPanics(s, first, ents)
      BY <2>1 DEF MSAppend, MSAppendIgnored, MSAppendPanics
    <3>2. LogOK(s, MSLastIndex(s) + 1, <<>>, c)
      <4>1. first = MSLastIndex(s) + 1
        BY <1>2, <2>1 DEF LogOK
      <4> QED BY <1>2, <2>1, <4>1
    <3> HIDE DEF s2
    <3> QED BY <1>1, <1>5, <2>1, <3>1, <3>2
  <2>2. CASE ents # <<>>
    <3> DEFINE n == first + Len(ents) - 1
               g == Over(s, first, ents)
    <3>1. /\ first \in Nat \ {0} /\ Len(ents) \in Nat \ {0} /\ n \in Nat \ {0} /\ first <= n
          /\ Last(s, first, ents) = n
      <4> HIDE DEF n, g, first, ents, c
      <4>1. /\ first \in Nat \ {0} /\ Len(ents) \in Nat \ {0}
            /\ Last(s, first, ents) = first + Len(ents) - 1
        BY <1>1, <1>2, <2>2, OverLast
      <4> QED BY <4>1 DEF n
    <3>2. s.index < first + Len(ents) - 1
      BY <1>1, <1>2, <1>3, <2>2, SMTT(20)
    <3>3. /\ ~MSAppendPanics(s, first, ents) /\ StorageType(s2)
          /\ s2.index = s.index /\ s2.snap = s.snap /\ s2.ents[1] = s.ents[1]
          /\ MSLastIndex(s2) = n
          /\ \A j \in 1 .. n : SAt(s2, j) = g[j]
      <4> HIDE DEF first, ents, c
      <4>1. /\ ~MSAppendPanics(s, first, ents) /\ StorageType(MSAppend(s, first, ents))
            /\ MSAppend(s, first, ents).index = s.index
            /\ MSAppend(s, first, ents).snap = s.snap
            /\ MSAppend(s, first, ents).ents[1] = s.ents[1]
            /\ MSLastIndex(MSAppend(s, first, ents)) = first + Len(ents) - 1
            /\ \A j \in 1 .. MSLastIndex(MSAppend(s, first, ents)) :
                 SAt(MSAppend(s, first, ents), j) = Over(s, first, ents)[j]
        BY <1>1, <1>2, <2>2, <3>2, MSAppendFacts
      <4> HIDE DEF s2
      <4> QED BY <4>1 DEF s2
    <3> HIDE DEF s2, n, g, first, ents, c, off, u
    <3>4. /\ c <= n /\ CoherentTo(g, n) /\ DecidedTo(g, c)
      BY <1>2, <3>1 DEF LogOK, g
    <3>5. LogOK(s2, n + 1, <<>>, c)
      <4>1. Same(Over(s2, n + 1, <<>>), g, n)
        <5> SUFFICES ASSUME NEW j \in 1 .. n PROVE Over(s2, n + 1, <<>>)[j] = g[j]
          BY DEF Same
        <5>1. j \in Nat /\ ~(n + 1 <= j)
          BY <3>1
        <5>2. Over(s2, n + 1, <<>>)[j] = SAt(s2, j)
          BY <5>1, OverAt
        <5> QED BY <3>3, <5>2
      <4>2. c \in 0 .. n
        BY <1>1, <3>1, <3>4
      <4>3. CoherentTo(Over(s2, n + 1, <<>>), n) /\ DecidedTo(Over(s2, n + 1, <<>>), c)
        BY <3>1, <3>4, <4>1, <4>2, SameTransport
      <4>4. Last(s2, n + 1, <<>>) = n
        BY <3>3 DEF Last
      <4>5. n + 1 \in 1 .. MSLastIndex(s2) + 1
        BY <3>1, <3>3
      <4>6. s2.index <= c
        BY <1>4, <3>3
      <4> QED BY <1>1, <3>3, <3>4, <4>3, <4>4, <4>5, <4>6 DEF LogOK
    <3>6. u # <<>>
      BY <1>2, <2>2
    <3>7. /\ u \in Seq(Terms) /\ Len(u) \in Nat \ {0} /\ Last(s, off, u) = off + Len(u) - 1
          /\ l.committed <= Last(s, off, u) /\ Last(s, off, u) \in Nat
          /\ CoherentTo(Over(s, off, u), Last(s, off, u))
          /\ DecidedTo(Over(s, off, u), l.committed)
      <4>1. /\ u \in Seq(Terms) /\ Len(u) \in Nat \ {0} /\ Last(s, off, u) = off + Len(u) - 1
            /\ Last(s, off, u) \in Nat
        BY <1>1, <1>5, <3>6, OverLast
      <4> QED BY <1>5, <4>1 DEF LogOK
    <3>8. Last(s2, off, u) = Last(s, off, u) /\ LastIndex(s2, l) = LastIndex(s, l)
      BY <3>6 DEF Last, LastIndex, off, u
    <3>9. Same(Over(s2, off, u), Over(s, off, u), Last(s, off, u))
      <4> SUFFICES ASSUME NEW j \in 1 .. Last(s, off, u)
                   PROVE  Over(s2, off, u)[j] = Over(s, off, u)[j]
        BY DEF Same
      <4>1. j \in Nat
        OBVIOUS
      <4>2. Over(s2, off, u)[j] = IF off <= j /\ j < off + Len(u) THEN u[j - off + 1] ELSE SAt(s2, j)
        BY <4>1, OverAt
      <4>3. Over(s, off, u)[j] = IF off <= j /\ j < off + Len(u) THEN u[j - off + 1] ELSE SAt(s, j)
        BY <4>1, OverAt
      <4>4. CASE off <= j
        <5>1. j < off + Len(u)
          BY <1>1, <3>7, <4>1
        <5> QED BY <4>2, <4>3, <4>4, <5>1
      <4>5. CASE ~(off <= j)
        <5>1. j \in 1 .. n /\ ~(first <= j)
          BY <1>1, <1>2, <3>1, <4>1, <4>5
        <5>2. SAt(s2, j) = g[j]
          BY <3>3, <5>1
        <5>3. g[j] = SAt(s, j)
          BY <4>1, <5>1, OverAt DEF g
        <5> QED BY <4>2, <4>3, <4>5, <5>2, <5>3
      <4> QED BY <4>4, <4>5
    <3>10. CoherentTo(Over(s2, off, u), Last(s, off, u)) /\ DecidedTo(Over(s2, off, u), l.committed)
      <4>1. l.committed \in 0 .. Last(s, off, u)
        BY <1>1, <3>7
      <4> QED BY <3>7, <3>9, <4>1, SameTransport
    <3>11. off \in 1 .. MSLastIndex(s2) + 1
      BY <1>1, <1>2, <3>1, <3>3
    <3>12. s2.index <= l.committed
      BY <1>5, <3>3
    <3>13. LogOK(s2, off, u, l.committed)
      BY <1>1, <3>6, <3>7, <3>8, <3>10, <3>11, <3>12 DEF LogOK
    <3>14. SAt(s2, n) = ents[Len(ents)]
      <4>1. n \in 1 .. n /\ n \in Nat /\ first <= n /\ n < first + Len(ents)
            /\ n - first + 1 = Len(ents)
        BY <3>1 DEF n
      <4>2. g[n] = ents[n - first + 1]
        BY <4>1, OverAt DEF g
      <4> QED BY <3>3, <4>1, <4>2
    <3> QED BY <3>3, <3>5, <3>8, <3>13, <3>14 DEF n
  <2> QED BY <2>1, <2>2
<1> HIDE DEF s2
<1>7. StorageOK(s2, c)
  BY <1>1, <1>3, <1>4, <1>6 DEF StorageOK
<1>8. RaftLogOK(s2, l)
  BY <1>1, <1>6 DEF RaftLogOK
<1>9. MachineOK(s2, c, l, r2, m)
  <2>1. Max2(c, s2.index) = c
    BY <1>4, <1>6
  <2> QED BY <1>1, <1>4, <1>6, <2>1 DEF MachineOK
<1>10. StillLast(s2, l, r2)
  BY <1>2, <1>6 DEF StillLast, BatchLast
<1>11. BatchOK(s2, c, l, r2, m)
  BY <1>2, <1>4, <1>6, <1>10 DEF BatchOK, ReadyType, BatchLast
<1> QED BY <1>6, <1>7, <1>8, <1>9, <1>11 DEF SafeState, s2

\* Apply.
LEMMA ApplySafe ==
  ASSUME NEW s, NEW hs, NEW l, NEW r, NEW m, SafeState(s, hs, l, r, m), r.stage = "stored",
         NEW r2, ReadyType(r2), r2.stage = "applied", r2.first = r.first,
         r2.ents = r.ents, r2.apply = r.apply, r2.commit = r.commit
  PROVE  SafeState(s, hs, l, r2, m \o r.apply)
<1> DEFINE e == r.apply
           m2 == m \o e
           n == Len(m)
<1>1. /\ StorageOK(s, hs) /\ StorageType(s) /\ RaftLogOK(s, l)
      /\ MachineOK(s, hs, l, r, m) /\ BatchOK(s, hs, l, r, m)
      /\ s.index \in Nat /\ s.snap.index \in Nat /\ l.committed \in Nat /\ hs \in Nat
      /\ m \in Seq(Terms) /\ n \in Nat
      /\ e \in Seq(Terms) /\ Len(e) \in Nat /\ r.commit \in Nat
  BY SafeFacts
<1>2. /\ r.commit <= l.committed /\ StillLast(s, l, r)
      /\ n + Len(e) <= r.commit /\ hs = r.commit
      /\ e = SubSeq(Decided, n + 1, n + Len(e))
      /\ r.ents # <<>> => /\ MSLastIndex(s) = BatchLast(r)
                          /\ SAt(s, BatchLast(r)) = r.ents[Len(r.ents)]
  BY <1>1 DEF BatchOK
<1>3. /\ m = SubSeq(Decided, 1, n) /\ s.snap.index <= n
      /\ l.applied = n
  BY <1>1 DEF MachineOK
<1>4. /\ m2 \in Seq(Terms) /\ Len(m2) = n + Len(e)
      /\ \A k \in 1 .. n + Len(e) : m2[k] = IF k <= n THEN m[k] ELSE e[k - n]
  BY <1>1, ConcatProperties
<1>5. l.committed <= Len(Decided) /\ Len(Decided) \in Nat
  <2>1. Len(Decided) \in Nat
    BY LeadersAssumption
  <2> QED BY <1>1, <2>1 DEF RaftLogOK, LogOK, DecidedTo
<1>6. \A k \in 1 .. n : m[k] = Decided[k]
  <2>1. 0 + n <= Len(Decided) /\ 0 \in Nat
    BY <1>1, <1>2, <1>5
  <2>2. \A i \in 1 .. n : SubSeq(Decided, 0 + 1, 0 + n)[i] = Decided[0 + i]
    BY <1>1, <2>1, RunFacts
  <2>3. 0 + 1 = 1 /\ 0 + n = n /\ \A i \in 1 .. n : 0 + i = i
    BY <1>1
  <2> HIDE DEF n
  <2> QED BY <1>3, <2>2, <2>3
<1>7. \A k \in 1 .. Len(e) : e[k] = Decided[n + k]
  <2>1. n + Len(e) <= Len(Decided)
    BY <1>1, <1>2, <1>5
  <2> HIDE DEF n, e
  <2>2. \A k \in 1 .. Len(e) : SubSeq(Decided, n + 1, n + Len(e))[k] = Decided[n + k]
    BY <1>1, <2>1, RunFacts
  <2> QED BY <1>2, <2>2
<1> HIDE DEF m2, n, e
<1>8. \A k \in 1 .. Len(m2) : m2[k] = Decided[0 + k]
  <2> SUFFICES ASSUME NEW k \in 1 .. Len(m2) PROVE m2[k] = Decided[0 + k]
    OBVIOUS
  <2>1. k \in 1 .. n + Len(e) /\ 0 + k = k
    BY <1>4
  <2>2. CASE k <= n
    BY <1>1, <1>4, <1>6, <2>1, <2>2, SMTT(20)
  <2>3. CASE ~(k <= n)
    <3>1. k - n \in 1 .. Len(e) /\ n + (k - n) = k
      BY <1>1, <2>1, <2>3
    <3>2. m2[k] = e[k - n]
      BY <1>4, <2>1, <2>3
    <3>3. e[k - n] = Decided[n + (k - n)]
      BY <1>7, <3>1
    <3> QED BY <2>1, <3>1, <3>2, <3>3
  <2> QED BY <2>2, <2>3
<1>9. m2 = SubSeq(Decided, 1, Len(m2))
  <2>1. 0 + Len(m2) <= Len(Decided) /\ 0 + 1 = 1 /\ 0 + Len(m2) = Len(m2)
    BY <1>1, <1>2, <1>4, <1>5
  <2>2. m2 = SubSeq(Decided, 0 + 1, 0 + Len(m2))
    BY <1>4, <1>8, <2>1, IsRun
  <2> QED BY <2>1, <2>2
<1>10. /\ Len(m2) <= r.commit /\ Len(m2) <= l.committed /\ Len(m2) <= hs
       /\ Len(m2) <= Max2(hs, s.index)
       /\ s.snap.index <= Len(m2) /\ l.applied = Len(m2) - Len(e)
  BY <1>1, <1>2, <1>3, <1>4 DEF Max2
<1>11. MachineOK(s, hs, l, r2, m2)
  BY <1>4, <1>9, <1>10 DEF MachineOK, e
<1>12. BatchOK(s, hs, l, r2, m2)
  BY <1>2, <1>10 DEF BatchOK, ReadyType, StillLast, BatchLast
<1> QED BY <1>1, <1>11, <1>12 DEF SafeState, m2, e

\* stableTo on an entry the storage has: the log is the same afterwards.
LEMMA StableFacts ==
  ASSUME NEW s, NEW hs, NEW l, StorageOK(s, hs), RaftLogOK(s, l), NEW i \in Nat,
         i = MSLastIndex(s), InUnstable(l, i), UnstableTerm(l, i) = SAt(s, i)
  PROVE  LET u2 == SubSeq(l.unstable, i + 1 - l.offset + 1, Len(l.unstable)) IN
         /\ u2 \in Seq(Terms)
         /\ LogOK(s, i + 1, u2, l.committed)
         /\ Last(s, i + 1, u2) = LastIndex(s, l)
         /\ u2 # <<>> => i < LastIndex(s, l)
<1> DEFINE off == l.offset
           u == l.unstable
           f == Over(s, off, u)
           a == i + 1 - off + 1
           u2 == SubSeq(u, a, Len(u))
           f2 == Over(s, i + 1, u2)
           last == LastIndex(s, l)
<1>1. /\ StorageType(s) /\ LogOK(s, off, u, l.committed) /\ last = Last(s, off, u)
      /\ off \in Nat \ {0} /\ u \in Seq(Terms) /\ Len(u) \in Nat /\ l.committed \in Nat
      /\ off + Len(u) = last + 1 /\ last \in Nat /\ s.index <= l.committed
  BY RaftLogFacts, OverFacts, SMTT(20) DEF StorageOK
<1>2. /\ CoherentTo(f, last) /\ DecidedTo(f, l.committed) /\ l.committed <= last
  BY <1>1 DEF LogOK
<1>3. off <= i /\ i < off + Len(u) /\ i <= last /\ i \in 1 .. last
  BY <1>1 DEF InUnstable
<1>11. /\ off \in Nat \ {0} /\ Len(u) \in Nat /\ last \in Nat
       /\ off + Len(u) = last + 1 /\ off <= i /\ i <= last
  BY <1>1, <1>3
<1> HIDE DEF off, u, last, f, f2
<1>4. /\ u2 \in Seq(Terms) /\ Len(u2) = last - i
      /\ \A k \in 1 .. Len(u2) : u2[k] = u[i + 1 - off + k]
  <2>1. /\ a \in Nat /\ 1 <= a /\ a <= Len(u) + 1 /\ Len(u) - a + 1 = last - i
    BY <1>11
  <2>7. \A k \in Nat : a + k - 1 = i + 1 - off + k
    BY <1>11
  <2>8. u \in Seq(Terms) /\ Len(u) \in Nat
    BY <1>1
  <2> HIDE DEF a
  <2>2. \A k \in a .. Len(u) : u[k] \in Terms
    <3> SUFFICES ASSUME NEW k \in a .. Len(u) PROVE u[k] \in Terms
      OBVIOUS
    <3>1. k \in 1 .. Len(u)
      BY <2>1, <2>8
    <3> QED BY <2>8, <3>1
  <2>3. /\ SubSeq(u, a, Len(u)) \in Seq(Terms)
        /\ Len(SubSeq(u, a, Len(u))) = IF a <= Len(u) THEN Len(u) - a + 1 ELSE 0
        /\ \A k \in 1 .. Len(u) - a + 1 : SubSeq(u, a, Len(u))[k] = u[a + k - 1]
    BY <2>1, <2>2, <2>8, SubSeqProperties
  <2>4. Len(u2) = Len(u) - a + 1
    BY <2>1, <2>3, <2>8
  <2>5. \A k \in 1 .. Len(u2) : k \in Nat /\ u2[k] = u[a + k - 1]
    BY <2>3, <2>4
  <2> HIDE DEF u2
  <2>6. \A k \in 1 .. Len(u2) : u2[k] = u[i + 1 - off + k]
    BY <2>5, <2>7
  <2> QED BY <2>1, <2>3, <2>4, <2>6 DEF u2
<1> HIDE DEF a, u2
<1>5. \A j \in 1 .. i : f[j] = SAt(s, j)
  <2> DEFINE g == Over(s, i + 1, <<>>)
  <2>1. CoherentTo(g, i)
    BY DEF StorageOK, LogOK, Last
  <2>2. \A j \in 1 .. i : g[j] = SAt(s, j)
    <3> SUFFICES ASSUME NEW j \in 1 .. i PROVE g[j] = SAt(s, j)
      OBVIOUS
    <3>1. j \in Nat /\ ~(i + 1 <= j)
      OBVIOUS
    <3> QED BY <3>1, OverAt
  <2> HIDE DEF g
  <2>3. Had(g, i) /\ Had(f, i)
    BY <1>2, <1>3, <2>1 DEF CoherentTo
  <2>4. f[i] = g[i]
    <3>1. f[i] = u[i - off + 1]
      BY <1>3, OverAt DEF f
    <3>2. i \in 1 .. i
      BY <1>3
    <3> QED BY <2>2, <3>1, <3>2 DEF UnstableTerm, u, off
  <2> QED BY <2>2, <2>3, <2>4 DEF Had
<1>6. Same(f2, f, last)
  <2> SUFFICES ASSUME NEW j \in 1 .. last PROVE f2[j] = f[j]
    BY DEF Same
  <2>1. j \in Nat
    BY <1>1
  <2>2. f2[j] = IF i + 1 <= j /\ j < i + 1 + Len(u2) THEN u2[j - (i + 1) + 1] ELSE SAt(s, j)
    BY <2>1, OverAt DEF f2
  <2>3. f[j] = IF off <= j /\ j < off + Len(u) THEN u[j - off + 1] ELSE SAt(s, j)
    BY <2>1, OverAt DEF f
  <2>4. CASE j <= i
    <3>1. j \in 1 .. i /\ ~(i + 1 <= j)
      BY <1>1, <2>4
    <3> QED BY <1>5, <2>2, <3>1
  <2>5. CASE ~(j <= i)
    <3>1. /\ i + 1 <= j /\ j < i + 1 + Len(u2) /\ off <= j /\ j < off + Len(u)
          /\ j - (i + 1) + 1 \in 1 .. Len(u2)
          /\ i + 1 - off + (j - (i + 1) + 1) = j - off + 1
      <4>1. Len(u2) = last - i
        BY <1>4
      <4> QED BY <1>11, <2>1, <2>5, <4>1, SMTT(20)
    <3>2. u2[j - (i + 1) + 1] = u[i + 1 - off + (j - (i + 1) + 1)]
      BY <1>4, <3>1
    <3> QED BY <2>2, <2>3, <3>1, <3>2
  <2> QED BY <2>4, <2>5
<1>7. Last(s, i + 1, u2) = last
  <2>1. CASE u2 = <<>>
    <3>1. last = i
      BY <1>4, <1>11, <2>1
    <3> QED BY <2>1, <3>1 DEF Last
  <2>2. CASE u2 # <<>>
    <3>1. i + 1 + Len(u2) - 1 = last
      BY <1>4, <1>11
    <3> QED BY <2>2, <3>1 DEF Last
  <2> QED BY <2>1, <2>2
<1>8. CoherentTo(f2, last) /\ DecidedTo(f2, l.committed)
  <2>1. l.committed \in 0 .. last
    BY <1>1, <1>2
  <2> QED BY <1>1, <1>2, <1>6, <2>1, SameTransport
<1>9. LogOK(s, i + 1, u2, l.committed)
  <2>1. i + 1 \in 1 .. MSLastIndex(s) + 1
    OBVIOUS
  <2> QED BY <1>1, <1>2, <1>4, <1>7, <1>8, <2>1 DEF LogOK, f2
<1>10. u2 # <<>> => i < last
  <2> HAVE u2 # <<>>
  <2>1. Len(u2) # 0
    BY <1>4
  <2> QED BY <1>4, <1>11, <2>1
<1> QED BY <1>4, <1>7, <1>9, <1>10 DEF u2, a, u, off, last

\* Advance: the batch is over.
LEMMA AdvanceSafe ==
  ASSUME NEW s, NEW hs, NEW l, NEW r, NEW m, SafeState(s, hs, l, r, m), r.stage = "applied",
         NEW l1, l1 = (IF r.ents = <<>> THEN l
                       ELSE StableTo(l, BatchLast(r), r.ents[Len(r.ents)])),
         NEW ai, ai = (IF r.apply = <<>> THEN 0 ELSE Len(m)),
         NEW r2, ReadyType(r2), r2.stage = "none"
  PROVE  ~AppliedToPanics(l1, ai) /\ SafeState(s, hs, AppliedTo(l1, ai), r2, m)
<1> DEFINE i == BatchLast(r)
           x == AppliedTo(l1, ai)
<1>1. /\ StorageOK(s, hs) /\ StorageType(s) /\ RaftLogOK(s, l)
      /\ MachineOK(s, hs, l, r, m) /\ BatchOK(s, hs, l, r, m)
      /\ s.index \in Nat /\ l.committed \in Nat /\ l.offset \in Nat \ {0} /\ hs \in Nat
      /\ LastIndex(s, l) \in Nat
      /\ Len(m) \in Nat /\ r.commit \in Nat /\ r.ents \in Seq(Terms) /\ r.apply \in Seq(Terms)
      /\ Len(r.apply) \in Nat /\ MSLastIndex(s) \in Nat
  BY SafeFacts
<1>2. /\ StillLast(s, l, r) /\ Len(m) <= r.commit
      /\ r.ents # <<>> => /\ MSLastIndex(s) = i /\ SAt(s, i) = r.ents[Len(r.ents)]
  BY <1>1 DEF BatchOK
<1>3. /\ l.applied = Len(m) - Len(r.apply) /\ Len(m) <= l.committed
      /\ r.apply = <<>> => l.applied = Len(m)
  <2>1. l.applied = Len(m) - Len(r.apply) /\ Len(m) <= l.committed
    BY <1>1 DEF MachineOK
  <2>2. r.apply = <<>> => l.applied = Len(m)
    <3> HAVE r.apply = <<>>
    <3>1. Len(r.apply) = 0
      OBVIOUS
    <3> QED BY <1>1, <2>1, <3>1
  <2> QED BY <2>1, <2>2
<1>4. /\ LogOK(s, l.offset, l.unstable, l.committed)
      /\ LastIndex(s, l) = Last(s, l.offset, l.unstable)
      /\ LogType(l)
  BY <1>1, RaftLogFacts DEF RaftLogOK, LogType
<1> HIDE DEF x, i
<1>5. /\ LogType(l1) /\ l1.committed = l.committed /\ l1.applied = l.applied
      /\ LogOK(s, l1.offset, l1.unstable, l1.committed)
      /\ Last(s, l1.offset, l1.unstable) = LastIndex(s, l)
      /\ l1.unstable # <<>> => Len(m) < LastIndex(s, l)
  <2>1. CASE r.ents # <<>> /\ InUnstable(l, i) /\ UnstableTerm(l, i) = r.ents[Len(r.ents)]
    <3> DEFINE u2 == SubSeq(l.unstable, i + 1 - l.offset + 1, Len(l.unstable))
    <3>1. l1 = [l EXCEPT !.offset = i + 1, !.unstable = u2]
      BY <2>1 DEF StableTo, i
    <3>2. i \in Nat /\ i = MSLastIndex(s) /\ UnstableTerm(l, i) = SAt(s, i)
      BY <1>1, <1>2, <2>1
    <3>3. /\ u2 \in Seq(Terms) /\ LogOK(s, i + 1, u2, l.committed)
          /\ Last(s, i + 1, u2) = LastIndex(s, l)
          /\ u2 # <<>> => i < LastIndex(s, l)
      BY <1>1, <2>1, <3>2, StableFacts
    <3> HIDE DEF u2
    <3>4. /\ LogType(l1) /\ l1.offset = i + 1 /\ l1.unstable = u2
          /\ l1.committed = l.committed /\ l1.applied = l.applied
      <4>1. i + 1 \in Nat /\ u2 \in Seq(Terms)
        BY <3>2, <3>3
      <4>2. l \in [offset : Nat, unstable : Seq(Terms), committed : Nat, applied : Nat]
        BY <1>4 DEF LogType
      <4> QED BY <3>1, <4>1, <4>2 DEF LogType
    <3>5. u2 # <<>> => Len(m) < LastIndex(s, l)
      <4> HAVE u2 # <<>>
      <4>1. i < LastIndex(s, l)
        BY <3>3
      <4>2. l.unstable # <<>>
        <5>1. Len(l.unstable) # 0
          BY <1>1, <1>4, <2>1, <3>2, OverFacts DEF InUnstable
        <5> QED BY <5>1
      <4>3. r.commit < LastIndex(s, l)
        BY <1>1, <1>2, <3>2, <4>1, <4>2 DEF StillLast, i
      <4> QED BY <1>1, <1>2, <4>3
    <3> QED BY <3>3, <3>4, <3>5
  <2>2. CASE ~(r.ents # <<>> /\ InUnstable(l, i) /\ UnstableTerm(l, i) = r.ents[Len(r.ents)])
    <3>1. l1 = l
      BY <2>2 DEF StableTo, i
    <3>2. l.unstable # <<>> => r.commit < LastIndex(s, l)
      <4> HAVE l.unstable # <<>>
      <4>1. SUFFICES ASSUME /\ r.ents # <<>> /\ i = LastIndex(s, l)
                            /\ r.ents[Len(r.ents)] = l.unstable[Len(l.unstable)]
                     PROVE  FALSE
        BY <1>2 DEF StillLast, i
      <4>2. /\ l.offset \in Nat \ {0} /\ Len(l.unstable) \in Nat \ {0}
            /\ Last(s, l.offset, l.unstable) = l.offset + Len(l.unstable) - 1
        BY <1>1, <1>4, OverLast
      <4>3. i = l.offset + Len(l.unstable) - 1
        BY <1>4, <4>1, <4>2
      <4>4. InUnstable(l, i) /\ i - l.offset + 1 = Len(l.unstable)
        BY <4>2, <4>3 DEF InUnstable
      <4>5. UnstableTerm(l, i) = r.ents[Len(r.ents)]
        BY <4>1, <4>4 DEF UnstableTerm
      <4> QED BY <2>2, <4>1, <4>4, <4>5
    <3>3. l.unstable # <<>> => Len(m) < LastIndex(s, l)
      BY <1>1, <1>2, <3>2
    <3> QED BY <1>4, <3>1, <3>3
  <2> QED BY <2>1, <2>2
<1>6. ~AppliedToPanics(l1, ai)
  BY <1>1, <1>3, <1>5 DEF AppliedToPanics
<1>7. /\ LogType(x) /\ x.offset = l1.offset /\ x.unstable = l1.unstable
      /\ x.committed = l1.committed /\ x.applied = Len(m)
  <2>1. CASE ai = 0
    <3>1. x = l1
      BY <2>1 DEF x, AppliedTo
    <3>2. l.applied = Len(m)
      <4>1. CASE r.apply = <<>>
        BY <1>3, <4>1
      <4>2. CASE r.apply # <<>>
        <5>1. Len(m) = 0 /\ l.applied \in Nat /\ l.applied = Len(m) - Len(r.apply)
          BY <1>3, <1>4, <2>1, <4>2 DEF LogType
        <5> QED BY <1>1, <5>1
      <4> QED BY <4>1, <4>2
    <3> QED BY <1>5, <3>1, <3>2
  <2>2. CASE ai # 0
    <3>1. ai = Len(m)
      BY <2>2
    <3>2. x = [l1 EXCEPT !.applied = ai]
      BY <2>2 DEF x, AppliedTo
    <3> QED BY <1>1, <1>5, <3>1, <3>2 DEF LogType
  <2> QED BY <2>1, <2>2
<1>8. RaftLogOK(s, x)
  BY <1>5, <1>7 DEF RaftLogOK, LogType
<1>9. LastIndex(s, x) = LastIndex(s, l)
  <2>1. LastIndex(s, x) = Last(s, x.offset, x.unstable)
    BY DEF LastIndex, Last
  <2>2. x.offset = l1.offset /\ x.unstable = l1.unstable
    BY <1>7
  <2>3. Last(s, l1.offset, l1.unstable) = LastIndex(s, l)
    BY <1>5
  <2> QED BY <2>1, <2>2, <2>3
<1>10. MachineOK(s, hs, x, r2, m)
  <2>1. x.committed = l.committed
    BY <1>5, <1>7
  <2>2. x.applied = Len(m) - (IF r2.stage = "applied" THEN Len(r2.apply) ELSE 0)
    BY <1>1, <1>7
  <2>3. /\ m \in Seq(Terms) /\ m = SubSeq(Decided, 1, Len(m)) /\ s.snap.index <= Len(m)
        /\ Len(m) <= l.committed /\ Len(m) <= Max2(hs, s.index)
        /\ hs # 0 => Len(m) <= hs
    BY <1>1 DEF MachineOK
  <2> QED BY <2>1, <2>2, <2>3 DEF MachineOK
<1>11. BatchOK(s, hs, x, r2, m)
  BY <1>5, <1>7, <1>9 DEF BatchOK, ReadyType
<1> QED BY <1>1, <1>6, <1>8, <1>10, <1>11 DEF SafeState, x
-----------------------------------------------------------------------------
(* Snapshots, compaction, crashes. *)

\* A storage with the same entries and a newer dummy entry will do as well.
LEMMA SwapSafe ==
  ASSUME NEW s, NEW hs, NEW l, NEW r, NEW m, SafeState(s, hs, l, r, m),
         NEW s2, StorageType(s2), MSLastIndex(s2) = MSLastIndex(s),
         \A j \in 1 .. MSLastIndex(s) : SAt(s2, j) = SAt(s, j),
         s2.ents[1] = (IF s2.index = 0 THEN 0 ELSE Decided[s2.index]),
         s.index <= s2.index, s2.index = s.index \/ s2.index <= hs,
         s2.index <= s2.snap.index, s2.snap.index <= Len(m)
  PROVE  SafeState(s2, hs, l, r, m)
<1>1. /\ StorageOK(s, hs) /\ StorageType(s) /\ RaftLogOK(s, l)
      /\ MachineOK(s, hs, l, r, m) /\ BatchOK(s, hs, l, r, m)
      /\ hs \in Nat /\ s.index \in Nat /\ MSLastIndex(s) \in Nat
      /\ l.committed \in Nat /\ l.offset \in Nat /\ Len(m) \in Nat /\ Len(m) <= l.committed
      /\ r.commit \in Nat /\ Len(r.apply) \in Nat /\ BatchLast(r) \in Int
  BY SafeFacts
<1>2. s2.index \in Nat /\ s2.snap.index \in Nat /\ MSLastIndex(s2) \in Nat /\ s2.index <= Len(m)
  BY <1>1, StorageFacts
<1>3. Max2(hs, s2.index) = Max2(hs, s.index)
  BY <1>1, <1>2 DEF Max2
<1>4. ASSUME NEW off, NEW u, NEW c, LogOK(s, off, u, c), s2.index <= c
      PROVE  LogOK(s2, off, u, c) /\ Last(s2, off, u) = Last(s, off, u)
  BY <1>1, <1>4, StorageSwap
<1>5. StorageOK(s2, hs)
  <2>1. LogOK(s, MSLastIndex(s) + 1, <<>>, Max2(hs, s.index))
    BY <1>1 DEF StorageOK
  <2>2. s2.index <= Max2(hs, s.index)
    BY <1>1, <1>2, <1>3 DEF Max2
  <2>3. LogOK(s2, MSLastIndex(s) + 1, <<>>, Max2(hs, s.index))
    BY <1>4, <2>1, <2>2
  <2> QED BY <1>1, <1>3, <2>3 DEF StorageOK
<1>6. RaftLogOK(s2, l) /\ LastIndex(s2, l) = LastIndex(s, l)
  <2>1. LogOK(s, l.offset, l.unstable, l.committed)
    BY <1>1, RaftLogFacts
  <2>2. s2.index <= l.committed
    BY <1>1, <1>2
  <2>3. LogOK(s2, l.offset, l.unstable, l.committed)
    BY <1>4, <2>1, <2>2
  <2>4. LastIndex(s2, l) = LastIndex(s, l)
    BY DEF LastIndex
  <2> QED BY <1>1, <2>3, <2>4 DEF RaftLogOK
<1>7. MachineOK(s2, hs, l, r, m)
  BY <1>1, <1>3 DEF MachineOK
<1>8. StillLast(s, l, r) => StillLast(s2, l, r)
  BY <1>6 DEF StillLast
<1>9. r.stage = "taken" => LogOK(s2, r.first, r.ents, r.commit)
  <2> HAVE r.stage = "taken"
  <2>1. LogOK(s, r.first, r.ents, r.commit) /\ Len(m) + Len(r.apply) <= r.commit
    BY <1>1 DEF BatchOK
  <2>2. s2.index <= r.commit
    BY <1>1, <1>2, <2>1
  <2> QED BY <1>4, <2>1, <2>2
<1>10. BatchLast(r) = MSLastIndex(s) => SAt(s2, BatchLast(r)) = SAt(s, BatchLast(r))
  <2> HAVE BatchLast(r) = MSLastIndex(s)
  <2>1. CASE MSLastIndex(s) = 0
    <3>1. SAt(s, 0) = Decided[0] /\ SAt(s2, 0) = Decided[0]
      BY <1>1, <1>2 DEF SAt
    <3> QED BY <2>1, <3>1
  <2>2. CASE MSLastIndex(s) # 0
    <3>1. MSLastIndex(s) \in 1 .. MSLastIndex(s)
      BY <1>1, <2>2
    <3> QED BY <3>1
  <2> QED BY <2>1, <2>2
<1>11. BatchOK(s2, hs, l, r, m)
  BY <1>1, <1>6, <1>8, <1>9, <1>10 DEF BatchOK
<1> QED BY <1>5, <1>6, <1>7, <1>11 DEF SafeState

\* What a crash would leave: the storage has what is applied.
LEMMA DurableFacts ==
  ASSUME NEW s, NEW hs, NEW l, NEW r, NEW m, SafeState(s, hs, l, r, m)
  PROVE  /\ s.index <= s.snap.index /\ s.snap.index <= Len(m)
         /\ Len(m) <= Max2(hs, s.index) /\ Max2(hs, s.index) <= MSLastIndex(s)
         /\ Max2(hs, s.index) \in Nat
         /\ \A j \in 1 .. Max2(hs, s.index) : SAt(s, j) = Decided[j]
         /\ CoherentTo(Over(s, MSLastIndex(s) + 1, <<>>), MSLastIndex(s))
<1>1. StorageOK(s, hs) /\ MachineOK(s, hs, l, r, m) /\ s.index \in Nat /\ MSLastIndex(s) \in Nat /\ hs \in Nat
  BY SafeFacts
<1> DEFINE c == Max2(hs, s.index)
           g == Over(s, MSLastIndex(s) + 1, <<>>)
<1>2. LogOK(s, MSLastIndex(s) + 1, <<>>, c)
  BY <1>1 DEF StorageOK
<1>3. c <= MSLastIndex(s) /\ DecidedTo(g, c) /\ c \in Nat /\ CoherentTo(g, MSLastIndex(s))
  BY <1>2 DEF LogOK, Last
<1>4. ASSUME NEW j \in 1 .. c PROVE SAt(s, j) = Decided[j]
  <2>1. j \in Nat /\ ~(MSLastIndex(s) + 1 <= j)
    BY <1>1, <1>3
  <2>2. g[j] = SAt(s, j)
    BY <2>1, OverAt
  <2> QED BY <1>3, <2>2 DEF DecidedTo
<1> QED BY <1>1, <1>3, <1>4 DEF StorageOK, MachineOK

\* CreateSnapshot at the state machine's index.
LEMMA TakeSnapshotSafe ==
  ASSUME NEW s, NEW hs, NEW l, NEW r, NEW m, SafeState(s, hs, l, r, m),
         ~CreateSnapshotRefused(s, Len(m))
  PROVE  /\ ~CreateSnapshotPanics(s, Len(m))
         /\ SafeState(CreateSnapshot(s, Len(m)), hs, l, r, m)
<1> DEFINE s2 == CreateSnapshot(s, Len(m))
<1>1. /\ StorageOK(s, hs) /\ StorageType(s) /\ Len(m) \in Nat
      /\ s.index \in Nat /\ MSLastIndex(s) \in Nat /\ s.snap.index \in Nat
      /\ s.ents \in Seq(Terms \cup {0}) /\ Len(s.ents) \in Nat
      /\ MSLastIndex(s) = s.index + Len(s.ents) - 1
  BY SafeFacts, StorageFacts
<1>2. s.index <= s.snap.index /\ s.snap.index <= Len(m) /\ Len(m) <= MSLastIndex(s)
  <2>1. /\ s.index <= s.snap.index /\ s.snap.index <= Len(m)
        /\ Len(m) <= Max2(hs, s.index) /\ Max2(hs, s.index) <= MSLastIndex(s)
        /\ Max2(hs, s.index) \in Nat
    BY DurableFacts
  <2> QED BY <1>1, <2>1
<1>3. ~CreateSnapshotPanics(s, Len(m))
  BY <1>1, <1>2 DEF CreateSnapshotPanics
<1>4. s.ents[Len(m) - s.index + 1] \in Nat
  <2>1. Len(m) - s.index + 1 \in 1 .. Len(s.ents)
    BY <1>1, <1>2, SMTT(20)
  <2>2. s.ents[Len(m) - s.index + 1] \in Terms \cup {0}
    BY <1>1, <2>1
  <2>3. \A x \in Terms : x \in Nat
    BY LeadersAssumption
  <2> QED BY <2>2, <2>3
<1>5. /\ s2.index = s.index /\ s2.ents = s.ents /\ s2.snap.index = Len(m)
      /\ StorageType(s2)
  BY <1>1, <1>4 DEF CreateSnapshot, StorageType
<1> HIDE DEF s2
<1>6. MSLastIndex(s2) = MSLastIndex(s) /\ \A j \in 1 .. MSLastIndex(s) : SAt(s2, j) = SAt(s, j)
  BY <1>5 DEF MSLastIndex, SAt
<1>7. s2.ents[1] = (IF s2.index = 0 THEN 0 ELSE Decided[s2.index])
  BY <1>1, <1>5 DEF StorageOK
<1>8. /\ s.index <= s2.index /\ s2.index = s.index
      /\ s2.index <= s2.snap.index /\ s2.snap.index <= Len(m)
  BY <1>1, <1>2, <1>5
<1>9. SafeState(s2, hs, l, r, m)
  BY <1>5, <1>6, <1>7, <1>8, SwapSafe
<1> QED BY <1>3, <1>9 DEF s2

\* Compact, no further than the snapshot.
LEMMA CompactSafe ==
  ASSUME NEW s, NEW hs, NEW l, NEW r, NEW m, SafeState(s, hs, l, r, m),
         NEW i \in Nat, i <= s.snap.index, ~CompactRefused(s, i)
  PROVE  ~CompactPanics(s, i) /\ SafeState(Compact(s, i), hs, l, r, m)
<1> DEFINE s2 == Compact(s, i)
           e == s.ents
           x == s.index
           a == i - x + 1
<1>1. /\ StorageOK(s, hs) /\ StorageType(s) /\ Len(m) \in Nat /\ hs \in Nat
      /\ x \in Nat /\ MSLastIndex(s) \in Nat /\ s.snap.index \in Nat
      /\ e \in Seq(Terms \cup {0}) /\ Len(e) \in Nat
      /\ MSLastIndex(s) = x + Len(e) - 1
  BY SafeFacts, StorageFacts
<1>2. /\ x <= s.snap.index /\ s.snap.index <= Len(m)
      /\ Len(m) <= Max2(hs, x) /\ Max2(hs, x) <= MSLastIndex(s)
      /\ Max2(hs, x) \in Nat
      /\ \A j \in 1 .. Max2(hs, x) : SAt(s, j) = Decided[j]
  BY DurableFacts
<1>3. x < i
  BY <1>1 DEF CompactRefused
<1>4. i <= MSLastIndex(s) /\ i <= Max2(hs, x) /\ i <= Len(m)
  BY <1>1, <1>2
<1>5. i <= hs
  BY <1>1, <1>3, <1>4 DEF Max2
<1>6. ~CompactPanics(s, i)
  BY <1>1, <1>4 DEF CompactPanics
<1> DEFINE e2 == SubSeq(e, a, Len(e))
<1>7. /\ a \in Nat /\ 1 <= a /\ a <= Len(e) /\ Len(e) - a + 1 = x + Len(e) - i
  <2>1. /\ x \in Nat /\ Len(e) \in Nat /\ i <= x + Len(e) - 1
    BY <1>1, <1>4
  <2> HIDE DEF x, e
  <2> QED BY <1>3, <2>1
<1>8. /\ e2 \in Seq(Terms \cup {0}) /\ Len(e2) = x + Len(e) - i
      /\ \A k \in 1 .. Len(e2) : e2[k] = e[a + k - 1]
  <2> HIDE DEF a, e
  <2>1. \A k \in a .. Len(e) : e[k] \in Terms \cup {0}
    <3> SUFFICES ASSUME NEW k \in a .. Len(e) PROVE e[k] \in Terms \cup {0}
      OBVIOUS
    <3>1. k \in 1 .. Len(e)
      BY <1>1, <1>7
    <3> QED BY <1>1, <3>1
  <2>2. /\ SubSeq(e, a, Len(e)) \in Seq(Terms \cup {0})
        /\ Len(SubSeq(e, a, Len(e))) = IF a <= Len(e) THEN Len(e) - a + 1 ELSE 0
        /\ \A k \in 1 .. Len(e) - a + 1 : SubSeq(e, a, Len(e))[k] = e[a + k - 1]
    BY <1>1, <1>7, <2>1, SubSeqProperties, SMTT(20)
  <2>3. Len(e2) = Len(e) - a + 1
    BY <1>7, <2>2
  <2> QED BY <1>7, <2>2, <2>3
<1> HIDE DEF e2
<1>9. s2.index = i /\ s2.ents = e2 /\ s2.snap = s.snap /\ StorageType(s2)
  <2>1. s2 = [s EXCEPT !.index = i, !.ents = e2]
    BY DEF Compact, e2
  <2>2. s \in [index : Nat, ents : Seq(Terms \cup {0}), snap : [index : Nat, term : Nat]]
    BY <1>1 DEF StorageType
  <2>3. e2 # <<>>
    <3>1. Len(e2) # 0
      BY <1>1, <1>4, <1>8
    <3> QED BY <3>1
  <2> HIDE DEF s2
  <2> QED BY <1>8, <2>1, <2>2, <2>3 DEF StorageType
<1> HIDE DEF s2, e
<1>10. MSLastIndex(s2) = MSLastIndex(s)
  <2>1. Len(s2.ents) = x + Len(e) - i /\ s2.index = i
    BY <1>8, <1>9
  <2> HIDE DEF x
  <2> QED BY <1>1, <2>1 DEF MSLastIndex
<1>11. ASSUME NEW j \in 1 .. MSLastIndex(s) PROVE SAt(s2, j) = SAt(s, j)
  <2>1. CASE j <= i
    <3>1. j \in 1 .. Max2(hs, x)
      BY <1>1, <1>2, <1>4, <2>1
    <3>2. SAt(s2, j) = Decided[j]
      BY <1>9, <2>1 DEF SAt
    <3> QED BY <1>2, <3>1, <3>2
  <2>2. CASE ~(j <= i)
    <3>1. j - i + 1 \in 1 .. Len(e2) /\ a + (j - i + 1) - 1 = j - x + 1 /\ ~(j <= x)
      <4>1. Len(e2) = x + Len(e) - i
        BY <1>8
      <4> HIDE DEF x
      <4> QED BY <1>1, <1>3, <2>2, <4>1
    <3> HIDE DEF a
    <3>2. SAt(s2, j) = e2[j - i + 1]
      BY <1>9, <2>2 DEF SAt
    <3>3. e2[j - i + 1] = e[j - x + 1]
      BY <1>8, <3>1
    <3>4. SAt(s, j) = e[j - x + 1]
      BY <3>1 DEF SAt, e
    <3> QED BY <3>2, <3>3, <3>4
  <2> QED BY <2>1, <2>2
<1>12. s2.ents[1] = (IF s2.index = 0 THEN 0 ELSE Decided[s2.index])
  <2>1. 1 \in 1 .. Len(e2) /\ a + 1 - 1 = a
    <3>1. Len(e2) = x + Len(e) - i /\ a \in Nat
      BY <1>7, <1>8
    <3> HIDE DEF x, a
    <3> QED BY <1>1, <1>4, <3>1
  <2>2. e2[1] = e[i - x + 1]
    BY <1>8, <2>1
  <2>3. SAt(s, i) = e[i - x + 1]
    <3>1. ~(i <= x)
      BY <1>1, <1>3
    <3> QED BY <3>1 DEF SAt, e
  <2>4. i \in 1 .. Max2(hs, x) /\ i # 0
    BY <1>1, <1>2, <1>3, <1>4
  <2>5. SAt(s, i) = Decided[i]
    BY <1>2, <2>4
  <2> QED BY <1>9, <2>2, <2>3, <2>4, <2>5
<1>13. /\ s.index <= s2.index /\ s2.index <= hs
       /\ s2.index <= s2.snap.index /\ s2.snap.index <= Len(m)
  BY <1>1, <1>2, <1>3, <1>5, <1>9
<1>14. SafeState(s2, hs, l, r, m)
  BY <1>9, <1>10, <1>11, <1>12, <1>13, SwapSafe
<1> QED BY <1>6, <1>14 DEF s2

\* newRaft on the storage and the HardState that were saved.
LEMMA RestartSafe ==
  ASSUME NEW s, NEW hs, NEW l, NEW r, NEW m, SafeState(s, hs, l, r, m),
         NEW l1, l1 = (IF hs = 0 THEN NewLog(s) ELSE [NewLog(s) EXCEPT !.committed = hs]),
         NEW r2, ReadyType(r2), r2.stage = "none"
  PROVE  /\ ~(hs # 0 /\ (hs < NewLog(s).committed \/ hs > MSLastIndex(s)))
         /\ ~AppliedToPanics(l1, s.snap.index)
         /\ SafeState(s, hs, AppliedTo(l1, s.snap.index), r2, SubSeq(m, 1, s.snap.index))
<1> DEFINE n == s.snap.index
           x == AppliedTo(l1, n)
           c == Max2(hs, s.index)
           m2 == SubSeq(m, 1, n)
<1>1. /\ StorageOK(s, hs) /\ StorageType(s) /\ MachineOK(s, hs, l, r, m)
      /\ hs \in Nat /\ s.index \in Nat /\ n \in Nat /\ MSLastIndex(s) \in Nat
      /\ m \in Seq(Terms) /\ Len(m) \in Nat
  BY SafeFacts
<1>2. /\ s.index <= n /\ n <= Len(m) /\ Len(m) <= c /\ c <= MSLastIndex(s) /\ c \in Nat
  BY DurableFacts
<1>3. /\ m = SubSeq(Decided, 1, Len(m)) /\ (hs # 0 => Len(m) <= hs)
      /\ Len(m) <= l.committed
  BY <1>1 DEF MachineOK
<1>4. /\ NewLog(s).offset = MSLastIndex(s) + 1 /\ NewLog(s).unstable = <<>>
      /\ NewLog(s).committed = s.index /\ NewLog(s).applied = s.index
      /\ LogType(NewLog(s))
  BY <1>1 DEF NewLog, MSFirstIndex, LogType
<1>5. /\ l1.offset = MSLastIndex(s) + 1 /\ l1.unstable = <<>>
      /\ l1.committed = c /\ l1.applied = s.index /\ LogType(l1)
  <2>1. CASE hs = 0
    <3>1. c = s.index
      BY <1>1, <2>1 DEF Max2
    <3> QED BY <1>4, <2>1, <3>1
  <2>2. CASE hs # 0
    <3>1. c = hs
      BY <1>1, <1>2, <1>3, <2>2 DEF Max2
    <3>2. l1 = [NewLog(s) EXCEPT !.committed = hs]
      BY <2>2
    <3> HIDE DEF c
    <3>3. l1.committed = hs /\ l1.offset = NewLog(s).offset /\ l1.unstable = NewLog(s).unstable
          /\ l1.applied = NewLog(s).applied /\ LogType(l1)
      BY <1>1, <1>4, <3>2 DEF LogType
    <3> QED BY <1>4, <3>1, <3>3
  <2> QED BY <2>1, <2>2
<1>6. ~(hs # 0 /\ (hs < NewLog(s).committed \/ hs > MSLastIndex(s)))
  <2>1. hs # 0 => c = hs
    BY <1>1, <1>2, <1>3 DEF Max2
  <2> QED BY <1>1, <1>2, <1>3, <1>4, <2>1
<1>7. ~AppliedToPanics(l1, n)
  <2> HIDE DEF c
  <2> QED BY <1>1, <1>2, <1>5 DEF AppliedToPanics
<1> HIDE DEF c
<1>8. /\ x.offset = MSLastIndex(s) + 1 /\ x.unstable = <<>>
      /\ x.committed = c /\ x.applied = n /\ LogType(x)
  <2>1. CASE n = 0
    <3>1. x = l1 /\ s.index = 0
      BY <1>1, <1>2, <2>1 DEF AppliedTo
    <3> QED BY <1>5, <2>1, <3>1
  <2>2. CASE n # 0
    <3>1. x = [l1 EXCEPT !.applied = n]
      BY <2>2 DEF AppliedTo
    <3> HIDE DEF x
    <3> QED BY <1>1, <1>5, <3>1 DEF LogType
  <2> QED BY <2>1, <2>2
<1> HIDE DEF x
<1>9. LogOK(s, x.offset, x.unstable, x.committed)
  BY <1>1, <1>8 DEF StorageOK, c
<1>10. RaftLogOK(s, x)
  BY <1>8, <1>9 DEF RaftLogOK, LogType
<1>11. m2 \in Seq(Terms) /\ Len(m2) = n /\ \A k \in 1 .. n : m2[k] = m[k]
  <2>1. \A k \in 1 .. n : m[k] \in Terms
    BY <1>1, <1>2
  <2> HIDE DEF n
  <2> QED BY <1>1, <1>2, <2>1
<1>12. l.committed \in Nat /\ l.committed <= Len(Decided) /\ Len(Decided) \in Nat
  <2>1. Len(Decided) \in Nat
    BY LeadersAssumption
  <2>2. RaftLogOK(s, l)
    BY SafeFacts
  <2> QED BY <2>1, <2>2 DEF RaftLogOK, LogOK, DecidedTo
<1>13. \A k \in 1 .. Len(m) : m[k] = Decided[k]
  <2>1. 0 + Len(m) <= Len(Decided) /\ 0 \in Nat
    BY <1>1, <1>3, <1>12
  <2>2. \A k \in 1 .. Len(m) : SubSeq(Decided, 0 + 1, 0 + Len(m))[k] = Decided[0 + k]
    BY <1>1, <2>1, RunFacts
  <2>3. 0 + 1 = 1 /\ 0 + Len(m) = Len(m) /\ \A k \in 1 .. Len(m) : 0 + k = k
    BY <1>1
  <2> QED BY <1>3, <2>2, <2>3
<1> HIDE DEF m2
<1>14. m2 = SubSeq(Decided, 1, Len(m2))
  <2>1. 0 + Len(m2) <= Len(Decided) /\ 0 + 1 = 1 /\ 0 + Len(m2) = Len(m2)
    BY <1>1, <1>2, <1>3, <1>11, <1>12
  <2>2. \A k \in 1 .. Len(m2) : m2[k] = Decided[0 + k]
    <3> SUFFICES ASSUME NEW k \in 1 .. Len(m2) PROVE m2[k] = Decided[0 + k]
      OBVIOUS
    <3>1. k \in 1 .. n /\ k \in 1 .. Len(m) /\ 0 + k = k
      BY <1>1, <1>2, <1>11
    <3> QED BY <1>11, <1>13, <3>1
  <2>3. m2 = SubSeq(Decided, 0 + 1, 0 + Len(m2))
    BY <1>11, <2>1, <2>2, IsRun
  <2> QED BY <2>1, <2>3
<1>15. MachineOK(s, hs, x, r2, m2)
  <2>1. x.applied = Len(m2) - (IF r2.stage = "applied" THEN Len(r2.apply) ELSE 0)
    BY <1>1, <1>8, <1>11
  <2>2. Len(m2) <= c /\ (hs # 0 => Len(m2) <= hs)
    BY <1>1, <1>2, <1>3, <1>11
  <2>3. Len(m2) = n /\ n <= n
    BY <1>1, <1>11
  <2> QED BY <1>8, <1>11, <1>14, <2>1, <2>2, <2>3 DEF MachineOK, c
<1>16. BatchOK(s, hs, x, r2, m2)
  BY <1>8 DEF BatchOK, ReadyType
<1> QED BY <1>1, <1>6, <1>7, <1>10, <1>15, <1>16 DEF SafeState, x, m2, n

\* A new node, on a storage that holds a snapshot of the first n entries.
LEMMA InitSafe ==
  ASSUME NEW n \in 0 .. Len(Decided),
         NEW s, StorageType(s), s.index = n, Len(s.ents) = 1, s.snap.index = n,
         s.ents[1] = (IF n = 0 THEN 0 ELSE Decided[n]),
         NEW r, ReadyType(r), r.stage = "none"
  PROVE  SafeState(s, 0, NewLog(s), r, SubSeq(Decided, 1, n))
<1> DEFINE l == NewLog(s)
           m == SubSeq(Decided, 1, n)
           g == Over(s, n + 1, <<>>)
<1>1. n \in Nat /\ n <= Len(Decided) /\ Len(Decided) \in Nat
  <2>1. Len(Decided) \in Nat
    BY LeadersAssumption
  <2> QED BY <2>1
<1>2. MSLastIndex(s) = n
  BY <1>1 DEF MSLastIndex
<1>3. /\ l.offset = n + 1 /\ l.unstable = <<>> /\ l.committed = n /\ l.applied = n /\ LogType(l)
  BY <1>1, <1>2 DEF NewLog, MSFirstIndex, LogType
<1>4. DecidedTo(g, n)
  <2> SUFFICES ASSUME NEW j \in 1 .. n PROVE g[j] = Decided[j]
    BY <1>1 DEF DecidedTo
  <2>1. j \in Nat /\ ~(n + 1 <= j) /\ j <= s.index
    BY <1>1
  <2>2. g[j] = SAt(s, j)
    BY <2>1, OverAt
  <2> QED BY <2>1, <2>2 DEF SAt
<1> HIDE DEF g
<1>5. CoherentTo(g, n)
  BY <1>1, <1>4, DecidedIsCoherent
<1>6. LogOK(s, n + 1, <<>>, n)
  <2>1. Last(s, n + 1, <<>>) = n /\ n + 1 \in 1 .. MSLastIndex(s) + 1
    BY <1>1, <1>2 DEF Last
  <2> QED BY <1>1, <1>2, <1>4, <1>5, <2>1 DEF LogOK, g
<1>7. Max2(0, n) = n
  BY <1>1 DEF Max2
<1>8. StorageOK(s, 0)
  BY <1>1, <1>2, <1>6, <1>7 DEF StorageOK
<1> HIDE DEF l
<1>9. RaftLogOK(s, l)
  BY <1>3, <1>6 DEF RaftLogOK, LogType
<1>10. m \in Seq(Terms) /\ Len(m) = n
  <2>1. 0 + n <= Len(Decided) /\ 0 \in Nat
    BY <1>1
  <2>2. SubSeq(Decided, 0 + 1, 0 + n) \in Seq(Terms) /\ Len(SubSeq(Decided, 0 + 1, 0 + n)) = n
    BY <1>1, <2>1, RunFacts
  <2>3. 0 + 1 = 1 /\ 0 + n = n
    BY <1>1
  <2> QED BY <2>2, <2>3
<1>11. MachineOK(s, 0, l, r, m)
  <2>1. m = SubSeq(Decided, 1, Len(m))
    BY <1>10
  <2> HIDE DEF m
  <2> QED BY <1>1, <1>3, <1>7, <1>10, <2>1 DEF MachineOK
<1>12. BatchOK(s, 0, l, r, m)
  BY <1>3 DEF BatchOK, ReadyType
<1> QED BY <1>8, <1>9, <1>11, <1>12 DEF SafeState, l
-----------------------------------------------------------------------------
(* Messages. *)

\* term() answers a term or 0, so zeroTermOnErrCompacted never panics.
LEMMA TermNeverPanics ==
  ASSUME NEW s, NEW hs, NEW l, StorageOK(s, hs), RaftLogOK(s, l), NEW i \in Nat
  PROVE  ~TermPanics(s, l, i)
<1> DEFINE f == Over(s, l.offset, l.unstable)
<1>1. Term(s, l, i) = IF i = 0 \/ i < s.index \/ i > LastIndex(s, l) THEN 0 ELSE f[i]
  BY TermFacts
<1>2. StorageType(s) /\ LogOK(s, l.offset, l.unstable, l.committed)
      /\ LastIndex(s, l) = Last(s, l.offset, l.unstable)
  BY RaftLogFacts DEF StorageOK
<1>3. LastIndex(s, l) \in Nat /\ \A j \in 1 .. LastIndex(s, l) : f[j] \in Terms
  BY <1>2, OverFacts
<1>4. \A x \in Terms : x \in Nat
  BY LeadersAssumption
<1> HIDE DEF f
<1>5. Term(s, l, i) \in Nat
  <2>1. CASE i = 0 \/ i < s.index \/ i > LastIndex(s, l)
    BY <1>1, <2>1
  <2>2. CASE ~(i = 0 \/ i < s.index \/ i > LastIndex(s, l))
    <3>1. i \in 1 .. LastIndex(s, l)
      BY <1>3, <2>2
    <3> QED BY <1>1, <1>3, <1>4, <2>2, <3>1
  <2> QED BY <2>1, <2>2
<1> QED BY <1>5 DEF TermPanics, ErrUnavailable

\* A message that matches, in the terms of the lemmas above.
LEMMA MatchingMessage ==
  ASSUME NEW s, NEW hs, NEW l, StorageOK(s, hs), RaftLogOK(s, l),
         NEW t \in Terms, NEW prev \in 0 .. Len(LeaderLog[t]),
         NEW last \in 0 .. Len(LeaderLog[t]), NEW c \in CommitsOf(t),
         NEW msg, msg = MsgApp(t, prev, last, c),
         ~(msg.index < l.committed), MatchTerm(s, l, msg.index, msg.logTerm)
  PROVE  LET l2 == MaybeAppend(s, l, msg.index, msg.commit, msg.ents) IN
         /\ ~MaybeAppendPanics(s, l, msg.index, msg.commit, msg.ents)
         /\ RaftLogOK(s, l2) /\ Grown(s, l, l2)
         /\ msg.index + Len(msg.ents) <= LastIndex(s, l2)
         /\ Same(Over(s, l2.offset, l2.unstable), LeaderLog[t], msg.index + Len(msg.ents))
<1>1. /\ msg.index = prev /\ msg.commit = c
      /\ msg.logTerm = LeaderTerm(t, prev)
      /\ Carries(t, prev, msg.ents)
  <2>1. LET q == MsgApp(t, prev, last, c) IN
        /\ q.index = prev /\ q.commit = c
        /\ q.logTerm = IF prev = 0 THEN 0 ELSE LeaderLog[t][prev]
        /\ q.ents \in Seq(Terms)
        /\ prev + Len(q.ents) <= Len(LeaderLog[t])
        /\ \A k \in 1 .. Len(q.ents) : q.ents[k] = LeaderLog[t][prev + k]
    BY MessageFacts, SMTT(20)
  <2> QED BY <2>1 DEF LeaderTerm, Carries
<1> DEFINE ents == msg.ents
<1>2. Carries(t, prev, ents) /\ MatchTerm(s, l, prev, LeaderTerm(t, prev))
  BY <1>1
<1>3. l.committed <= prev
  <2>1. StorageType(s)
    BY DEF StorageOK
  <2>2. l.committed \in Nat
    BY <2>1, RaftLogFacts
  <2>3. prev \in Nat
    BY LeadersAssumption
  <2> QED BY <1>1, <2>2, <2>3
<1> HIDE DEF ents
<1>4. /\ ~MaybeAppendPanics(s, l, prev, c, ents)
      /\ RaftLogOK(s, MaybeAppend(s, l, prev, c, ents))
      /\ Grown(s, l, MaybeAppend(s, l, prev, c, ents))
      /\ prev + Len(ents) <= LastIndex(s, MaybeAppend(s, l, prev, c, ents))
      /\ Same(Over(s, MaybeAppend(s, l, prev, c, ents).offset,
                      MaybeAppend(s, l, prev, c, ents).unstable),
              LeaderLog[t], prev + Len(ents))
  BY <1>2, <1>3, MaybeAppendFacts
<1> QED BY <1>1, <1>4 DEF ents
=============================================================================
