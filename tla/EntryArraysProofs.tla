-------------------------- MODULE EntryArraysProofs --------------------------
(***************************************************************************)
(* EntryArrays for any memory, any number of messages and of slices in     *)
(* other hands, and any room append leaves.                                *)
(*                                                                         *)
(* append writes in place behind the slice it appends to.  So the two      *)
(* slices that are appended to, ms.ents and unstable.entries, must be the  *)
(* ones that reach furthest on their array (Behind), and must not share    *)
(* one.  Then nobody looks at what is written.                             *)
(***************************************************************************)
EXTENDS EntryArrays, SequenceTheorems, TLAPS

Slices == [array : Nat, from : Nat, len : Nat]
Memories == [Arrays -> Seq(Nat)]

\* Where s ends on its array; h does not look past that.
End(s) == s.from + s.len
Behind(h, s) == h.array = s.array => End(h) <= End(s)

\* s is nil or a window on one of the arrays of mem.
WindowOf(mem, s) ==
  /\ s \in Slices
  /\ s = Slice0 \/ (s.array \in Arrays /\ End(s) <= Len(mem[s.array]))

\* What s shows is the same in both memories.
Kept(mem, mem2, s) == WindowOf(mem2, s) /\ Read(mem2, s) = Read(mem, s)

LEMMA Constants ==
  Arrays \subseteq Nat /\ 0 \notin Arrays /\ 1 \in Arrays
BY EntryArraysAssumption

\* A part of a sequence of numbers, and two of them put together.
LEMMA PartFacts ==
  ASSUME NEW q \in Seq(Nat), NEW f \in Nat, NEW n \in Nat, f + n <= Len(q)
  PROVE  /\ SubSeq(q, f + 1, f + n) \in Seq(Nat)
         /\ Len(SubSeq(q, f + 1, f + n)) = n
         /\ \A i \in 1 .. n : SubSeq(q, f + 1, f + n)[i] = q[f + i]
<1>1. \A i \in f + 1 .. f + n : q[i] \in Nat
  OBVIOUS
<1>2. PICK a \in Int, b \in Int : a = f + 1 /\ b = f + n
  OBVIOUS
<1>3. /\ SubSeq(q, a, b) \in Seq(Nat)
      /\ Len(SubSeq(q, a, b)) = IF a <= b THEN b - a + 1 ELSE 0
      /\ \A i \in 1 .. b - a + 1 : SubSeq(q, a, b)[i] = q[a + i - 1]
  BY <1>1, <1>2, SubSeqProperties
<1>4. Len(SubSeq(q, a, b)) = n /\ b - a + 1 = n
  BY <1>2, <1>3
<1>5. \A i \in 1 .. n : a + i - 1 = f + i
  BY <1>2
<1> QED
  BY <1>2, <1>3, <1>4, <1>5, Zenon

LEMMA ConcatFacts ==
  ASSUME NEW p \in Seq(Nat), NEW q \in Seq(Nat)
  PROVE  /\ p \o q \in Seq(Nat) /\ Len(p \o q) = Len(p) + Len(q)
         /\ Len(p) \in Nat /\ Len(q) \in Nat
         /\ \A i \in 1 .. Len(p) : (p \o q)[i] = p[i]
         /\ \A i \in 1 .. Len(q) : (p \o q)[Len(p) + i] = q[i]
OBVIOUS

\* The fields of a slice, and of nil.
LEMMA SliceFields ==
  ASSUME NEW mem, NEW s, WindowOf(mem, s)
  PROVE  /\ s.array \in Nat /\ s.from \in Nat /\ s.len \in Nat /\ End(s) \in Nat
         /\ s.array # 0 => s.array \in Arrays /\ End(s) <= Len(mem[s.array])
         /\ s.array = 0 => s = Slice0 /\ End(s) = 0 /\ s.len = 0
         /\ s.array = 0 \/ s.array \in Arrays
<1>1. s.array \in Nat /\ s.from \in Nat /\ s.len \in Nat /\ End(s) \in Nat
  BY DEF WindowOf, Slices, End
<1>2. CASE s = Slice0
  BY <1>1, <1>2 DEF Slice0, End
<1>3. CASE s # Slice0
  <2>1. s.array \in Arrays /\ End(s) <= Len(mem[s.array])
    BY <1>3 DEF WindowOf
  <2>2. s.array # 0
    BY <2>1, Constants
  <2> QED
    BY <1>1, <2>1, <2>2, Zenon
<1> QED
  BY <1>2, <1>3, Zenon

\* What a slice shows.
LEMMA ReadFacts ==
  ASSUME NEW mem \in Memories, NEW s, WindowOf(mem, s)
  PROVE  /\ Read(mem, s) \in Seq(Nat) /\ Len(Read(mem, s)) = s.len
         /\ \A i \in 1 .. s.len : Read(mem, s)[i] = mem[s.array][s.from + i]
<1>1. /\ s.array \in Nat /\ s.from \in Nat /\ s.len \in Nat
      /\ s.array # 0 => s.array \in Arrays /\ s.from + s.len <= Len(mem[s.array])
      /\ s.array = 0 => s.len = 0
  BY SliceFields, Zenon DEF End
<1>2. CASE s.array = 0
  <2>1. Read(mem, s) = <<>>
    BY <1>2 DEF Read
  <2> QED
    BY <1>1, <1>2, <2>1
<1>3. CASE s.array # 0
  <2>1. PICK q \in Seq(Nat) : q = mem[s.array]
    BY <1>1, <1>3 DEF Memories
  <2>2. PICK f \in Nat, n \in Nat : f = s.from /\ n = s.len
    BY <1>1, Zenon
  <2>3. f + n <= Len(q)
    BY <1>1, <1>3, <2>1, <2>2
  <2>4. /\ SubSeq(q, f + 1, f + n) \in Seq(Nat) /\ Len(SubSeq(q, f + 1, f + n)) = n
        /\ \A i \in 1 .. n : SubSeq(q, f + 1, f + n)[i] = q[f + i]
    BY <2>3, PartFacts
  <2>5. Read(mem, s) = SubSeq(q, f + 1, f + n)
    BY <1>3, <2>1, <2>2, Zenon DEF Read
  <2> QED
    BY <2>1, <2>2, <2>4, <2>5, Zenon
<1> QED
  BY <1>2, <1>3, Zenon

\* A slice shows the same as long as its slots are not written.
LEMMA KeptIfNotWritten ==
  ASSUME NEW mem \in Memories, NEW mem2 \in Memories, NEW s, WindowOf(mem, s),
         s.array # 0 =>
           /\ Len(mem2[s.array]) = Len(mem[s.array])
           /\ \A i \in 1 .. End(s) : mem2[s.array][i] = mem[s.array][i]
  PROVE  Kept(mem, mem2, s)
<1>1. /\ s.array \in Nat /\ s.from \in Nat /\ s.len \in Nat
      /\ s.array # 0 => s.array \in Arrays /\ End(s) <= Len(mem[s.array])
      /\ s.array = 0 => s = Slice0
  BY SliceFields
<1>2. CASE s.array = 0
  <2>1. Read(mem2, s) = Read(mem, s)
    BY <1>2 DEF Read
  <2> QED
    BY <1>1, <1>2, <2>1, Zenon DEF WindowOf, Kept
<1>3. CASE s.array # 0
  <2>1. WindowOf(mem2, s)
    BY <1>1, <1>3, Zenon DEF WindowOf
  <2>2. /\ Read(mem, s) \in Seq(Nat) /\ Len(Read(mem, s)) = s.len
        /\ \A i \in 1 .. s.len : Read(mem, s)[i] = mem[s.array][s.from + i]
    BY ReadFacts, Zenon
  <2>3. /\ Read(mem2, s) \in Seq(Nat) /\ Len(Read(mem2, s)) = s.len
        /\ \A i \in 1 .. s.len : Read(mem2, s)[i] = mem2[s.array][s.from + i]
    BY <2>1, ReadFacts, Zenon
  <2>4. ASSUME NEW i \in 1 .. s.len PROVE Read(mem2, s)[i] = Read(mem, s)[i]
    <3>1. s.from + i \in 1 .. End(s)
      BY <1>1 DEF End
    <3> QED
      BY <1>3, <2>2, <2>3, <3>1, Zenon
  <2>5. Read(mem2, s) = Read(mem, s)
    BY <2>2, <2>3, <2>4
  <2> QED
    BY <2>1, <2>5, Zenon DEF Kept
<1> QED
  BY <1>2, <1>3, Zenon

\* s[lo:hi] shows that part of s, on the same array.
SubSliceOK(mem, s, lo, hi, r) ==
  /\ WindowOf(mem, r) /\ r.array = s.array /\ r.len = hi - lo /\ End(r) = s.from + hi
  /\ Behind(r, s)
  /\ hi = s.len => End(r) = End(s)
  /\ Read(mem, r) = SubSeq(Read(mem, s), lo + 1, hi)

LEMMA SubSliceFacts ==
  ASSUME NEW mem \in Memories, NEW s, WindowOf(mem, s), s.array # 0,
         NEW lo \in Nat, NEW hi \in Nat, lo <= hi, hi <= s.len
  PROVE  SubSliceOK(mem, s, lo, hi, SubSlice(s, lo, hi))
<1> SUFFICES ASSUME NEW r, r = SubSlice(s, lo, hi)
             PROVE  SubSliceOK(mem, s, lo, hi, r)
  OBVIOUS
<1> USE DEF SubSliceOK
<1>1. /\ s.array \in Nat /\ s.from \in Nat /\ s.len \in Nat
      /\ s.array \in Arrays /\ End(s) <= Len(mem[s.array])
  BY SliceFields, Zenon
<1>2. r = [array |-> s.array, from |-> s.from + lo, len |-> hi - lo]
  <2>1. s = [array |-> s.array, from |-> s.from, len |-> s.len]
    BY DEF WindowOf, Slices
  <2> QED
    BY <2>1 DEF SubSlice
<1>3. r.array = s.array /\ r.from = s.from + lo /\ r.len = hi - lo
  BY <1>2
<1>4. r \in Slices
  BY <1>1, <1>2 DEF Slices
<1>5. End(r) = s.from + hi /\ End(s) = s.from + s.len
  BY <1>1, <1>3 DEF End
<1>6. End(r) <= End(s) /\ (hi = s.len => End(r) = End(s))
  BY <1>1, <1>5
<1>7. Len(mem[s.array]) \in Nat /\ End(s) \in Nat /\ End(r) \in Nat
  BY <1>1, <1>5 DEF Memories
<1>8. WindowOf(mem, r)
  <2>1. End(r) <= Len(mem[s.array])
    BY <1>1, <1>6, <1>7
  <2> QED
    BY <1>1, <1>3, <1>4, <2>1, Zenon DEF WindowOf
<1>9. Read(mem, r) = SubSeq(Read(mem, s), lo + 1, hi)
  <2>1. /\ Read(mem, s) \in Seq(Nat) /\ Len(Read(mem, s)) = s.len
        /\ \A i \in 1 .. s.len : Read(mem, s)[i] = mem[s.array][s.from + i]
        /\ Read(mem, r) \in Seq(Nat) /\ Len(Read(mem, r)) = r.len
        /\ \A i \in 1 .. r.len : Read(mem, r)[i] = mem[r.array][r.from + i]
    BY <1>8, ReadFacts, Zenon
  <2>2. PICK n \in Nat : n = hi - lo
    OBVIOUS
  <2>3. lo + n = hi
    BY <2>2
  <2>4. /\ SubSeq(Read(mem, s), lo + 1, lo + n) \in Seq(Nat)
        /\ Len(SubSeq(Read(mem, s), lo + 1, lo + n)) = n
        /\ \A i \in 1 .. n : SubSeq(Read(mem, s), lo + 1, lo + n)[i] = Read(mem, s)[lo + i]
    BY <2>1, <2>3, PartFacts
  <2>5. ASSUME NEW i \in 1 .. n
        PROVE  Read(mem, r)[i] = Read(mem, s)[lo + i]
    <3>1. lo + i \in 1 .. s.len /\ s.from + (lo + i) = (s.from + lo) + i
      BY <1>1, <2>3
    <3>2. Read(mem, s)[lo + i] = mem[s.array][(s.from + lo) + i]
      BY <2>1, <3>1
    <3>3. Read(mem, r)[i] = mem[r.array][r.from + i]
      BY <1>3, <2>1, <2>2
    <3> QED
      BY <1>3, <3>2, <3>3, Zenon
  <2> DEFINE p == SubSeq(Read(mem, s), lo + 1, lo + n)
             q == Read(mem, r)
  <2>6. Len(p) = Len(q) /\ \A i \in 1 .. Len(p) : p[i] = q[i]
    BY <1>3, <2>1, <2>2, <2>4, <2>5, Zenon
  <2>7. p \in Seq(Nat) /\ q \in Seq(Nat)
    BY <2>1, <2>4, Zenon
  <2> HIDE DEF p, q
  <2>8. p = q
    BY <2>6, <2>7, SeqEqual
  <2> QED
    BY <2>3, <2>8, Zenon DEF p, q
<1> QED
  BY <1>3, <1>5, <1>6, <1>8, <1>9, Zenon DEF Behind
-----------------------------------------------------------------------------
(* append and make. *)

\* Whoever does not look past the end of s, nor at a, sees what he saw, and does
\* not look past the end of the new slice.
Undisturbed(mem, s, a, r) ==
  \A h : WindowOf(mem, h) /\ h.array # a /\ Behind(h, s) =>
           Kept(mem, r.memory, h) /\ Behind(h, r.slice)

\* An array replaced: the others are as they were.
LEMMA OtherArrays ==
  ASSUME NEW mem \in Memories, NEW mem2 \in Memories, NEW a,
         \A c \in Arrays : c # a => mem2[c] = mem[c]
  PROVE  \A h : WindowOf(mem, h) /\ h.array # a => Kept(mem, mem2, h)
<1>4. ASSUME NEW h, WindowOf(mem, h), h.array # a
      PROVE  Kept(mem, mem2, h)
  <2>1. h.array = 0 \/ h.array \in Arrays
    BY <1>4, SliceFields
  <2>2. CASE h.array = 0
    BY <1>4, <2>2, KeptIfNotWritten
  <2>3. CASE h.array \in Arrays
    <3>1. mem2[h.array] = mem[h.array]
      BY <1>4, <2>3
    <3> QED
      BY <1>4, <3>1, KeptIfNotWritten
  <2> QED
    BY <2>1, <2>2, <2>3
<1> QED
  BY <1>4, Zenon

\* An array is replaced.
Put(mem, a, q) == [mem EXCEPT ![a] = q]
LEMMA Replaced ==
  ASSUME NEW mem \in Memories, NEW a \in Arrays, NEW q \in Seq(Nat)
  PROVE  /\ Put(mem, a, q) \in Memories /\ Put(mem, a, q)[a] = q
         /\ \A c \in Arrays : c # a => Put(mem, a, q)[c] = mem[c]
<1> DEFINE S == Seq(Nat)
           mem2 == Put(mem, a, q)
<1>1. mem \in [Arrays -> S] /\ q \in S
  BY DEF Memories
<1> HIDE DEF S
<1>2. mem2 \in [Arrays -> S] /\ mem2[a] = q /\ \A c \in Arrays : c # a => mem2[c] = mem[c]
  BY <1>1 DEF Put
<1> QED
  BY <1>2, Zenon DEF S, Memories

LEMMA AllocateFacts ==
  ASSUME NEW mem \in Memories, NEW a \in Arrays, NEW xs \in Seq(Nat), NEW spare \in Nat,
         NEW r, r = Allocate(mem, a, xs, spare)
  PROVE  /\ r.memory \in Memories /\ WindowOf(r.memory, r.slice)
         /\ Read(r.memory, r.slice) = xs
         /\ r.slice.array \in {0, a}
         /\ xs # <<>> => r.slice.array = a
         /\ \A h : WindowOf(mem, h) /\ h.array # a =>
                     Kept(mem, r.memory, h) /\ Behind(h, r.slice)
<1> DEFINE z == Zeros(spare)
           q == xs \o z
           n == Len(xs)
<1>1. z \in Seq(Nat) /\ Len(z) = spare
  BY DEF Zeros
<1> HIDE DEF z
<1>2. /\ q \in Seq(Nat) /\ Len(q) = n + spare /\ n \in Nat
      /\ \A i \in 1 .. n : q[i] = xs[i]
  BY <1>1, ConcatFacts
<1>3. r.memory = [mem EXCEPT ![a] = q]
  BY Zenon DEF Allocate, z
<1>4. r.slice = IF n + spare = 0 THEN Slice0 ELSE [array |-> a, from |-> 0, len |-> n]
  BY Zenon DEF Allocate
<1> DEFINE mem2 == r.memory
           s == r.slice
<1> HIDE DEF q, n
<1>5. /\ mem2 \in Memories /\ mem2[a] = q
      /\ \A h : WindowOf(mem, h) /\ h.array # a => Kept(mem, mem2, h)
  <2>1. mem2 \in Memories /\ mem2[a] = q /\ \A c \in Arrays : c # a => mem2[c] = mem[c]
    <3> HIDE DEF mem2
    <3>1. mem2 = Put(mem, a, q) /\ q \in Seq(Nat)
      BY <1>2, <1>3, Zenon DEF mem2, Put
    <3> QED
      BY <3>1, Replaced
  <2> HIDE DEF mem2
  <2> QED
    BY <2>1, OtherArrays
<1>6. a \in Nat /\ a # 0
  BY Constants
<1>7. CASE n + spare = 0
  <2>1. s = Slice0
    BY <1>4, <1>7
  <2>2. xs = <<>>
    BY <1>2, <1>7 DEF n
  <2>3. WindowOf(mem2, s) /\ s.array = 0 /\ Read(mem2, s) = <<>>
    BY <2>1 DEF WindowOf, Slice0, Slices, Read
  <2> HIDE DEF mem2, s
  <2>4. ASSUME NEW h, WindowOf(mem, h) PROVE Behind(h, s)
    <3>1. h.array = 0 => End(h) = 0
      BY <2>4, SliceFields
    <3>2. End(s) = 0
      BY <2>1 DEF Slice0, End
    <3> QED
      BY <2>3, <3>1, <3>2 DEF Behind
  <2> QED
    BY <1>5, <2>2, <2>3, <2>4, Zenon DEF mem2, s
<1>8. CASE n + spare # 0
  <2>1. s = [array |-> a, from |-> 0, len |-> n]
    BY <1>4, <1>8
  <2> HIDE DEF s, mem2
  <2>2. s.array = a /\ s.from = 0 /\ s.len = n /\ s \in Slices /\ End(s) = n
    BY <1>2, <1>6, <2>1 DEF Slices, End
  <2>3. WindowOf(mem2, s)
    <3>1. n <= Len(q)
      BY <1>2
    <3> QED
      BY <1>5, <2>2, <3>1, Zenon DEF WindowOf
  <2>4. /\ Read(mem2, s) \in Seq(Nat) /\ Len(Read(mem2, s)) = n
        /\ \A i \in 1 .. n : Read(mem2, s)[i] = mem2[a][0 + i]
    BY <1>5, <2>2, <2>3, ReadFacts
  <2>5. Read(mem2, s) = xs
    <3>1. \A i \in 1 .. n : Read(mem2, s)[i] = xs[i]
      <4>1. \A i \in 1 .. n : 0 + i = i
        BY <1>2
      <4> QED
        BY <1>2, <1>5, <2>4, <4>1, Zenon
    <3> QED
      BY <2>4, <3>1, SeqEqual DEF n
  <2>6. ASSUME NEW h, h.array # a PROVE Behind(h, s)
    BY <2>2, <2>6 DEF Behind
  <2> QED
    BY <1>5, <2>2, <2>3, <2>5, <2>6, Zenon DEF mem2, s
<1> QED
  BY <1>7, <1>8

\* What append in place makes of an array.
Written(m, f, n, xs) ==
  [i \in 1 .. Len(m) |-> IF i > f + n /\ i <= f + n + Len(xs) THEN xs[i - f - n] ELSE m[i]]

LEMMA WriteBehind ==
  ASSUME NEW m \in Seq(Nat), NEW f \in Nat, NEW n \in Nat, NEW xs \in Seq(Nat),
         f + n + Len(xs) <= Len(m)
  PROVE  /\ Written(m, f, n, xs) \in Seq(Nat) /\ Len(Written(m, f, n, xs)) = Len(m)
         /\ \A i \in 1 .. f + n : Written(m, f, n, xs)[i] = m[i]
         /\ SubSeq(Written(m, f, n, xs), f + 1, f + (n + Len(xs))) =
              SubSeq(m, f + 1, f + n) \o xs
<1> DEFINE k == Len(xs)
           l == Len(m)
           q == Written(m, f, n, xs)
<1>1. k \in Nat /\ l \in Nat /\ f + n + k <= l
  OBVIOUS
<1>2. \A i \in 1 .. k : xs[i] \in Nat
  OBVIOUS
<1>3. \A i \in 1 .. l : m[i] \in Nat
  OBVIOUS
<1>4. q = [i \in 1 .. l |-> IF i > f + n /\ i <= f + n + k THEN xs[i - f - n] ELSE m[i]]
  BY Zenon DEF Written
<1> HIDE DEF k, l, q
<1>5. ASSUME NEW i \in 1 .. l
      PROVE  (IF i > f + n /\ i <= f + n + k THEN xs[i - f - n] ELSE m[i]) \in Nat
  <2>1. i > f + n /\ i <= f + n + k => i - f - n \in 1 .. k
    BY <1>1
  <2> QED
    BY <1>2, <1>3, <2>1
<1>6. q \in Seq(Nat) /\ Len(q) = l
  BY <1>1, <1>4, <1>5
<1>7. ASSUME NEW i \in 1 .. f + n PROVE q[i] = m[i]
  <2>1. i \in 1 .. l /\ ~(i > f + n)
    BY <1>1
  <2> QED
    BY <1>4, <2>1
<1>8. ASSUME NEW i \in 1 .. k PROVE q[f + n + i] = xs[i]
  <2>1. /\ f + n + i \in 1 .. l /\ f + n + i > f + n /\ f + n + i <= f + n + k
        /\ (f + n + i) - f - n = i
    BY <1>1
  <2> QED
    BY <1>4, <2>1
<1> DEFINE part == SubSeq(q, f + 1, f + (n + k))
           old == SubSeq(m, f + 1, f + n)
           y == old \o xs
<1>9. /\ part \in Seq(Nat) /\ Len(part) = n + k
      /\ \A i \in 1 .. n + k : part[i] = q[f + i]
  <2>1. n + k \in Nat /\ f + (n + k) <= Len(q)
    BY <1>1, <1>6
  <2> QED
    BY <1>6, <2>1, PartFacts
<1>10. /\ old \in Seq(Nat) /\ Len(old) = n
       /\ \A i \in 1 .. n : old[i] = m[f + i]
  <2>1. f + n <= Len(m)
    BY <1>1 DEF l
  <2> QED
    BY <2>1, PartFacts
<1> HIDE DEF part, old
<1>11. /\ y \in Seq(Nat) /\ Len(y) = n + k
       /\ \A i \in 1 .. n : y[i] = old[i]
       /\ \A i \in 1 .. k : y[n + i] = xs[i]
  BY <1>10, ConcatFacts DEF k
<1> HIDE DEF y
<1>12. ASSUME NEW i \in 1 .. n + k PROVE part[i] = y[i]
  <2>1. CASE i <= n
    <3>1. i \in 1 .. n /\ f + i \in 1 .. f + n
      BY <1>1, <2>1
    <3>2. y[i] = m[f + i]
      BY <1>10, <1>11, <3>1
    <3>3. q[f + i] = m[f + i]
      BY <1>7, <3>1
    <3> QED
      BY <1>9, <3>2, <3>3
  <2>2. CASE i > n
    <3>1. PICK j \in 1 .. k : i = n + j
      <4>1. i - n \in 1 .. k /\ i = n + (i - n)
        BY <1>1, <2>2
      <4> QED
        BY <4>1
    <3>2. f + i = f + n + j
      BY <1>1, <3>1
    <3>3. y[i] = xs[j] /\ q[f + i] = xs[j]
      BY <1>8, <1>11, <3>1, <3>2
    <3> QED
      BY <1>9, <3>3
  <2> QED
    BY <1>1, <2>1, <2>2
<1>13. part = y
  <2>1. Len(part) = Len(y) /\ \A i \in 1 .. Len(part) : part[i] = y[i]
    BY <1>9, <1>11, <1>12, Zenon
  <2> QED
    BY <1>9, <1>11, <2>1, SeqEqual
<1> QED
  BY <1>6, <1>7, <1>13, Zenon DEF k, l, q, part, old, y

\* append, in place or on a new array.
AppendOK(mem, s, xs, a, r) ==
  /\ r.memory \in Memories /\ WindowOf(r.memory, r.slice)
  /\ Read(r.memory, r.slice) = Read(mem, s) \o xs
  /\ r.slice.array \in {0, a, s.array}
  /\ s.array # 0 => r.slice.array # 0
  /\ Undisturbed(mem, s, a, r)

LEMMA GoAppendFacts ==
  ASSUME NEW mem \in Memories, NEW s, WindowOf(mem, s), NEW a \in Arrays, s.array # a,
         NEW xs \in Seq(Nat), NEW spare \in Nat
  PROVE  AppendOK(mem, s, xs, a, GoAppend(mem, s, xs, a, spare))
<1> SUFFICES ASSUME NEW r, r = GoAppend(mem, s, xs, a, spare)
             PROVE  AppendOK(mem, s, xs, a, r)
  OBVIOUS
<1> USE DEF AppendOK
<1> DEFINE k == Len(xs)
           old == Read(mem, s)
           mem2 == r.memory
           v == r.slice
<1>1. /\ s.array \in Nat /\ s.from \in Nat /\ s.len \in Nat
      /\ s.array # 0 => s.array \in Arrays /\ End(s) <= Len(mem[s.array])
      /\ s.array = 0 => s = Slice0 /\ s.len = 0
  BY SliceFields
<1>2. old \in Seq(Nat) /\ Len(old) = s.len /\ k \in Nat
  BY ReadFacts
<1> HIDE DEF k, old
<1>3. CASE s.len + k > Capacity(mem, s)
  <2> DEFINE ys == old \o xs
  <2>1. r = Allocate(mem, a, ys, spare)
    BY <1>3, Zenon DEF GoAppend, k, old
  <2>2. ys \in Seq(Nat) /\ Len(ys) = s.len + k
    <3>1. PICK p \in Seq(Nat) : p = old
      BY <1>2, Zenon
    <3>2. p \o xs \in Seq(Nat) /\ Len(p \o xs) = Len(p) + Len(xs)
      BY ConcatFacts
    <3> QED
      BY <1>2, <3>1, <3>2, Zenon DEF k
  <2> HIDE DEF ys
  <2>3. /\ mem2 \in Memories /\ WindowOf(mem2, v)
        /\ Read(mem2, v) = ys
        /\ v.array \in {0, a}
        /\ ys # <<>> => v.array = a
        /\ \A h : WindowOf(mem, h) /\ h.array # a => Kept(mem, mem2, h) /\ Behind(h, v)
    BY <2>1, <2>2, AllocateFacts
  <2>4. s.array # 0 => v.array # 0
    <3>1. ASSUME s.array # 0 PROVE Len(ys) # 0
      <4>1. PICK q \in Seq(Nat) : q = mem[s.array]
        BY <1>1, <3>1 DEF Memories
      <4>2. Capacity(mem, s) = Len(q) - s.from
        BY <3>1, <4>1 DEF Capacity
      <4>3. s.from + s.len <= Len(q) /\ Len(q) \in Nat
        BY <1>1, <3>1, <4>1 DEF End
      <4> QED
        BY <1>1, <1>2, <1>3, <2>2, <4>2, <4>3
    <3>2. Len(ys) # 0 => ys # <<>>
      BY <2>2
    <3>3. a # 0
      BY Constants
    <3> QED
      BY <2>3, <3>1, <3>2, <3>3, Zenon
  <2>5. v.array \in {0, a, s.array}
    BY <2>3, Zenon
  <2> QED
    BY <2>3, <2>4, <2>5, Zenon DEF Undisturbed, ys, old
<1>4. CASE ~(s.len + k > Capacity(mem, s)) /\ s.array = 0
  <2>1. s.len = 0 /\ k = 0 /\ s = Slice0
    BY <1>1, <1>2, <1>4 DEF Capacity
  <2>2. mem2 = mem /\ v = [s EXCEPT !.len = @ + k]
    BY <1>4 DEF GoAppend, k
  <2>3. v = s
    BY <2>1, <2>2 DEF Slice0
  <2>4. old = <<>> /\ xs = <<>>
    BY <1>2, <2>1 DEF k
  <2>5. old \o xs = old
    BY <2>4
  <2> QED
    BY <1>4, <2>2, <2>3, <2>5, Zenon DEF Undisturbed, Kept, old
<1>5. CASE ~(s.len + k > Capacity(mem, s)) /\ s.array # 0
  <2>1. PICK m \in Seq(Nat) : m = mem[s.array]
    BY <1>1, <1>5 DEF Memories
  <2>2. PICK f \in Nat, n \in Nat : f = s.from /\ n = s.len
    BY <1>1, Zenon
  <2>3. End(s) = f + n /\ f + n \in Nat
    BY <2>2 DEF End
  <2>4. Capacity(mem, s) = Len(m) - f /\ Len(m) \in Nat
    BY <1>5, <2>1, <2>2 DEF Capacity
  <2>5. f + n + k <= Len(m)
    BY <1>2, <1>5, <2>2, <2>4
  <2> DEFINE q == [i \in 1 .. Len(m) |-> IF i > f + n /\ i <= f + n + k
                                           THEN xs[i - f - n] ELSE m[i]]
  <2>6. mem2 = [mem EXCEPT ![s.array] = q] /\ v = [s EXCEPT !.len = @ + k]
    <3>1. /\ r.memory = [mem EXCEPT ![s.array] =
                           [i \in 1 .. Len(@) |->
                              IF i > s.from + s.len /\ i <= s.from + s.len + k
                                THEN xs[i - s.from - s.len] ELSE @[i]]]
          /\ r.slice = [s EXCEPT !.len = @ + k]
      BY <1>5, Zenon DEF GoAppend, k
    <3> QED
      BY <2>1, <2>2, <3>1
  <2>7. /\ q \in Seq(Nat) /\ Len(q) = Len(m)
        /\ \A i \in 1 .. f + n : q[i] = m[i]
        /\ SubSeq(q, f + 1, f + (n + k)) = SubSeq(m, f + 1, f + n) \o xs
    <3>1. f + n + Len(xs) <= Len(m)
      BY <2>5, Zenon DEF k
    <3>2. q = Written(m, f, n, xs)
      BY Zenon DEF k, Written
    <3> HIDE DEF q
    <3>3. /\ Written(m, f, n, xs) \in Seq(Nat) /\ Len(Written(m, f, n, xs)) = Len(m)
          /\ \A i \in 1 .. f + n : Written(m, f, n, xs)[i] = m[i]
          /\ SubSeq(Written(m, f, n, xs), f + 1, f + (n + Len(xs))) =
               SubSeq(m, f + 1, f + n) \o xs
      BY <3>1, WriteBehind, Zenon
    <3> QED
      BY <3>2, <3>3, Zenon DEF k
  <2> HIDE DEF q, mem2, v
  <2>8. /\ mem2 \in Memories /\ mem2[s.array] = q
        /\ \A h : WindowOf(mem, h) /\ h.array # s.array => Kept(mem, mem2, h)
    <3>1. s.array \in Arrays
      BY <1>1, <1>5, Zenon
    <3>2. /\ mem2 \in Memories /\ mem2[s.array] = q
          /\ \A c \in Arrays : c # s.array => mem2[c] = mem[c]
      <4>1. mem2 = Put(mem, s.array, q)
        BY <2>6, Zenon DEF Put
      <4> QED
        <5>1. q \in Seq(Nat)
          BY <2>7, Zenon
        <5>2. /\ Put(mem, s.array, q) \in Memories /\ Put(mem, s.array, q)[s.array] = q
              /\ \A c \in Arrays : c # s.array => Put(mem, s.array, q)[c] = mem[c]
          <6>1. PICK b \in Arrays : b = s.array
            BY <3>1, Zenon
          <6>2. /\ Put(mem, b, q) \in Memories /\ Put(mem, b, q)[b] = q
                /\ \A c \in Arrays : c # b => Put(mem, b, q)[c] = mem[c]
            BY <5>1, Replaced, Zenon
          <6> QED
            BY <6>1, <6>2, Zenon
        <5> QED
          BY <4>1, <5>2, Zenon
    <3> QED
      BY <3>2, OtherArrays, Zenon
  <2>9. /\ v \in Slices /\ v.array = s.array /\ v.from = f /\ v.len = n + k
    <3>1. s \in Slices
      BY DEF WindowOf
    <3>2. PICK len \in Nat : len = n + k
      BY <1>2
    <3>3. v = [s EXCEPT !.len = len]
      BY <2>2, <2>6, <3>2, Zenon
    <3>4. /\ v \in Slices /\ v.array = s.array /\ v.from = s.from /\ v.len = len
      BY <3>1, <3>3 DEF Slices
    <3> QED
      BY <2>2, <3>2, <3>4, Zenon
  <2>10. End(v) = f + n + k /\ f + n <= End(v)
    <3>1. End(v) = f + (n + k)
      BY <2>9, Zenon DEF End
    <3>2. f + (n + k) = f + n + k /\ f + n <= f + n + k
      BY <1>2
    <3> QED
      BY <3>1, <3>2, Zenon
  <2>11. WindowOf(mem2, v)
    BY <1>1, <1>5, <2>5, <2>7, <2>8, <2>9, <2>10, Zenon DEF WindowOf
  <2>12. Read(mem2, v) = old \o xs
    <3>1. Read(mem2, v) = SubSeq(q, f + 1, f + (n + k))
      BY <1>5, <2>8, <2>9, Zenon DEF Read
    <3>2. old = SubSeq(m, f + 1, f + n)
      BY <1>5, <2>1, <2>2, Zenon DEF Read, old
    <3> QED
      BY <2>7, <3>1, <3>2, Zenon
  <2>13. ASSUME NEW h, WindowOf(mem, h), Behind(h, s)
         PROVE  Kept(mem, mem2, h) /\ Behind(h, v)
    <3>1. CASE h.array # s.array
      BY <2>8, <2>9, <2>13, <3>1, Zenon DEF Behind
    <3>2. CASE h.array = s.array
      <4>1. PICK e \in Nat : e = End(h) /\ e <= f + n
        BY <2>3, <2>13, <3>2, SliceFields DEF Behind
      <4>2. e <= f + n + k
        BY <1>2, <4>1
      <4>3. \A i \in 1 .. e : i \in 1 .. f + n
        BY <4>1
      <4>4. /\ Len(mem2[h.array]) = Len(mem[h.array])
            /\ \A i \in 1 .. End(h) : mem2[h.array][i] = mem[h.array][i]
        BY <2>1, <2>7, <2>8, <3>2, <4>1, <4>3, Zenon
      <4>5. Kept(mem, mem2, h)
        BY <2>8, <2>13, <4>4, KeptIfNotWritten, Zenon
      <4> QED
        BY <2>10, <4>1, <4>2, <4>5, Zenon DEF Behind
    <3> QED
      BY <3>1, <3>2
  <2> QED
    BY <1>5, <2>8, <2>9, <2>11, <2>12, <2>13, Zenon DEF Undisturbed, mem2, v, old
<1> QED
  BY <1>3, <1>4, <1>5, Zenon
-----------------------------------------------------------------------------
(* The slices of one state. *)

Held(e, u, b, hs) == {e, u, b.slice} \cup {h.slice : h \in hs}

\* Those that are appended to reach furthest on their arrays, and nobody sees
\* anything but what he was given.
MemoryOK(mem, e, u, b, hs) ==
  /\ mem \in Memories
  /\ \A s \in Held(e, u, b, hs) : WindowOf(mem, s) /\ Behind(s, e) /\ Behind(s, u)
  /\ e.array # 0 /\ e.array # u.array
  /\ \A h \in hs \cup {b} : Read(mem, h.slice) = h.value

\* Slices on different arrays, and nil before any other.
LEMMA BehindFacts ==
  /\ \A h, s : h.array # s.array => Behind(h, s)
  /\ \A mem, h, s : WindowOf(mem, h) /\ WindowOf(mem, s) /\ h.array = 0 => Behind(h, s)
  /\ \A mem, s : WindowOf(mem, s) => Behind(s, s)
<1>1. ASSUME NEW h, NEW s, h.array # s.array PROVE Behind(h, s)
  BY <1>1 DEF Behind
<1>2. ASSUME NEW mem, NEW h, NEW s, WindowOf(mem, h), WindowOf(mem, s), h.array = 0
      PROVE  Behind(h, s)
  <2>1. End(h) = 0 /\ End(s) \in Nat
    BY <1>2, SliceFields
  <2> QED
    BY <2>1 DEF Behind
<1>3. ASSUME NEW mem, NEW s, WindowOf(mem, s) PROVE Behind(s, s)
  <2>1. End(s) \in Nat
    BY <1>3, SliceFields
  <2> QED
    BY <2>1 DEF Behind
<1> QED
  BY <1>1, <1>2, <1>3, Zenon

LEMMA NilIsWindow == \A mem : WindowOf(mem, Slice0) /\ Read(mem, Slice0) = <<>>
BY DEF WindowOf, Slice0, Slices, Read

LEMMA HeldFacts ==
  ASSUME NEW mem, NEW e, NEW u, NEW b, NEW hs, MemoryOK(mem, e, u, b, hs)
  PROVE  /\ mem \in Memories
         /\ \A s \in Held(e, u, b, hs) : WindowOf(mem, s) /\ Behind(s, e) /\ Behind(s, u)
         /\ WindowOf(mem, e) /\ WindowOf(mem, u) /\ WindowOf(mem, b.slice)
         /\ Behind(b.slice, e) /\ Behind(b.slice, u)
         /\ e.array # 0 /\ e.array # u.array
         /\ \A h \in hs : h.slice \in Held(e, u, b, hs) /\ Read(mem, h.slice) = h.value
         /\ Read(mem, b.slice) = b.value
<1>1. e \in Held(e, u, b, hs) /\ u \in Held(e, u, b, hs) /\ b.slice \in Held(e, u, b, hs)
  BY Zenon DEF Held
<1>2. \A h \in hs : h.slice \in Held(e, u, b, hs)
  BY Zenon DEF Held
<1> QED
  BY <1>1, <1>2, Zenon DEF MemoryOK

\* Another slice takes the place of unstable.entries.
LEMMA NewUnstable ==
  ASSUME NEW mem, NEW e, NEW u, NEW b, NEW hs, MemoryOK(mem, e, u, b, hs),
         NEW mem2 \in Memories, NEW u2, WindowOf(mem2, u2), u2.array # e.array,
         \A s \in Held(e, u, b, hs) : Kept(mem, mem2, s) /\ Behind(s, u2)
  PROVE  MemoryOK(mem2, e, u2, b, hs) /\ Read(mem2, e) = Read(mem, e)
<1>1. /\ \A s \in Held(e, u, b, hs) : WindowOf(mem, s) /\ Behind(s, e) /\ Behind(s, u)
      /\ e.array # 0
      /\ \A h \in hs : h.slice \in Held(e, u, b, hs) /\ Read(mem, h.slice) = h.value
      /\ Read(mem, b.slice) = b.value
  BY HeldFacts
<1>2. e \in Held(e, u, b, hs) /\ b.slice \in Held(e, u, b, hs)
  BY Zenon DEF Held
<1>3. ASSUME NEW s \in Held(e, u2, b, hs)
      PROVE  WindowOf(mem2, s) /\ Behind(s, e) /\ Behind(s, u2)
  <2>1. CASE s = u2
    BY <2>1, BehindFacts, Zenon
  <2>2. CASE s # u2
    <3>1. s \in Held(e, u, b, hs)
      BY <2>2 DEF Held
    <3> QED
      BY <1>1, <3>1, Zenon DEF Kept
  <2> QED
    BY <2>1, <2>2, Zenon
<1>4. ASSUME NEW h \in hs \cup {b} PROVE Read(mem2, h.slice) = h.value
  <2>1. h.slice \in Held(e, u, b, hs) /\ Read(mem, h.slice) = h.value
    BY <1>1, <1>2, <1>4
  <2> QED
    BY <2>1, Zenon DEF Kept
<1>5. Read(mem2, e) = Read(mem, e)
  BY <1>2, Zenon DEF Kept
<1> QED
  BY <1>1, <1>3, <1>4, <1>5, Zenon DEF MemoryOK

\* Another slice takes the place of ms.ents.
LEMMA NewEnts ==
  ASSUME NEW mem, NEW e, NEW u, NEW b, NEW hs, MemoryOK(mem, e, u, b, hs),
         NEW mem2 \in Memories, NEW e2, WindowOf(mem2, e2), e2.array # 0, e2.array # u.array,
         \A s \in Held(e, u, b, hs) : Kept(mem, mem2, s) /\ Behind(s, e2)
  PROVE  MemoryOK(mem2, e2, u, b, hs) /\ Read(mem2, u) = Read(mem, u)
<1>1. /\ \A s \in Held(e, u, b, hs) : WindowOf(mem, s) /\ Behind(s, e) /\ Behind(s, u)
      /\ \A h \in hs : h.slice \in Held(e, u, b, hs) /\ Read(mem, h.slice) = h.value
      /\ Read(mem, b.slice) = b.value
  BY HeldFacts
<1>2. u \in Held(e, u, b, hs) /\ b.slice \in Held(e, u, b, hs)
  BY Zenon DEF Held
<1>3. ASSUME NEW s \in Held(e2, u, b, hs)
      PROVE  WindowOf(mem2, s) /\ Behind(s, e2) /\ Behind(s, u)
  <2>1. CASE s = e2
    BY <2>1, BehindFacts, Zenon
  <2>2. CASE s # e2
    <3>1. s \in Held(e, u, b, hs)
      BY <2>2 DEF Held
    <3> QED
      BY <1>1, <3>1, Zenon DEF Kept
  <2> QED
    BY <2>1, <2>2, Zenon
<1>4. ASSUME NEW h \in hs \cup {b} PROVE Read(mem2, h.slice) = h.value
  <2>1. h.slice \in Held(e, u, b, hs) /\ Read(mem, h.slice) = h.value
    BY <1>1, <1>2, <1>4
  <2> QED
    BY <2>1, Zenon DEF Kept
<1>5. Read(mem2, u) = Read(mem, u)
  BY <1>2, Zenon DEF Kept
<1> QED
  BY <1>3, <1>4, <1>5, Zenon DEF MemoryOK

\* Somebody is given a slice that ends before the two that are appended to, or
\* lets go of one.
LEMMA HandedOver ==
  ASSUME NEW mem, NEW e, NEW u, NEW b, NEW hs, MemoryOK(mem, e, u, b, hs),
         NEW hs2, NEW b2,
         \A h \in (hs2 \cup {b2}) \ (hs \cup {b}) :
           /\ WindowOf(mem, h.slice) /\ Behind(h.slice, e) /\ Behind(h.slice, u)
           /\ Read(mem, h.slice) = h.value
  PROVE  MemoryOK(mem, e, u, b2, hs2)
<1>1. /\ mem \in Memories
      /\ \A s \in Held(e, u, b, hs) : WindowOf(mem, s) /\ Behind(s, e) /\ Behind(s, u)
      /\ e.array # 0 /\ e.array # u.array
      /\ \A h \in hs \cup {b} : Read(mem, h.slice) = h.value
  BY DEF MemoryOK
<1>2. ASSUME NEW h \in hs2 \cup {b2}
      PROVE  /\ WindowOf(mem, h.slice) /\ Behind(h.slice, e) /\ Behind(h.slice, u)
             /\ Read(mem, h.slice) = h.value
  <2>1. CASE h \in hs \cup {b}
    <3>1. h.slice \in Held(e, u, b, hs)
      BY <2>1 DEF Held
    <3> QED
      BY <1>1, <2>1, <3>1, Zenon
  <2>2. CASE h \notin hs \cup {b}
    BY <2>2
  <2> QED
    BY <2>1, <2>2, Zenon
<1>3. ASSUME NEW s \in Held(e, u, b2, hs2)
      PROVE  WindowOf(mem, s) /\ Behind(s, e) /\ Behind(s, u)
  <2>1. CASE s \in {e, u}
    <3>1. s \in Held(e, u, b, hs)
      BY <2>1 DEF Held
    <3> QED
      BY <1>1, <3>1, Zenon
  <2>2. CASE s \notin {e, u}
    <3>1. PICK h \in hs2 \cup {b2} : s = h.slice
      BY <2>2 DEF Held
    <3> QED
      BY <1>2, <3>1, Zenon
  <2> QED
    BY <2>1, <2>2, Zenon
<1> QED
  BY <1>1, <1>2, <1>3, Zenon DEF MemoryOK

\* The arrays nobody holds are freed.
LEMMA SettleFacts ==
  ASSUME NEW mem, NEW e, NEW u, NEW b, NEW hs, MemoryOK(mem, e, u, b, hs),
         Settle(mem, e, u, b, hs)
  PROVE  /\ MemoryOK(memory, ents, unstable, batch, handedOut)'
         /\ Read(memory, ents)' = Read(mem, e) /\ Read(memory, unstable)' = Read(mem, u)
         /\ batch' = b
<1> DEFINE used == {e.array, u.array, b.slice.array} \cup {h.slice.array : h \in hs}
           mem2 == memory'
           S == Seq(Nat)
<1>1. /\ mem2 = [a \in Arrays |-> IF a \in used THEN mem[a] ELSE <<>>]
      /\ ents' = e /\ unstable' = u /\ batch' = b /\ handedOut' = hs
  BY DEF Settle
<1>2. mem \in [Arrays -> S] /\ <<>> \in S
  BY HeldFacts DEF Memories
<1> HIDE DEF S, used, mem2
<1>3. mem2 \in [Arrays -> S] /\ \A a \in Arrays : a \in used => mem2[a] = mem[a]
  BY <1>1, <1>2
<1>4. mem2 \in Memories
  BY <1>3, Zenon DEF S, Memories
<1>5. /\ mem \in Memories
      /\ \A s \in Held(e, u, b, hs) : WindowOf(mem, s) /\ Behind(s, e) /\ Behind(s, u)
      /\ WindowOf(mem, e) /\ WindowOf(mem, u) /\ e.array # u.array
  BY HeldFacts
<1>6. ASSUME NEW s \in Held(e, u, b, hs) PROVE Kept(mem, mem2, s)
  <2>1. s.array \in used
    BY DEF Held, used
  <2>2. s.array = 0 \/ s.array \in Arrays
    BY <1>5, SliceFields, Zenon
  <2>3. s.array # 0 => mem2[s.array] = mem[s.array]
    BY <1>3, <2>1, <2>2, Zenon
  <2> QED
    BY <1>4, <1>5, <2>3, KeptIfNotWritten
<1>7. u \in Held(e, u, b, hs)
  BY Zenon DEF Held
<1>8. MemoryOK(mem2, e, u, b, hs) /\ Read(mem2, e) = Read(mem, e)
  <2>1. WindowOf(mem2, u)
    BY <1>6, <1>7, Zenon DEF Kept
  <2> QED
    BY <1>4, <1>5, <1>6, <2>1, NewUnstable
<1>9. Read(mem2, u) = Read(mem, u)
  BY <1>6, <1>7, Zenon DEF Kept
<1> QED
  BY <1>1, <1>8, <1>9, Zenon DEF mem2
-----------------------------------------------------------------------------
(* The indexes: the storage and the log as sequences. *)

LogsOf(N, S) == [offset : N, unstable : S, committed : N, applied : N]
StoragesOf(N, S, R) == [index : N, ents : S, snap : R]
Logs == LogsOf(Nat, Seq(Nat))
Storages == StoragesOf(Nat, Seq(Nat), [index : Nat, term : Nat])

\* The batch starts among what is unstable, where the storage can go on.
BatchFits(s, l, b) ==
  /\ l.unstable # <<>> /\ b.value \in Seq(Nat) /\ b.value # <<>>
  /\ b.first \in Nat /\ l.offset <= b.first /\ b.first <= s.index + Len(s.ents)

\* The unstable part lies on the storage without a gap, and goes on from its end
\* if there is none.
IndexesOK(s, l, b) ==
  /\ s \in Storages /\ l \in Logs
  /\ s.ents # <<>>
  /\ s.index < l.offset /\ l.offset <= s.index + Len(s.ents)
  /\ l.unstable = <<>> => l.offset = s.index + Len(s.ents)
  /\ s.index <= l.committed
  /\ b # NoBatch => BatchFits(s, l, b)

LEMMA IndexFacts ==
  ASSUME NEW s, NEW l, NEW b, IndexesOK(s, l, b)
  PROVE  /\ s.index \in Nat /\ s.ents \in Seq(Nat) /\ Len(s.ents) \in Nat \ {0}
         /\ l.offset \in Nat /\ l.unstable \in Seq(Nat) /\ Len(l.unstable) \in Nat
         /\ l.committed \in Nat /\ l.applied \in Nat
         /\ s.index < l.offset /\ l.offset <= s.index + Len(s.ents)
         /\ Len(l.unstable) = 0 => l.offset = s.index + Len(s.ents)
         /\ LastIndex(s, l) = IF Len(l.unstable) = 0 THEN s.index + Len(s.ents) - 1
                                                   ELSE l.offset + Len(l.unstable) - 1
<1>1. /\ s.index \in Nat /\ s.ents \in Seq(Nat) /\ s.ents # <<>>
      /\ l.offset \in Nat /\ l.unstable \in Seq(Nat)
      /\ l.committed \in Nat /\ l.applied \in Nat
  <2> DEFINE S == Seq(Nat)
             R == [index : Nat, term : Nat]
  <2>1. s \in StoragesOf(Nat, S, R) /\ l \in LogsOf(Nat, S)
    BY Zenon DEF IndexesOK, Logs, Storages
  <2> HIDE DEF S, R
  <2>2. /\ s.index \in Nat /\ s.ents \in S
        /\ l.offset \in Nat /\ l.unstable \in S
        /\ l.committed \in Nat /\ l.applied \in Nat
    BY <2>1 DEF LogsOf, StoragesOf
  <2> QED
    BY <2>2, Zenon DEF S, IndexesOK
<1>2. Len(s.ents) \in Nat \ {0} /\ Len(l.unstable) \in Nat
  BY <1>1
<1>3. Len(l.unstable) = 0 <=> l.unstable = <<>>
  BY <1>1
<1>4. /\ s.index < l.offset /\ l.offset <= s.index + Len(s.ents)
      /\ l.unstable = <<>> => l.offset = s.index + Len(s.ents)
  BY Zenon DEF IndexesOK
<1>5. LastIndex(s, l) = IF l.unstable # <<>> THEN l.offset + Len(l.unstable) - 1
                        ELSE s.index + Len(s.ents) - 1
  BY Zenon DEF LastIndex, MSLastIndex
<1> QED
  BY <1>1, <1>2, <1>3, <1>4, <1>5

\* The log with another unstable part.
With(l, o, u) == [offset |-> o, unstable |-> u, committed |-> l.committed, applied |-> l.applied]

LEMMA WithInLogs ==
  ASSUME NEW l \in Logs, NEW o \in Nat, NEW u, u \in Seq(Nat)
  PROVE  With(l, o, u) \in Logs
<1> DEFINE S == Seq(Nat)
<1>1. l \in LogsOf(Nat, S) /\ u \in S
  BY Zenon DEF Logs
<1> HIDE DEF S
<1>2. With(l, o, u) \in LogsOf(Nat, S)
  BY <1>1 DEF With, LogsOf
<1> QED
  BY <1>2, Zenon DEF S, Logs

LEMMA WithBoth ==
  ASSUME NEW l \in Logs, NEW o, NEW u
  PROVE  [l EXCEPT !.offset = o, !.unstable = u] = With(l, o, u)
<1> DEFINE S == Seq(Nat)
<1>1. l \in LogsOf(Nat, S)
  BY Zenon DEF Logs
<1> HIDE DEF S
<1>2. l = With(l, l.offset, l.unstable)
  BY <1>1 DEF LogsOf, With
<1>3. \A p, v : [With(l, p, v) EXCEPT !.unstable = u] = With(l, p, u)
  BY DEF With
<1>5. [With(l, l.offset, l.unstable) EXCEPT !.offset = o] = With(l, o, l.unstable)
  BY DEF With
<1>6. [With(l, o, l.unstable) EXCEPT !.unstable = u] = With(l, o, u)
  BY <1>3, Zenon
<1>7. [l EXCEPT !.offset = o, !.unstable = u] = [[l EXCEPT !.offset = o] EXCEPT !.unstable = u]
  OBVIOUS
<1>8. [l EXCEPT !.offset = o] = With(l, o, l.unstable)
  BY <1>2, <1>5, Zenon
<1>9. [l EXCEPT !.offset = o, !.unstable = u] = With(l, o, u)
  BY <1>6, <1>7, <1>8, Zenon
<1> QED
  BY <1>9, Zenon

LEMMA WithUnstable ==
  ASSUME NEW l \in Logs, NEW u
  PROVE  [l EXCEPT !.unstable = u] = With(l, l.offset, u)
<1> DEFINE S == Seq(Nat)
<1>1. l \in LogsOf(Nat, S)
  BY Zenon DEF Logs
<1> HIDE DEF S
<1>2. l = With(l, l.offset, l.unstable)
  BY <1>1 DEF LogsOf, With
<1>3. \A p, v : [With(l, p, v) EXCEPT !.unstable = u] = With(l, p, u)
  BY DEF With
<1> QED
  BY <1>2, <1>3, Zenon

\* What a new message makes of the log.
LEMMA AppendKeepsIndexes ==
  ASSUME NEW s, NEW l, NEW b, IndexesOK(s, l, b), NEW after \in Nat, ~AppendPanics(l, after),
         NEW xs \in Seq(Nat), xs # <<>>
  PROVE  IndexesOK(s, AppendEntries(l, after, xs), b)
<1>1. /\ s.index \in Nat /\ s.ents \in Seq(Nat) /\ Len(s.ents) \in Nat \ {0}
      /\ l.offset \in Nat /\ l.unstable \in Seq(Nat) /\ Len(l.unstable) \in Nat
      /\ l.committed \in Nat
      /\ s.index < l.offset /\ l.offset <= s.index + Len(s.ents)
  BY IndexFacts
<1>2. /\ s \in Storages /\ l \in Logs /\ s.ents # <<>> /\ s.index <= l.committed
      /\ b # NoBatch => BatchFits(s, l, b)
  BY Zenon DEF IndexesOK
<1>3. l.committed < after /\ after <= l.offset + Len(l.unstable)
  <2>1. ~(after - 1 < l.committed) /\ ~(after > l.offset + Len(l.unstable))
    BY Zenon DEF AppendPanics
  <2> QED
    BY <1>1, <2>1
<1>4. s.index < after
  BY <1>1, <1>2, <1>3
<1>5. PICK o \in Nat, u \in Seq(Nat) :
        /\ AppendEntries(l, after, xs) = With(l, o, u) /\ u # <<>>
        /\ s.index < o /\ o <= l.offset
  <2>1. CASE after = l.offset + Len(l.unstable)
    <3>1. PICK u \in Seq(Nat) : u = l.unstable \o xs
      BY <1>1, ConcatFacts
    <3>2. u # <<>>
      BY <1>1, <3>1
    <3>3. AppendEntries(l, after, xs) = [l EXCEPT !.unstable = u]
      BY <2>1, <3>1, Zenon DEF AppendEntries, TruncateAndAppend
    <3>4. AppendEntries(l, after, xs) = With(l, l.offset, u)
      BY <1>1, <1>2, <3>3, WithUnstable, Zenon
    <3> QED
      BY <1>1, <3>2, <3>4
  <2>2. CASE after # l.offset + Len(l.unstable) /\ after <= l.offset
    <3>1. AppendEntries(l, after, xs) = [l EXCEPT !.offset = after, !.unstable = xs]
      BY <2>2, Zenon DEF AppendEntries, TruncateAndAppend
    <3>2. [l EXCEPT !.offset = after, !.unstable = xs] = With(l, after, xs)
      <4>1. l \in Logs
        BY <1>2, Zenon
      <4> QED
        BY <4>1, WithBoth, Zenon
    <3> QED
      BY <1>4, <2>2, <3>1, <3>2, Zenon
  <2>3. CASE after # l.offset + Len(l.unstable) /\ ~(after <= l.offset)
    <3>1. PICK k \in Nat : k = after - l.offset /\ k <= Len(l.unstable)
      BY <1>1, <1>3, <2>3
    <3>2. PICK p \in Seq(Nat) : p = SubSeq(l.unstable, 1, k)
      <4>1. 0 + k <= Len(l.unstable) /\ 0 + 1 = 1 /\ 0 + k = k /\ 0 \in Nat
        BY <3>1
      <4>2. SubSeq(l.unstable, 0 + 1, 0 + k) \in Seq(Nat)
        BY <1>1, <4>1, PartFacts, Zenon
      <4> QED
        BY <4>1, <4>2, Zenon
    <3>3. PICK u \in Seq(Nat) : u = p \o xs
      BY ConcatFacts
    <3>4. u # <<>>
      BY <3>3
    <3>5. AppendEntries(l, after, xs) = [l EXCEPT !.unstable = u]
      BY <2>3, <3>1, <3>2, <3>3, Zenon DEF AppendEntries, TruncateAndAppend
    <3>6. AppendEntries(l, after, xs) = With(l, l.offset, u)
      BY <1>1, <1>2, <3>5, WithUnstable, Zenon
    <3> QED
      BY <1>1, <3>4, <3>6
  <2> QED
    BY <2>1, <2>2, <2>3, Zenon
<1> DEFINE r == AppendEntries(l, after, xs)
<1>6. r \in Logs /\ r.offset = o /\ r.unstable = u /\ r.committed = l.committed
  <2>1. With(l, o, u) \in Logs
    BY <1>2, WithInLogs, Zenon
  <2>2. /\ With(l, o, u).offset = o /\ With(l, o, u).unstable = u
        /\ With(l, o, u).committed = l.committed
    BY DEF With
  <2> QED
    BY <1>5, <2>1, <2>2
<1> HIDE DEF r
<1>7. s.index < r.offset /\ r.offset <= s.index + Len(s.ents)
  <2>1. s.index < o /\ o <= l.offset /\ r.offset = o
    BY <1>5, <1>6, Zenon
  <2> QED
    BY <1>1, <2>1
<1>8. ASSUME BatchFits(s, l, b) PROVE BatchFits(s, r, b)
  <2>1. b.first \in Nat /\ l.offset <= b.first
    BY <1>8 DEF BatchFits
  <2>2. r.offset <= b.first
    BY <1>1, <1>5, <1>6, <2>1
  <2> QED
    BY <1>5, <1>6, <1>8, <2>2, Zenon DEF BatchFits
<1> QED
  BY <1>2, <1>5, <1>6, <1>7, <1>8, Zenon DEF IndexesOK, r

\* What the batch makes of the storage.  Nothing of it is compacted already.
LEMMA StoredBatch ==
  ASSUME NEW s, NEW l, NEW b, IndexesOK(s, l, b), b # NoBatch
  PROVE  /\ b.value \in Seq(Nat) /\ Len(b.value) \in Nat \ {0} /\ b.first \in Nat
         /\ s.index < b.first /\ l.offset <= b.first
         /\ ~MSAppendIgnored(s, b.first, b.value)
         /\ NewFirst(s, b.first) = b.first /\ NewEntries(s, b.first, b.value) = b.value
         /\ b.first - s.index \in 1 .. Len(s.ents)
<1>1. /\ s.index \in Nat /\ s.ents \in Seq(Nat) /\ Len(s.ents) \in Nat \ {0}
      /\ l.offset \in Nat /\ s.index < l.offset
  BY IndexFacts
<1>2. /\ b.value \in Seq(Nat) /\ b.value # <<>>
      /\ b.first \in Nat /\ l.offset <= b.first /\ b.first <= s.index + Len(s.ents)
  BY Zenon DEF IndexesOK, BatchFits
<1>3. Len(b.value) \in Nat \ {0}
  BY <1>2
<1>4. s.index < b.first /\ ~(s.index + 1 > b.first) /\ b.first - s.index \in 1 .. Len(s.ents)
  BY <1>1, <1>2
<1>5. ~(b.first + Len(b.value) - 1 < s.index + 1)
  BY <1>1, <1>2, <1>3, <1>4
<1> QED
  BY <1>2, <1>3, <1>4, <1>5, Zenon DEF MSAppendIgnored, NewFirst, NewEntries, MSFirstIndex

\* A tail of a sequence: q without its first f elements.
LEMMA TailFacts ==
  ASSUME NEW q \in Seq(Nat), NEW f \in Nat, f <= Len(q)
  PROVE  /\ SubSeq(q, f + 1, Len(q)) \in Seq(Nat)
         /\ Len(SubSeq(q, f + 1, Len(q))) = Len(q) - f
<1>1. PICK n \in Nat : n = Len(q) - f /\ f + n <= Len(q) /\ f + n = Len(q)
  OBVIOUS
<1>2. SubSeq(q, f + 1, f + n) \in Seq(Nat) /\ Len(SubSeq(q, f + 1, f + n)) = n
  BY <1>1, PartFacts
<1> QED
  BY <1>1, <1>2, Zenon

LEMMA HeadFacts ==
  ASSUME NEW q \in Seq(Nat), NEW n \in Nat, n <= Len(q)
  PROVE  SubSeq(q, 1, n) \in Seq(Nat) /\ Len(SubSeq(q, 1, n)) = n
<1>1. 0 + n <= Len(q) /\ 0 + 1 = 1 /\ 0 + n = n /\ 0 \in Nat
  OBVIOUS
<1>2. SubSeq(q, 0 + 1, 0 + n) \in Seq(Nat) /\ Len(SubSeq(q, 0 + 1, 0 + n)) = n
  BY <1>1, PartFacts
<1> QED
  BY <1>1, <1>2, Zenon

\* The storage with other entries, and another dummy.
StorageWith(s, i, q) == [index |-> i, ents |-> q, snap |-> s.snap]

LEMMA StorageWithInStorages ==
  ASSUME NEW s \in Storages, NEW i \in Nat, NEW q \in Seq(Nat)
  PROVE  StorageWith(s, i, q) \in Storages
<1> DEFINE S == Seq(Nat)
           R == [index : Nat, term : Nat]
<1>1. s \in StoragesOf(Nat, S, R) /\ q \in S
  BY Zenon DEF Storages
<1> HIDE DEF S, R
<1>2. StorageWith(s, i, q) \in StoragesOf(Nat, S, R)
  BY <1>1 DEF StorageWith, StoragesOf
<1> QED
  BY <1>2, Zenon DEF S, R, Storages

LEMMA StorageIsRecord ==
  ASSUME NEW s \in Storages
  PROVE  s = StorageWith(s, s.index, s.ents)
<1> DEFINE S == Seq(Nat)
           R == [index : Nat, term : Nat]
<1>1. s \in StoragesOf(Nat, S, R)
  BY Zenon DEF Storages
<1> HIDE DEF S, R
<1> QED
  BY <1>1 DEF StorageWith, StoragesOf

LEMMA StorageWithEnts ==
  ASSUME NEW s \in Storages, NEW q
  PROVE  [s EXCEPT !.ents = q] = StorageWith(s, s.index, q)
<1>1. s = StorageWith(s, s.index, s.ents)
  BY StorageIsRecord, Zenon
<1>2. \A i, p : [StorageWith(s, i, p) EXCEPT !.ents = q] = StorageWith(s, i, q)
  BY DEF StorageWith
<1> QED
  BY <1>1, <1>2, Zenon

LEMMA StorageWithBoth ==
  ASSUME NEW s \in Storages, NEW i, NEW q
  PROVE  [s EXCEPT !.index = i, !.ents = q] = StorageWith(s, i, q)
<1>1. s = StorageWith(s, s.index, s.ents)
  BY StorageIsRecord, Zenon
<1>2. [StorageWith(s, s.index, s.ents) EXCEPT !.index = i] = StorageWith(s, i, s.ents)
  BY DEF StorageWith
<1>3. [StorageWith(s, i, s.ents) EXCEPT !.ents = q] = StorageWith(s, i, q)
  BY DEF StorageWith
<1>4. [s EXCEPT !.index = i, !.ents = q] = [[s EXCEPT !.index = i] EXCEPT !.ents = q]
  OBVIOUS
<1>5. [s EXCEPT !.index = i] = StorageWith(s, i, s.ents)
  BY <1>1, <1>2, Zenon
<1> QED
  BY <1>3, <1>4, <1>5, Zenon

\* What Append makes of the storage.
LEMMA StoredFacts ==
  ASSUME NEW s, NEW l, NEW b, IndexesOK(s, l, b), b # NoBatch,
         NEW s2, s2 = MSAppend(s, b.first, b.value)
  PROVE  /\ s2 \in Storages /\ s2.index = s.index
         /\ s2.ents = SubSeq(s.ents, 1, b.first - s.index) \o b.value
         /\ s2.ents # <<>>
         /\ s2.index + Len(s2.ents) = b.first + Len(b.value)
<1>1. /\ b.value \in Seq(Nat) /\ Len(b.value) \in Nat \ {0} /\ b.first \in Nat
      /\ ~MSAppendIgnored(s, b.first, b.value)
      /\ NewFirst(s, b.first) = b.first /\ NewEntries(s, b.first, b.value) = b.value
      /\ b.first - s.index \in 1 .. Len(s.ents)
  BY StoredBatch
<1>2. s \in Storages /\ s.index \in Nat /\ s.ents \in Seq(Nat)
  BY IndexFacts DEF IndexesOK
<1>3. PICK k \in Nat, v \in Seq(Nat) : k = b.first - s.index /\ v = b.value /\ k <= Len(s.ents)
  BY <1>1, <1>2
<1>4. PICK p \in Seq(Nat) : p = SubSeq(s.ents, 1, k) /\ Len(p) = k
  BY <1>2, <1>3, HeadFacts
<1>5. PICK q \in Seq(Nat) : q = p \o v /\ Len(q) = k + Len(v)
  <2>1. p \o v \in Seq(Nat) /\ Len(p \o v) = Len(p) + Len(v)
    BY ConcatFacts
  <2> QED
    BY <1>4, <2>1, Zenon
<1>6. s2 = [s EXCEPT !.ents = q]
  BY <1>1, <1>3, <1>4, <1>5, Zenon DEF MSAppend
<1>7. s2 = StorageWith(s, s.index, q)
  BY <1>2, <1>6, StorageWithEnts, Zenon
<1>8. s2 \in Storages
  BY <1>2, <1>7, StorageWithInStorages, Zenon
<1>9. s2.index = s.index /\ s2.ents = q
  BY <1>7 DEF StorageWith
<1>10. s2.index + Len(s2.ents) = b.first + Len(b.value) /\ q # <<>>
  <2>1. PICK n \in Nat \ {0} : n = Len(v)
    BY <1>1, <1>3, Zenon
  <2>2. Len(q) = k + n /\ k = b.first - s.index
    BY <1>3, <1>5, <2>1, Zenon
  <2>3. s.index + (k + n) = b.first + n /\ Len(q) # 0
    <3>1. PICK a \in Nat, c \in Nat : a = s.index /\ c = b.first
      BY <1>1, <1>2, Zenon
    <3>2. k = c - a
      BY <2>2, <3>1, Zenon
    <3>3. a + (k + n) = c + n /\ k + n # 0
      BY <3>2
    <3> QED
      BY <2>2, <3>1, <3>3, Zenon
  <2>4. q # <<>>
    BY <2>3
  <2> QED
    BY <1>3, <1>9, <2>1, <2>2, <2>3, <2>4, Zenon
<1> QED
  BY <1>3, <1>4, <1>5, <1>8, <1>9, <1>10, Zenon

\* What stableTo leaves of the log.
StableToOK(l, i, t, r) ==
  IF InUnstable(l, i) /\ UnstableTerm(l, i) = t
    THEN /\ r \in Logs /\ r.offset = i + 1 /\ r.committed = l.committed
         /\ r.unstable = SubSeq(l.unstable, i + 1 - l.offset + 1, Len(l.unstable))
    ELSE r = l

LEMMA StableToFacts ==
  ASSUME NEW l \in Logs, l.offset \in Nat, l.unstable \in Seq(Nat),
         NEW i \in Nat, l.offset <= i, NEW t
  PROVE  StableToOK(l, i, t, StableTo(l, i, t))
<1> SUFFICES ASSUME NEW r, r = StableTo(l, i, t)
             PROVE  StableToOK(l, i, t, r)
  OBVIOUS
<1> USE DEF StableToOK
<1>1. CASE ~(InUnstable(l, i) /\ UnstableTerm(l, i) = t)
  BY <1>1, Zenon DEF StableTo
<1>2. CASE InUnstable(l, i) /\ UnstableTerm(l, i) = t
  <2>1. Len(l.unstable) \in Nat /\ i < l.offset + Len(l.unstable)
    BY <1>2 DEF InUnstable
  <2>2. PICK f \in Nat : f = i + 1 - l.offset /\ f <= Len(l.unstable)
    BY <2>1
  <2>3. PICK u \in Seq(Nat) : u = SubSeq(l.unstable, f + 1, Len(l.unstable))
    BY <2>2, TailFacts
  <2>4. PICK o \in Nat : o = i + 1
    OBVIOUS
  <2>5. r = [l EXCEPT !.offset = o, !.unstable = u]
    BY <1>2, <2>2, <2>3, <2>4, Zenon DEF StableTo
  <2>6. r = With(l, o, u)
    <3>1. [l EXCEPT !.offset = o, !.unstable = u] = With(l, o, u)
      BY WithBoth, Zenon
    <3> QED
      BY <2>5, <3>1, Zenon
  <2>7. r \in Logs
    BY <2>6, WithInLogs, Zenon
  <2>8. r.offset = o /\ r.unstable = u /\ r.committed = l.committed
    BY <2>6 DEF With
  <2> QED
    BY <1>2, <2>2, <2>3, <2>4, <2>7, <2>8, Zenon
<1> QED
  BY <1>1, <1>2, Zenon

LEMMA PersistKeepsIndexes ==
  ASSUME NEW s, NEW l, NEW b, IndexesOK(s, l, b), b # NoBatch, NEW t
  PROVE  IndexesOK(MSAppend(s, b.first, b.value),
                   StableTo(l, b.first + Len(b.value) - 1, t), NoBatch)
<1> DEFINE s2 == MSAppend(s, b.first, b.value)
           i  == b.first + Len(b.value) - 1
           r  == StableTo(l, i, t)
<1>1. /\ Len(b.value) \in Nat \ {0} /\ b.first \in Nat
      /\ s.index < b.first /\ l.offset <= b.first
  BY StoredBatch
<1>2. /\ s2 \in Storages /\ s2.index = s.index
      /\ s2.ents # <<>>
      /\ s2.index + Len(s2.ents) = b.first + Len(b.value)
  BY StoredFacts
<1>3. /\ s.index \in Nat /\ l.offset \in Nat /\ l.unstable \in Seq(Nat) /\ l.committed \in Nat
      /\ s.index < l.offset
  BY IndexFacts
<1>4. l \in Logs /\ s.index <= l.committed /\ l.unstable # <<>>
  BY Zenon DEF IndexesOK, BatchFits
<1>5. i \in Nat /\ l.offset <= i /\ i + 1 = b.first + Len(b.value)
  BY <1>1, <1>3
<1> HIDE DEF s2, i
<1>6. IF InUnstable(l, i) /\ UnstableTerm(l, i) = t
        THEN /\ r \in Logs /\ r.offset = i + 1 /\ r.committed = l.committed
        ELSE r = l
  <2>1. StableToOK(l, i, t, r)
    BY <1>3, <1>4, <1>5, StableToFacts
  <2> QED
    BY <2>1, Zenon DEF StableToOK
<1> HIDE DEF r
<1>7. CASE r = l
  <2>1. l.offset <= s2.index + Len(s2.ents)
    BY <1>1, <1>2, <1>3
  <2> QED
    BY <1>2, <1>3, <1>4, <1>7, <2>1, Zenon DEF IndexesOK, s2, i, r
<1>8. CASE r \in Logs /\ r.offset = i + 1 /\ r.committed = l.committed
  <2>1. r.offset = s2.index + Len(s2.ents) /\ s2.index < r.offset
    BY <1>1, <1>2, <1>3, <1>5, <1>8
  <2>2. r.offset <= s2.index + Len(s2.ents)
    BY <1>5, <1>8, <2>1
  <2> QED
    BY <1>2, <1>4, <1>8, <2>1, <2>2, Zenon DEF IndexesOK, s2, i, r
<1> QED
  BY <1>6, <1>7, <1>8, Zenon

\* Compacting the storage up to a committed entry that is stored.
LEMMA CompactKeepsIndexes ==
  ASSUME NEW s, NEW l, NEW b, IndexesOK(s, l, b), NEW i \in Nat,
         s.index < i, i <= MSLastIndex(s), i < l.offset
  PROVE  /\ IndexesOK(Compact(s, i), CommitTo(l, i), b)
         /\ Compact(s, i).ents = SubSeq(s.ents, i - s.index + 1, Len(s.ents))
         /\ Compact(s, i).ents # <<>> /\ Compact(s, i).ents \in Seq(Nat)
         /\ CommitTo(l, i).unstable = l.unstable
<1> DEFINE s2 == Compact(s, i)
           r  == CommitTo(l, i)
<1>1. /\ s.index \in Nat /\ s.ents \in Seq(Nat) /\ Len(s.ents) \in Nat \ {0}
      /\ l.offset \in Nat /\ l.unstable \in Seq(Nat)
      /\ l.committed \in Nat
      /\ l.offset <= s.index + Len(s.ents)
  BY IndexFacts
<1>2. /\ s \in Storages /\ l \in Logs /\ s.index <= l.committed
      /\ l.unstable = <<>> => l.offset = s.index + Len(s.ents)
      /\ b # NoBatch => BatchFits(s, l, b)
  BY Zenon DEF IndexesOK
<1>3. PICK f \in Nat : f = i - s.index /\ f < Len(s.ents) /\ f <= Len(s.ents)
  <2>1. i <= s.index + Len(s.ents) - 1
    BY Zenon DEF MSLastIndex
  <2>2. PICK a \in Nat, n \in Nat \ {0} : a = s.index /\ n = Len(s.ents)
    BY <1>1, Zenon
  <2>3. a < i /\ i <= a + n - 1
    BY <2>1, <2>2, Zenon
  <2>4. i - a \in Nat /\ i - a < n /\ i - a <= n
    BY <2>3
  <2> QED
    BY <2>2, <2>4, Zenon
<1>4. PICK q \in Seq(Nat) : q = SubSeq(s.ents, f + 1, Len(s.ents)) /\ Len(q) = Len(s.ents) - f
  BY <1>1, <1>3, TailFacts
<1>5. s2 = StorageWith(s, i, q)
  <2>1. s2 = [s EXCEPT !.index = i, !.ents = q]
    BY <1>3, <1>4, Zenon DEF Compact
  <2>2. [s EXCEPT !.index = i, !.ents = q] = StorageWith(s, i, q)
    BY <1>2, StorageWithBoth, Zenon
  <2> QED
    BY <2>1, <2>2, Zenon
<1> HIDE DEF s2
<1>6. s2 \in Storages
  BY <1>2, <1>5, StorageWithInStorages, Zenon
<1>7. s2.index = i /\ s2.ents = q
  BY <1>5 DEF StorageWith
<1>8. s2.index + Len(s2.ents) = s.index + Len(s.ents) /\ q # <<>>
  <2>1. i + (Len(s.ents) - f) = s.index + Len(s.ents) /\ Len(q) # 0
    <3>1. PICK a \in Nat, n \in Nat \ {0} : a = s.index /\ n = Len(s.ents)
      BY <1>1, Zenon
    <3>2. f = i - a /\ f < n /\ Len(q) = n - f
      BY <1>3, <1>4, <3>1, Zenon
    <3>3. i + (n - f) = a + n /\ n - f # 0
      BY <3>2
    <3> QED
      BY <3>1, <3>2, <3>3, Zenon
  <2>2. q # <<>>
    BY <2>1
  <2> QED
    BY <1>4, <1>7, <2>1, <2>2, Zenon
<1>9. PICK c \in Nat : c = Max2(l.committed, i) /\ i <= c
  BY <1>1 DEF Max2
<1>10. /\ r \in Logs /\ r.offset = l.offset /\ r.unstable = l.unstable /\ r.committed = c
  <2> DEFINE S == Seq(Nat)
  <2>1. l \in LogsOf(Nat, S)
    BY <1>2, Zenon DEF Logs
  <2>2. r = [l EXCEPT !.committed = c]
    BY <1>9, Zenon DEF CommitTo
  <2> HIDE DEF S, r
  <2>3. r \in LogsOf(Nat, S) /\ r.offset = l.offset /\ r.unstable = l.unstable /\ r.committed = c
    BY <2>1, <2>2 DEF LogsOf
  <2> QED
    BY <2>3, Zenon DEF S, Logs
<1> HIDE DEF r
<1>11. s2.index < r.offset /\ r.offset <= s2.index + Len(s2.ents) /\ s2.index <= r.committed
  BY <1>1, <1>7, <1>8, <1>9, <1>10
<1>12. BatchFits(s, l, b) => BatchFits(s2, r, b)
  BY <1>8, <1>10, Zenon DEF BatchFits
<1>13. IndexesOK(s2, r, b)
  <2>1. r.unstable = <<>> => r.offset = s2.index + Len(s2.ents)
    BY <1>2, <1>8, <1>10, Zenon
  <2> QED
    BY <1>2, <1>6, <1>7, <1>8, <1>10, <1>11, <1>12, <2>1, Zenon DEF IndexesOK
<1> QED
  BY <1>3, <1>4, <1>7, <1>8, <1>10, <1>13, Zenon DEF s2, r

LEMMA MidFacts ==
  ASSUME NEW q \in Seq(Nat), NEW lo \in Nat, NEW hi \in Nat, lo <= hi, hi <= Len(q)
  PROVE  SubSeq(q, lo + 1, hi) \in Seq(Nat) /\ Len(SubSeq(q, lo + 1, hi)) = hi - lo
<1>1. PICK n \in Nat : n = hi - lo /\ lo + n = hi /\ lo + n <= Len(q)
  OBVIOUS
<1>2. SubSeq(q, lo + 1, lo + n) \in Seq(Nat) /\ Len(SubSeq(q, lo + 1, lo + n)) = n
  BY <1>1, PartFacts
<1> QED
  BY <1>1, <1>2, Zenon

LEMMA NotCut ==
  ASSUME NEW q \in Seq(Nat), NEW m \in Nat, Len(q) <= m
  PROVE  LimitSize(q, m) = q
<1>1. Len(q) <= IF m < 1 THEN 1 ELSE m
  OBVIOUS
<1> QED
  BY <1>1, Zenon DEF LimitSize

\* The two parts of what slice returns.
StoredBetween(s, l, lo, hi) ==
  IF lo < l.offset THEN SubSeq(s.ents, lo - s.index + 1, Min2(hi, l.offset) - s.index) ELSE <<>>

\* They are where slice looks for them, and no limit that has room for all of
\* them cuts anything off.
SliceOK(s, l, lo, hi, m) ==
  /\ lo < l.offset =>
       /\ lo - s.index \in Nat /\ Min2(hi, l.offset) - s.index \in Nat
       /\ lo - s.index < Min2(hi, l.offset) - s.index
       /\ Min2(hi, l.offset) - s.index <= Len(s.ents)
  /\ hi > l.offset =>
       /\ Max2(lo, l.offset) - l.offset \in Nat /\ hi - l.offset \in Nat
       /\ Max2(lo, l.offset) - l.offset < hi - l.offset
       /\ hi - l.offset <= Len(l.unstable)
  /\ StoredBetween(s, l, lo, hi) \in Seq(Nat) /\ UnstablePart(l, lo, hi) \in Seq(Nat)
  /\ Slice(s, l, lo, hi, m) = StoredBetween(s, l, lo, hi) \o UnstablePart(l, lo, hi)

LEMMA SliceFacts ==
  ASSUME NEW s, NEW l, NEW b, IndexesOK(s, l, b), NEW lo \in Nat, NEW hi \in Nat,
         FirstIndex(s, l) <= lo, lo < hi, hi <= LastIndex(s, l) + 1,
         NEW m \in Nat, hi - lo <= m
  PROVE  SliceOK(s, l, lo, hi, m)
<1> USE DEF SliceOK
<1>1. /\ s.index \in Nat /\ s.ents \in Seq(Nat) /\ Len(s.ents) \in Nat \ {0}
      /\ l.offset \in Nat /\ l.unstable \in Seq(Nat) /\ Len(l.unstable) \in Nat
      /\ s.index < l.offset /\ l.offset <= s.index + Len(s.ents)
      /\ Len(l.unstable) = 0 => l.offset = s.index + Len(s.ents)
      /\ LastIndex(s, l) = IF Len(l.unstable) = 0 THEN s.index + Len(s.ents) - 1
                                                 ELSE l.offset + Len(l.unstable) - 1
  BY IndexFacts
<1>2. PICK a \in Nat, n \in Nat \ {0}, o \in Nat, k \in Nat :
        a = s.index /\ n = Len(s.ents) /\ o = l.offset /\ k = Len(l.unstable)
  BY <1>1, Zenon
<1> DEFINE E == s.ents
           U == l.unstable
<1>2a. E \in Seq(Nat) /\ Len(E) = n /\ U \in Seq(Nat) /\ Len(U) = k
  BY <1>1, <1>2, Zenon
<1> HIDE DEF E, U
<1>3. PICK cut \in Nat, from \in Nat :
        /\ cut = Min2(hi, l.offset) /\ from = Max2(lo, l.offset)
        /\ cut = IF hi > o THEN o ELSE hi
        /\ from = IF lo > o THEN lo ELSE o
  BY <1>2 DEF Min2, Max2
<1>4. a < lo
  <2>1. a + 1 <= lo
    BY <1>2, Zenon DEF FirstIndex, MSFirstIndex
  <2> QED
    BY <2>1
<1>5. hi <= o + k /\ a < o /\ o <= a + n
  <2>1. /\ a < o /\ o <= a + n /\ (k = 0 => o = a + n)
        /\ hi <= (IF k = 0 THEN a + n - 1 ELSE o + k - 1) + 1
    BY <1>1, <1>2, Zenon
  <2> QED
    BY <2>1
<1>6. lo < o => /\ lo - a \in Nat /\ cut - a \in Nat /\ lo - a < cut - a /\ cut - a <= n
                /\ (cut - a) - (lo - a) = cut - lo
  BY <1>3, <1>4, <1>5
<1>7. hi > o => /\ from - o \in Nat /\ hi - o \in Nat /\ from - o < hi - o /\ hi - o <= k
                /\ (hi - o) - (from - o) = hi - from
  BY <1>3, <1>4, <1>5
<1> DEFINE p == StoredBetween(s, l, lo, hi)
           q == UnstablePart(l, lo, hi)
<1>8. p \in Seq(Nat) /\ Len(p) = IF lo < o THEN cut - lo ELSE 0
  <2>1. CASE lo < o
    <3>1. PICK f \in Nat, g \in Nat : f = lo - a /\ g = cut - a /\ f <= g /\ g <= n /\ g - f = cut - lo
      BY <1>6, <2>1
    <3>2. SubSeq(E, f + 1, g) \in Seq(Nat) /\ Len(SubSeq(E, f + 1, g)) = g - f
      BY <1>2a, <3>1, MidFacts
    <3> QED
      BY <1>2, <1>3, <2>1, <3>1, <3>2, Zenon DEF StoredBetween, E
  <2>2. CASE ~(lo < o)
    <3>1. p = <<>>
      BY <1>2, <2>2, Zenon DEF StoredBetween
    <3> QED
      BY <2>2, <3>1
  <2> QED
    BY <2>1, <2>2, Zenon
<1>9. q \in Seq(Nat) /\ Len(q) = IF hi > o THEN hi - from ELSE 0
  <2>1. CASE hi > o
    <3>1. PICK f \in Nat, g \in Nat : f = from - o /\ g = hi - o /\ f <= g /\ g <= k /\ g - f = hi - from
      BY <1>7, <2>1
    <3>2. SubSeq(U, f + 1, g) \in Seq(Nat) /\ Len(SubSeq(U, f + 1, g)) = g - f
      BY <1>2a, <3>1, MidFacts
    <3> QED
      BY <1>2, <1>3, <2>1, <3>1, <3>2, Zenon DEF UnstablePart, U
  <2>2. CASE ~(hi > o)
    <3>1. q = <<>>
      BY <1>2, <2>2, Zenon DEF UnstablePart
    <3> QED
      BY <2>2, <3>1
  <2> QED
    BY <2>1, <2>2, Zenon
<1> HIDE DEF p, q
<1>10. p \o q \in Seq(Nat) /\ Len(p \o q) = Len(p) + Len(q)
  BY <1>8, <1>9, ConcatFacts
<1>11. Len(p) <= m /\ Len(p \o q) <= m
  BY <1>3, <1>8, <1>9, <1>10
<1>12. LimitSize(p, m) = p /\ LimitSize(p \o q, m) = p \o q
  BY <1>8, <1>10, <1>11, NotCut
<1>13. StoredPart(s, l, lo, hi, m) = p
  <2>1. CASE lo < o
    BY <1>2, <1>12, <2>1, Zenon DEF StoredPart, MSEntries, StoredBetween, p
  <2>2. CASE ~(lo < o)
    BY <1>2, <2>2, Zenon DEF StoredPart, StoredBetween, p
  <2> QED
    BY <2>1, <2>2, Zenon
<1>14. lo # hi /\ ~(lo < o /\ Len(p) < cut - lo)
  BY <1>8
<1>15. Slice(s, l, lo, hi, m) = p \o q
  BY <1>2, <1>3, <1>12, <1>13, <1>14, Zenon DEF Slice, q
<1> QED
  BY <1>2, <1>3, <1>6, <1>7, <1>8, <1>9, <1>15, Zenon DEF p, q
-----------------------------------------------------------------------------
(* The actions. *)

\* Making a new array disturbs nobody, and what is on it disturbs nobody.
AllocateOK(mem, e, u, b, hs, a, xs, r) ==
  /\ r.memory \in Memories /\ WindowOf(r.memory, r.slice)
  /\ Read(r.memory, r.slice) = xs
  /\ r.slice.array \in {0, a}
  /\ xs # <<>> => r.slice.array = a
  /\ \A s \in Held(e, u, b, hs) : Kept(mem, r.memory, s) /\ Behind(s, r.slice)
  /\ MemoryOK(r.memory, e, u, b, hs)
  /\ Read(r.memory, e) = Read(mem, e) /\ Read(r.memory, u) = Read(mem, u)
  /\ Behind(r.slice, e) /\ Behind(r.slice, u)

LEMMA AllocateKeeps ==
  ASSUME NEW mem, NEW e, NEW u, NEW b, NEW hs, MemoryOK(mem, e, u, b, hs),
         NEW a \in Arrays, \A s \in Held(e, u, b, hs) : s.array # a,
         NEW xs \in Seq(Nat), NEW spare \in Nat
  PROVE  AllocateOK(mem, e, u, b, hs, a, xs, Allocate(mem, a, xs, spare))
<1> SUFFICES ASSUME NEW r, r = Allocate(mem, a, xs, spare)
             PROVE  AllocateOK(mem, e, u, b, hs, a, xs, r)
  OBVIOUS
<1> USE DEF AllocateOK
<1>1. /\ mem \in Memories
      /\ \A s \in Held(e, u, b, hs) : WindowOf(mem, s) /\ Behind(s, e) /\ Behind(s, u)
      /\ e.array # 0 /\ e.array # u.array
  BY DEF MemoryOK
<1>2. e \in Held(e, u, b, hs) /\ u \in Held(e, u, b, hs)
  BY Zenon DEF Held
<1> DEFINE mem2 == r.memory
           v == r.slice
<1>3. /\ mem2 \in Memories /\ WindowOf(mem2, v) /\ Read(mem2, v) = xs /\ v.array \in {0, a}
      /\ xs # <<>> => v.array = a
      /\ \A h : WindowOf(mem, h) /\ h.array # a => Kept(mem, mem2, h) /\ Behind(h, v)
  BY <1>1, AllocateFacts
<1> HIDE DEF mem2, v
<1>4. \A s \in Held(e, u, b, hs) : Kept(mem, mem2, s) /\ Behind(s, v)
  BY <1>1, <1>3, Zenon
<1>5. /\ WindowOf(mem2, e) /\ WindowOf(mem2, u)
      /\ Read(mem2, e) = Read(mem, e) /\ Read(mem2, u) = Read(mem, u)
  BY <1>2, <1>4, Zenon DEF Kept
<1>6. MemoryOK(mem2, e, u, b, hs)
  <2>1. \A s \in Held(e, u, b, hs) : Kept(mem, mem2, s) /\ Behind(s, u)
    BY <1>1, <1>4, Zenon
  <2> QED
    BY <1>1, <1>3, <1>5, <2>1, NewUnstable
<1>7. ASSUME NEW s \in {e, u} PROVE Behind(v, s)
  <2>1. WindowOf(mem2, s) /\ s.array # a
    BY <1>2, <1>5
  <2>2. CASE v.array = 0
    BY <1>3, <2>1, <2>2, BehindFacts, Zenon
  <2>3. CASE v.array = a
    BY <2>1, <2>3, BehindFacts, Zenon
  <2> QED
    BY <1>3, <2>2, <2>3
<1> QED
  BY <1>3, <1>4, <1>5, <1>6, <1>7 DEF mem2, v

ArraysInv ==
  /\ MemoryOK(memory, ents, unstable, batch, handedOut)
  /\ IndexesOK(storage, log, batch)
  /\ ArraysHoldTheLog
  /\ messages \in 0 .. MaxMessages

LEMMA InvFacts ==
  ASSUME ArraysInv
  PROVE  /\ MemoryOK(memory, ents, unstable, batch, handedOut)
         /\ IndexesOK(storage, log, batch) /\ log \in Logs
         /\ memory \in Memories /\ WindowOf(memory, ents) /\ WindowOf(memory, unstable)
         /\ ents.array # 0
         /\ Read(memory, ents) = storage.ents /\ ents.len = Len(storage.ents)
         /\ Read(memory, unstable) = log.unstable /\ unstable.len = Len(log.unstable)
         /\ unstable.len # 0 => unstable.array # 0
         /\ \A a \in Arrays \ Used :
              \A s \in Held(ents, unstable, batch, handedOut) : s.array # a
<1>1. /\ MemoryOK(memory, ents, unstable, batch, handedOut)
      /\ IndexesOK(storage, log, batch) /\ log \in Logs
      /\ Read(memory, ents) = storage.ents /\ Read(memory, unstable) = log.unstable
  BY Zenon DEF ArraysInv, ArraysHoldTheLog, IndexesOK
<1>2. memory \in Memories /\ WindowOf(memory, ents) /\ WindowOf(memory, unstable) /\ ents.array # 0
  BY <1>1, HeldFacts
<1>3. ents.len = Len(storage.ents) /\ unstable.len = Len(log.unstable)
  <2>1. Len(Read(memory, ents)) = ents.len /\ Len(Read(memory, unstable)) = unstable.len
    BY <1>2, ReadFacts, Zenon
  <2> QED
    BY <1>1, <2>1, Zenon
<1>4. unstable.len # 0 => unstable.array # 0
  BY <1>2, SliceFields, Zenon
<1>5. ASSUME NEW a \in Arrays \ Used, NEW s \in Held(ents, unstable, batch, handedOut)
      PROVE  s.array # a
  <2>1. s.array \in Used
    BY DEF Held, Used
  <2> QED
    BY <2>1
<1> QED
  BY <1>1, <1>2, <1>3, <1>4, <1>5, Zenon

LEMMA InvAfter ==
  ASSUME NEW mem, NEW e, NEW u, NEW b, NEW hs, MemoryOK(mem, e, u, b, hs),
         Settle(mem, e, u, b, hs), IndexesOK(storage', log', b),
         Read(mem, e) = storage'.ents, Read(mem, u) = log'.unstable,
         messages' \in 0 .. MaxMessages
  PROVE  ArraysInv'
<1>1. /\ MemoryOK(memory, ents, unstable, batch, handedOut)'
      /\ Read(memory, ents)' = Read(mem, e) /\ Read(memory, unstable)' = Read(mem, u)
      /\ batch' = b
  BY SettleFacts
<1>2. IndexesOK(storage, log, batch)'
  BY <1>1, Zenon
<1>3. ArraysHoldTheLog'
  BY <1>1, Zenon DEF ArraysHoldTheLog
<1> QED
  BY <1>1, <1>2, <1>3, Zenon DEF ArraysInv

\* The unstable entries after a message.
LEMMA AppendedUnstable ==
  ASSUME NEW l \in Logs, NEW after, NEW xs
  PROVE  AppendEntries(l, after, xs).unstable =
           IF after = l.offset + Len(l.unstable) THEN l.unstable \o xs
           ELSE IF after <= l.offset THEN xs
           ELSE SubSeq(l.unstable, 1, after - l.offset) \o xs
<1>1. \A o, u : With(l, o, u).unstable = u
  BY DEF With
<1>2. \A u : [l EXCEPT !.unstable = u].unstable = u
  <2>1. \A u : [l EXCEPT !.unstable = u] = With(l, l.offset, u)
    BY WithUnstable, Zenon
  <2> QED
    BY <1>1, <2>1
<1>3. [l EXCEPT !.offset = after, !.unstable = xs].unstable = xs
  <2>1. [l EXCEPT !.offset = after, !.unstable = xs] = With(l, after, xs)
    BY WithBoth, Zenon
  <2> QED
    BY <1>1, <2>1
<1>4. CASE after = l.offset + Len(l.unstable)
  <2>1. AppendEntries(l, after, xs) = [l EXCEPT !.unstable = l.unstable \o xs]
    BY <1>4, Zenon DEF AppendEntries, TruncateAndAppend
  <2> QED
    BY <1>2, <1>4, <2>1, Zenon
<1>5. CASE after # l.offset + Len(l.unstable) /\ after <= l.offset
  <2>1. AppendEntries(l, after, xs) = [l EXCEPT !.offset = after, !.unstable = xs]
    BY <1>5, Zenon DEF AppendEntries, TruncateAndAppend
  <2> QED
    BY <1>3, <1>5, <2>1, Zenon
<1>6. CASE after # l.offset + Len(l.unstable) /\ ~(after <= l.offset)
  <2>1. AppendEntries(l, after, xs) =
          [l EXCEPT !.unstable = SubSeq(l.unstable, 1, after - l.offset) \o xs]
    BY <1>6, Zenon DEF AppendEntries, TruncateAndAppend
  <2> QED
    BY <1>2, <1>6, <2>1, Zenon
<1> QED
  BY <1>4, <1>5, <1>6, Zenon

\* truncateAndAppend takes over what came on an array of its own, appends behind
\* the last slot anybody looks at, or copies.
TruncateOK(mem, hs, after, m, r) ==
  /\ MemoryOK(r.memory, ents, r.slice, batch, hs)
  /\ Read(r.memory, ents) = Read(mem, ents)
  /\ Read(r.memory, r.slice) = AppendEntries(log, after, Read(mem, m)).unstable

LEMMA TruncateKeeps ==
  ASSUME NEW mem, NEW hs, MemoryOK(mem, ents, unstable, batch, hs),
         log \in Logs, log.offset \in Nat, log.unstable \in Seq(Nat),
         Read(mem, unstable) = log.unstable,
         NEW m, WindowOf(mem, m), m.array # ents.array,
         \A s \in Held(ents, unstable, batch, hs) : Behind(s, m),
         NEW b \in Arrays, \A s \in Held(ents, unstable, batch, hs) : s.array # b,
         NEW after \in Nat, after <= log.offset + Len(log.unstable), NEW spare \in Nat
  PROVE  TruncateOK(mem, hs, after, m, TruncateAndAppendSlice(mem, after, m, b, spare))
<1> SUFFICES ASSUME NEW r, r = TruncateAndAppendSlice(mem, after, m, b, spare)
             PROVE  TruncateOK(mem, hs, after, m, r)
  OBVIOUS
<1> USE DEF TruncateOK
<1> DEFINE xs == Read(mem, m)
           H == Held(ents, unstable, batch, hs)
           mem2 == r.memory
           v == r.slice
<1>1. /\ mem \in Memories
      /\ \A s \in H : WindowOf(mem, s) /\ Behind(s, ents) /\ Behind(s, unstable)
      /\ ents.array # 0 /\ ents.array # unstable.array
  BY DEF MemoryOK
<1>2. ents \in H /\ unstable \in H
  BY Zenon DEF Held
<1>3. WindowOf(mem, unstable) /\ unstable.array # b /\ ents.array # b
  BY <1>1, <1>2, Zenon
<1>4. xs \in Seq(Nat)
  BY <1>1, ReadFacts
<1>5. unstable.len = Len(log.unstable)
  BY <1>1, <1>3, ReadFacts
<1>6. AppendEntries(log, after, xs).unstable =
        IF after = log.offset + Len(log.unstable) THEN log.unstable \o xs
        ELSE IF after <= log.offset THEN xs
        ELSE SubSeq(log.unstable, 1, after - log.offset) \o xs
  BY AppendedUnstable, Zenon
<1> HIDE DEF xs, H, mem2, v
<1>7. CASE after = log.offset + Len(log.unstable)
  <2>1. r = GoAppend(mem, unstable, xs, b, spare)
    BY <1>5, <1>7, Zenon DEF TruncateAndAppendSlice, xs
  <2>2. /\ mem2 \in Memories /\ WindowOf(mem2, v)
        /\ Read(mem2, v) = Read(mem, unstable) \o xs
        /\ v.array \in {0, b, unstable.array}
        /\ Undisturbed(mem, unstable, b, r)
    <3>1. mem \in Memories /\ xs \in Seq(Nat)
      BY <1>1, <1>4, Zenon
    <3>2. PICK q \in Seq(Nat), s \in {unstable} : q = xs
      BY <3>1, Zenon
    <3>3. WindowOf(mem, s) /\ s.array # b /\ r = GoAppend(mem, s, q, b, spare)
      BY <1>3, <2>1, <3>2, Zenon
    <3>4. /\ r.memory \in Memories /\ WindowOf(r.memory, r.slice)
          /\ Read(r.memory, r.slice) = Read(mem, s) \o q
          /\ r.slice.array \in {0, b, s.array}
          /\ Undisturbed(mem, s, b, r)
      <4>1. AppendOK(mem, s, q, b, GoAppend(mem, s, q, b, spare))
        BY <3>1, <3>3, GoAppendFacts
      <4> QED
        BY <3>3, <4>1, Zenon DEF AppendOK
    <3> QED
      BY <3>2, <3>4, Zenon DEF mem2, v
  <2>3. \A s \in H : Kept(mem, mem2, s) /\ Behind(s, v)
    BY <1>1, <2>2, Zenon DEF Undisturbed, H, mem2, v
  <2>4. v.array # ents.array
    BY <1>1, <1>3, <2>2
  <2>5. MemoryOK(mem2, ents, v, batch, hs) /\ Read(mem2, ents) = Read(mem, ents)
    BY <2>2, <2>3, <2>4, NewUnstable DEF H
  <2> QED
    BY <1>6, <1>7, <2>2, <2>5, Zenon DEF xs, mem2, v
<1>8. CASE after # log.offset + Len(log.unstable) /\ after <= log.offset
  <2>1. mem2 = mem /\ v = m
    BY <1>5, <1>8 DEF TruncateAndAppendSlice, mem2, v
  <2>2. \A s \in H : Kept(mem, mem2, s) /\ Behind(s, v)
    BY <1>1, <2>1, Zenon DEF Kept, H
  <2>3. MemoryOK(mem2, ents, v, batch, hs) /\ Read(mem2, ents) = Read(mem, ents)
    BY <1>1, <2>1, <2>2, NewUnstable DEF H
  <2> QED
    BY <1>6, <1>8, <2>1, <2>3, Zenon DEF xs, mem2, v
<1>9. CASE after # log.offset + Len(log.unstable) /\ ~(after <= log.offset)
  <2> DEFINE ys == SubSeq(log.unstable, 1, after - log.offset) \o xs
  <2>1. ys \in Seq(Nat)
    <3>1. PICK u \in Seq(Nat) : u = log.unstable
      BY Zenon
    <3>2. PICK o \in Nat : o = log.offset
      BY Zenon
    <3>3. after <= o + Len(u) /\ ~(after <= o) /\ Len(u) \in Nat
      BY <1>9, <3>1, <3>2
    <3>4. PICK k \in Nat : k = after - o /\ k <= Len(u)
      BY <3>3
    <3>5. PICK p \in Seq(Nat) : p = SubSeq(u, 1, k)
      BY <3>4, HeadFacts
    <3>6. p \o xs \in Seq(Nat)
      BY <1>4, ConcatFacts
    <3> QED
      BY <3>1, <3>2, <3>4, <3>5, <3>6, Zenon
  <2>2. r = Allocate(mem, b, ys, spare)
    BY <1>5, <1>9, Zenon DEF TruncateAndAppendSlice, xs
  <2> HIDE DEF ys
  <2>3. /\ mem2 \in Memories /\ WindowOf(mem2, v) /\ Read(mem2, v) = ys /\ v.array \in {0, b}
        /\ \A s \in H : Kept(mem, mem2, s) /\ Behind(s, v)
    <3>1. AllocateOK(mem, ents, unstable, batch, hs, b, ys, Allocate(mem, b, ys, spare))
      BY <2>1, AllocateKeeps
    <3> QED
      BY <2>2, <3>1, Zenon DEF AllocateOK, H, mem2, v
  <2>4. v.array # ents.array
    BY <1>1, <1>3, <2>3
  <2>5. MemoryOK(mem2, ents, v, batch, hs) /\ Read(mem2, ents) = Read(mem, ents)
    BY <2>3, <2>4, NewUnstable DEF H
  <2> QED
    BY <1>6, <1>9, <2>3, <2>5, Zenon DEF xs, ys, mem2, v
<1> QED
  BY <1>7, <1>8, <1>9, Zenon

LEMMA ReceiveKeeps ==
  ASSUME ArraysInv, NEW after \in 1 .. MaxLast, NEW n \in 1 .. 2, Receive(after, n)
  PROVE  ArraysInv'
<1>1. /\ MemoryOK(memory, ents, unstable, batch, handedOut)
      /\ IndexesOK(storage, log, batch) /\ log \in Logs
      /\ Read(memory, ents) = storage.ents /\ Read(memory, unstable) = log.unstable
      /\ ents.array # 0
      /\ \A a \in Arrays \ Used :
           \A s \in Held(ents, unstable, batch, handedOut) : s.array # a
  BY InvFacts, Zenon
<1>2. /\ log.offset \in Nat /\ log.unstable \in Seq(Nat) /\ Len(log.unstable) \in Nat
      /\ log.committed \in Nat
  BY <1>1, IndexFacts
<1> DEFINE number == messages + 1
           xs == [i \in 1 .. n |-> number]
<1>3. PICK a \in Arrays \ Used, b \in Arrays \ Used, spare \in 0 .. MaxSpare, room \in 0 .. MaxSpare :
        /\ a < b
        /\ LET sent == Allocate(memory, a, xs, room)
               new == TruncateAndAppendSlice(sent.memory, after, sent.slice, b, spare)
           IN /\ Settle(new.memory, ents, new.slice, batch,
                        IF Cardinality(handedOut) < MaxHandedOut
                          THEN handedOut \cup {HandOut(sent.memory, sent.slice)} ELSE handedOut)
              /\ log' = AppendEntries(log, after, xs)
  BY Zenon DEF Receive
<1>4. /\ messages < MaxMessages /\ ~AppendPanics(log, after)
      /\ messages' = number /\ storage' = storage
  BY Zenon DEF Receive
<1>5. messages \in Nat /\ MaxMessages \in Nat /\ number \in Nat /\ number \in 0 .. MaxMessages
  BY <1>4, EntryArraysAssumption DEF ArraysInv
<1>6. xs \in Seq(Nat) /\ xs # <<>>
  BY <1>5
<1>7. /\ after \in Nat /\ spare \in Nat /\ room \in Nat
      /\ a \in Arrays /\ b \in Arrays /\ a # b /\ a # 0
  BY <1>3, EntryArraysAssumption
<1>8. after <= log.offset + Len(log.unstable)
  <2>1. ~(after > log.offset + Len(log.unstable))
    BY <1>4, Zenon DEF AppendPanics
  <2> QED
    BY <1>2, <1>7, <2>1
<1> DEFINE sent == Allocate(memory, a, xs, room)
           mem == sent.memory
           m == sent.slice
           hs == IF Cardinality(handedOut) < MaxHandedOut
                   THEN handedOut \cup {HandOut(mem, m)} ELSE handedOut
           new == TruncateAndAppendSlice(mem, after, m, b, spare)
<1>9. Settle(new.memory, ents, new.slice, batch, hs) /\ log' = AppendEntries(log, after, xs)
  BY <1>3, Zenon
<1> HIDE DEF xs
<1>10. /\ \A s \in Held(ents, unstable, batch, handedOut) : s.array # a /\ s.array # b
       /\ ents.array # a /\ ents.array # b
  <2>1. ents \in Held(ents, unstable, batch, handedOut)
    BY Zenon DEF Held
  <2> QED
    BY <1>1, <1>3, <2>1, Zenon
<1>11. /\ WindowOf(mem, m) /\ Read(mem, m) = xs /\ m.array = a
       /\ \A s \in Held(ents, unstable, batch, handedOut) : Behind(s, m)
       /\ MemoryOK(mem, ents, unstable, batch, handedOut)
       /\ Read(mem, ents) = Read(memory, ents) /\ Read(mem, unstable) = Read(memory, unstable)
       /\ Behind(m, ents) /\ Behind(m, unstable)
  <2>1. AllocateOK(memory, ents, unstable, batch, handedOut, a, xs, sent)
    BY <1>1, <1>6, <1>7, <1>10, AllocateKeeps
  <2> QED
    BY <1>6, <2>1, Zenon DEF AllocateOK
<1> HIDE DEF sent, mem, m
<1>12. MemoryOK(mem, ents, unstable, batch, hs)
  <2>1. \A h \in (hs \cup {batch}) \ (handedOut \cup {batch}) : h = HandOut(mem, m)
    OBVIOUS
  <2>2. HandOut(mem, m).slice = m /\ HandOut(mem, m).value = Read(mem, m)
    BY DEF HandOut
  <2> HIDE DEF hs
  <2>3. \A h \in (hs \cup {batch}) \ (handedOut \cup {batch}) :
          /\ WindowOf(mem, h.slice) /\ Behind(h.slice, ents) /\ Behind(h.slice, unstable)
          /\ Read(mem, h.slice) = h.value
    BY <1>11, <2>1, <2>2, Zenon
  <2> QED
    BY <1>11, <2>3, HandedOver
<1>13. ASSUME NEW s \in Held(ents, unstable, batch, hs)
       PROVE  Behind(s, m) /\ s.array # b
  <2>1. s \in Held(ents, unstable, batch, handedOut) \/ s = HandOut(mem, m).slice
    BY DEF Held
  <2>2. CASE s \in Held(ents, unstable, batch, handedOut)
    BY <1>10, <1>11, <2>2, Zenon
  <2>3. CASE s = HandOut(mem, m).slice
    <3>1. s = m
      BY <2>3 DEF HandOut
    <3> QED
      BY <1>7, <1>11, <3>1, BehindFacts, Zenon
  <2> QED
    BY <2>1, <2>2, <2>3, Zenon
<1> HIDE DEF hs
<1>14. /\ MemoryOK(new.memory, ents, new.slice, batch, hs)
       /\ Read(new.memory, ents) = Read(mem, ents)
       /\ Read(new.memory, new.slice) = AppendEntries(log, after, Read(mem, m)).unstable
  <2>1. m.array # ents.array
    BY <1>10, <1>11, Zenon
  <2>2. \A s \in Held(ents, unstable, batch, hs) : Behind(s, m)
    BY <1>13, Zenon
  <2>3. \A s \in Held(ents, unstable, batch, hs) : s.array # b
    BY <1>13, Zenon
  <2>4. Read(mem, unstable) = log.unstable
    BY <1>1, <1>11, Zenon
  <2> QED
    <3>1. TruncateOK(mem, hs, after, m, new)
      BY <1>1, <1>2, <1>7, <1>8, <1>11, <1>12, <2>1, <2>2, <2>3, <2>4, TruncateKeeps
    <3> QED
      BY <3>1, Zenon DEF TruncateOK
<1> HIDE DEF new
<1>15. IndexesOK(storage', log', batch)
  <2>1. IndexesOK(storage, AppendEntries(log, after, xs), batch)
    BY <1>1, <1>4, <1>6, <1>7, AppendKeepsIndexes, Zenon
  <2> QED
    BY <1>4, <1>9, <2>1, Zenon
<1>16. /\ Read(new.memory, ents) = storage'.ents
       /\ Read(new.memory, new.slice) = log'.unstable
  BY <1>1, <1>4, <1>9, <1>11, <1>14, Zenon
<1>17. messages' \in 0 .. MaxMessages
  BY <1>4, <1>5, Zenon
<1> QED
  BY <1>9, <1>14, <1>15, <1>16, <1>17, InvAfter

LEMMA TakeBatchKeeps ==
  ASSUME ArraysInv, TakeBatch
  PROVE  ArraysInv'
<1> DEFINE b2 == [slice |-> unstable, first |-> log.offset, value |-> log.unstable]
<1>1. /\ MemoryOK(memory, ents, unstable, batch, handedOut)
      /\ IndexesOK(storage, log, batch)
      /\ Read(memory, ents) = storage.ents /\ Read(memory, unstable) = log.unstable
      /\ unstable.len = Len(log.unstable)
      /\ WindowOf(memory, unstable)
  BY InvFacts, Zenon
<1>2. /\ batch = NoBatch /\ unstable.len > 0
      /\ Settle(memory, ents, unstable, b2, handedOut)
      /\ messages' = messages /\ storage' = storage /\ log' = log
  BY Zenon DEF TakeBatch
<1>3. b2.slice = unstable /\ b2.first = log.offset /\ b2.value = log.unstable
  OBVIOUS
<1> HIDE DEF b2
<1>4. MemoryOK(memory, ents, unstable, b2, handedOut)
  <2>1. Behind(unstable, ents) /\ Behind(unstable, unstable)
    BY <1>1, BehindFacts, HeldFacts
  <2>2. \A h \in (handedOut \cup {b2}) \ (handedOut \cup {batch}) :
          /\ WindowOf(memory, h.slice) /\ Behind(h.slice, ents) /\ Behind(h.slice, unstable)
          /\ Read(memory, h.slice) = h.value
    BY <1>1, <1>3, <2>1
  <2> QED
    BY <1>1, <2>2, HandedOver
<1>5. IndexesOK(storage, log, b2)
  <2>1. log.offset \in Nat /\ log.unstable \in Seq(Nat) /\ log.offset <= storage.index + Len(storage.ents)
    BY <1>1, IndexFacts
  <2>2. log.unstable # <<>> /\ log.offset <= log.offset
    BY <1>1, <1>2, <2>1
  <2>3. BatchFits(storage, log, b2)
    BY <1>3, <2>1, <2>2, Zenon DEF BatchFits
  <2> QED
    BY <1>1, <2>3, Zenon DEF IndexesOK
<1>6. messages' \in 0 .. MaxMessages
  BY <1>2, Zenon DEF ArraysInv
<1> QED
  BY <1>1, <1>2, <1>4, <1>5, <1>6, InvAfter

LEMMA ForgetKeeps ==
  ASSUME ArraysInv, Forget
  PROVE  ArraysInv'
<1>1. /\ MemoryOK(memory, ents, unstable, batch, handedOut)
      /\ IndexesOK(storage, log, batch)
      /\ Read(memory, ents) = storage.ents /\ Read(memory, unstable) = log.unstable
  BY InvFacts, Zenon
<1>2. PICK h \in handedOut : Settle(memory, ents, unstable, batch, handedOut \ {h})
  BY Zenon DEF Forget
<1>3. messages' = messages /\ storage' = storage /\ log' = log
  BY Zenon DEF Forget
<1>4. MemoryOK(memory, ents, unstable, batch, handedOut \ {h})
  <2>1. ((handedOut \ {h}) \cup {batch}) \ (handedOut \cup {batch}) = {}
    OBVIOUS
  <2> QED
    BY <1>1, <2>1, HandedOver
<1>5. messages' \in 0 .. MaxMessages
  BY <1>3, Zenon DEF ArraysInv
<1> QED
  BY <1>1, <1>2, <1>3, <1>4, <1>5, InvAfter

LEMMA CompactStorageKeeps ==
  ASSUME ArraysInv, NEW i \in 1 .. MaxLast, CompactStorage(i)
  PROVE  ArraysInv'
<1>1. /\ MemoryOK(memory, ents, unstable, batch, handedOut)
      /\ IndexesOK(storage, log, batch)
      /\ Read(memory, ents) = storage.ents /\ ents.len = Len(storage.ents)
      /\ Read(memory, unstable) = log.unstable
      /\ \A a \in Arrays \ Used :
           \A s \in Held(ents, unstable, batch, handedOut) : s.array # a
  BY InvFacts, Zenon
<1> DEFINE xs == SubSeq(storage.ents, i - storage.index + 1, Len(storage.ents))
<1>2. PICK a \in Arrays \ Used :
        LET kept == Allocate(memory, a, xs, 0)
        IN  Settle(kept.memory, kept.slice, unstable, batch, handedOut)
  BY <1>1, Zenon DEF CompactStorage
<1>3. /\ ~CompactRefused(storage, i) /\ i <= MSLastIndex(storage) /\ i < log.offset
      /\ storage' = Compact(storage, i) /\ log' = CommitTo(log, i) /\ messages' = messages
  BY Zenon DEF CompactStorage
<1>4. i \in Nat /\ storage.index < i /\ a \in Arrays /\ 0 \in Nat
  <2>1. storage.index \in Nat
    BY <1>1, IndexFacts
  <2>2. ~(i <= storage.index)
    BY <1>3, Zenon DEF CompactRefused
  <2> QED
    BY <2>1, <2>2
<1> DEFINE kept == Allocate(memory, a, xs, 0)
           mem == kept.memory
           e == kept.slice
<1>5. Settle(mem, e, unstable, batch, handedOut)
  BY <1>2, Zenon
<1> HIDE DEF xs
<1>6. /\ IndexesOK(Compact(storage, i), CommitTo(log, i), batch)
      /\ Compact(storage, i).ents = xs /\ xs # <<>> /\ xs \in Seq(Nat)
      /\ CommitTo(log, i).unstable = log.unstable
  <2>1. /\ IndexesOK(Compact(storage, i), CommitTo(log, i), batch)
        /\ Compact(storage, i).ents = xs
        /\ Compact(storage, i).ents # <<>> /\ Compact(storage, i).ents \in Seq(Nat)
        /\ CommitTo(log, i).unstable = log.unstable
    BY <1>1, <1>3, <1>4, CompactKeepsIndexes, Zenon DEF xs
  <2> QED
    BY <2>1, Zenon
<1>7. \A s \in Held(ents, unstable, batch, handedOut) : s.array # a
  BY <1>1, <1>2, Zenon
<1>8. /\ mem \in Memories /\ WindowOf(mem, e) /\ Read(mem, e) = xs /\ e.array = a
      /\ \A s \in Held(ents, unstable, batch, handedOut) : Kept(memory, mem, s) /\ Behind(s, e)
  <2>1. AllocateOK(memory, ents, unstable, batch, handedOut, a, xs, kept)
    BY <1>1, <1>4, <1>6, <1>7, AllocateKeeps
  <2> QED
    BY <1>6, <2>1, Zenon DEF AllocateOK
<1> HIDE DEF kept, mem, e
<1>9. MemoryOK(mem, e, unstable, batch, handedOut) /\ Read(mem, unstable) = Read(memory, unstable)
  <2>1. e.array # 0 /\ e.array # unstable.array
    <3>1. unstable \in Held(ents, unstable, batch, handedOut)
      BY Zenon DEF Held
    <3> QED
      BY <1>4, <1>7, <1>8, <3>1, Constants
  <2> QED
    BY <1>1, <1>8, <2>1, NewEnts
<1>10. IndexesOK(storage', log', batch) /\ Read(mem, e) = storage'.ents
       /\ Read(mem, unstable) = log'.unstable
  BY <1>1, <1>3, <1>6, <1>8, <1>9, Zenon
<1>11. messages' \in 0 .. MaxMessages
  BY <1>3, Zenon DEF ArraysInv
<1> QED
  BY <1>5, <1>9, <1>10, <1>11, InvAfter

LEMMA HandOutSliceKeeps ==
  ASSUME ArraysInv, NEW lo \in 1 .. MaxLast, NEW hi \in 2 .. MaxLast + 1, HandOutSlice(lo, hi)
  PROVE  ArraysInv'
<1>1. /\ MemoryOK(memory, ents, unstable, batch, handedOut)
      /\ IndexesOK(storage, log, batch)
      /\ memory \in Memories /\ WindowOf(memory, ents) /\ WindowOf(memory, unstable)
      /\ ents.array # 0
      /\ Read(memory, ents) = storage.ents /\ ents.len = Len(storage.ents)
      /\ Read(memory, unstable) = log.unstable /\ unstable.len = Len(log.unstable)
      /\ unstable.len # 0 => unstable.array # 0
      /\ \A a \in Arrays \ Used :
           \A s \in Held(ents, unstable, batch, handedOut) : s.array # a
  BY InvFacts, Zenon
<1> DEFINE lo1 == lo - storage.index
           hi1 == Min2(hi, log.offset) - storage.index
           lo2 == Max2(lo, log.offset) - log.offset
           hi2 == hi - log.offset
           stored == IF lo < log.offset THEN SubSlice(ents, lo1, hi1) ELSE Slice0
           rest == IF hi > log.offset THEN SubSlice(unstable, lo2, hi2) ELSE Slice0
           value == Slice(storage, log, lo, hi, MaxLast)
<1>2. PICK a \in Arrays \ Used :
        LET result == IF stored.len = 0 THEN [memory |-> memory, slice |-> rest]
                      ELSE IF rest.len = 0 THEN [memory |-> memory, slice |-> stored]
                      ELSE Combined(stored, Read(memory, rest), a)
        IN Settle(result.memory, ents, unstable, batch,
                  handedOut \cup {[slice |-> result.slice, value |-> value]})
  BY Zenon DEF HandOutSlice
<1>3. /\ FirstIndex(storage, log) <= lo /\ lo < hi /\ hi <= LastIndex(storage, log) + 1
      /\ messages' = messages /\ storage' = storage /\ log' = log
  BY Zenon DEF HandOutSlice
<1> DEFINE result == IF stored.len = 0 THEN [memory |-> memory, slice |-> rest]
                     ELSE IF rest.len = 0 THEN [memory |-> memory, slice |-> stored]
                     ELSE Combined(stored, Read(memory, rest), a)
           mem == result.memory
           new == [slice |-> result.slice, value |-> value]
<1>4. Settle(mem, ents, unstable, batch, handedOut \cup {new})
  BY <1>2, Zenon
<1>5. lo \in Nat /\ hi \in Nat /\ MaxLast \in Nat /\ hi - lo <= MaxLast /\ a \in Arrays
  BY EntryArraysAssumption
<1> DEFINE p == StoredBetween(storage, log, lo, hi)
           q == UnstablePart(log, lo, hi)
<1>6. /\ lo < log.offset => /\ lo1 \in Nat /\ hi1 \in Nat /\ lo1 < hi1 /\ hi1 <= Len(storage.ents)
      /\ hi > log.offset => /\ lo2 \in Nat /\ hi2 \in Nat /\ lo2 < hi2 /\ hi2 <= Len(log.unstable)
      /\ p \in Seq(Nat) /\ q \in Seq(Nat)
      /\ value = p \o q
  <2>1. SliceOK(storage, log, lo, hi, MaxLast)
    BY <1>1, <1>3, <1>5, SliceFacts
  <2> QED
    BY <2>1, Zenon DEF SliceOK
<1>7. /\ lo < log.offset => p = SubSeq(storage.ents, lo1 + 1, hi1)
      /\ ~(lo < log.offset) => p = <<>>
      /\ hi > log.offset => q = SubSeq(log.unstable, lo2 + 1, hi2)
      /\ ~(hi > log.offset) => q = <<>>
  BY Zenon DEF StoredBetween, UnstablePart
<1>8. log.offset \in Nat /\ (lo < log.offset \/ hi > log.offset)
  <2>1. log.offset \in Nat
    BY <1>1, IndexFacts
  <2> QED
    BY <1>3, <1>5, <2>1
<1> HIDE DEF lo1, hi1, lo2, hi2, p, q, value
<1>9. /\ WindowOf(memory, stored) /\ Read(memory, stored) = p
      /\ stored.array \in {0, ents.array} /\ Behind(stored, ents) /\ Behind(stored, unstable)
      /\ stored.len = 0 <=> ~(lo < log.offset)
  <2>1. CASE lo < log.offset
    <3>1. PICK f \in Nat, g \in Nat : f = lo1 /\ g = hi1 /\ f < g /\ g <= ents.len /\ f <= g
      <4>1. lo1 \in Nat /\ hi1 \in Nat /\ lo1 < hi1 /\ hi1 <= ents.len
        BY <1>1, <1>6, <2>1, Zenon
      <4> QED
        BY <4>1
    <3>2. stored = SubSlice(ents, f, g)
      BY <2>1, <3>1, Zenon
    <3> HIDE DEF stored
    <3>3. /\ WindowOf(memory, stored) /\ stored.array = ents.array /\ stored.len = g - f
          /\ Behind(stored, ents)
          /\ Read(memory, stored) = SubSeq(Read(memory, ents), f + 1, g)
      <4>1. SubSliceOK(memory, ents, f, g, SubSlice(ents, f, g))
        BY <1>1, <3>1, SubSliceFacts
      <4> QED
        BY <3>2, <4>1, Zenon DEF SubSliceOK
    <3>4. stored.len # 0
      BY <3>1, <3>3
    <3>5. Behind(stored, unstable)
      BY <1>1, <3>3, HeldFacts, BehindFacts
    <3> QED
      BY <1>1, <1>7, <2>1, <3>1, <3>3, <3>4, <3>5, Zenon
  <2>2. CASE ~(lo < log.offset)
    <3>1. stored = Slice0
      BY <2>2, Zenon
    <3> HIDE DEF stored
    <3>2. stored.array = 0 /\ stored.len = 0
      BY <3>1 DEF Slice0
    <3>3. WindowOf(memory, stored) /\ Read(memory, stored) = <<>>
      BY <3>1, NilIsWindow, Zenon
    <3>4. Behind(stored, ents) /\ Behind(stored, unstable)
      BY <1>1, <3>2, <3>3, BehindFacts, Zenon
    <3> QED
      BY <1>7, <2>2, <3>2, <3>3, <3>4
  <2> QED
    BY <2>1, <2>2, Zenon
<1>10. /\ WindowOf(memory, rest) /\ Read(memory, rest) = q
       /\ Behind(rest, ents) /\ Behind(rest, unstable)
       /\ rest.len = 0 <=> ~(hi > log.offset)
  <2>1. CASE hi > log.offset
    <3>1. PICK f \in Nat, g \in Nat : f = lo2 /\ g = hi2 /\ f < g /\ g <= unstable.len /\ f <= g
      <4>1. lo2 \in Nat /\ hi2 \in Nat /\ lo2 < hi2 /\ hi2 <= unstable.len
        BY <1>1, <1>6, <2>1, Zenon
      <4> QED
        BY <4>1
    <3>2. rest = SubSlice(unstable, f, g)
      BY <2>1, <3>1, Zenon
    <3>3. unstable.array # 0
      <4>1. unstable.len \in Nat
        BY <1>1, SliceFields, Zenon
      <4>2. unstable.len # 0
        BY <3>1, <4>1
      <4> QED
        BY <1>1, <4>2, Zenon
    <3> HIDE DEF rest
    <3>4. /\ WindowOf(memory, rest) /\ rest.array = unstable.array /\ rest.len = g - f
          /\ Behind(rest, unstable)
          /\ Read(memory, rest) = SubSeq(Read(memory, unstable), f + 1, g)
      <4>1. SubSliceOK(memory, unstable, f, g, SubSlice(unstable, f, g))
        BY <1>1, <3>1, <3>3, SubSliceFacts
      <4> QED
        BY <3>2, <4>1, Zenon DEF SubSliceOK
    <3>5. rest.len # 0
      BY <3>1, <3>4
    <3>6. Behind(rest, ents)
      BY <1>1, <3>4, HeldFacts, BehindFacts
    <3> QED
      BY <1>1, <1>7, <2>1, <3>1, <3>4, <3>5, <3>6, Zenon
  <2>2. CASE ~(hi > log.offset)
    <3>1. rest = Slice0
      BY <2>2, Zenon
    <3> HIDE DEF rest
    <3>2. rest.array = 0 /\ rest.len = 0
      BY <3>1 DEF Slice0
    <3>3. WindowOf(memory, rest) /\ Read(memory, rest) = <<>>
      BY <3>1, NilIsWindow, Zenon
    <3>4. Behind(rest, ents) /\ Behind(rest, unstable)
      BY <1>1, <3>2, <3>3, BehindFacts, Zenon
    <3> QED
      BY <1>7, <2>2, <3>2, <3>3, <3>4
  <2> QED
    BY <2>1, <2>2, Zenon
<1> HIDE DEF stored, rest
<1>11. /\ MemoryOK(mem, ents, unstable, batch, handedOut)
       /\ Read(mem, ents) = Read(memory, ents) /\ Read(mem, unstable) = Read(memory, unstable)
       /\ WindowOf(mem, result.slice) /\ Behind(result.slice, ents) /\ Behind(result.slice, unstable)
       /\ Read(mem, result.slice) = p \o q
  <2>1. CASE stored.len = 0
    <3>1. mem = memory /\ result.slice = rest
      BY <2>1
    <3>2. p \o q = q
      <4>1. p = <<>>
        BY <1>7, <1>9, <2>1, Zenon
      <4> QED
        BY <1>6, <4>1
    <3> HIDE DEF result, mem
    <3> QED
      BY <1>1, <1>10, <3>1, <3>2, Zenon
  <2>2. CASE stored.len # 0 /\ rest.len = 0
    <3>1. mem = memory /\ result.slice = stored
      BY <2>2
    <3>2. p \o q = p
      <4>1. q = <<>>
        BY <1>7, <1>10, <2>2, Zenon
      <4> QED
        BY <1>6, <4>1
    <3> HIDE DEF result, mem
    <3> QED
      BY <1>1, <1>9, <3>1, <3>2, Zenon
  <2>3. CASE stored.len # 0 /\ rest.len # 0
    <3>1. PICK y \in Seq(Nat) : y = p \o q
      BY <1>6, ConcatFacts
    <3>2. result = Allocate(memory, a, y, 0)
      BY <1>9, <1>10, <2>3, <3>1, Zenon DEF Combined
    <3> HIDE DEF result
    <3>3. \A s \in Held(ents, unstable, batch, handedOut) : s.array # a
      BY <1>1, <1>2, Zenon
    <3>4. AllocateOK(memory, ents, unstable, batch, handedOut, a, y, Allocate(memory, a, y, 0))
      BY <1>1, <1>5, <3>3, AllocateKeeps
    <3> QED
      BY <3>1, <3>2, <3>4, Zenon DEF AllocateOK
  <2> QED
    BY <2>1, <2>2, <2>3, Zenon
<1>12. new.slice = result.slice /\ new.value = p \o q
  BY <1>6
<1> HIDE DEF result, mem, new
<1>13. MemoryOK(mem, ents, unstable, batch, handedOut \cup {new})
  <2>1. \A h \in ((handedOut \cup {new}) \cup {batch}) \ (handedOut \cup {batch}) : h = new
    OBVIOUS
  <2>2. \A h \in ((handedOut \cup {new}) \cup {batch}) \ (handedOut \cup {batch}) :
          /\ WindowOf(mem, h.slice) /\ Behind(h.slice, ents) /\ Behind(h.slice, unstable)
          /\ Read(mem, h.slice) = h.value
    BY <1>11, <1>12, <2>1, Zenon
  <2> QED
    BY <1>11, <2>2, HandedOver
<1>14. /\ IndexesOK(storage', log', batch)
       /\ Read(mem, ents) = storage'.ents /\ Read(mem, unstable) = log'.unstable
  BY <1>1, <1>3, <1>11, Zenon
<1>15. messages' \in 0 .. MaxMessages
  BY <1>3, Zenon DEF ArraysInv
<1> QED
  BY <1>4, <1>13, <1>14, <1>15, InvAfter

\* The storage appends behind the last slot anybody looks at, or copies.
StoreOK(a, s2, r) ==
  /\ MemoryOK(r.memory, r.slice, unstable, batch, handedOut)
  /\ Read(r.memory, r.slice) = s2.ents
  /\ Read(r.memory, unstable) = log.unstable
  /\ r.slice.array \in {a, ents.array}

LEMMA WholeFacts == ASSUME NEW q \in Seq(Nat) PROVE SubSeq(q, 1, Len(q)) = q
<1>1. PICK n \in Nat : n = Len(q)
  OBVIOUS
<1>2. /\ SubSeq(q, 0 + 1, 0 + n) \in Seq(Nat) /\ Len(SubSeq(q, 0 + 1, 0 + n)) = n
      /\ \A i \in 1 .. n : SubSeq(q, 0 + 1, 0 + n)[i] = q[0 + i]
  <2>1. 0 + n <= Len(q) /\ 0 \in Nat
    BY <1>1
  <2> QED
    BY <2>1, PartFacts
<1>3. 0 + 1 = 1 /\ 0 + n = n /\ \A i \in 1 .. n : 0 + i = i
  BY <1>1
<1> DEFINE p == SubSeq(q, 1, n)
<1>4. p \in Seq(Nat) /\ Len(p) = n /\ \A i \in 1 .. n : p[i] = q[i]
  BY <1>2, <1>3, Zenon
<1> HIDE DEF p
<1>5. p = q
  BY <1>1, <1>4, SeqEqual
<1> QED
  BY <1>1, <1>5, Zenon DEF p

LEMMA StoreKeeps ==
  ASSUME ArraysInv, batch # NoBatch, NEW a \in Arrays \ Used, NEW spare \in Nat
  PROVE  StoreOK(a, MSAppend(storage, batch.first, batch.value),
                 StoredSlice(batch.first - storage.index, batch.value, a, spare))
<1> DEFINE s2 == MSAppend(storage, batch.first, batch.value)
<1> SUFFICES ASSUME NEW r, r = StoredSlice(batch.first - storage.index, batch.value, a, spare)
             PROVE  StoreOK(a, s2, r)
  BY Zenon
<1> DEFINE H == Held(ents, unstable, batch, handedOut)
           mem2 == r.memory
           e2 == r.slice
<1>1. /\ MemoryOK(memory, ents, unstable, batch, handedOut)
      /\ IndexesOK(storage, log, batch)
      /\ memory \in Memories /\ WindowOf(memory, ents)
      /\ ents.array # 0
      /\ Read(memory, ents) = storage.ents /\ ents.len = Len(storage.ents)
      /\ Read(memory, unstable) = log.unstable
      /\ \A s \in H : s.array # a
  BY InvFacts, Zenon
<1>2. /\ \A s \in H : WindowOf(memory, s) /\ Behind(s, ents)
      /\ ents \in H /\ unstable \in H /\ ents.array # unstable.array
  BY <1>1, Zenon DEF MemoryOK, Held
<1>3. PICK k \in Nat, xs \in Seq(Nat) :
        /\ k = batch.first - storage.index /\ xs = batch.value
        /\ k <= Len(storage.ents) /\ xs # <<>>
  <2>1. /\ batch.value \in Seq(Nat) /\ Len(batch.value) \in Nat \ {0}
        /\ batch.first - storage.index \in 1 .. Len(storage.ents)
    BY <1>1, StoredBatch
  <2>2. batch.value # <<>>
    BY <2>1
  <2>3. storage.ents \in Seq(Nat)
    BY <1>1, IndexFacts
  <2> QED
    BY <2>1, <2>2, <2>3
<1>4. s2.ents = SubSeq(storage.ents, 1, k) \o xs
  BY <1>1, <1>3, StoredFacts
<1>5. r = StoredSlice(k, xs, a, spare)
  BY <1>3, Zenon
<1>6. storage.ents \in Seq(Nat) /\ a \in Arrays /\ a # 0
  BY <1>1, IndexFacts, Constants
<1> HIDE DEF s2, H, mem2, e2
<1>7. /\ mem2 \in Memories /\ WindowOf(mem2, e2) /\ e2.array \in {a, ents.array}
      /\ \A s \in H : Kept(memory, mem2, s) /\ Behind(s, e2)
      /\ Read(mem2, e2) = s2.ents
  <2>1. CASE ents.len = k
    <3>1. r = GoAppend(memory, ents, xs, a, spare)
      BY <1>5, <2>1, Zenon DEF StoredSlice
    <3>2. ents.array # a
      BY <1>1, <1>2, Zenon
    <3>3. AppendOK(memory, ents, xs, a, GoAppend(memory, ents, xs, a, spare))
      BY <1>1, <1>6, <3>2, GoAppendFacts
    <3>4. /\ mem2 \in Memories /\ WindowOf(mem2, e2)
          /\ Read(mem2, e2) = storage.ents \o xs
          /\ e2.array \in {0, a, ents.array} /\ e2.array # 0
          /\ Undisturbed(memory, ents, a, r)
      BY <1>1, <3>1, <3>3, Zenon DEF AppendOK, mem2, e2
    <3>5. \A s \in H : Kept(memory, mem2, s) /\ Behind(s, e2)
      BY <1>1, <1>2, <3>4, Zenon DEF Undisturbed, mem2, e2
    <3>6. SubSeq(storage.ents, 1, k) = storage.ents
      BY <1>1, <1>6, <2>1, WholeFacts, Zenon
    <3>7. e2.array \in {a, ents.array}
      BY <3>4
    <3> QED
      BY <1>4, <3>4, <3>5, <3>6, <3>7, Zenon
  <2>2. CASE ents.len # k
    <3>1. PICK p \in Seq(Nat) : p = SubSeq(storage.ents, 1, k)
      BY <1>3, <1>6, HeadFacts
    <3>2. PICK y \in Seq(Nat) : y = p \o xs /\ y # <<>>
      <4>1. p \o xs \in Seq(Nat) /\ Len(p \o xs) = Len(p) + Len(xs) /\ Len(p) \in Nat
        BY ConcatFacts
      <4>2. Len(xs) \in Nat \ {0}
        BY <1>3
      <4>3. Len(p \o xs) # 0
        BY <4>1, <4>2
      <4>4. p \o xs # <<>>
        BY <4>3
      <4> QED
        BY <4>1, <4>4, Zenon
    <3>3. r = Allocate(memory, a, y, spare)
      BY <1>1, <1>5, <2>2, <3>1, <3>2, Zenon DEF StoredSlice
    <3>4. AllocateOK(memory, ents, unstable, batch, handedOut, a, y, Allocate(memory, a, y, spare))
      BY <1>1, <1>6, AllocateKeeps DEF H
    <3>5. /\ mem2 \in Memories /\ WindowOf(mem2, e2) /\ Read(mem2, e2) = y /\ e2.array = a
          /\ \A s \in H : Kept(memory, mem2, s) /\ Behind(s, e2)
      BY <3>2, <3>3, <3>4, Zenon DEF AllocateOK, H, mem2, e2
    <3> QED
      BY <1>4, <3>1, <3>2, <3>5, Zenon
  <2> QED
    BY <2>1, <2>2, Zenon
<1>8. e2.array # 0 /\ e2.array # unstable.array
  BY <1>1, <1>2, <1>6, <1>7
<1>9. MemoryOK(mem2, e2, unstable, batch, handedOut) /\ Read(mem2, unstable) = Read(memory, unstable)
  BY <1>1, <1>7, <1>8, NewEnts DEF H
<1> QED
  BY <1>1, <1>7, <1>9, Zenon DEF StoreOK, mem2, e2

LEMMA PersistKeeps ==
  ASSUME ArraysInv, Persist
  PROVE  ArraysInv'
<1> DEFINE value == Read(memory, batch.slice)
           first == NewFirst(storage, batch.first)
           last  == batch.first + Len(value) - 1
           xs    == NewEntries(storage, batch.first, value)
           term  == value[Len(value)]
           known == InUnstable(log, last) /\ UnstableTerm(log, last) = term
           left  == SubSlice(unstable, last + 1 - log.offset, unstable.len)
           Stored(a, spare) == IF MSAppendIgnored(storage, batch.first, value)
                                 THEN [memory |-> memory, slice |-> ents]
                                 ELSE StoredSlice(first - storage.index, xs, a, spare)
           Stable(b, stored) == StableToSlice(stored.memory, last, term, b)
<1>1. /\ MemoryOK(memory, ents, unstable, batch, handedOut)
      /\ IndexesOK(storage, log, batch) /\ log \in Logs
      /\ WindowOf(memory, unstable) /\ unstable.len = Len(log.unstable)
      /\ unstable.len # 0 => unstable.array # 0
      /\ \A a \in Arrays \ Used :
           \A s \in Held(ents, unstable, batch, handedOut) : s.array # a
  BY InvFacts, Zenon
<1>2. /\ batch # NoBatch /\ messages' = messages
      /\ storage' = MSAppend(storage, batch.first, value)
      /\ log' = StableTo(log, last, term)
  BY Zenon DEF Persist
<1>3. PICK a \in Arrays \ Used, b \in Arrays \ Used, spare \in 0 .. MaxSpare :
        /\ a < b
        /\ Settle(Stable(b, Stored(a, spare)).memory, Stored(a, spare).slice,
                  Stable(b, Stored(a, spare)).slice, NoBatch, handedOut)
  BY Zenon DEF Persist
<1>4. value = batch.value
  BY <1>1, HeldFacts
<1>5. /\ batch.value \in Seq(Nat) /\ Len(batch.value) \in Nat \ {0} /\ batch.first \in Nat
      /\ ~MSAppendIgnored(storage, batch.first, batch.value)
      /\ NewFirst(storage, batch.first) = batch.first
      /\ NewEntries(storage, batch.first, batch.value) = batch.value
      /\ log.offset <= batch.first
  BY <1>1, <1>2, StoredBatch
<1>6. /\ spare \in Nat /\ a \in Arrays /\ b \in Arrays /\ a # b /\ b # 0
      /\ log.offset \in Nat /\ log.unstable \in Seq(Nat)
  <2>1. MaxSpare \in Nat
    BY EntryArraysAssumption
  <2>2. a \in Nat /\ b \in Nat
    BY Constants
  <2>3. log.offset \in Nat /\ log.unstable \in Seq(Nat)
    BY <1>1, IndexFacts
  <2> QED
    BY <1>3, <2>1, <2>2, <2>3, Constants
<1> DEFINE stored == Stored(a, spare)
           shrunk == Stable(b, stored)
           mem == stored.memory
           e == stored.slice
           mem2 == shrunk.memory
           u == shrunk.slice
<1>7. Settle(mem2, e, u, NoBatch, handedOut)
  BY <1>3, Zenon
<1>8. last \in Nat /\ log.offset <= last
  BY <1>4, <1>5, <1>6
<1>9. /\ MemoryOK(mem, e, unstable, batch, handedOut)
      /\ Read(mem, e) = storage'.ents
      /\ Read(mem, unstable) = log.unstable
      /\ e.array \in {a, ents.array}
  <2>1. stored = StoredSlice(batch.first - storage.index, batch.value, a, spare)
    BY <1>4, <1>5, Zenon
  <2>2. StoreOK(a, MSAppend(storage, batch.first, batch.value),
                StoredSlice(batch.first - storage.index, batch.value, a, spare))
    BY <1>2, <1>6, StoreKeeps, Zenon
  <2>3. StoreOK(a, storage', stored)
    BY <1>2, <1>4, <2>1, <2>2, Zenon
  <2> QED
    BY <2>3, Zenon DEF StoreOK
<1>10. shrunk = IF ~known THEN [memory |-> mem, slice |-> unstable]
                ELSE IF left.len = 0 THEN [memory |-> mem, slice |-> Slice0]
                ELSE IF 2 * left.len < Capacity(mem, left) THEN Allocate(mem, b, Read(mem, left), 0)
                ELSE [memory |-> mem, slice |-> left]
  BY Zenon DEF StableToSlice, ShrinkEntriesArray
<1>11. IF known
         THEN log'.unstable = SubSeq(log.unstable, last + 1 - log.offset + 1, Len(log.unstable))
         ELSE log' = log
  <2>1. StableToOK(log, last, term, StableTo(log, last, term))
    BY <1>1, <1>6, <1>8, StableToFacts
  <2> QED
    BY <1>2, <2>1, Zenon DEF StableToOK
<1>12. known => InUnstable(log, last)
  BY Zenon
<1>13. IndexesOK(storage', log', NoBatch)
  BY <1>1, <1>2, <1>4, PersistKeepsIndexes, Zenon
<1> HIDE DEF value, last, term, known, left, Stored, Stable, stored, shrunk
<1> DEFINE H == Held(e, unstable, NoBatch, handedOut)
<1>14. MemoryOK(mem, e, unstable, NoBatch, handedOut)
  <2>1. \A h \in (handedOut \cup {NoBatch}) \ (handedOut \cup {batch}) : h = NoBatch
    OBVIOUS
  <2>2. NoBatch.slice = Slice0 /\ NoBatch.value = <<>> /\ Slice0.array = 0
    BY DEF NoBatch, Slice0
  <2>3. WindowOf(mem, Slice0) /\ Read(mem, Slice0) = <<>>
    BY NilIsWindow, Zenon
  <2>4. WindowOf(mem, e) /\ WindowOf(mem, unstable)
    BY <1>9, HeldFacts
  <2>5. Behind(Slice0, e) /\ Behind(Slice0, unstable)
    BY <2>2, <2>3, <2>4, BehindFacts, Zenon
  <2>6. \A h \in (handedOut \cup {NoBatch}) \ (handedOut \cup {batch}) :
          /\ WindowOf(mem, h.slice) /\ Behind(h.slice, e) /\ Behind(h.slice, unstable)
          /\ Read(mem, h.slice) = h.value
    BY <2>1, <2>2, <2>3, <2>5, Zenon
  <2> QED
    BY <1>9, <2>6, HandedOver
<1>15. /\ mem \in Memories
       /\ \A s \in H : WindowOf(mem, s) /\ Behind(s, e) /\ Behind(s, unstable)
       /\ WindowOf(mem, e) /\ WindowOf(mem, unstable)
       /\ e.array # 0 /\ e.array # unstable.array
  BY <1>14, HeldFacts
<1>16. \A s \in H : s.array # b
  <2>1. ASSUME NEW s \in H PROVE s.array # b
    <3>1. CASE s = e
      <4>1. ents.array # b
        BY <1>1, <1>3, Zenon DEF Held
      <4> QED
        BY <1>6, <1>9, <3>1, <4>1
    <3>2. CASE s = NoBatch.slice
      <4>1. s.array = 0
        BY <3>2 DEF NoBatch, Slice0
      <4> QED
        BY <1>6, <4>1
    <3>3. CASE s # e /\ s # NoBatch.slice
      <4>1. s \in Held(ents, unstable, batch, handedOut)
        BY <3>3 DEF Held
      <4> QED
        BY <1>1, <1>3, <4>1, Zenon
    <3> QED
      BY <3>1, <3>2, <3>3, Zenon
  <2> QED
    BY <2>1, Zenon
<1>17. MemoryOK(mem2, e, u, NoBatch, handedOut) /\ Read(mem2, e) = Read(mem, e)
       /\ Read(mem2, u) = log'.unstable
  <2>1. CASE ~known
    <3>1. mem2 = mem /\ u = unstable
      BY <1>10, <2>1
    <3>2. log' = log
      BY <1>11, <2>1, Zenon
    <3> HIDE DEF mem, e, mem2, u
    <3> QED
      BY <1>9, <1>14, <3>1, <3>2, Zenon
  <2>2. CASE known
    <3>1. PICK f \in Nat, g \in Nat :
            /\ f = last + 1 - log.offset /\ g = unstable.len /\ f <= g /\ g # 0
            /\ f + 1 = last + 1 - log.offset + 1
      <4>1. last < log.offset + Len(log.unstable) /\ Len(log.unstable) \in Nat
        BY <1>6, <1>12, <2>2 DEF InUnstable
      <4>2. PICK n \in Nat, o \in Nat : n = Len(log.unstable) /\ o = log.offset
        BY <1>6, <4>1, Zenon
      <4>3. o <= last /\ last < o + n /\ unstable.len = n
        BY <1>1, <1>8, <4>1, <4>2, Zenon
      <4>4. last + 1 - o \in Nat /\ last + 1 - o <= n /\ n # 0
        BY <1>8, <4>3
      <4>5. PICK f \in Nat : f = last + 1 - o /\ f + 1 = last + 1 - o + 1
        BY <4>4
      <4> QED
        BY <4>2, <4>3, <4>4, <4>5, Zenon
    <3>2. left = SubSlice(unstable, f, g)
      BY <3>1, Zenon DEF left
    <3>3. unstable.array # 0
      BY <1>1, <3>1, Zenon
    <3>4. log'.unstable = SubSeq(log.unstable, f + 1, g)
      BY <1>1, <1>11, <2>2, <3>1, Zenon
    <3>5. SubSliceOK(mem, unstable, f, g, SubSlice(unstable, f, g))
      BY <1>15, <3>1, <3>3, SubSliceFacts
    <3>6. /\ WindowOf(mem, left) /\ left.array = unstable.array /\ left.len = g - f
          /\ End(left) = End(unstable)
          /\ Read(mem, left) = log'.unstable
      BY <1>9, <3>1, <3>2, <3>4, <3>5, Zenon DEF SubSliceOK
    <3> HIDE DEF mem, e, mem2, u
    <3>7. CASE left.len = 0
      <4>1. mem2 = mem /\ u = Slice0
        BY <1>10, <2>2, <3>7 DEF mem2, u
      <4>2. u.array = 0 /\ WindowOf(mem, u) /\ Read(mem, u) = <<>>
        <5>1. Slice0.array = 0
          BY DEF Slice0
        <5> QED
          BY <4>1, <5>1, NilIsWindow, Zenon
      <4>3. \A s \in H : Kept(mem, mem, s) /\ Behind(s, u)
        <5>1. ASSUME NEW s \in H PROVE Behind(s, u)
          <6>1. WindowOf(mem, s)
            BY <1>15
          <6> QED
            BY <4>2, <6>1, BehindFacts, Zenon
        <5> QED
          BY <1>15, <5>1, Zenon DEF Kept
      <4>4. MemoryOK(mem, e, u, NoBatch, handedOut)
        BY <1>14, <1>15, <4>2, <4>3, NewUnstable
      <4>5. Read(mem, left) = <<>>
        <5>1. Read(mem, left) \in Seq(Nat) /\ Len(Read(mem, left)) = 0
          BY <1>15, <3>6, <3>7, ReadFacts
        <5> QED
          BY <5>1
      <4> QED
        BY <3>6, <4>1, <4>2, <4>4, <4>5, Zenon
    <3>8. CASE left.len # 0 /\ 2 * left.len < Capacity(mem, left)
      <4>1. PICK y \in Seq(Nat) : y = Read(mem, left)
        BY <1>15, <3>6, ReadFacts
      <4>2. shrunk = Allocate(mem, b, y, 0)
        BY <1>10, <2>2, <3>8, <4>1, Zenon
      <4>3. AllocateOK(mem, e, unstable, NoBatch, handedOut, b, y, Allocate(mem, b, y, 0))
        BY <1>6, <1>14, <1>16, AllocateKeeps
      <4>4. /\ mem2 \in Memories /\ WindowOf(mem2, u) /\ Read(mem2, u) = y /\ u.array \in {0, b}
            /\ \A s \in H : Kept(mem, mem2, s) /\ Behind(s, u)
        BY <4>2, <4>3, Zenon DEF AllocateOK, mem2, u
      <4>5. u.array # e.array
        <5>1. e.array # b
          BY <1>16, Zenon DEF Held
        <5> QED
          BY <1>15, <4>4, <5>1
      <4>6. MemoryOK(mem2, e, u, NoBatch, handedOut) /\ Read(mem2, e) = Read(mem, e)
        BY <1>14, <4>4, <4>5, NewUnstable
      <4> QED
        BY <3>6, <4>1, <4>4, <4>6, Zenon
    <3>9. CASE left.len # 0 /\ ~(2 * left.len < Capacity(mem, left))
      <4>1. mem2 = mem /\ u = left
        BY <1>10, <2>2, <3>9 DEF mem2, u
      <4>2. \A s \in H : Kept(mem, mem, s) /\ Behind(s, u)
        BY <1>15, <3>6, <4>1, Zenon DEF Kept, Behind
      <4>3. u.array # e.array
        BY <1>15, <3>6, <4>1
      <4>4. MemoryOK(mem, e, u, NoBatch, handedOut)
        BY <1>14, <1>15, <3>6, <4>1, <4>2, <4>3, NewUnstable
      <4> QED
        BY <3>6, <4>1, <4>4, Zenon
    <3> QED
      BY <3>7, <3>8, <3>9, Zenon
  <2> QED
    BY <2>1, <2>2, Zenon
<1>18. messages' \in 0 .. MaxMessages
  BY <1>2, Zenon DEF ArraysInv
<1>19. Read(mem2, e) = storage'.ents
  BY <1>9, <1>17, Zenon
<1> HIDE DEF mem, e, mem2, u
<1> QED
  BY <1>7, <1>13, <1>17, <1>18, <1>19, InvAfter

LEMMA InitArrays == Init => ArraysInv
<1> SUFFICES ASSUME Init PROVE ArraysInv
  OBVIOUS
<1> DEFINE mem0 == [a \in Arrays |-> <<>>]
           one == <<0>>
           made == Allocate(mem0, 1, one, 0)
<1>1. /\ memory = made.memory /\ ents = made.slice
      /\ unstable = Slice0 /\ batch = NoBatch /\ handedOut = {} /\ messages = 0
      /\ storage = NewMemoryStorage /\ log = NewLog(storage)
  BY Zenon DEF Init
<1>2. mem0 \in Memories /\ one \in Seq(Nat) /\ one # <<>> /\ Len(one) = 1
  BY DEF Memories
<1>3. 1 \in Arrays /\ 0 \in Nat /\ 1 # 0
  BY Constants
<1> HIDE DEF mem0, one
<1>4. /\ made.memory \in Memories /\ WindowOf(made.memory, made.slice)
      /\ Read(made.memory, made.slice) = one /\ made.slice.array = 1
  BY <1>2, <1>3, AllocateFacts
<1> HIDE DEF made
<1>5. NoBatch.slice = Slice0 /\ NoBatch.value = <<>> /\ Slice0.array = 0
  BY DEF NoBatch, Slice0
<1>6. /\ WindowOf(memory, Slice0) /\ Read(memory, Slice0) = <<>>
      /\ WindowOf(memory, ents) /\ ents.array = 1
  BY <1>1, <1>4, NilIsWindow, Zenon
<1>7. MemoryOK(memory, ents, unstable, batch, handedOut)
  <2>1. \A s \in Held(ents, unstable, batch, handedOut) : s = ents \/ s = Slice0
    BY <1>1, <1>5 DEF Held
  <2>2. Behind(Slice0, ents) /\ Behind(Slice0, Slice0) /\ Behind(ents, ents) /\ Behind(ents, Slice0)
    BY <1>3, <1>5, <1>6, BehindFacts
  <2>3. \A s \in Held(ents, unstable, batch, handedOut) :
          WindowOf(memory, s) /\ Behind(s, ents) /\ Behind(s, unstable)
    BY <1>1, <1>6, <2>1, <2>2
  <2>4. \A h \in handedOut \cup {batch} : h = NoBatch
    BY <1>1
  <2>5. \A h \in handedOut \cup {batch} : Read(memory, h.slice) = h.value
    BY <1>5, <1>6, <2>4, Zenon
  <2>6. ents.array # 0 /\ ents.array # unstable.array /\ memory \in Memories
    BY <1>1, <1>3, <1>4, <1>5, <1>6, Zenon
  <2> QED
    BY <2>3, <2>5, <2>6, Zenon DEF MemoryOK
<1>8. /\ storage \in Storages /\ storage.index = 0 /\ storage.ents = one
      /\ log \in Logs /\ log.offset = 1 /\ log.committed = 0 /\ log.unstable = <<>>
  <2> DEFINE S == Seq(Nat)
             nil == <<>>
  <2>1. one \in S /\ nil \in S /\ Len(one) = 1
    BY <1>2
  <2>2. storage = [index |-> 0, ents |-> one, snap |-> [index |-> 0, term |-> 0]]
    BY <1>1, Zenon DEF NewMemoryStorage, one
  <2> HIDE DEF S
  <2>3. storage \in StoragesOf(Nat, S, [index : Nat, term : Nat])
    BY <2>1, <2>2 DEF StoragesOf
  <2>4. storage.index = 0 /\ storage.ents = one
    BY <2>2
  <2>5. MSLastIndex(storage) + 1 = 1 /\ MSFirstIndex(storage) - 1 = 0
    BY <2>1, <2>4 DEF MSLastIndex, MSFirstIndex
  <2>6. log = [offset |-> 1, unstable |-> nil, committed |-> 0, applied |-> 0]
    <3>1. log = NewLog(storage)
      BY <1>1, Zenon
    <3>2. NewLog(storage) =
            [offset |-> MSLastIndex(storage) + 1, unstable |-> nil,
             committed |-> MSFirstIndex(storage) - 1, applied |-> MSFirstIndex(storage) - 1]
      BY DEF NewLog
    <3> HIDE DEF nil
    <3> QED
      BY <2>5, <3>1, <3>2
  <2> HIDE DEF nil
  <2>7. log \in LogsOf(Nat, S) /\ log.offset = 1 /\ log.committed = 0 /\ log.unstable = nil
    BY <2>1, <2>6 DEF LogsOf
  <2> QED
    BY <2>3, <2>4, <2>7, Zenon DEF S, nil, Logs, Storages
<1>9. IndexesOK(storage, log, batch)
  <2>1. /\ storage.index < log.offset /\ log.offset <= storage.index + Len(storage.ents)
        /\ log.offset = storage.index + Len(storage.ents)
        /\ storage.index <= log.committed
    BY <1>2, <1>8
  <2> QED
    BY <1>1, <1>2, <1>8, <2>1, Zenon DEF IndexesOK
<1>10. ArraysHoldTheLog
  BY <1>1, <1>4, <1>6, <1>8, Zenon DEF ArraysHoldTheLog
<1>11. messages \in 0 .. MaxMessages
  BY <1>1, EntryArraysAssumption
<1> QED
  BY <1>7, <1>9, <1>10, <1>11, Zenon DEF ArraysInv

LEMMA NextArrays == ArraysInv /\ [Next]_vars => ArraysInv'
<1> SUFFICES ASSUME ArraysInv, [Next]_vars PROVE ArraysInv'
  OBVIOUS
<1>1. ASSUME NEW after \in 1 .. MaxLast, NEW n \in 1 .. 2, Receive(after, n)
      PROVE  ArraysInv'
  BY <1>1, ReceiveKeeps
<1>2. CASE TakeBatch
  BY <1>2, TakeBatchKeeps
<1>3. CASE Persist
  BY <1>3, PersistKeeps
<1>4. CASE Forget
  BY <1>4, ForgetKeeps
<1>5. ASSUME NEW lo \in 1 .. MaxLast, NEW hi \in 2 .. MaxLast + 1, HandOutSlice(lo, hi)
      PROVE  ArraysInv'
  BY <1>5, HandOutSliceKeeps
<1>6. ASSUME NEW i \in 1 .. MaxLast, CompactStorage(i)
      PROVE  ArraysInv'
  BY <1>6, CompactStorageKeeps
<1>7. CASE UNCHANGED vars
  BY <1>7, Zenon DEF vars, ArraysInv, ArraysHoldTheLog
<1> QED
  BY <1>1, <1>2, <1>3, <1>4, <1>5, <1>6, <1>7, Zenon DEF Next

LEMMA ArraysInvAlways == Spec => []ArraysInv
BY InitArrays, NextArrays, PTL DEF Spec

\* Every slice the program keeps or has given away is nil or lies within its
\* array, whatever append, the conversions of log_unstable.go and the storage do.
THEOREM SlicesWithinArrays == Spec => []TypeOK
<1>1. ArraysInv => TypeOK
  <2> SUFFICES ASSUME ArraysInv PROVE TypeOK
    OBVIOUS
  <2>1. /\ memory \in Memories /\ messages \in 0 .. MaxMessages
        /\ \A s \in Held(ents, unstable, batch, handedOut) : WindowOf(memory, s)
    BY Zenon DEF ArraysInv, MemoryOK
  <2>2. DOMAIN memory = Arrays
    BY <2>1, Zenon DEF Memories
  <2>3. \A s \in {ents, unstable, batch.slice} \cup {h.slice : h \in handedOut} :
          s = Slice0 \/ (s.array \in Arrays /\ s.from + s.len <= Len(memory[s.array]))
    BY <2>1, Zenon DEF Held, WindowOf, End
  <2> QED
    BY <2>1, <2>2, <2>3, Zenon DEF TypeOK
<1> QED
  BY <1>1, ArraysInvAlways, PTL

\* A message somebody sent, the batch while the user writes it, and the entries
\* of slice and nextEnts stay what they were as long as somebody holds them.
THEOREM WhatIsGivenStays == Spec => []HandedOutNeverChanges
<1>1. ArraysInv => HandedOutNeverChanges
  BY Zenon DEF ArraysInv, MemoryOK, HandedOutNeverChanges
<1> QED
  BY <1>1, ArraysInvAlways, PTL

\* The arrays of ms.ents and unstable.entries hold what the same operations make
\* of sequences, so the other modules may take a slice for a sequence.
THEOREM ArraysAreSequences == Spec => []ArraysHoldTheLog
<1>1. ArraysInv => ArraysHoldTheLog
  BY Zenon DEF ArraysInv
<1> QED
  BY <1>1, ArraysInvAlways, PTL
=============================================================================
