--------------------------- MODULE SequenceFacts ---------------------------
(***************************************************************************)
(* Induction over data, for the proofs about sequences: the induction      *)
(* principle on the natural numbers with a set for the predicate, that     *)
(* functions defined by recursion exist, and what the operators of         *)
(* SequencesExt that are defined by recursion compute.                     *)
(***************************************************************************)
EXTENDS SequencesExt, SequenceTheorems, FiniteSetTheorems,
        WellFoundedInduction, TLAPS

-----------------------------------------------------------------------------
(* Induction.                                                              *)

(* A nonempty set of natural numbers has a least element. Those below a    *)
(* number form a finite set, and smaller numbers have smaller ones.        *)
LEMMA LeastNumber ==
  ASSUME NEW T \in SUBSET Nat, T # {}
  PROVE  \E n \in T : \A m \in T : n <= m
<1> DEFINE below == {0 .. n : n \in T}
<1>1. below \in SUBSET FiniteSubsetsOf(Nat)
  <2>1. ASSUME NEW n \in T
        PROVE  0 .. n \in FiniteSubsetsOf(Nat)
    BY FS_Interval DEF FiniteSubsetsOf
  <2> QED
    BY <2>1
<1>2. PICK x \in below : \A y \in below : ~ (<<y, x>> \in StrictSubsetOrdering(Nat))
  <2>1. IsWellFoundedOn(StrictSubsetOrdering(Nat), FiniteSubsetsOf(Nat))
    BY FS_StrictSubsetOrderingWellFounded
  <2>2. below # {}
    OBVIOUS
  <2> HIDE DEF below
  <2> QED
    BY <1>1, <2>1, <2>2, WFMin
<1>3. PICK n \in T : x = 0 .. n
  BY <1>2
<1>4. ASSUME NEW m \in T, m < n
      PROVE  FALSE
  <2>1. 0 .. m \subseteq 0 .. n /\ 0 .. m # 0 .. n
    BY <1>4
  <2>2. <<0 .. m, 0 .. n>> \in StrictSubsetOrdering(Nat)
    BY <2>1 DEF StrictSubsetOrdering
  <2> QED
    BY <1>2, <1>3, <2>2
<1> QED
  BY <1>3, <1>4

(* Induction up to n: T is the set of the numbers that have the property.  *)
LEMMA InductionUpTo ==
  ASSUME NEW n \in Nat, NEW T, 0 \in T,
         \A k \in 1 .. n : k - 1 \in T => k \in T
  PROVE  \A k \in 0 .. n : k \in T
<1> DEFINE bad == {k \in 0 .. n : k \notin T}
<1>1. SUFFICES ASSUME bad # {}
               PROVE  FALSE
  OBVIOUS
<1>2. PICK k \in bad : \A m \in bad : k <= m
  <2>1. bad \in SUBSET Nat
    OBVIOUS
  <2> HIDE DEF bad
  <2> QED
    BY <1>1, <2>1, LeastNumber
<1>3. k \in 1 .. n
  BY <1>2
<1>4. k - 1 \in 0 .. n /\ k - 1 \notin bad
  BY <1>2, <1>3
<1> QED
  BY <1>2, <1>3, <1>4

(* f starts with first, and each value is made from the one before it.     *)
Iterates(f, first, step, n) ==
  f[0] = first /\ \A k \in 1 .. n : f[k] = step[k][f[k-1]]

(* Such a function exists.                                                 *)
LEMMA IterationExists ==
  ASSUME NEW V, NEW first \in V, NEW n \in Nat, NEW step \in [1 .. n -> [V -> V]]
  PROVE  \E f \in [0 .. n -> V] : Iterates(f, first, step, n)
<1> DEFINE T == {m \in 0 .. n : \E f \in [0 .. m -> V] : Iterates(f, first, step, m)}
<1>1. 0 \in T
  <2>1. /\ [k \in 0 .. 0 |-> first] \in [0 .. 0 -> V]
        /\ Iterates([k \in 0 .. 0 |-> first], first, step, 0)
    BY DEF Iterates
  <2>2. \E f \in [0 .. 0 -> V] : Iterates(f, first, step, 0)
    BY <2>1
  <2> QED
    BY <2>2
<1>2. ASSUME NEW m \in 1 .. n, m - 1 \in T
      PROVE  m \in T
  <2>1. PICK f \in [0 .. m - 1 -> V] : Iterates(f, first, step, m - 1)
    BY <1>2
  <2> DEFINE g == [k \in 0 .. m |-> IF k = m THEN step[m][f[m-1]] ELSE f[k]]
  <2>2. f[m-1] \in V /\ step[m][f[m-1]] \in V
    OBVIOUS
  <2>3. g \in [0 .. m -> V]
    BY <2>2
  <2>4. ASSUME NEW k \in 1 .. m
        PROVE  g[k] = step[k][g[k-1]]
    BY <2>1 DEF Iterates
  <2>5. g[0] = first
    BY <2>1 DEF Iterates
  <2> HIDE DEF g
  <2>6. Iterates(g, first, step, m)
    BY <2>4, <2>5 DEF Iterates
  <2>7. \E h \in [0 .. m -> V] : Iterates(h, first, step, m)
    BY <2>3, <2>6
  <2> QED
    BY <2>7
<1>3. n \in T
  <2> HIDE DEF T
  <2>1. \A k \in 0 .. n : k \in T
    BY <1>1, <1>2, InductionUpTo
  <2> QED
    BY <2>1
<1> QED
  BY <1>3

-----------------------------------------------------------------------------
(* FlattenSeq appends the sequences one by one.                            *)

Flattens(flat, seqs) ==
  /\ flat[0] = <<>>
  /\ \A k \in 1 .. Len(seqs) : flat[k] = flat[k-1] \o seqs[k]

(* The function by which FlattenSeq is defined.                            *)
FlattensFromOne(g, seqs) ==
  g = [i \in 1 .. Len(seqs) |-> IF i = 1 THEN seqs[i] ELSE g[i-1] \o seqs[i]]

LEMMA FlattensExists ==
  ASSUME NEW S, NEW seqs \in Seq(Seq(S))
  PROVE  \E flat \in [0 .. Len(seqs) -> Seq(S)] : Flattens(flat, seqs)
<1> DEFINE step == [k \in 1 .. Len(seqs) |-> [v \in Seq(S) |-> v \o seqs[k]]]
<1>1. step \in [1 .. Len(seqs) -> [Seq(S) -> Seq(S)]]
  <2>1. ASSUME NEW k \in 1 .. Len(seqs), NEW v \in Seq(S)
        PROVE  v \o seqs[k] \in Seq(S)
    <3>1. seqs[k] \in Seq(S)
      OBVIOUS
    <3> QED
      BY <3>1, ConcatProperties
  <2> QED
    BY <2>1
<1>2. <<>> \in Seq(S) /\ Len(seqs) \in Nat
  OBVIOUS
<1>3. PICK flat \in [0 .. Len(seqs) -> Seq(S)] : Iterates(flat, <<>>, step, Len(seqs))
  <2> HIDE DEF step
  <2> QED
    BY <1>1, <1>2, IterationExists
<1>4. ASSUME NEW k \in 1 .. Len(seqs)
      PROVE  flat[k] = flat[k-1] \o seqs[k]
  <2>1. k - 1 \in 0 .. Len(seqs)
    BY <1>2
  <2>2. flat[k-1] \in Seq(S)
    BY <2>1
  <2>3. flat[k] = step[k][flat[k-1]]
    <3> HIDE DEF step
    <3> QED
      BY <1>3 DEF Iterates
  <2> QED
    BY <2>2, <2>3
<1>5. Flattens(flat, seqs)
  <2>1. flat[0] = <<>>
    BY <1>3 DEF Iterates
  <2> QED
    BY <1>4, <2>1 DEF Flattens
<1> QED
  BY <1>5

LEMMA FlattenSteps ==
  ASSUME NEW S, NEW seqs \in Seq(Seq(S))
  PROVE  \E flat \in [0 .. Len(seqs) -> Seq(S)] :
           Flattens(flat, seqs) /\ FlattenSeq(seqs) = flat[Len(seqs)]
<1>1. PICK flat \in [0 .. Len(seqs) -> Seq(S)] : Flattens(flat, seqs)
  BY FlattensExists
<1>2. Len(seqs) \in Nat
  OBVIOUS
<1>3. CASE Len(seqs) = 0
  <2>1. FlattenSeq(seqs) = <<>>
    BY <1>3, EmptySeq DEF FlattenSeq
  <2> QED
    BY <1>1, <1>3, <2>1 DEF Flattens
<1>4. CASE Len(seqs) # 0
  <2>1. 1 \in 1 .. Len(seqs) /\ flat[1] = seqs[1]
    <3>1. 1 \in 1 .. Len(seqs) /\ 1 - 1 = 0
      BY <1>2, <1>4
    <3>2. flat[1] = <<>> \o seqs[1]
      BY <1>1, <3>1 DEF Flattens
    <3>3. seqs[1] \in Seq(S)
      BY <3>1
    <3>4. <<>> \o seqs[1] = seqs[1]
      BY <3>3, ConcatEmptySeq
    <3> QED
      BY <3>1, <3>2, <3>4
  <2>2. FlattensFromOne([i \in 1 .. Len(seqs) |-> flat[i]], seqs)
    <3>1. ASSUME NEW i \in 1 .. Len(seqs), i # 1
          PROVE  flat[i] = flat[i-1] \o seqs[i] /\ i - 1 \in 1 .. Len(seqs)
      <4>1. flat[i] = flat[i-1] \o seqs[i]
        BY <1>1 DEF Flattens
      <4>2. i - 1 \in 1 .. Len(seqs)
        BY <1>2, <3>1
      <4> QED
        BY <4>1, <4>2
    <3> QED
      BY <2>1, <3>1 DEF FlattensFromOne
  <2> DEFINE g == CHOOSE h : FlattensFromOne(h, seqs)
  <2>3. FlattensFromOne(g, seqs)
    BY <2>2
  <2>4. FlattenSeq(seqs) = g[Len(seqs)]
    BY <1>4 DEF FlattenSeq, FlattensFromOne
  <2> HIDE DEF g
  <2> DEFINE T == {k \in 0 .. Len(seqs) : k = 0 \/ g[k] = flat[k]}
  <2>5. 0 \in T
    BY <1>2
  <2>6. ASSUME NEW k \in 1 .. Len(seqs), k - 1 \in T
        PROVE  k \in T
    <3>1. g[k] = IF k = 1 THEN seqs[k] ELSE g[k-1] \o seqs[k]
      BY <2>3 DEF FlattensFromOne
    <3>2. flat[k] = flat[k-1] \o seqs[k]
      BY <1>1 DEF Flattens
    <3>3. k = 1 \/ g[k-1] = flat[k-1]
      BY <1>2, <2>6
    <3>4. g[k] = flat[k]
      <4>1. CASE k = 1
        BY <2>1, <3>1, <4>1
      <4>2. CASE k # 1
        BY <3>1, <3>2, <3>3, <4>2
      <4> QED
        BY <4>1, <4>2
    <3>5. k \in 0 .. Len(seqs)
      BY <1>2
    <3> QED
      BY <3>4, <3>5
  <2> HIDE DEF T
  <2>7. \A k \in 0 .. Len(seqs) : k \in T
    BY <1>2, <2>5, <2>6, InductionUpTo
  <2>8. Len(seqs) \in T
    BY <1>2, <2>7
  <2>9. g[Len(seqs)] = flat[Len(seqs)]
    BY <1>4, <2>8 DEF T
  <2> QED
    BY <1>1, <2>4, <2>9
<1> QED
  BY <1>3, <1>4

LEMMA FlattenType ==
  ASSUME NEW S, NEW seqs \in Seq(Seq(S))
  PROVE  FlattenSeq(seqs) \in Seq(S)
<1>1. PICK flat \in [0 .. Len(seqs) -> Seq(S)] : FlattenSeq(seqs) = flat[Len(seqs)]
  BY FlattenSteps
<1>2. Len(seqs) \in 0 .. Len(seqs)
  OBVIOUS
<1> QED
  BY <1>1, <1>2

LEMMA RemoveFirstType ==
  ASSUME NEW S, NEW s \in Seq(S), NEW e
  PROVE  RemoveFirst(s, e) \in Seq(S)
<1> DEFINE I == {i \in 1 .. Len(s) : s[i] = e}
<1>1. CASE I = {}
  BY <1>1 DEF RemoveFirst
<1>2. CASE I # {}
  <2>1. PICK i \in I : \A j \in I : i <= j
    <3>1. I \in SUBSET Nat
      OBVIOUS
    <3> HIDE DEF I
    <3> QED
      BY <1>2, <3>1, LeastNumber
  <2>2. Min(I) \in I
    <3> HIDE DEF I
    <3> QED
      BY <2>1 DEF Min
  <2>3. RemoveFirst(s, e) = SubSeq(s, 1, Min(I) - 1) \o SubSeq(s, Min(I) + 1, Len(s))
    BY <1>2 DEF RemoveFirst, RemoveAt, SelectInSeq
  <2>4. ASSUME NEW m \in 1 .. Len(s)
        PROVE  SubSeq(s, 1, m - 1) \in Seq(S) /\ SubSeq(s, m + 1, Len(s)) \in Seq(S)
    BY SubSeqProperties
  <2>5. Min(I) \in 1 .. Len(s)
    BY <2>2
  <2> HIDE DEF I
  <2> QED
    BY <2>3, <2>4, <2>5, ConcatProperties
<1> QED
  BY <1>1, <1>2

-----------------------------------------------------------------------------
(* What a sequence is.                                                     *)

LEMMA IsSequence ==
  ASSUME NEW S, NEW n \in Nat, NEW f \in [1 .. n -> S]
  PROVE  f \in Seq(S) /\ Len(f) = n
OBVIOUS

LEMMA Elements ==
  ASSUME NEW S, NEW s \in Seq(S)
  PROVE  /\ Len(s) \in Nat
         /\ DOMAIN s = 1 .. Len(s)
         /\ \A k \in 1 .. Len(s) : s[k] \in S
OBVIOUS

LEMMA IsConcatenation ==
  ASSUME NEW S, NEW a \in Seq(S), NEW b \in Seq(S), NEW c \in Seq(S),
         Len(c) = Len(a) + Len(b),
         \A p \in 1 .. Len(a) + Len(b) : c[p] = IF p <= Len(a) THEN a[p] ELSE b[p - Len(a)]
  PROVE  a \o b = c
<1>1. a \o b \in Seq(S) /\ Len(a \o b) = Len(c)
  BY ConcatProperties
<1>2. \A p \in 1 .. Len(a \o b) : (a \o b)[p] = c[p]
  BY ConcatProperties
<1> QED
  BY <1>1, <1>2, SeqEqual

-----------------------------------------------------------------------------
(* Extremes.                                                               *)

LEMMA MinIsLeast ==
  ASSUME NEW T \in SUBSET Nat, T # {}
  PROVE  Min(T) \in T /\ \A m \in T : Min(T) <= m
<1>1. PICK n \in T : \A m \in T : n <= m
  BY LeastNumber
<1> QED
  BY <1>1 DEF Min

LEMMA MaxIsGreatest ==
  ASSUME NEW n \in Nat, NEW T \in SUBSET (0 .. n), T # {}
  PROVE  Max(T) \in T /\ \A m \in T : m <= Max(T)
<1> DEFINE under == {n - m : m \in T}
<1>1. under \in SUBSET Nat /\ under # {}
  <2>1. ASSUME NEW m \in T
        PROVE  n - m \in Nat
    OBVIOUS
  <2> QED
    BY <2>1
<1>2. PICK d \in under : \A e \in under : d <= e
  <2> HIDE DEF under
  <2> QED
    BY <1>1, LeastNumber
<1>3. PICK t \in T : d = n - t
  BY <1>2
<1>4. ASSUME NEW m \in T
      PROVE  m <= t
  <2>1. d <= n - m
    BY <1>2
  <2> QED
    BY <1>3, <2>1
<1> QED
  BY <1>4 DEF Max

-----------------------------------------------------------------------------
(* FlattenSeq and concatenation.                                           *)

(* A function that maps <<>> to itself, and concatenations to              *)
(* concatenations ...                                                      *)
Homomorphism(h, S) ==
  h[<<>>] = <<>> /\ \A a, b \in Seq(S) : h[a \o b] = h[a] \o h[b]

(* ... may be applied before FlattenSeq or after.                          *)
LEMMA FlattenMap ==
  ASSUME NEW S, NEW T, NEW h \in [Seq(S) -> Seq(T)], Homomorphism(h, S),
         NEW seqs \in Seq(Seq(S)),
         NEW mapped, mapped = [k \in DOMAIN seqs |-> h[seqs[k]]]
  PROVE  h[FlattenSeq(seqs)] = FlattenSeq(mapped)
<1>1. mapped \in Seq(Seq(T)) /\ Len(mapped) = Len(seqs) /\ Len(seqs) \in Nat
  <2>1. /\ Len(seqs) \in Nat /\ DOMAIN seqs = 1 .. Len(seqs)
        /\ \A k \in 1 .. Len(seqs) : seqs[k] \in Seq(S)
    BY Elements
  <2>2. mapped \in [1 .. Len(seqs) -> Seq(T)]
    BY <2>1
  <2> QED
    BY <2>1, <2>2, IsSequence
<1>2. PICK flat \in [0 .. Len(seqs) -> Seq(S)] :
        Flattens(flat, seqs) /\ FlattenSeq(seqs) = flat[Len(seqs)]
  BY FlattenSteps
<1>3. PICK flatter \in [0 .. Len(mapped) -> Seq(T)] :
        Flattens(flatter, mapped) /\ FlattenSeq(mapped) = flatter[Len(mapped)]
  <2> QED
    BY <1>1, FlattenSteps
<1> DEFINE G == {k \in 0 .. Len(seqs) : h[flat[k]] = flatter[k]}
<1>4. 0 \in G
  <2>1. flat[0] = <<>> /\ flatter[0] = <<>>
    BY <1>2, <1>3 DEF Flattens
  <2>2. h[flat[0]] = flatter[0]
    BY <2>1 DEF Homomorphism
  <2>3. 0 \in 0 .. Len(seqs)
    BY <1>1
  <2> QED
    BY <2>2, <2>3
<1>5. ASSUME NEW k \in 1 .. Len(seqs), k - 1 \in G
      PROVE  k \in G
  <2>1. flat[k] = flat[k-1] \o seqs[k]
    BY <1>2 DEF Flattens
  <2>2. flatter[k] = flatter[k-1] \o mapped[k]
    <3> QED
      BY <1>1, <1>3 DEF Flattens
  <2>3. flat[k-1] \in Seq(S) /\ seqs[k] \in Seq(S) /\ mapped[k] = h[seqs[k]]
    <3>1. k - 1 \in 0 .. Len(seqs) /\ k \in DOMAIN seqs
      BY <1>1, Elements
    <3> QED
      BY <3>1, Elements
  <2>4. h[flat[k]] = h[flat[k-1]] \o h[seqs[k]]
    BY <2>1, <2>3 DEF Homomorphism
  <2>5. h[flat[k-1]] = flatter[k-1]
    BY <1>5
  <2>6. h[flat[k]] = flatter[k]
    BY <2>2, <2>3, <2>4, <2>5
  <2> QED
    BY <2>6
<1>6. \A k \in 0 .. Len(seqs) : k \in G
  <2> HIDE DEF G
  <2> QED
    BY <1>1, <1>4, <1>5, InductionUpTo
<1>7. Len(seqs) \in G
  BY <1>1, <1>6
<1> QED
  BY <1>1, <1>2, <1>3, <1>7

LEMMA FlattenNothing ==
  ASSUME NEW S, NEW seqs \in Seq(Seq(S)), \A k \in DOMAIN seqs : seqs[k] = <<>>
  PROVE  FlattenSeq(seqs) = <<>>
<1>1. PICK flat \in [0 .. Len(seqs) -> Seq(S)] :
        Flattens(flat, seqs) /\ FlattenSeq(seqs) = flat[Len(seqs)]
  BY FlattenSteps
<1> DEFINE G == {k \in 0 .. Len(seqs) : flat[k] = <<>>}
<1>2. 0 \in G /\ Len(seqs) \in Nat
  BY <1>1 DEF Flattens
<1>3. ASSUME NEW k \in 1 .. Len(seqs), k - 1 \in G
      PROVE  k \in G
  <2>1. flat[k] = flat[k-1] \o seqs[k] /\ seqs[k] = <<>>
    BY <1>1, Elements DEF Flattens
  <2> QED
    BY <1>3, <2>1
<1>4. \A k \in 0 .. Len(seqs) : k \in G
  <2> HIDE DEF G
  <2> QED
    BY <1>2, <1>3, InductionUpTo
<1>5. Len(seqs) \in G
  BY <1>2, <1>4
<1> QED
  BY <1>1, <1>5

LEMMA FlattenConcat ==
  ASSUME NEW S, NEW s \in Seq(Seq(S)), NEW t \in Seq(Seq(S))
  PROVE  FlattenSeq(s \o t) = FlattenSeq(s) \o FlattenSeq(t)
<1> DEFINE after_s == [u \in Seq(S) |-> FlattenSeq(s) \o u]
<1>0. \A u, v \in Seq(S) : u \o v \in Seq(S) /\ after_s[u \o v] = after_s[u] \o v
  <2>1. PICK a \in Seq(S) : a = FlattenSeq(s)
    BY FlattenType
  <2>2. ASSUME NEW u \in Seq(S), NEW v \in Seq(S)
        PROVE  u \o v \in Seq(S) /\ (a \o u) \o v = a \o (u \o v)
    BY ConcatProperties, ConcatAssociative
  <2> QED
    BY <2>1, <2>2
<1>00. \A u \in Seq(S) : after_s[u] = FlattenSeq(s) \o u
  OBVIOUS
<1> HIDE DEF after_s
<1>1. PICK before \in [0 .. Len(s) -> Seq(S)] :
        Flattens(before, s) /\ FlattenSeq(s) = before[Len(s)]
  BY FlattenSteps
<1>2. PICK after \in [0 .. Len(t) -> Seq(S)] :
        Flattens(after, t) /\ FlattenSeq(t) = after[Len(t)]
  BY FlattenSteps
<1> DEFINE st == s \o t
<1>3. /\ st \in Seq(Seq(S))
      /\ Len(s) \in Nat /\ Len(t) \in Nat
      /\ Len(st) = Len(s) + Len(t)
      /\ \A k \in 1 .. Len(s) : st[k] = s[k]
      /\ \A k \in 1 .. Len(t) : st[Len(s) + k] = t[k]
  BY ConcatProperties
<1> HIDE DEF st
<1>4. PICK flat \in [0 .. Len(st) -> Seq(S)] :
        Flattens(flat, st) /\ FlattenSeq(st) = flat[Len(st)]
  BY <1>3, FlattenSteps
<1>5. \A k \in 0 .. Len(s) : flat[k] = before[k]
  <2>1. flat[0] = before[0]
    BY <1>1, <1>4 DEF Flattens
  <2>2. ASSUME NEW k \in 1 .. Len(s)
        PROVE  flat[k] = flat[k-1] \o s[k] /\ before[k] = before[k-1] \o s[k]
    <3>1. k \in 1 .. Len(st) /\ st[k] = s[k]
      BY <1>3
    <3> QED
      BY <1>1, <1>4, <3>1 DEF Flattens
  <2> DEFINE E == {k \in 0 .. Len(s) : flat[k] = before[k]}
  <2>3. 0 \in E
    BY <1>3, <2>1
  <2>4. ASSUME NEW k \in 1 .. Len(s), k - 1 \in E
        PROVE  k \in E
    <3>1. flat[k-1] = before[k-1]
      BY <2>4
    <3>2. flat[k] = before[k]
      BY <2>2, <3>1
    <3> QED
      BY <1>3, <3>2
  <2>5. \A k \in 0 .. Len(s) : k \in E
    <3> HIDE DEF E
    <3> QED
      BY <1>3, <2>3, <2>4, InductionUpTo
  <2> QED
    BY <2>5
<1> DEFINE G == {k \in 0 .. Len(t) : flat[Len(s) + k] = after_s[after[k]]}
<1>6. 0 \in G
  <2>1. flat[Len(s)] = FlattenSeq(s) /\ FlattenSeq(s) \in Seq(S)
    BY <1>1, <1>3, <1>5
  <2>2. after[0] = <<>> /\ Len(s) + 0 = Len(s)
    BY <1>2, <1>3 DEF Flattens
  <2>3. FlattenSeq(s) \o <<>> = FlattenSeq(s) /\ <<>> \in Seq(S)
    BY <2>1, ConcatEmptySeq
  <2>4. after_s[<<>>] = FlattenSeq(s)
    BY <1>00, <2>3
  <2>5. flat[Len(s) + 0] = after_s[after[0]]
    BY <2>1, <2>2, <2>4
  <2>6. 0 \in 0 .. Len(t)
    BY <1>3
  <2> QED
    BY <2>5, <2>6
<1>7. ASSUME NEW k \in 1 .. Len(t), k - 1 \in G
      PROVE  k \in G
  <2>1. Len(s) + k \in 1 .. Len(st) /\ (Len(s) + k) - 1 = Len(s) + (k - 1)
    BY <1>3
  <2>2. flat[Len(s) + k] = flat[Len(s) + (k - 1)] \o t[k]
    BY <1>3, <1>4, <2>1 DEF Flattens
  <2>3. flat[Len(s) + (k - 1)] = after_s[after[k-1]]
    BY <1>7
  <2>4. after[k-1] \in Seq(S) /\ t[k] \in Seq(S)
    <3>1. k - 1 \in 0 .. Len(t) /\ k \in 1 .. Len(t)
      BY <1>3
    <3>2. t[k] \in Seq(S)
      BY <3>1, Elements
    <3> QED
      BY <1>2, <3>1, <3>2
  <2>5. after[k] = after[k-1] \o t[k]
    BY <1>2 DEF Flattens
  <2>6. after_s[after[k-1] \o t[k]] = after_s[after[k-1]] \o t[k]
    BY <1>0, <2>4
  <2>7. flat[Len(s) + k] = after_s[after[k]]
    BY <2>2, <2>3, <2>5, <2>6
  <2> QED
    BY <1>3, <2>7
<1>8. \A k \in 0 .. Len(t) : k \in G
  <2> HIDE DEF G
  <2> QED
    BY <1>3, <1>6, <1>7, InductionUpTo
<1>9. Len(t) \in G
  <2>1. Len(t) \in 0 .. Len(t)
    BY <1>3
  <2> HIDE DEF G
  <2> QED
    BY <1>8, <2>1
<1> QED
  BY <1>00, <1>2, <1>3, <1>4, <1>9 DEF st

Occurs(x, s) == \E i \in DOMAIN s : s[i] = x

(* The elements of a concatenation are those of its parts.                 *)
LEMMA ConcatElements ==
  ASSUME NEW S, NEW a \in Seq(S), NEW b \in Seq(S), NEW x
  PROVE  Occurs(x, a \o b) <=> Occurs(x, a) \/ Occurs(x, b)
<1>1. /\ Len(a) \in Nat /\ Len(b) \in Nat
      /\ DOMAIN a = 1 .. Len(a) /\ DOMAIN b = 1 .. Len(b)
      /\ DOMAIN (a \o b) = 1 .. Len(a) + Len(b)
  OBVIOUS
<1>2. \A i \in 1 .. Len(a) + Len(b) :
        (a \o b)[i] = IF i <= Len(a) THEN a[i] ELSE b[i - Len(a)]
  OBVIOUS
<1>3. ASSUME NEW i \in 1 .. Len(a) + Len(b), (a \o b)[i] = x
      PROVE  (\E k \in DOMAIN a : a[k] = x) \/ (\E k \in DOMAIN b : b[k] = x)
  <2>1. CASE i <= Len(a)
    <3>1. a[i] = x /\ i \in DOMAIN a
      BY <1>1, <1>2, <1>3, <2>1
    <3> QED
      BY <3>1
  <2>2. CASE i > Len(a)
    <3>1. i - Len(a) \in DOMAIN b /\ ~(i <= Len(a))
      BY <1>1, <2>2
    <3>2. b[i - Len(a)] = x
      BY <1>2, <1>3, <3>1
    <3> QED
      BY <3>1, <3>2
  <2> QED
    BY <1>1, <2>1, <2>2
<1>4. ASSUME NEW i \in DOMAIN a, a[i] = x
      PROVE  \E k \in DOMAIN (a \o b) : (a \o b)[k] = x
  <2>1. i \in 1 .. Len(a) + Len(b) /\ i <= Len(a)
    BY <1>1
  <2>2. (a \o b)[i] = x
    BY <1>2, <1>4, <2>1
  <2> QED
    BY <1>1, <2>1, <2>2
<1>5. ASSUME NEW i \in DOMAIN b, b[i] = x
      PROVE  \E k \in DOMAIN (a \o b) : (a \o b)[k] = x
  <2>1. /\ Len(a) + i \in 1 .. Len(a) + Len(b)
        /\ ~(Len(a) + i <= Len(a)) /\ (Len(a) + i) - Len(a) = i
    BY <1>1
  <2>2. (a \o b)[Len(a) + i] = x
    BY <1>2, <1>5, <2>1
  <2> QED
    BY <1>1, <2>1, <2>2
<1> QED
  BY <1>1, <1>3, <1>4, <1>5 DEF Occurs

(* The elements are those of the sequences.                                *)
LEMMA FlattenElements ==
  ASSUME NEW S, NEW seqs \in Seq(Seq(S)), NEW x
  PROVE  Occurs(x, FlattenSeq(seqs)) <=> \E k \in DOMAIN seqs : Occurs(x, seqs[k])
<1>1. PICK flat \in [0 .. Len(seqs) -> Seq(S)] :
        Flattens(flat, seqs) /\ FlattenSeq(seqs) = flat[Len(seqs)]
  BY FlattenSteps
<1>2. Len(seqs) \in Nat /\ DOMAIN seqs = 1 .. Len(seqs)
  BY Elements
<1> DEFINE G == {k \in 0 .. Len(seqs) : Occurs(x, flat[k]) <=> \E j \in 1 .. k : Occurs(x, seqs[j])}
<1>3. 0 \in G
  <2>1. flat[0] = <<>>
    BY <1>1 DEF Flattens
  <2>2. ~Occurs(x, flat[0])
    BY <2>1 DEF Occurs
  <2> QED
    BY <1>2, <2>2
<1>4. ASSUME NEW k \in 1 .. Len(seqs), k - 1 \in G
      PROVE  k \in G
  <2>1. flat[k] = flat[k-1] \o seqs[k]
    BY <1>1 DEF Flattens
  <2>2. flat[k-1] \in Seq(S) /\ seqs[k] \in Seq(S)
    <3>1. k - 1 \in 0 .. Len(seqs)
      BY <1>2
    <3> QED
      BY <3>1, Elements
  <2>3. Occurs(x, flat[k]) <=> Occurs(x, flat[k-1]) \/ Occurs(x, seqs[k])
    <3>1. PICK a, b \in Seq(S) : a = flat[k-1] /\ b = seqs[k]
      BY <2>2
    <3>2. Occurs(x, a \o b) <=> Occurs(x, a) \/ Occurs(x, b)
      BY ConcatElements
    <3> QED
      BY <2>1, <3>1, <3>2
  <2>4. Occurs(x, flat[k-1]) <=> \E j \in 1 .. k - 1 : Occurs(x, seqs[j])
    BY <1>4
  <2>5. \A j : j \in 1 .. k <=> j = k \/ j \in 1 .. k - 1
    BY <1>2
  <2>6. Occurs(x, flat[k]) <=> \E j \in 1 .. k : Occurs(x, seqs[j])
    BY <2>3, <2>4, <2>5
  <2> QED
    BY <1>2, <2>6
<1>5. \A k \in 0 .. Len(seqs) : k \in G
  <2> HIDE DEF G
  <2> QED
    BY <1>2, <1>3, <1>4, InductionUpTo
<1>6. Len(seqs) \in G
  <2>1. Len(seqs) \in 0 .. Len(seqs)
    BY <1>2
  <2> HIDE DEF G
  <2> QED
    BY <1>5, <2>1
<1> QED
  BY <1>1, <1>2, <1>6
=============================================================================
