-------------------------- MODULE MergeCopy_proofs --------------------------
(***************************************************************************)
(* Whatever the sessions write and in whatever order they merge, the file  *)
(* keeps its original items: the proof, for every value of the constants,  *)
(* that MergeCopy satisfies OriginalItemsKept. It follows what merge_copy  *)
(* does: each edit it makes replaces entries by some with the same original*)
(* items, as check_edits has accepted the copy, and _apply makes the edits *)
(* one beside the other.                                                   *)
(***************************************************************************)
EXTENDS MergeCopy, SequenceFacts

-----------------------------------------------------------------------------
(* Ascending.                                                              *)

LEMMA LargerSet ==
  ASSUME NEW T, NEW S \in SUBSET T, NEW q \in Seq(S)
  PROVE  q \in Seq(T)
<1>1. Len(q) \in Nat /\ q \in [1 .. Len(q) -> T]
  OBVIOUS
<1> QED
  BY <1>1, IsSequence

Increasing(q) == \A i, j \in DOMAIN q : i < j => q[i] < q[j]

LEMMA IncreasingAppend ==
  ASSUME NEW q \in Seq(Nat), Increasing(q), NEW x \in Nat, \A i \in DOMAIN q : q[i] < x
  PROVE  /\ Increasing(q \o <<x>>)
         /\ \A i \in DOMAIN (q \o <<x>>) : (q \o <<x>>)[i] <= x
<1> DEFINE r == q \o <<x>>
<1>1. /\ Len(q) \in Nat /\ DOMAIN q = 1 .. Len(q)
      /\ DOMAIN r = 1 .. Len(q) + 1
      /\ \A i \in 1 .. Len(q) : r[i] = q[i] /\ q[i] \in Nat
      /\ r[Len(q) + 1] = x
  OBVIOUS
<1> HIDE DEF r
<1>2. ASSUME NEW i \in DOMAIN r
      PROVE  r[i] <= x
  <2>1. CASE i = Len(q) + 1
    BY <1>1, <2>1
  <2>2. CASE i \in 1 .. Len(q)
    BY <1>1, <2>2
  <2> QED
    BY <1>1, <2>1, <2>2
<1>3. ASSUME NEW i \in DOMAIN r, NEW j \in DOMAIN r, i < j
      PROVE  r[i] < r[j]
  <2>1. i \in 1 .. Len(q)
    BY <1>1, <1>3
  <2>2. CASE j = Len(q) + 1
    BY <1>1, <2>1, <2>2
  <2>3. CASE j \in 1 .. Len(q)
    <3>1. q[i] < q[j]
      BY <1>1, <1>3, <2>1, <2>3 DEF Increasing
    <3> QED
      BY <1>1, <2>1, <2>3, <3>1
  <2> QED
    BY <1>1, <2>2, <2>3
<1>4. Increasing(r)
  BY <1>3 DEF Increasing
<1> QED
  BY <1>2, <1>4 DEF r

(* Ascending lists a finite set of indices, each once, the least first.    *)
LEMMA Ascends ==
  ASSUME NEW n \in Nat, NEW S \in SUBSET (1 .. n)
  PROVE  /\ Ascending(S) \in Seq(S)
         /\ Increasing(Ascending(S))
         /\ \A x \in S : Occurs(x, Ascending(S))
<1> DEFINE m == Max({0} \cup S)
           units == [i \in 1 .. m |-> IF i \in S THEN <<i>> ELSE <<>>]
<1>1. m \in 0 .. n /\ \A x \in S : x <= m
  <2> DEFINE U == {0} \cup S
  <2>1. U \in SUBSET (0 .. n) /\ U # {}
    OBVIOUS
  <2>2. Max(U) \in U /\ \A x \in U : x <= Max(U)
    <3> HIDE DEF U
    <3> QED
      BY <2>1, MaxIsGreatest
  <2> QED
    BY <2>1, <2>2
<1> HIDE DEF m
<1>2. units \in Seq(Seq(S)) /\ Len(units) = m /\ DOMAIN units = 1 .. m
  <2>1. units \in [1 .. m -> Seq(S)]
    OBVIOUS
  <2> HIDE DEF units
  <2>2. m \in Nat
    BY <1>1
  <2>3. units \in Seq(Seq(S)) /\ Len(units) = m
    BY <2>1, <2>2, IsSequence
  <2> QED
    BY <2>1, <2>3
<1>3. Ascending(S) = FlattenSeq(units)
  BY DEF Ascending, m
<1>4. \A k \in 1 .. m : units[k] = IF k \in S THEN <<k>> ELSE <<>>
  OBVIOUS
<1> HIDE DEF units
<1>5. Ascending(S) \in Seq(S)
  BY <1>2, <1>3, FlattenType
<1>6. ASSUME NEW x \in S
      PROVE  Occurs(x, Ascending(S))
  <2>1. x \in DOMAIN units /\ units[x] = <<x>>
    BY <1>1, <1>2, <1>4
  <2>2. Occurs(x, <<x>>)
    BY DEF Occurs
  <2> QED
    BY <1>2, <1>3, <2>1, <2>2, FlattenElements
<1>7. Increasing(Ascending(S))
  <2>1. PICK flat \in [0 .. m -> Seq(S)] :
          Flattens(flat, units) /\ FlattenSeq(units) = flat[m]
    BY <1>2, FlattenSteps
  <2> DEFINE G == {k \in 0 .. m : /\ Increasing(flat[k])
                                  /\ \A i \in DOMAIN flat[k] : flat[k][i] <= k}
  <2>2. 0 \in G
    <3>1. flat[0] = <<>>
      BY <2>1 DEF Flattens
    <3> QED
      BY <1>1, <3>1 DEF Increasing
  <2>3. ASSUME NEW k \in 1 .. m, k - 1 \in G
        PROVE  k \in G
    <3>1. flat[k] = flat[k-1] \o units[k]
      BY <1>2, <2>1 DEF Flattens
    <3>2. flat[k-1] \in Seq(Nat) /\ DOMAIN flat[k-1] = 1 .. Len(flat[k-1])
      <4>1. k - 1 \in 0 .. m
        BY <1>1
      <4>2. flat[k-1] \in Seq(S)
        BY <2>1, <4>1
      <4>3. S \in SUBSET Nat
        BY <1>1
      <4> QED
        BY <4>2, <4>3, LargerSet, Elements
    <3>3. \A i \in DOMAIN flat[k-1] : flat[k-1][i] <= k - 1 /\ flat[k-1][i] \in Nat
      BY <2>3, <3>2
    <3>4. CASE k \in S
      <4>1. PICK q \in Seq(Nat) : q = flat[k-1]
        BY <3>2
      <4>2. flat[k] = q \o <<k>>
        BY <1>4, <3>1, <3>4, <4>1
      <4>3. Increasing(q) /\ \A i \in DOMAIN q : q[i] < k
        BY <1>1, <2>3, <3>3, <4>1
      <4>4. /\ Increasing(q \o <<k>>)
            /\ \A i \in DOMAIN (q \o <<k>>) : (q \o <<k>>)[i] <= k
        <5>1. k \in Nat
          BY <1>1
        <5> QED
          BY <4>3, <5>1, IncreasingAppend
      <4>5. k \in 0 .. m
        BY <1>1
      <4> QED
        BY <4>2, <4>4, <4>5
    <3>5. CASE k \notin S
      <4>1. flat[k] = flat[k-1]
        BY <1>4, <3>1, <3>2, <3>5, ConcatEmptySeq
      <4>2. \A i \in DOMAIN flat[k] : flat[k][i] <= k
        BY <1>1, <3>3, <4>1
      <4> QED
        BY <1>1, <2>3, <4>1, <4>2
    <3> QED
      BY <3>4, <3>5
  <2>4. \A k \in 0 .. m : k \in G
    <3>1. m \in Nat
      BY <1>1
    <3> HIDE DEF G
    <3> QED
      BY <2>2, <2>3, <3>1, InductionUpTo
  <2>5. m \in G
    <3>1. m \in 0 .. m
      BY <1>1
    <3> HIDE DEF G
    <3> QED
      BY <2>4, <3>1
  <2> QED
    BY <1>3, <2>1, <2>5
<1> QED
  BY <1>5, <1>6, <1>7

-----------------------------------------------------------------------------
(* Parse.                                                                  *)

Parsed(f) ==
  /\ f.text \in File /\ f.items \in Seq(Entry) /\ Len(f.text) \in Nat
  /\ Len(f.items) \in Nat
  /\ DOMAIN f.items = 1 .. Len(f.items) /\ DOMAIN f.at = 1 .. Len(f.items)
  /\ \A i \in 1 .. Len(f.items) :
       /\ f.at[i] \in 1 .. Len(f.text)
       /\ f.items[i] = f.text[f.at[i]] /\ IsItem(f.items[i])
  /\ \A i, j \in 1 .. Len(f.items) : i < j => f.at[i] < f.at[j]
  /\ \A p \in 1 .. Len(f.text) :
       IsItem(f.text[p]) => \E i \in 1 .. Len(f.items) : f.at[i] = p

LEMMA ParseFacts ==
  ASSUME NEW file \in File
  PROVE  Parsed(Parse(file)) /\ Parse(file).text = file
<1> DEFINE S == {p \in DOMAIN file : IsItem(file[p])}
           at == Ascending(S)
           items == [i \in DOMAIN at |-> file[at[i]]]
<1>1. Len(file) \in Nat /\ DOMAIN file = 1 .. Len(file) /\ \A p \in 1 .. Len(file) : file[p] \in Entry
  BY Elements DEF File
<1>2. S \in SUBSET (1 .. Len(file))
  BY <1>1
<1>3. /\ at \in Seq(S) /\ Increasing(at)
      /\ \A x \in S : Occurs(x, at)
  <2> HIDE DEF S
  <2> QED
    BY <1>1, <1>2, Ascends
<1>4. Len(at) \in Nat /\ DOMAIN at = 1 .. Len(at) /\ \A i \in 1 .. Len(at) : at[i] \in S
  <2> HIDE DEF S, at
  <2> QED
    BY <1>3, Elements
<1>5. Parse(file) = [text |-> file, items |-> items, at |-> at]
  BY DEF Parse
<1> HIDE DEF at
<1>6. items \in [1 .. Len(at) -> Entry]
  BY <1>1, <1>4
<1>7. \A i \in 1 .. Len(at) : items[i] = file[at[i]]
  BY <1>4
<1> HIDE DEF items
<1>8. items \in Seq(Entry) /\ Len(items) = Len(at)
  BY <1>4, <1>6, IsSequence
<1>9. DOMAIN items = 1 .. Len(items)
  BY <1>4, <1>6, <1>8
<1>10. \A i \in 1 .. Len(at) : at[i] \in 1 .. Len(file) /\ IsItem(items[i])
  BY <1>2, <1>4, <1>7
<1>11. \A i, j \in 1 .. Len(at) : i < j => at[i] < at[j]
  BY <1>3, <1>4 DEF Increasing
<1>12. \A p \in 1 .. Len(file) : IsItem(file[p]) => \E i \in 1 .. Len(at) : at[i] = p
  BY <1>1, <1>3, <1>4 DEF Occurs
<1> QED
  BY <1>1, <1>4, <1>5, <1>7, <1>8, <1>9, <1>10, <1>11, <1>12 DEF Parsed

(* The items after item a - 1 and up to item b are those from a to b.      *)
LEMMA ItemsBetween ==
  ASSUME NEW f, Parsed(f),
         NEW a \in 1 .. Len(f.items), NEW b \in a .. Len(f.items),
         NEW p \in 1 .. Len(f.text), IsItem(f.text[p]),
         a # 1 => f.at[a-1] < p, p <= f.at[b]
  PROVE  \E i \in a .. b : f.at[i] = p /\ f.items[i] = f.text[p]
<1>1. PICK i \in 1 .. Len(f.items) : f.at[i] = p
  BY DEF Parsed
<1>2. /\ Len(f.items) \in Nat
      /\ \A k \in 1 .. Len(f.items) : f.at[k] \in Nat
      /\ \A k, l \in 1 .. Len(f.items) : k < l => f.at[k] < f.at[l]
  BY DEF Parsed
<1>3. i >= a
  <2> SUFFICES ASSUME i < a
               PROVE  FALSE
    BY <1>2
  <2>1. a # 1 /\ a - 1 \in 1 .. Len(f.items) /\ (i = a - 1 \/ i < a - 1)
    BY <1>2
  <2>2. f.at[i] <= f.at[a-1]
    BY <1>2, <2>1
  <2> QED
    BY <1>1, <1>2, <2>1, <2>2
<1>4. i <= b
  <2> SUFFICES ASSUME b < i
               PROVE  FALSE
    BY <1>2
  <2>1. f.at[b] < f.at[i] /\ f.at[b] \in Nat
    BY <1>2
  <2> QED
    BY <1>1, <2>1
<1>5. i \in a .. b
  BY <1>2, <1>3, <1>4
<1>6. f.items[i] = f.text[p]
  BY <1>1 DEF Parsed
<1> QED
  BY <1>1, <1>5, <1>6

-----------------------------------------------------------------------------
(* OriginalItems.                                                          *)

(* The original item of one entry.                                         *)
OriginalItem(entry) == IF IsOriginal(entry) THEN <<entry.code>> ELSE <<>>

LEMMA OriginalItemType ==
  ASSUME NEW e \in Entry
  PROVE  OriginalItem(e) \in Seq(DOMAIN Code)
<1>1. e.code \in DOMAIN Code
  BY DEF Entry
<1>2. <<e.code>> \in Seq(DOMAIN Code)
  BY <1>1
<1>3. <<>> \in Seq(DOMAIN Code)
  OBVIOUS
<1> QED
  BY <1>2, <1>3 DEF OriginalItem

LEMMA ItemLists ==
  ASSUME NEW file \in File
  PROVE  /\ [p \in DOMAIN file |-> OriginalItem(file[p])] \in Seq(Seq(DOMAIN Code))
         /\ Len([p \in DOMAIN file |-> OriginalItem(file[p])]) = Len(file)
         /\ OriginalItems(file) = FlattenSeq([p \in DOMAIN file |-> OriginalItem(file[p])])
<1>1. Len(file) \in Nat /\ DOMAIN file = 1 .. Len(file) /\ \A p \in 1 .. Len(file) : file[p] \in Entry
  BY Elements DEF File
<1> DEFINE lists == [p \in DOMAIN file |-> OriginalItem(file[p])]
<1>2. lists \in [1 .. Len(file) -> Seq(DOMAIN Code)]
  BY <1>1, OriginalItemType
<1>3. OriginalItems(file) = FlattenSeq(lists)
  BY DEF OriginalItems, OriginalItem
<1> HIDE DEF lists
<1>4. lists \in Seq(Seq(DOMAIN Code)) /\ Len(lists) = Len(file)
  BY <1>1, <1>2, IsSequence
<1> QED
  BY <1>3, <1>4 DEF lists

LEMMA OriginalItemsType ==
  ASSUME NEW file \in File
  PROVE  OriginalItems(file) \in Seq(DOMAIN Code)
<1> DEFINE lists == [p \in DOMAIN file |-> OriginalItem(file[p])]
<1>1. lists \in Seq(Seq(DOMAIN Code)) /\ OriginalItems(file) = FlattenSeq(lists)
  BY ItemLists
<1> HIDE DEF lists
<1> QED
  BY <1>1, FlattenType

(* A code is among the original items of a file iff an original entry has  *)
(* it.                                                                     *)
LEMMA OriginalItemsAre ==
  ASSUME NEW file \in File, NEW c
  PROVE  Occurs(c, OriginalItems(file))
           <=> \E p \in DOMAIN file : IsOriginal(file[p]) /\ file[p].code = c
<1> DEFINE lists == [p \in DOMAIN file |-> OriginalItem(file[p])]
<1>1. lists \in Seq(Seq(DOMAIN Code)) /\ OriginalItems(file) = FlattenSeq(lists)
  BY ItemLists
<1>2. \A p \in DOMAIN file : Occurs(c, lists[p]) <=> IsOriginal(file[p]) /\ file[p].code = c
  BY DEF Occurs, OriginalItem
<1>3. DOMAIN lists = DOMAIN file
  OBVIOUS
<1> HIDE DEF lists
<1>4. Occurs(c, FlattenSeq(lists)) <=> \E p \in DOMAIN lists : Occurs(c, lists[p])
  BY <1>1, FlattenElements
<1> QED
  BY <1>1, <1>2, <1>3, <1>4

LEMMA NoneOriginal ==
  ASSUME NEW file \in File, \A p \in DOMAIN file : ~IsOriginal(file[p])
  PROVE  OriginalItems(file) = <<>>
<1> DEFINE lists == [p \in DOMAIN file |-> OriginalItem(file[p])]
<1>1. lists \in Seq(Seq(DOMAIN Code)) /\ OriginalItems(file) = FlattenSeq(lists)
  BY ItemLists
<1>2. \A p \in DOMAIN lists : lists[p] = <<>>
  BY DEF OriginalItem
<1> HIDE DEF lists
<1> QED
  BY <1>1, <1>2, FlattenNothing

LEMMA OriginalItemsConcat ==
  ASSUME NEW a \in File, NEW b \in File
  PROVE  /\ a \o b \in File
         /\ OriginalItems(a \o b) = OriginalItems(a) \o OriginalItems(b)
<1> DEFINE lists(f) == [p \in DOMAIN f |-> OriginalItem(f[p])]
<1>1. /\ a \o b \in File /\ Len(a) \in Nat /\ Len(b) \in Nat
      /\ DOMAIN a = 1 .. Len(a) /\ DOMAIN b = 1 .. Len(b)
      /\ Len(a \o b) = Len(a) + Len(b)
      /\ \A p \in 1 .. Len(a) + Len(b) :
           (a \o b)[p] = IF p <= Len(a) THEN a[p] ELSE b[p - Len(a)]
  BY DEF File
<1>2. /\ lists(a) \in Seq(Seq(DOMAIN Code)) /\ Len(lists(a)) = Len(a)
      /\ lists(b) \in Seq(Seq(DOMAIN Code)) /\ Len(lists(b)) = Len(b)
      /\ lists(a \o b) \in Seq(Seq(DOMAIN Code)) /\ Len(lists(a \o b)) = Len(a \o b)
  BY <1>1, ItemLists
<1>3. lists(a) \o lists(b) = lists(a \o b)
  <2>1. PICK x, y, z \in Seq(Seq(DOMAIN Code)) :
          x = lists(a) /\ y = lists(b) /\ z = lists(a \o b)
    <3> HIDE DEF lists
    <3> QED
      BY <1>2
  <2>2. /\ \A p \in 1 .. Len(a) : x[p] = OriginalItem(a[p])
        /\ \A p \in 1 .. Len(b) : y[p] = OriginalItem(b[p])
        /\ \A p \in 1 .. Len(a) + Len(b) : z[p] = OriginalItem((a \o b)[p])
    BY <1>1, <2>1
  <2>3. Len(x) = Len(a) /\ Len(y) = Len(b) /\ Len(z) = Len(a) + Len(b)
    BY <1>1, <1>2, <2>1
  <2>4. \A p \in 1 .. Len(a) + Len(b) : z[p] = IF p <= Len(a) THEN x[p] ELSE y[p - Len(a)]
    BY <1>1, <2>2
  <2>5. x \o y = z
    BY <2>3, <2>4, IsConcatenation
  <2> QED
    BY <2>1, <2>5
<1>4. FlattenSeq(lists(a) \o lists(b)) = FlattenSeq(lists(a)) \o FlattenSeq(lists(b))
  <2> HIDE DEF lists
  <2> QED
    BY <1>2, FlattenConcat
<1> QED
  BY <1>1, <1>3, <1>4, ItemLists

LEMMA OneOriginalItem ==
  ASSUME NEW e \in Entry
  PROVE  <<e>> \in File /\ OriginalItems(<<e>>) = OriginalItem(e)
<1>1. <<e>> \in File
  BY DEF File
<1>2. [p \in DOMAIN <<e>> |-> OriginalItem((<<e>>)[p])] = <<OriginalItem(e)>>
  OBVIOUS
<1>3. FlattenSeq(<<OriginalItem(e)>>) = OriginalItem(e)
  <2> DEFINE one == <<OriginalItem(e)>>
  <2>1. one \in Seq(Seq(DOMAIN Code)) /\ Len(one) = 1 /\ one[1] = OriginalItem(e)
    BY OriginalItemType
  <2> HIDE DEF one
  <2>2. PICK f \in [0 .. Len(one) -> Seq(DOMAIN Code)] :
          Flattens(f, one) /\ FlattenSeq(one) = f[Len(one)]
    BY <2>1, FlattenSteps
  <2>3. f[1] = <<>> \o OriginalItem(e)
    <3>1. 1 \in 1 .. Len(one) /\ 1 - 1 = 0
      BY <2>1
    <3>2. f[1] = f[1-1] \o one[1] /\ f[0] = <<>>
      BY <2>2, <3>1 DEF Flattens
    <3> QED
      BY <2>1, <3>1, <3>2
  <2> QED
    BY <2>1, <2>2, <2>3, OriginalItemType, ConcatEmptySeq DEF one
<1> QED
  BY <1>1, <1>2, <1>3, ItemLists

LEMMA NoOriginalItems ==
  <<>> \in File /\ OriginalItems(<<>>) = <<>>
<1>1. <<>> \in File
  BY DEF File
<1> QED
  BY <1>1, NoneOriginal

(* OriginalItems may be taken before FlattenSeq or after.                  *)
LEMMA OriginalItemsFlatten ==
  ASSUME NEW texts \in Seq(File)
  PROVE  /\ FlattenSeq(texts) \in File
         /\ OriginalItems(FlattenSeq(texts))
              = FlattenSeq([k \in DOMAIN texts |-> OriginalItems(texts[k])])
<1> DEFINE h == [t \in Seq(Entry) |-> OriginalItems(t)]
<1>1. h \in [Seq(Entry) -> Seq(DOMAIN Code)]
  BY OriginalItemsType DEF File
<1>2. h[<<>>] = <<>>
  BY NoOriginalItems DEF File
<1>3. Homomorphism(h, Entry)
  <2>1. \A a, b \in Seq(Entry) : h[a \o b] = h[a] \o h[b]
    BY OriginalItemsConcat DEF File
  <2> HIDE DEF h
  <2> QED
    BY <1>2, <2>1 DEF Homomorphism
<1>4. texts \in Seq(Seq(Entry))
  BY DEF File
<1>5. /\ Len(texts) \in Nat /\ DOMAIN texts = 1 .. Len(texts)
      /\ \A k \in 1 .. Len(texts) : texts[k] \in Seq(Entry)
  BY <1>4, Elements
<1>6. FlattenSeq(texts) \in Seq(Entry)
  BY <1>4, FlattenType
<1>7. h[FlattenSeq(texts)] = OriginalItems(FlattenSeq(texts))
  BY <1>6
<1>8. \A k \in DOMAIN texts : h[texts[k]] = OriginalItems(texts[k])
  BY <1>5
<1> HIDE DEF h
<1> DEFINE mapped == [k \in DOMAIN texts |-> h[texts[k]]]
<1>9. h[FlattenSeq(texts)] = FlattenSeq(mapped)
  <2>1. PICK m : m = mapped
    OBVIOUS
  <2>2. h[FlattenSeq(texts)] = FlattenSeq(m)
    BY <1>1, <1>3, <1>4, <2>1, FlattenMap
  <2> QED
    BY <2>1, <2>2
<1>10. mapped = [k \in DOMAIN texts |-> OriginalItems(texts[k])]
  BY <1>8
<1> QED
  BY <1>6, <1>7, <1>9, <1>10 DEF File

LEMMA OriginalItemsNowhere ==
  ASSUME NEW texts \in Seq(File), \A k \in DOMAIN texts : OriginalItems(texts[k]) = <<>>
  PROVE  FlattenSeq(texts) \in File /\ OriginalItems(FlattenSeq(texts)) = <<>>
<1> DEFINE lists == [k \in DOMAIN texts |-> OriginalItems(texts[k])]
<1>1. Len(texts) \in Nat /\ DOMAIN texts = 1 .. Len(texts)
  BY Elements
<1>2. lists \in [1 .. Len(texts) -> Seq(Seq(DOMAIN Code))]
  <2>1. <<>> \in Seq(Seq(DOMAIN Code))
    OBVIOUS
  <2> QED
    BY <1>1, <2>1
<1>3. lists \in [1 .. Len(texts) -> Seq(DOMAIN Code)]
  <2>1. <<>> \in Seq(DOMAIN Code)
    OBVIOUS
  <2> QED
    BY <1>1, <2>1
<1>4. \A k \in DOMAIN lists : lists[k] = <<>>
  OBVIOUS
<1>5. /\ FlattenSeq(texts) \in File
      /\ OriginalItems(FlattenSeq(texts)) = FlattenSeq(lists)
  BY OriginalItemsFlatten
<1> HIDE DEF lists
<1>6. lists \in Seq(Seq(DOMAIN Code))
  BY <1>1, <1>3, IsSequence
<1> QED
  BY <1>4, <1>5, <1>6, FlattenNothing

-----------------------------------------------------------------------------
(* _apply.                                                                 *)

Edit == [from : Int, to : Int, text : File]

(* An edit that changes no original item: it inserts none, or puts others  *)
(* of the same code in the place of those it removes.                      *)
Harmless(source, e) ==
  IF e.from = e.to THEN OriginalItems(e.text) = <<>>
  ELSE \A p \in 1 .. Len(source) :
         e.from < p /\ p <= e.to =>
           OriginalItem(source[p]) = IF e.from = p - 1 THEN OriginalItems(e.text) ELSE <<>>

(* The insertions at boundary p, the later in the list first.              *)
InsertedTexts(edits, p) ==
  [k \in DOMAIN edits |->
     LET e == Reverse(edits)[k]
     IN  IF e.from = p /\ e.to = p THEN e.text ELSE <<>>]

LEMMA InsertedKeeps ==
  ASSUME NEW source \in File, NEW edits \in Seq(Edit),
         \A k \in DOMAIN edits : Harmless(source, edits[k]),
         NEW p \in Int
  PROVE  /\ FlattenSeq(InsertedTexts(edits, p)) \in File
         /\ OriginalItems(FlattenSeq(InsertedTexts(edits, p))) = <<>>
<1> DEFINE texts == InsertedTexts(edits, p)
<1>1. /\ Len(edits) \in Nat /\ DOMAIN edits = 1 .. Len(edits)
      /\ \A k \in 1 .. Len(edits) : edits[k] \in Edit
  BY Elements
<1>2. ASSUME NEW k \in 1 .. Len(edits)
      PROVE  texts[k] \in File /\ OriginalItems(texts[k]) = <<>>
  <2>1. Reverse(edits)[k] = edits[Len(edits) - k + 1] /\ Len(edits) - k + 1 \in 1 .. Len(edits)
    BY <1>1 DEF Reverse
  <2>2. PICK e \in Edit : e = Reverse(edits)[k] /\ Harmless(source, e)
    BY <1>1, <2>1
  <2>3. texts[k] = IF e.from = p /\ e.to = p THEN e.text ELSE <<>>
    BY <1>1, <2>2 DEF InsertedTexts
  <2>4. CASE e.from = p /\ e.to = p
    BY <2>2, <2>3, <2>4 DEF Harmless, Edit
  <2>5. CASE ~(e.from = p /\ e.to = p)
    <3>1. texts[k] = <<>>
      BY <2>3, <2>5
    <3> QED
      BY <3>1, NoOriginalItems
  <2> QED
    BY <2>4, <2>5
<1>3. DOMAIN texts = 1 .. Len(edits)
  BY <1>1 DEF InsertedTexts
<1>4. texts \in [1 .. Len(edits) -> File]
  <2>1. texts = [k \in 1 .. Len(edits) |-> texts[k]]
    BY <1>1 DEF InsertedTexts
  <2> HIDE DEF texts
  <2> QED
    BY <1>2, <2>1
<1> HIDE DEF texts
<1>5. texts \in Seq(File)
  BY <1>1, <1>4, IsSequence
<1>6. FlattenSeq(texts) \in File /\ OriginalItems(FlattenSeq(texts)) = <<>>
  BY <1>2, <1>3, <1>5, OriginalItemsNowhere
<1> QED
  BY <1>6 DEF texts

(* What becomes of entry p.                                                *)
EditedEntry(source, edits, p) ==
  IF Covering(edits, p) = {} THEN <<source[p]>>
  ELSE LET e == edits[CHOOSE k \in Covering(edits, p) : TRUE]
       IN  IF e.from = p - 1 THEN e.text ELSE <<>>

LEMMA EditedEntryKeeps ==
  ASSUME NEW source \in File, NEW edits \in Seq(Edit),
         \A k \in DOMAIN edits : Harmless(source, edits[k]),
         NEW p \in 1 .. Len(source)
  PROVE  /\ EditedEntry(source, edits, p) \in File
         /\ OriginalItems(EditedEntry(source, edits, p)) = OriginalItem(source[p])
<1> DEFINE over == Covering(edits, p)
<1>1. source[p] \in Entry /\ p \in Int
  BY Elements DEF File
<1>2. CASE over = {}
  <2>1. EditedEntry(source, edits, p) = <<source[p]>>
    BY <1>2 DEF EditedEntry
  <2> QED
    BY <1>1, <2>1, OneOriginalItem
<1>3. CASE over # {}
  <2>1. PICK k \in over : k = CHOOSE l \in over : TRUE
    BY <1>3
  <2>2. PICK e \in Edit : e = edits[k] /\ Harmless(source, e) /\ e.from < p /\ p <= e.to
    BY <2>1, Elements DEF Covering
  <2>3. EditedEntry(source, edits, p) = IF e.from = p - 1 THEN e.text ELSE <<>>
    BY <1>3, <2>1, <2>2 DEF EditedEntry
  <2>4. e.from # e.to
    BY <1>1, <2>2 DEF Edit
  <2>5. OriginalItem(source[p]) = IF e.from = p - 1 THEN OriginalItems(e.text) ELSE <<>>
    BY <2>2, <2>4 DEF Harmless
  <2>6. CASE e.from = p - 1
    BY <2>3, <2>5, <2>6 DEF Edit
  <2>7. CASE e.from # p - 1
    <3>1. EditedEntry(source, edits, p) = <<>> /\ OriginalItem(source[p]) = <<>>
      BY <2>3, <2>5, <2>7
    <3> QED
      BY <3>1, NoOriginalItems
  <2> QED
    BY <2>6, <2>7
<1> QED
  BY <1>2, <1>3

(* _apply keeps the original items if each edit does.                      *)
LEMMA ApplyKeeps ==
  ASSUME NEW source \in File, NEW edits \in Seq(Edit),
         \A k \in DOMAIN edits : Harmless(source, edits[k])
  PROVE  /\ Apply(source, edits) \in File
         /\ OriginalItems(Apply(source, edits)) = OriginalItems(source)
<1> DEFINE n == Len(source)
           inserted(p) == FlattenSeq(InsertedTexts(edits, p))
           parts == [p \in 1 .. n + 1 |->
                       inserted(p - 1) \o IF p <= n THEN EditedEntry(source, edits, p) ELSE <<>>]
           lists == [p \in DOMAIN source |-> OriginalItem(source[p])]
           after == [p \in DOMAIN parts |-> OriginalItems(parts[p])]
<1>1. n \in Nat /\ DOMAIN source = 1 .. n /\ n + 1 \in Nat
  BY Elements DEF File
<1>2. Apply(source, edits) = FlattenSeq(parts)
  BY DEF Apply, InsertedTexts, EditedEntry
<1>3. ASSUME NEW p \in 1 .. n + 1
      PROVE  /\ parts[p] \in File
             /\ OriginalItems(parts[p]) = IF p <= n THEN OriginalItem(source[p]) ELSE <<>>
  <2>1. p - 1 \in Int
    OBVIOUS
  <2>2. PICK a \in File : a = inserted(p - 1) /\ OriginalItems(a) = <<>>
    BY <2>1, InsertedKeeps
  <2>3. PICK b \in File :
          /\ b = IF p <= n THEN EditedEntry(source, edits, p) ELSE <<>>
          /\ OriginalItems(b) = IF p <= n THEN OriginalItem(source[p]) ELSE <<>>
    <3>1. CASE p <= n
      <4>1. p \in 1 .. Len(source)
        BY <1>1, <3>1
      <4> QED
        BY <3>1, <4>1, EditedEntryKeeps
    <3>2. CASE ~(p <= n)
      BY <3>2, NoOriginalItems
    <3> QED
      BY <3>1, <3>2
  <2>4. parts[p] = a \o b
    BY <2>2, <2>3
  <2>5. a \o b \in File /\ OriginalItems(a \o b) = <<>> \o OriginalItems(b)
    BY <2>2, OriginalItemsConcat
  <2>6. <<>> \o OriginalItems(b) = OriginalItems(b)
    BY OriginalItemsType, ConcatEmptySeq
  <2> QED
    BY <2>3, <2>4, <2>5, <2>6
<1>4. parts \in [1 .. n + 1 -> File] /\ DOMAIN parts = 1 .. n + 1
  <2> DEFINE f == [p \in 1 .. n + 1 |-> parts[p]]
  <2>1. parts = f
    OBVIOUS
  <2>2. f \in [1 .. n + 1 -> File]
    <3> HIDE DEF parts
    <3> QED
      BY <1>3
  <2> QED
    BY <2>1, <2>2
<1> HIDE DEF parts
<1>5. parts \in Seq(File)
  BY <1>1, <1>4, IsSequence
<1>6. FlattenSeq(parts) \in File /\ OriginalItems(FlattenSeq(parts)) = FlattenSeq(after)
  BY <1>5, OriginalItemsFlatten
<1>7. /\ lists \in Seq(Seq(DOMAIN Code)) /\ Len(lists) = n
      /\ OriginalItems(source) = FlattenSeq(lists)
  BY ItemLists
<1>8. \A p \in 1 .. n : lists[p] = OriginalItem(source[p])
  BY <1>1
<1>9. \A p \in 1 .. n + 1 : after[p] = IF p <= n THEN OriginalItem(source[p]) ELSE <<>>
  BY <1>3, <1>4
<1>10. after \in Seq(Seq(DOMAIN Code)) /\ Len(after) = n + 1
  <2>1. after \in [1 .. n + 1 -> Seq(DOMAIN Code)]
    BY <1>3, <1>4, OriginalItemsType
  <2> HIDE DEF after
  <2> QED
    BY <1>1, <2>1, IsSequence
<1> HIDE DEF lists, after
<1>11. after = lists \o << <<>> >>
  <2> DEFINE last == << <<>> >>
  <2>1. last \in Seq(Seq(DOMAIN Code)) /\ Len(last) = 1 /\ last[1] = <<>>
    OBVIOUS
  <2>2. \A p \in 1 .. n + 1 : after[p] = IF p <= n THEN lists[p] ELSE last[p - n]
    BY <1>1, <1>8, <1>9, <2>1
  <2> HIDE DEF last
  <2>3. lists \o last = after
    <3>1. PICK a, b, c \in Seq(Seq(DOMAIN Code)) : a = lists /\ b = last /\ c = after
      BY <1>7, <1>10, <2>1
    <3>2. /\ Len(c) = Len(a) + Len(b)
          /\ \A p \in 1 .. Len(a) + Len(b) : c[p] = IF p <= Len(a) THEN a[p] ELSE b[p - Len(a)]
      BY <1>7, <1>10, <2>1, <2>2, <3>1
    <3>3. a \o b = c
      BY <3>2, IsConcatenation
    <3> QED
      BY <3>1, <3>3
  <2> QED
    BY <2>3 DEF last
<1>12. FlattenSeq(after) = FlattenSeq(lists)
  <2> DEFINE last == << <<>> >>
  <2>1. last \in Seq(Seq(DOMAIN Code)) /\ \A k \in DOMAIN last : last[k] = <<>>
    OBVIOUS
  <2>2. after = lists \o last
    BY <1>11
  <2> HIDE DEF last
  <2>3. FlattenSeq(last) = <<>>
    BY <2>1, FlattenNothing
  <2>4. FlattenSeq(after) = FlattenSeq(lists) \o FlattenSeq(last)
    BY <1>7, <2>1, <2>2, FlattenConcat
  <2>5. FlattenSeq(lists) \in Seq(DOMAIN Code)
    BY <1>7, FlattenType
  <2> QED
    BY <2>3, <2>4, <2>5, ConcatEmptySeq
<1> QED
  BY <1>2, <1>6, <1>7, <1>12

-----------------------------------------------------------------------------
(* Aligning two files.                                                     *)

(* The function that MatchedPairs defines.                                 *)
Matching(f, equal) ==
  f = [n \in 0 .. Cardinality(equal) |->
         IF n = 0 THEN [pairs |-> {}, regions |-> {equal}] ELSE MatchRegions(f[n-1])]

LEMMA BlocksAreEqual ==
  ASSUME NEW equal
  PROVE  LongestBlock(equal) \in SUBSET equal
BY DEF LongestBlock, BlockFrom

(* SequenceMatcher matches what is equal.                                  *)
LEMMA MatchedPairsAre ==
  ASSUME NEW equal, IsFiniteSet(equal)
  PROVE  MatchedPairs(equal) \in SUBSET equal
<1> DEFINE n == Cardinality(equal)
           V == [pairs : SUBSET equal, regions : SUBSET SUBSET equal]
           first == [pairs |-> {}, regions |-> {equal}]
           step == [k \in 1 .. n |-> [v \in V |-> MatchRegions(v)]]
<1>1. n \in Nat
  BY FS_CardinalityType
<1>2. first \in V
  OBVIOUS
<1>3. \A v \in V : MatchRegions(v) \in V
  <2> SUFFICES ASSUME NEW v \in V
               PROVE  MatchRegions(v) \in V
    OBVIOUS
  <2>1. UNION {LongestBlock(r) : r \in v.regions} \in SUBSET equal
    BY BlocksAreEqual
  <2>2. UNION {Beside(r, LongestBlock(r)) : r \in v.regions} \in SUBSET SUBSET equal
    BY DEF Beside
  <2> QED
    BY <2>1, <2>2 DEF MatchRegions
<1> HIDE DEF V, n
<1>4. step \in [1 .. n -> [V -> V]]
  BY <1>3
<1>5. PICK f \in [0 .. n -> V] : Iterates(f, first, step, n)
  <2> HIDE DEF step, first
  <2> QED
    BY <1>1, <1>2, <1>4, IterationExists
<1>6. \A k \in 1 .. n : f[k] = MatchRegions(f[k-1])
  <2> SUFFICES ASSUME NEW k \in 1 .. n
               PROVE  f[k] = MatchRegions(f[k-1])
    OBVIOUS
  <2>1. k - 1 \in 0 .. n
    BY <1>1
  <2>2. f[k] = step[k][f[k-1]] /\ f[k-1] \in V
    BY <1>5, <2>1 DEF Iterates
  <2> QED
    BY <2>2
<1>7. Matching(f, equal)
  <2>1. f = [k \in 0 .. n |-> f[k]] /\ f[0] = first
    BY <1>5 DEF Iterates
  <2>2. \A k \in 0 .. n : f[k] = IF k = 0 THEN first ELSE MatchRegions(f[k-1])
    BY <1>1, <1>6, <2>1
  <2> QED
    BY <2>1, <2>2 DEF Matching, n
<1> DEFINE g == CHOOSE h : Matching(h, equal)
<1>8. Matching(g, equal)
  BY <1>7
<1>9. MatchedPairs(equal) = g[n].pairs
  BY DEF MatchedPairs, Matching, n
<1> HIDE DEF g
<1>10. g[0] = first /\ \A k \in 1 .. n : g[k] = MatchRegions(g[k-1])
  <2>1. \A k \in 0 .. n : g[k] = IF k = 0 THEN first ELSE MatchRegions(g[k-1])
    BY <1>8 DEF Matching, n
  <2>2. 0 \in 0 .. n /\ \A k \in 1 .. n : k \in 0 .. n /\ k # 0
    BY <1>1
  <2> HIDE DEF first
  <2> QED
    BY <2>1, <2>2
<1> DEFINE G == {k \in 0 .. n : g[k] \in V}
<1>11. \A k \in 0 .. n : k \in G
  <2>1. 0 \in G
    BY <1>1, <1>2, <1>10
  <2>2. \A k \in 1 .. n : k - 1 \in G => k \in G
    BY <1>1, <1>3, <1>10
  <2> HIDE DEF G
  <2> QED
    BY <1>1, <2>1, <2>2, InductionUpTo
<1>12. g[n] \in V
  BY <1>1, <1>11
<1> QED
  BY <1>9, <1>12 DEF V

(* The function that EditsOf defines.                                      *)
Editing(f, base, copy, pairs, gone) ==
  f = [k \in 0 .. Len(gone) |-> IF k = 0 THEN [rules |-> {}, missing |-> <<>>, new |-> DOMAIN copy \ {p[2] : p \in pairs}] ELSE EditOf(base, copy, pairs, f[k-1], gone[k])]

EditingClosed(base, copy, pairs, gone, V) ==
  /\ [rules |-> {}, missing |-> <<>>, new |-> DOMAIN copy \ {p[2] : p \in pairs}] \in V
  /\ \A k \in 1 .. Len(gone) : \A v \in V : EditOf(base, copy, pairs, v, gone[k]) \in V

EditingSteps(g, base, copy, pairs, gone) ==
  /\ g[0] = [rules |-> {}, missing |-> <<>>, new |-> DOMAIN copy \ {p[2] : p \in pairs}]
  /\ \A k \in 1 .. Len(gone) : g[k] = EditOf(base, copy, pairs, g[k-1], gone[k])

LEMMA EditsOfSteps ==
  ASSUME NEW base, NEW copy, NEW pairs, NEW S, NEW gone \in Seq(S),
         NEW V, EditingClosed(base, copy, pairs, gone, V)
  PROVE  \E g \in [0 .. Len(gone) -> V] :
           EditingSteps(g, base, copy, pairs, gone) /\ EditsOf(base, copy, pairs, gone) = g[Len(gone)]
<1> DEFINE n == Len(gone)
           first == [rules |-> {}, missing |-> <<>>, new |-> DOMAIN copy \ {p[2] : p \in pairs}]
           step == [k \in 1 .. n |-> [v \in V |-> EditOf(base, copy, pairs, v, gone[k])]]
<1>1. n \in Nat
  BY Elements
<1>0. first \in V /\ \A k \in 1 .. n : \A v \in V : EditOf(base, copy, pairs, v, gone[k]) \in V
  BY DEF EditingClosed
<1> HIDE DEF n, first
<1>2. step \in [1 .. n -> [V -> V]]
  BY <1>0
<1>3. PICK f \in [0 .. n -> V] : Iterates(f, first, step, n)
  <2> HIDE DEF step
  <2> QED
    BY <1>0, <1>1, <1>2, IterationExists
<1>4. \A k \in 1 .. n : f[k] = EditOf(base, copy, pairs, f[k-1], gone[k])
  <2> SUFFICES ASSUME NEW k \in 1 .. n
               PROVE  f[k] = EditOf(base, copy, pairs, f[k-1], gone[k])
    OBVIOUS
  <2>1. k - 1 \in 0 .. n
    BY <1>1
  <2>2. f[k] = step[k][f[k-1]] /\ f[k-1] \in V
    <3> HIDE DEF step
    <3> QED
      BY <1>3, <2>1 DEF Iterates
  <2> QED
    BY <2>2
<1> HIDE DEF step
<1>5. Editing(f, base, copy, pairs, gone)
  <2>1. f = [k \in 0 .. n |-> f[k]] /\ f[0] = first
    BY <1>3 DEF Iterates
  <2>2. \A k \in 0 .. n : k # 0 => k \in 1 .. n
    BY <1>1
  <2>3. \A k \in 0 .. n : f[k] = IF k = 0 THEN first ELSE EditOf(base, copy, pairs, f[k-1], gone[k])
    BY <1>4, <2>1, <2>2
  <2> QED
    BY <2>1, <2>3 DEF Editing, n, first
<1> DEFINE g == CHOOSE h : Editing(h, base, copy, pairs, gone)
<1>6. Editing(g, base, copy, pairs, gone)
  BY <1>5
<1>7. EditsOf(base, copy, pairs, gone) = g[n]
  BY DEF EditsOf, Editing, n
<1> HIDE DEF g
<1>8. g[0] = first /\ \A k \in 1 .. n : g[k] = EditOf(base, copy, pairs, g[k-1], gone[k])
  <2>1. \A k \in 0 .. n : g[k] = IF k = 0 THEN first ELSE EditOf(base, copy, pairs, g[k-1], gone[k])
    BY <1>6 DEF Editing, n, first
  <2>2. 0 \in 0 .. n /\ \A k \in 1 .. n : k \in 0 .. n /\ k # 0
    BY <1>1
  <2> QED
    BY <2>1, <2>2
<1> DEFINE G == {k \in 0 .. n : g[k] \in V}
<1>9. \A k \in 0 .. n : k \in G
  <2>1. 0 \in G
    BY <1>0, <1>1, <1>8
  <2>2. \A k \in 1 .. n : k - 1 \in G => k \in G
    BY <1>0, <1>1, <1>8
  <2> HIDE DEF G
  <2> QED
    BY <1>1, <2>1, <2>2, InductionUpTo
<1>10. g \in [0 .. n -> V]
  <2>1. g = [k \in 0 .. n |-> IF k = 0 THEN first ELSE EditOf(base, copy, pairs, g[k-1], gone[k])]
    BY <1>6 DEF Editing, n, first
  <2>2. \A k \in 0 .. n : g[k] \in V
    BY <1>9
  <2> QED
    BY <2>1, <2>2
<1>11. EditingSteps(g, base, copy, pairs, gone)
  BY <1>8 DEF EditingSteps, n, first
<1> QED
  BY <1>7, <1>10, <1>11 DEF n

(* The function that NotMoved defines.                                     *)
Moving(f, base, copy, edited) ==
  f = [k \in 0 .. Len(edited.missing) |-> IF k = 0 THEN edited.new ELSE MoveOf(base, copy, f[k-1], edited.missing[k])]

MovingClosed(base, copy, edited, V) ==
  /\ edited.new \in V
  /\ \A k \in 1 .. Len(edited.missing) : \A v \in V : MoveOf(base, copy, v, edited.missing[k]) \in V

MovingSteps(g, base, copy, edited) ==
  /\ g[0] = edited.new
  /\ \A k \in 1 .. Len(edited.missing) : g[k] = MoveOf(base, copy, g[k-1], edited.missing[k])

LEMMA NotMovedSteps ==
  ASSUME NEW base, NEW copy, NEW edited, NEW S, edited.missing \in Seq(S),
         NEW V, MovingClosed(base, copy, edited, V)
  PROVE  \E g \in [0 .. Len(edited.missing) -> V] :
           MovingSteps(g, base, copy, edited) /\ NotMoved(base, copy, edited) = g[Len(edited.missing)]
<1> DEFINE n == Len(edited.missing)
           first == edited.new
           step == [k \in 1 .. n |-> [v \in V |-> MoveOf(base, copy, v, edited.missing[k])]]
<1>1. n \in Nat
  BY Elements
<1>0. first \in V /\ \A k \in 1 .. n : \A v \in V : MoveOf(base, copy, v, edited.missing[k]) \in V
  BY DEF MovingClosed
<1> HIDE DEF n, first
<1>2. step \in [1 .. n -> [V -> V]]
  BY <1>0
<1>3. PICK f \in [0 .. n -> V] : Iterates(f, first, step, n)
  <2> HIDE DEF step
  <2> QED
    BY <1>0, <1>1, <1>2, IterationExists
<1>4. \A k \in 1 .. n : f[k] = MoveOf(base, copy, f[k-1], edited.missing[k])
  <2> SUFFICES ASSUME NEW k \in 1 .. n
               PROVE  f[k] = MoveOf(base, copy, f[k-1], edited.missing[k])
    OBVIOUS
  <2>1. k - 1 \in 0 .. n
    BY <1>1
  <2>2. f[k] = step[k][f[k-1]] /\ f[k-1] \in V
    <3> HIDE DEF step
    <3> QED
      BY <1>3, <2>1 DEF Iterates
  <2> QED
    BY <2>2
<1> HIDE DEF step
<1>5. Moving(f, base, copy, edited)
  <2>1. f = [k \in 0 .. n |-> f[k]] /\ f[0] = first
    BY <1>3 DEF Iterates
  <2>2. \A k \in 0 .. n : k # 0 => k \in 1 .. n
    BY <1>1
  <2>3. \A k \in 0 .. n : f[k] = IF k = 0 THEN first ELSE MoveOf(base, copy, f[k-1], edited.missing[k])
    BY <1>4, <2>1, <2>2
  <2> QED
    BY <2>1, <2>3 DEF Moving, n, first
<1> DEFINE g == CHOOSE h : Moving(h, base, copy, edited)
<1>6. Moving(g, base, copy, edited)
  BY <1>5
<1>7. NotMoved(base, copy, edited) = g[n]
  BY DEF NotMoved, Moving, n
<1> HIDE DEF g
<1>8. g[0] = first /\ \A k \in 1 .. n : g[k] = MoveOf(base, copy, g[k-1], edited.missing[k])
  <2>1. \A k \in 0 .. n : g[k] = IF k = 0 THEN first ELSE MoveOf(base, copy, g[k-1], edited.missing[k])
    BY <1>6 DEF Moving, n, first
  <2>2. 0 \in 0 .. n /\ \A k \in 1 .. n : k \in 0 .. n /\ k # 0
    BY <1>1
  <2> QED
    BY <2>1, <2>2
<1> DEFINE G == {k \in 0 .. n : g[k] \in V}
<1>9. \A k \in 0 .. n : k \in G
  <2>1. 0 \in G
    BY <1>0, <1>1, <1>8
  <2>2. \A k \in 1 .. n : k - 1 \in G => k \in G
    BY <1>0, <1>1, <1>8
  <2> HIDE DEF G
  <2> QED
    BY <1>1, <2>1, <2>2, InductionUpTo
<1>10. g \in [0 .. n -> V]
  <2>1. g = [k \in 0 .. n |-> IF k = 0 THEN first ELSE MoveOf(base, copy, g[k-1], edited.missing[k])]
    BY <1>6 DEF Moving, n, first
  <2>2. \A k \in 0 .. n : g[k] \in V
    BY <1>9
  <2> QED
    BY <2>1, <2>2
<1>11. MovingSteps(g, base, copy, edited)
  BY <1>8 DEF MovingSteps, n, first
<1> QED
  BY <1>7, <1>10, <1>11 DEF n

(* One step keeps the types, and an original item that is gone breaks a    *)
(* rule or is missing.                                                     *)
EditState(copy, S) ==
  [rules : SUBSET {1, 2}, missing : Seq(S), new : SUBSET DOMAIN copy]

Noticed(acc) == acc.rules # {} \/ acc.missing # <<>>

LEMMA EditOfType ==
  ASSUME NEW base, NEW copy, NEW pairs, NEW S, NEW i \in S,
         NEW acc \in EditState(copy, S)
  PROVE  /\ EditOf(base, copy, pairs, acc, i) \in EditState(copy, S)
         /\ Noticed(EditOf(base, copy, pairs, acc, i))
<1> DEFINE counterparts == Counterparts(base, copy, pairs, i, acc.new)
           j == Min(counterparts)
           inserted == base[i].code \in Code[copy[j].code].extends
           after == EditOf(base, copy, pairs, acc, i)
           T == EditState(copy, S)
<1>1. /\ acc.rules \in SUBSET {1, 2} /\ acc.missing \in Seq(S)
      /\ acc.new \in SUBSET DOMAIN copy
      /\ acc = [rules |-> acc.rules, missing |-> acc.missing, new |-> acc.new]
  BY DEF EditState
<1>2. CASE counterparts = {}
  <2>1. after = [acc EXCEPT !.missing = Append(@, i)]
    BY <1>2 DEF EditOf
  <2>2. Append(acc.missing, i) \in Seq(S) /\ Append(acc.missing, i) # <<>>
    BY <1>1
  <2>3. after = [rules |-> acc.rules, missing |-> Append(acc.missing, i), new |-> acc.new]
    BY <1>1, <2>1
  <2> HIDE DEF after
  <2>4. after \in T /\ Noticed(after)
    BY <1>1, <2>2, <2>3 DEF EditState, Noticed
  <2> QED
    BY <2>4 DEF after
<1>3. CASE counterparts # {}
  <2> DEFINE rule == IF inserted THEN 2 ELSE 1
  <2>1. after = [acc EXCEPT !.new = @ \ {j}, !.rules = @ \cup {rule}]
    BY <1>3 DEF EditOf
  <2>2. rule \in {1, 2}
    OBVIOUS
  <2> HIDE DEF rule, j
  <2>3. after = [rules |-> acc.rules \cup {rule}, missing |-> acc.missing, new |-> acc.new \ {j}]
    BY <1>1, <2>1
  <2> HIDE DEF after
  <2>4. after \in T /\ Noticed(after)
    BY <1>1, <2>2, <2>3 DEF EditState, Noticed
  <2> QED
    BY <2>4 DEF after
<1> QED
  BY <1>2, <1>3

(* What _compare_items promises.                                           *)
Compared(c, base, copy) ==
  /\ c.new \in SUBSET (1 .. Len(copy))
  /\ DOMAIN c.index \in SUBSET (1 .. Len(base))
  /\ \A i \in DOMAIN c.index :
       c.index[i] \in 1 .. Len(copy) /\ copy[c.index[i]].code = base[i].code
  /\ c.rules = {} => DOMAIN c.index = 1 .. Len(base)

LEMMA CompareAlignedFacts ==
  ASSUME NEW base \in Seq(Entry), NEW copy \in Seq(Entry),
         NEW pairs \in SUBSET ((DOMAIN base) \X (DOMAIN copy)),
         \A p \in pairs : base[p[1]].code = copy[p[2]].code
  PROVE  Compared(CompareAligned(base, copy, pairs), base, copy)
<1> DEFINE kept == {p[1] : p \in pairs}
           S == DOMAIN base \ kept
           gone == Ascending(S)
           edited == EditsOf(base, copy, pairs, gone)
           index == [i \in kept |-> CHOOSE j \in DOMAIN copy : <<i, j>> \in pairs]
           V == EditState(copy, S)
<1>1. /\ Len(base) \in Nat /\ DOMAIN base = 1 .. Len(base)
      /\ Len(copy) \in Nat /\ DOMAIN copy = 1 .. Len(copy)
  BY Elements
<1>2. gone \in Seq(S) /\ \A x \in S : Occurs(x, gone)
  <2>1. S \in SUBSET (1 .. Len(base))
    BY <1>1
  <2> HIDE DEF S
  <2> QED
    BY <1>1, <2>1, Ascends
<1>3. CompareAligned(base, copy, pairs) =
        [rules |-> edited.rules \cup IF edited.missing = <<>> THEN {} ELSE {1},
         new |-> NotMoved(base, copy, edited), index |-> index]
  BY DEF CompareAligned
<1>4. /\ Len(gone) \in Nat /\ DOMAIN gone = 1 .. Len(gone)
      /\ \A k \in 1 .. Len(gone) : gone[k] \in S
  <2> HIDE DEF S, gone
  <2> QED
    BY <1>2, Elements
<1> HIDE DEF gone
<1>5. \A k \in 1 .. Len(gone) : \A v \in V :
        /\ EditOf(base, copy, pairs, v, gone[k]) \in V
        /\ Noticed(EditOf(base, copy, pairs, v, gone[k]))
  <2> HIDE DEF S
  <2> QED
    BY <1>4, EditOfType
<1>6. EditingClosed(base, copy, pairs, gone, V)
  <2>1. [rules |-> {}, missing |-> <<>>, new |-> DOMAIN copy \ {p[2] : p \in pairs}] \in V
    <3>1. <<>> \in Seq(S)
      OBVIOUS
    <3> HIDE DEF S
    <3> QED
      BY <3>1 DEF EditState
  <2> HIDE DEF V
  <2> QED
    BY <1>5, <2>1 DEF EditingClosed
<1>7. PICK g \in [0 .. Len(gone) -> V] :
        EditingSteps(g, base, copy, pairs, gone) /\ edited = g[Len(gone)]
  <2> HIDE DEF V, S
  <2> QED
    BY <1>2, <1>6, EditsOfSteps
<1>8. edited \in V
  <2>1. Len(gone) \in 0 .. Len(gone)
    BY <1>4
  <2> HIDE DEF V, edited
  <2> QED
    BY <1>7, <2>1
<1>9. Len(gone) # 0 => Noticed(edited)
  <2> SUFFICES ASSUME Len(gone) # 0
               PROVE  Noticed(edited)
    OBVIOUS
  <2>1. Len(gone) \in 1 .. Len(gone) /\ Len(gone) - 1 \in 0 .. Len(gone)
    BY <1>4
  <2>2. edited = EditOf(base, copy, pairs, g[Len(gone) - 1], gone[Len(gone)])
    BY <1>7, <2>1 DEF EditingSteps
  <2>3. g[Len(gone) - 1] \in V
    BY <1>7, <2>1
  <2> HIDE DEF V, edited
  <2> QED
    BY <1>5, <2>1, <2>2, <2>3
<1>10. NotMoved(base, copy, edited) \in SUBSET DOMAIN copy
  <2> DEFINE W == SUBSET DOMAIN copy
  <2>1. edited.new \in W /\ edited.missing \in Seq(S)
    BY <1>8 DEF EditState
  <2>2. MovingClosed(base, copy, edited, W)
    BY <2>1 DEF MoveOf, MovingClosed
  <2> HIDE DEF W, S, V, edited
  <2>3. PICK h \in [0 .. Len(edited.missing) -> W] :
          NotMoved(base, copy, edited) = h[Len(edited.missing)]
    BY <2>1, <2>2, NotMovedSteps
  <2>4. Len(edited.missing) \in 0 .. Len(edited.missing)
    BY <2>1, Elements
  <2>5. NotMoved(base, copy, edited) \in W
    BY <2>3, <2>4
  <2> QED
    BY <2>5 DEF W
<1>11. ASSUME NEW i \in kept
       PROVE  /\ i \in DOMAIN base /\ index[i] \in DOMAIN copy
              /\ copy[index[i]].code = base[i].code
  <2>1. PICK p \in pairs : p[1] = i
    OBVIOUS
  <2>2. p = <<i, p[2]>> /\ i \in DOMAIN base /\ p[2] \in DOMAIN copy
    BY <2>1
  <2>3. index[i] \in DOMAIN copy /\ <<i, index[i]>> \in pairs
    BY <2>1, <2>2
  <2>4. base[i].code = copy[index[i]].code
    <3> HIDE DEF index
    <3> QED
      BY <2>3
  <2> QED
    BY <2>2, <2>3, <2>4
<1>12. ASSUME edited.rules \cup (IF edited.missing = <<>> THEN {} ELSE {1}) = {}
       PROVE  kept = DOMAIN base
  <2>1. edited.rules = {} /\ edited.missing = <<>>
    <3> HIDE DEF edited
    <3> QED
      BY <1>12
  <2>2. Len(gone) = 0
    BY <1>9, <2>1 DEF Noticed
  <2>3. S = {}
    BY <1>2, <1>4, <2>2 DEF Occurs
  <2>4. kept \in SUBSET DOMAIN base
    BY <1>11
  <2> QED
    BY <2>3, <2>4
<1>13. DOMAIN index = kept
  OBVIOUS
<1> DEFINE c == CompareAligned(base, copy, pairs)
           rules == edited.rules \cup IF edited.missing = <<>> THEN {} ELSE {1}
<1>14. c.rules = rules /\ c.new = NotMoved(base, copy, edited) /\ c.index = index
  BY <1>3
<1> HIDE DEF index, kept, edited, c
<1>15. c.new \in SUBSET (1 .. Len(copy)) /\ DOMAIN c.index \in SUBSET (1 .. Len(base))
  BY <1>1, <1>10, <1>11, <1>13, <1>14
<1>16. \A i \in DOMAIN c.index :
         c.index[i] \in 1 .. Len(copy) /\ copy[c.index[i]].code = base[i].code
  BY <1>1, <1>11, <1>13, <1>14
<1>17. c.rules = {} => DOMAIN c.index = 1 .. Len(base)
  BY <1>1, <1>12, <1>13, <1>14
<1>18. Compared(c, base, copy)
  BY <1>15, <1>16, <1>17 DEF Compared
<1> QED
  BY <1>18 DEF c

LEMMA CompareItemsFacts ==
  ASSUME NEW base \in Seq(Entry), NEW copy \in Seq(Entry)
  PROVE  Compared(CompareItems(base, copy), base, copy)
<1> DEFINE keyed(items) == {<<i, AlignmentKeys(items)[i]>> : i \in DOMAIN items}
           alike == {z \in keyed(base) \X keyed(copy) : z[1][2] = z[2][2]}
           same == {<<z[1][1], z[2][1]>> : z \in alike}
           pairs == MatchedPairs(same)
<1>1. /\ Len(base) \in Nat /\ DOMAIN base = 1 .. Len(base)
      /\ Len(copy) \in Nat /\ DOMAIN copy = 1 .. Len(copy)
  BY Elements
<1>2. ASSUME NEW p \in same
      PROVE  /\ p \in (DOMAIN base) \X (DOMAIN copy)
             /\ AlignmentKeys(base)[p[1]] = AlignmentKeys(copy)[p[2]]
  <2>1. PICK i \in DOMAIN base, j \in DOMAIN copy :
          p = <<i, j>> /\ AlignmentKeys(base)[i] = AlignmentKeys(copy)[j]
    OBVIOUS
  <2> QED
    BY <2>1
<1>3. same \in SUBSET ((DOMAIN base) \X (DOMAIN copy))
  BY <1>2
<1>4. IsFiniteSet(same)
  <2>1. IsFiniteSet((1 .. Len(base)) \X (1 .. Len(copy)))
    <3>1. IsFiniteSet(1 .. Len(base)) /\ IsFiniteSet(1 .. Len(copy))
      BY <1>1, FS_Interval
    <3> QED
      BY <3>1, FS_Product
  <2>2. same \in SUBSET ((1 .. Len(base)) \X (1 .. Len(copy)))
    BY <1>1, <1>3
  <2> HIDE DEF same
  <2> QED
    BY <2>1, <2>2, FS_Subset
<1>5. pairs \in SUBSET same
  <2> HIDE DEF same
  <2> QED
    BY <1>4, MatchedPairsAre
<1>6. \A p \in same : base[p[1]].code = copy[p[2]].code
  <2>1. ASSUME NEW i \in DOMAIN base, NEW j \in DOMAIN copy,
               AlignmentKeys(base)[i] = AlignmentKeys(copy)[j]
        PROVE  base[i].code = copy[j].code
    BY <2>1 DEF AlignmentKeys
  <2> QED
    BY <1>2, <2>1
<1>7. CompareItems(base, copy) = CompareAligned(base, copy, pairs)
  BY DEF CompareItems
<1> HIDE DEF same, pairs
<1>8. pairs \in SUBSET ((DOMAIN base) \X (DOMAIN copy))
  BY <1>5, <1>3
<1>9. \A p \in pairs : base[p[1]].code = copy[p[2]].code
  BY <1>5, <1>6
<1> QED
  BY <1>7, <1>8, <1>9, CompareAlignedFacts

-----------------------------------------------------------------------------
(* check_edits.                                                            *)

(* A new item that is accepted is a conditional, or has a new name.        *)
LEMMA NewItemAccepted ==
  ASSUME NEW item \in Entry, NEW existing, NewItem(item, existing) = {}
  PROVE  \/ Directive(item) \in Conditionals
         \/ Code[item.code].prefixed /\ Name(item) \notin existing
<1>1. ASSUME NewName(item.code, existing) = {}
      PROVE  Code[item.code].prefixed /\ Name(item) \notin existing
  BY <1>1 DEF NewName, Name
<1> DEFINE own == CASE Kind(item) = "directive" -> NewDirective(item.code, existing)
                    [] Kind(item) = "incomplete" \/ (Kind(item) # "directive" /\ Name(item) = None) -> {4}
                    [] OTHER -> NewName(item.code, existing)
<1>2. own = {}
  BY DEF NewItem
<1>3. CASE Kind(item) = "directive"
  <2>1. NewDirective(item.code, existing) = {}
    BY <1>2, <1>3
  <2>2. CASE Code[item.code].directive \in Conditionals
    BY <2>2 DEF Directive
  <2>3. CASE Code[item.code].directive \notin Conditionals
    <3>1. NewName(item.code, existing) = {}
      BY <2>1, <2>3 DEF NewDirective
    <3> QED
      BY <1>1, <3>1
  <2> QED
    BY <2>2, <2>3
<1>4. CASE Kind(item) # "directive"
  <2>1. NewName(item.code, existing) = {}
    BY <1>2, <1>4
  <2> QED
    BY <1>1, <2>1
<1> QED
  BY <1>3, <1>4

(* An item of the file the run started with is still there, with its name. *)
LEMMA OriginalNameExists ==
  ASSUME NEW file \in File, OriginalItems(file) = OriginalItems(Base),
         NEW entry \in Entry, IsOriginal(entry)
  PROVE  \E i \in DOMAIN Parse(file).items : Name(Parse(file).items[i]) = Name(entry)
<1>1. Base \in File
  BY CopyAssumption
<1>2. PICK p \in DOMAIN Base : Base[p].code = entry.code
  BY DEF IsOriginal, BaseCodes
<1>3. IsOriginal(Base[p])
  BY <1>2 DEF IsOriginal, IsItem, Directive
<1>4. Occurs(entry.code, OriginalItems(file))
  BY <1>1, <1>2, <1>3, OriginalItemsAre
<1>5. PICK q \in DOMAIN file : IsOriginal(file[q]) /\ file[q].code = entry.code
  BY <1>4, OriginalItemsAre
<1> DEFINE f == Parse(file)
<1>6. Parsed(f) /\ f.text = file /\ DOMAIN file = 1 .. Len(file)
  BY ParseFacts, Elements DEF File
<1> HIDE DEF f
<1>7. PICK i \in 1 .. Len(f.items) : f.at[i] = q
  BY <1>5, <1>6 DEF Parsed, IsOriginal
<1>8. f.items[i] = file[q] /\ i \in DOMAIN f.items
  BY <1>6, <1>7 DEF Parsed
<1> QED
  BY <1>5, <1>8 DEF f, Name

(* What check_edits accepts has no new item that is an original one.       *)
LEMMA NewItemsAreNew ==
  ASSUME NEW base \in File, NEW copy \in File, NEW function,
         OriginalItems(base) = OriginalItems(Base),
         CheckEdits(base, copy, function) = {},
         NEW j \in CompareItems(Parse(base).items, Parse(copy).items).new
  PROVE  ~IsOriginal(Parse(copy).items[j])
<1> DEFINE b == Parse(base).items
           s == Parse(copy).items
           new == CompareItems(b, s).new
           existing == {Name(b[i]) : i \in DOMAIN b} \ {None}
<1>1. b \in Seq(Entry) /\ s \in Seq(Entry)
  BY ParseFacts DEF Parsed
<1>2. Compared(CompareItems(b, s), b, s)
  <2> HIDE DEF b, s
  <2> QED
    BY <1>1, CompareItemsFacts
<1>3. s[j] \in Entry
  <2>1. j \in 1 .. Len(s)
    BY <1>2 DEF Compared
  <2> HIDE DEF s
  <2> QED
    BY <1>1, <2>1, Elements
<1>4. NewItem(s[j], existing) = {}
  <2>1. CheckNewItems(b, s, new) = {}
    BY DEF CheckEdits
  <2>2. UNION {NewItem(s[k], existing) : k \in new} = {}
    BY <2>1 DEF CheckNewItems
  <2>3. j \in new
    OBVIOUS
  <2> HIDE DEF s, existing, new
  <2> QED
    BY <2>2, <2>3
<1>5. SUFFICES ASSUME IsOriginal(s[j])
               PROVE  FALSE
  OBVIOUS
<1>6. \/ Directive(s[j]) \in Conditionals
      \/ Code[s[j].code].prefixed /\ Name(s[j]) \notin existing
  <2> HIDE DEF s, existing
  <2> QED
    BY <1>3, <1>4, NewItemAccepted
<1>7. Code[s[j].code].prefixed /\ Name(s[j]) \notin existing
  BY <1>5, <1>6 DEF IsOriginal
<1>8. Name(s[j]) # None
  <2>1. s[j].code \in DOMAIN Code
    BY <1>3 DEF Entry
  <2> HIDE DEF s, existing
  <2> QED
    BY <1>7, <2>1, CodeAssumption DEF Name
<1>9. PICK i \in DOMAIN b : Name(b[i]) = Name(s[j])
  BY <1>3, <1>5, OriginalNameExists
<1> QED
  BY <1>7, <1>8, <1>9

-----------------------------------------------------------------------------
(* Runs and units of new items.                                            *)

LEMMA MaxOfPositions ==
  ASSUME NEW n \in Nat, NEW T \in SUBSET (0 .. n)
  PROVE  Max({0} \cup T) \in {0} \cup T /\ \A x \in T : x <= Max({0} \cup T)
<1> DEFINE U == {0} \cup T
<1>1. U \in SUBSET (0 .. n) /\ U # {}
  OBVIOUS
<1>2. Max(U) \in U /\ \A x \in U : x <= Max(U)
  <2> HIDE DEF U
  <2> QED
    BY <1>1, MaxIsGreatest
<1> QED
  BY <1>2

(* A run is of consecutive indices.                                        *)
LEMMA RunsAre ==
  ASSUME NEW n \in Nat, NEW I \in SUBSET (1 .. n), NEW k \in DOMAIN Runs(I)
  PROVE  /\ Runs(I)[k][1] \in 1 .. n
         /\ Runs(I)[k][2] \in Runs(I)[k][1] .. n
         /\ Runs(I)[k][1] .. Runs(I)[k][2] \in SUBSET I
<1> DEFINE first == {i \in I : i - 1 \notin I}
           ends(i) == {j \in I : i <= j /\ j + 1 \notin I}
           starts == Ascending(first)
           a == starts[k]
           b == Min(ends(a))
<1>1. starts \in Seq(first)
  <2>1. first \in SUBSET (1 .. n)
    OBVIOUS
  <2> HIDE DEF first
  <2> QED
    BY <2>1, Ascends
<1>2. k \in DOMAIN starts /\ Runs(I)[k] = <<a, b>>
  BY DEF Runs
<1>3. a \in first
  <2> HIDE DEF first, starts
  <2> QED
    BY <1>1, <1>2, Elements
<1>4. a \in I /\ a \in 1 .. n
  BY <1>3
<1> HIDE DEF a
<1>5. ends(a) \in SUBSET Nat /\ ends(a) # {}
  <2>1. PICK t \in I : \A m \in I : m <= t
    <3>1. I \in SUBSET (0 .. n) /\ I # {}
      BY <1>4
    <3> QED
      BY <3>1, MaxIsGreatest
  <2>2. \A x \in I : x \in Nat
    OBVIOUS
  <2>3. t + 1 \notin I
    BY <2>1, <2>2
  <2>4. t \in ends(a)
    BY <1>4, <2>1, <2>3
  <2>5. ends(a) \in SUBSET Nat
    BY <2>2
  <2> QED
    BY <2>4, <2>5
<1>6. b \in ends(a) /\ \A m \in ends(a) : b <= m
  <2>1. PICK E : E = ends(a)
    OBVIOUS
  <2>2. Min(E) \in E /\ \A m \in E : Min(E) <= m
    BY <1>5, <2>1, MinIsLeast
  <2>3. b = Min(E)
    BY <2>1
  <2> HIDE DEF b
  <2> QED
    BY <2>1, <2>2, <2>3
<1> HIDE DEF b
<1>7. b \in I /\ b \in a .. n /\ b \in Nat
  <2>1. b \in I /\ a <= b
    BY <1>6
  <2>2. \A x \in I : x \in 1 .. n
    OBVIOUS
  <2> QED
    BY <1>4, <2>1, <2>2
<1>8. a .. b \in SUBSET I
  <2> DEFINE gaps == {x \in a .. b : x \notin I}
  <2>1. SUFFICES ASSUME gaps # {}
                 PROVE  FALSE
    OBVIOUS
  <2>2. PICK x \in gaps : \A y \in gaps : x <= y
    <3>1. gaps \in SUBSET Nat
      BY <1>4
    <3> HIDE DEF gaps
    <3> QED
      BY <2>1, <3>1, LeastNumber
  <2>3. x \in a .. b /\ x # a
    BY <1>4, <2>2
  <2>4. x - 1 \in a .. b /\ x - 1 \notin gaps
    BY <1>4, <1>7, <2>2, <2>3
  <2>5. x - 1 \in I /\ (x - 1) + 1 \notin I
    BY <1>4, <1>7, <2>2, <2>3, <2>4
  <2>6. x - 1 \in ends(a)
    BY <1>4, <2>4, <2>5
  <2>7. b <= x - 1
    BY <1>6, <2>6
  <2> QED
    BY <1>4, <1>7, <2>3, <2>7
<1> QED
  BY <1>2, <1>4, <1>7, <1>8

(* A unit is a part of its run.                                            *)
LEMMA UnitsAre ==
  ASSUME NEW items, NEW run, run[1] \in Nat \ {0}, run[2] \in Nat,
         NEW k \in DOMAIN Units(items, run)
  PROVE  /\ Units(items, run)[k][1] \in run[1] .. run[2]
         /\ Units(items, run)[k][2] \in Units(items, run)[k][1] .. run[2]
<1>1. PICK depth :
        LET first == {i \in run[1] .. run[2] : depth[i-1] = 0}
            upTo(i) == Min({j \in i .. run[2] : j = run[2] \/ j + 1 \in first})
            starts == Ascending(first)
        IN  Units(items, run) = [l \in DOMAIN starts |-> <<starts[l], upTo(starts[l])>>]
  BY DEF Units
<1> DEFINE first == {i \in run[1] .. run[2] : depth[i-1] = 0}
           ends(i) == {j \in i .. run[2] : j = run[2] \/ j + 1 \in first}
           starts == Ascending(first)
           a == starts[k]
           b == Min(ends(a))
<1>2. starts \in Seq(first)
  <2>1. first \in SUBSET (1 .. run[2])
    OBVIOUS
  <2> HIDE DEF first
  <2> QED
    BY <2>1, Ascends
<1>3. k \in DOMAIN starts /\ Units(items, run)[k] = <<a, b>>
  BY <1>1
<1>4. a \in run[1] .. run[2]
  <2>1. a \in first
    <3> HIDE DEF first, starts
    <3> QED
      BY <1>2, <1>3, Elements
  <2> QED
    BY <2>1
<1> HIDE DEF a
<1>5. b \in a .. run[2]
  <2>1. PICK E : E = ends(a)
    OBVIOUS
  <2>2. run[2] \in E /\ E \in SUBSET (a .. run[2]) /\ E \in SUBSET Nat
    BY <1>4, <2>1
  <2>3. Min(E) \in E
    BY <2>2, MinIsLeast
  <2>4. b = Min(E)
    BY <2>1
  <2> QED
    BY <2>2, <2>3, <2>4
<1> QED
  BY <1>3, <1>4, <1>5

-----------------------------------------------------------------------------
(* The edits of merge_copy.                                                *)

(* What merge_copy works on, once it knows that neither file changed code. *)
Ready(w) ==
  /\ Parsed(w.base) /\ Parsed(w.mine) /\ Parsed(w.theirs)
  /\ Compared(w.toMine, w.base.items, w.mine.items)
  /\ Compared(w.toTheirs, w.base.items, w.theirs.items)
  /\ w.toTheirs.rules = {}
  /\ \A j \in w.toMine.new : ~IsOriginal(w.mine.items[j])

LEMMA SameCodeSameItem ==
  ASSUME NEW a \in Entry, NEW b \in Entry, a.code = b.code
  PROVE  OriginalItem(a) = OriginalItem(b)
BY DEF OriginalItem, IsOriginal, IsItem, Directive

(* A contract edit replaces an item by itself with another contract.       *)
LEMMA ContractEditHarmless ==
  ASSUME NEW w, Ready(w), NEW i \in DOMAIN w.toMine.index
  PROVE  ContractEdit(w, i) \in Edit /\ Harmless(w.theirs.text, ContractEdit(w, i))
<1> DEFINE t == w.toTheirs.index[i]
           m == w.toMine.index[i]
           p == w.theirs.at[t]
           mine == w.mine.items[m]
           e == ContractEdit(w, i)
<1>1. /\ Parsed(w.mine) /\ Parsed(w.theirs)
      /\ Compared(w.toMine, w.base.items, w.mine.items)
      /\ Compared(w.toTheirs, w.base.items, w.theirs.items)
      /\ w.toTheirs.rules = {}
  BY DEF Ready
<1>2. m \in 1 .. Len(w.mine.items) /\ mine.code = w.base.items[i].code
  BY <1>1 DEF Compared
<1>3. i \in DOMAIN w.toTheirs.index
  BY <1>1 DEF Compared
<1>4. t \in 1 .. Len(w.theirs.items) /\ w.theirs.items[t].code = w.base.items[i].code
  BY <1>1, <1>3 DEF Compared
<1>5. mine \in Entry /\ w.theirs.items[t] \in Entry
  BY <1>1, <1>2, <1>4, Elements DEF Parsed
<1>6. p \in 1 .. Len(w.theirs.text) /\ w.theirs.items[t] = w.theirs.text[p]
  BY <1>1, <1>4 DEF Parsed
<1>7. e.from = p - 1 /\ e.to = p /\ e.text = <<mine>>
      /\ e = [from |-> p - 1, to |-> p, text |-> <<mine>>]
  BY DEF ContractEdit
<1> HIDE DEF e, mine, p, t
<1>8. <<mine>> \in File /\ OriginalItems(<<mine>>) = OriginalItem(w.theirs.text[p])
  BY <1>2, <1>4, <1>5, <1>6, OneOriginalItem, SameCodeSameItem
<1>9. \A q \in 1 .. Len(w.theirs.text) : e.from < q /\ q <= e.to => q = p
  BY <1>6, <1>7
<1>10. Harmless(w.theirs.text, e)
  BY <1>6, <1>7, <1>8, <1>9 DEF Harmless
<1>11. e \in Edit
  BY <1>6, <1>7, <1>8 DEF Edit
<1> QED
  BY <1>10, <1>11 DEF e

(* A run of new items of the copy, and where the gap before it starts.     *)
NewRun(w, run) ==
  /\ run[1] \in 1 .. Len(w.mine.items) /\ run[2] \in run[1] .. Len(w.mine.items)
  /\ run[1] .. run[2] \in SUBSET w.toMine.new

GapStart(w, run) == IF run[1] - 1 = 0 THEN 0 ELSE w.mine.at[run[1] - 1]

(* No original item is in the text after the gap's start, up to an item of *)
(* the run.                                                                *)
LEMMA NothingOriginalInRun ==
  ASSUME NEW w, Ready(w), NEW run, NewRun(w, run),
         NEW last \in run[1] .. run[2],
         NEW p \in 1 .. Len(w.mine.text), GapStart(w, run) < p, p <= w.mine.at[last]
  PROVE  ~IsOriginal(w.mine.text[p])
<1>1. Parsed(w.mine) /\ run[1] \in 1 .. Len(w.mine.items) /\ Len(w.mine.items) \in Nat
  BY DEF Ready, NewRun, Parsed
<1>2. last \in run[1] .. Len(w.mine.items) /\ run[1] .. last \in SUBSET w.toMine.new
  BY <1>1 DEF NewRun
<1>3. SUFFICES ASSUME IsOriginal(w.mine.text[p])
               PROVE  FALSE
  OBVIOUS
<1>4. IsItem(w.mine.text[p])
  BY <1>3 DEF IsOriginal
<1>5. run[1] # 1 => w.mine.at[run[1] - 1] < p
  BY <1>1 DEF GapStart
<1>6. PICK i \in run[1] .. last : w.mine.items[i] = w.mine.text[p]
  <2>1. PICK f, a, b : f = w.mine /\ a = run[1] /\ b = last
    OBVIOUS
  <2>2. /\ Parsed(f) /\ a \in 1 .. Len(f.items) /\ b \in a .. Len(f.items)
        /\ p \in 1 .. Len(f.text) /\ IsItem(f.text[p])
        /\ a # 1 => f.at[a-1] < p
        /\ p <= f.at[b]
    BY <1>1, <1>2, <1>4, <1>5, <2>1
  <2>3. \E i \in a .. b : f.items[i] = f.text[p]
    BY <2>2, ItemsBetween
  <2> QED
    BY <2>1, <2>3
<1>7. i \in w.toMine.new
  BY <1>2, <1>6
<1> QED
  BY <1>3, <1>6, <1>7 DEF Ready

LEMMA GapBeforeRun ==
  ASSUME NEW w, Ready(w), NEW run, NewRun(w, run), NEW i \in run[1] .. run[2]
  PROVE  /\ GapStart(w, run) \in Nat /\ w.mine.at[i] \in 1 .. Len(w.mine.text)
         /\ GapStart(w, run) < w.mine.at[i]
<1>1. Parsed(w.mine) /\ run[1] \in 1 .. Len(w.mine.items) /\ Len(w.mine.items) \in Nat
  BY DEF Ready, NewRun, Parsed
<1>2. i \in 1 .. Len(w.mine.items)
  BY <1>1 DEF NewRun
<1>3. w.mine.at[i] \in 1 .. Len(w.mine.text)
  BY <1>1, <1>2 DEF Parsed
<1>4. CASE run[1] - 1 = 0
  BY <1>3, <1>4 DEF GapStart
<1>5. CASE run[1] - 1 # 0
  <2>1. run[1] - 1 \in 1 .. Len(w.mine.items) /\ run[1] - 1 < i
    BY <1>1, <1>2, <1>5
  <2>2. w.mine.at[run[1] - 1] \in 1 .. Len(w.mine.text)
    BY <1>1, <2>1 DEF Parsed
  <2>3. w.mine.at[run[1] - 1] < w.mine.at[i]
    BY <1>1, <1>2, <2>1 DEF Parsed
  <2> QED
    BY <1>3, <1>5, <2>2, <2>3 DEF GapStart
<1> QED
  BY <1>4, <1>5

(* A piece of the run that is to be inserted.                              *)
LEMMA PieceIsNew ==
  ASSUME NEW w, Ready(w), NEW run, NewRun(w, run),
         NEW last \in run[1] .. run[2],
         NEW from \in Nat, from >= GapStart(w, run),
         NEW to \in Int, to <= w.mine.at[last]
  PROVE  /\ SubSeq(w.mine.text, from + 1, to) \in File
         /\ \A k \in DOMAIN SubSeq(w.mine.text, from + 1, to) :
              ~IsOriginal(SubSeq(w.mine.text, from + 1, to)[k])
<1>1. /\ w.mine.text \in Seq(Entry) /\ Len(w.mine.text) \in Nat
      /\ GapStart(w, run) \in Nat /\ w.mine.at[last] \in 1 .. Len(w.mine.text)
  BY GapBeforeRun DEF Ready, Parsed, File
<1> DEFINE piece == SubSeq(w.mine.text, from + 1, to)
<1>2. /\ piece \in Seq(Entry)
      /\ Len(piece) = IF from + 1 <= to THEN to - (from + 1) + 1 ELSE 0
      /\ \A k \in 1 .. to - (from + 1) + 1 : piece[k] = w.mine.text[(from + 1) + k - 1]
  <2>1. \A k \in from + 1 .. to : w.mine.text[k] \in Entry
    BY <1>1, Elements
  <2> QED
    BY <1>1, <2>1, SubSeqProperties
<1>3. DOMAIN piece = 1 .. Len(piece)
  BY <1>2, Elements
<1> HIDE DEF piece
<1>4. ASSUME NEW k \in DOMAIN piece
      PROVE  ~IsOriginal(piece[k])
  <2>1. k \in 1 .. to - (from + 1) + 1 /\ from + 1 <= to
    BY <1>1, <1>2, <1>3
  <2>2. PICK p \in Int : p = (from + 1) + k - 1
    BY <2>1
  <2>3. piece[k] = w.mine.text[p]
    BY <1>2, <2>1, <2>2
  <2>4. p >= from + 1 /\ p <= to
    BY <2>1, <2>2
  <2>5. PICK g, m, n \in Nat :
          /\ g = GapStart(w, run) /\ m = w.mine.at[last] /\ n = Len(w.mine.text)
          /\ from >= g /\ to <= m /\ m <= n
    BY <1>1
  <2>6. p \in 1 .. n /\ g < p /\ p <= m
    <3>1. p <= m /\ p <= n
      <4>1. PICK q \in Int : q = to
        OBVIOUS
      <4>2. p <= q /\ q <= m /\ m <= n
        BY <2>4, <2>5, <4>1
      <4> QED
        BY <4>2
    <3>2. g < p /\ 1 <= p
      BY <2>4, <2>5
    <3> QED
      BY <3>1, <3>2
  <2>7. p \in 1 .. Len(w.mine.text) /\ GapStart(w, run) < p /\ p <= w.mine.at[last]
    BY <2>5, <2>6
  <2>8. ~IsOriginal(w.mine.text[p])
    BY <2>7, NothingOriginalInRun
  <2> QED
    BY <2>3, <2>8
<1>5. piece \in File
  BY <1>2 DEF File
<1> QED
  BY <1>4, <1>5 DEF piece

(* An item of a part of a sequence.                                        *)
LEMMA ItemOfPart ==
  ASSUME NEW S, NEW s \in Seq(S), NEW a \in 1 .. Len(s), NEW b \in a .. Len(s)
  PROVE  /\ SubSeq(s, a, b) \in Seq(S) /\ Len(SubSeq(s, a, b)) = b - a + 1
         /\ \A i \in a .. b : SubSeq(s, a, b)[i - a + 1] = s[i]
<1>1. Len(s) \in Nat /\ a \in Nat /\ b \in Nat /\ a <= b /\ b <= Len(s) /\ 1 <= a
  OBVIOUS
<1>2. \A i \in a .. b : s[i] \in S
  BY <1>1, Elements
<1>3. /\ SubSeq(s, a, b) \in Seq(S) /\ Len(SubSeq(s, a, b)) = b - a + 1
      /\ \A i \in 1 .. b - a + 1 : SubSeq(s, a, b)[i] = s[a + i - 1]
  BY <1>1, <1>2, SubSeqProperties
<1> DEFINE part == SubSeq(s, a, b)
<1> HIDE DEF part
<1>4. ASSUME NEW i \in a .. b
      PROVE  part[i - a + 1] = s[i]
  <2>1. i - a + 1 \in 1 .. b - a + 1 /\ a + (i - a + 1) - 1 = i
    BY <1>1
  <2> QED
    BY <1>3, <2>1 DEF part
<1> QED
  BY <1>3, <1>4 DEF part

(* A removal that takes no original item.                                  *)
Removable(w, r) ==
  /\ r[1] < r[2]
  /\ \A p \in 1 .. Len(w.theirs.text) :
       r[1] < p /\ p <= r[2] => ~IsOriginal(w.theirs.text[p])

NewUnit(w, unit) ==
  /\ unit[1] \in 1 .. Len(w.mine.items) /\ unit[2] \in unit[1] .. Len(w.mine.items)
  /\ unit[1] .. unit[2] \in SUBSET w.toMine.new

TheirUnit(w, u) ==
  u[1] \in 1 .. Len(w.theirs.items) /\ u[2] \in u[1] .. Len(w.theirs.items)

(* A unit of the canonical file with the text of one of the copy's is moved*)
(* by removing it.                                                         *)
LEMMA UnitRemovable ==
  ASSUME NEW w, Ready(w), NEW unit, NewUnit(w, unit), NEW u, TheirUnit(w, u),
         UnitText(w.theirs.items, u) = UnitText(w.mine.items, unit)
  PROVE  /\ <<w.theirs.at[u[1]] - 1, w.theirs.at[u[2]]>> \in Nat \X Nat
         /\ Removable(w, <<w.theirs.at[u[1]] - 1, w.theirs.at[u[2]]>>)
<1>1. PICK mine, theirs, a, b, c, d :
        /\ mine = w.mine /\ theirs = w.theirs
        /\ a = u[1] /\ b = u[2] /\ c = unit[1] /\ d = unit[2]
  OBVIOUS
<1>2. /\ Parsed(mine) /\ Parsed(theirs)
      /\ a \in 1 .. Len(theirs.items) /\ b \in a .. Len(theirs.items)
      /\ c \in 1 .. Len(mine.items) /\ d \in c .. Len(mine.items)
      /\ c .. d \in SUBSET w.toMine.new
      /\ SubSeq(theirs.items, a, b) = SubSeq(mine.items, c, d)
  BY <1>1 DEF Ready, NewUnit, TheirUnit, UnitText
<1>3. /\ mine.items \in Seq(Entry) /\ theirs.items \in Seq(Entry)
      /\ Len(mine.items) \in Nat /\ Len(theirs.items) \in Nat
  BY <1>2 DEF Parsed
<1>4. ASSUME NEW i \in a .. b
      PROVE  ~IsOriginal(theirs.items[i])
  <2>1. /\ Len(SubSeq(theirs.items, a, b)) = b - a + 1
        /\ SubSeq(theirs.items, a, b)[i - a + 1] = theirs.items[i]
    BY <1>2, <1>3, ItemOfPart
  <2>2. Len(SubSeq(mine.items, c, d)) = d - c + 1
    BY <1>2, <1>3, ItemOfPart
  <2>3. PICK j \in c .. d : j - c + 1 = i - a + 1
    <3>1. i - a + c \in c .. d /\ (i - a + c) - c + 1 = i - a + 1
      BY <1>2, <1>3, <2>1, <2>2
    <3> QED
      BY <3>1
  <2>4. SubSeq(mine.items, c, d)[j - c + 1] = mine.items[j]
    BY <1>2, <1>3, ItemOfPart
  <2>5. mine.items[j] = theirs.items[i]
    BY <1>2, <2>1, <2>3, <2>4
  <2>6. ~IsOriginal(mine.items[j])
    BY <1>1, <1>2 DEF Ready
  <2> QED
    BY <2>5, <2>6
<1>5. /\ theirs.at[a] \in 1 .. Len(theirs.text) /\ theirs.at[b] \in 1 .. Len(theirs.text)
      /\ Len(theirs.text) \in Nat
  BY <1>2, <1>3 DEF Parsed
<1>6. theirs.at[a] <= theirs.at[b]
  <2>1. CASE a = b
    BY <1>5, <2>1
  <2>2. CASE a < b
    <3>1. theirs.at[a] < theirs.at[b]
      BY <1>2, <1>3, <2>2 DEF Parsed
    <3> QED
      BY <1>5, <3>1
  <2> QED
    BY <1>2, <1>3, <2>1, <2>2
<1>7. PICK x, y \in Nat : x = theirs.at[a] - 1 /\ y = theirs.at[b] /\ x < y
  BY <1>5, <1>6
<1>8. ASSUME NEW p \in 1 .. Len(theirs.text), x < p, p <= y, IsOriginal(theirs.text[p])
      PROVE  FALSE
  <2>1. IsItem(theirs.text[p])
    BY <1>8 DEF IsOriginal
  <2>2. a # 1 => theirs.at[a-1] < p
    <3> SUFFICES ASSUME a # 1
                 PROVE  theirs.at[a-1] < p
      OBVIOUS
    <3>1. a - 1 \in 1 .. Len(theirs.items) /\ a - 1 < a
      BY <1>2, <1>3
    <3>2. theirs.at[a-1] < theirs.at[a] /\ theirs.at[a-1] \in 1 .. Len(theirs.text)
      BY <1>2, <3>1 DEF Parsed
    <3>3. theirs.at[a] <= p
      BY <1>5, <1>7, <1>8
    <3> QED
      BY <1>5, <3>2, <3>3
  <2>3. p <= theirs.at[b]
    BY <1>7, <1>8
  <2>4. PICK i \in a .. b : theirs.items[i] = theirs.text[p]
    BY <1>2, <2>1, <2>2, <2>3, ItemsBetween
  <2> QED
    BY <1>4, <1>8, <2>4
<1>9. Removable(w, <<x, y>>)
  BY <1>1, <1>7, <1>8 DEF Removable
<1> QED
  BY <1>1, <1>7, <1>9

LEMMA TheirUnitsAre ==
  ASSUME NEW w, Ready(w), NEW u \in TheirUnits(w)
  PROVE  TheirUnit(w, u)
<1> DEFINE runs == Runs(w.toTheirs.new)
           n == Len(w.theirs.items)
<1>1. n \in Nat /\ w.toTheirs.new \in SUBSET (1 .. n)
  BY DEF Ready, Parsed, Compared
<1>2. PICK k \in DOMAIN runs : u \in Range(Units(w.theirs.items, runs[k]))
  BY DEF TheirUnits
<1>3. PICK l \in DOMAIN Units(w.theirs.items, runs[k]) :
        u = Units(w.theirs.items, runs[k])[l]
  BY <1>2 DEF Range
<1> HIDE DEF n
<1>4. PICK run : /\ run = runs[k] /\ run[1] \in 1 .. n /\ run[2] \in run[1] .. n
  BY <1>1, RunsAre
<1>5. run[1] \in Nat \ {0} /\ run[2] \in Nat /\ run[2] <= n
  BY <1>1, <1>4
<1>6. u[1] \in run[1] .. run[2] /\ u[2] \in u[1] .. run[2]
  BY <1>3, <1>4, <1>5, UnitsAre
<1>7. u[1] \in 1 .. n /\ u[2] \in u[1] .. n
  BY <1>1, <1>5, <1>6
<1> QED
  BY <1>7 DEF TheirUnit, n

-----------------------------------------------------------------------------
(* Placing the new items.                                                  *)

PlaceState ==
  [edits : Seq(Edit), removals : Seq(Nat \X Nat), moved : SUBSET File,
   skipped : Seq(File), pieces : Seq(File), end : Nat, clash : BOOLEAN]

(* The edits so far are harmless, what is removed is not original, and no  *)
(* more are the pieces of the run at hand, which are taken from after the  *)
(* boundary start.                                                         *)
Sound(w, start) ==
  {v \in PlaceState :
     /\ \A k \in DOMAIN v.edits : Harmless(w.theirs.text, v.edits[k])
     /\ \A k \in DOMAIN v.removals : Removable(w, v.removals[k])
     /\ \A k \in DOMAIN v.pieces : OriginalItems(v.pieces[k]) = <<>>
     /\ v.end >= start}

LEMMA AppendKeeps ==
  ASSUME NEW S, NEW T \in SUBSET S, NEW s \in Seq(S), \A k \in DOMAIN s : s[k] \in T,
         NEW x \in T
  PROVE  Append(s, x) \in Seq(S) /\ \A k \in DOMAIN Append(s, x) : Append(s, x)[k] \in T
<1>1. /\ Len(s) \in Nat /\ DOMAIN s = 1 .. Len(s)
      /\ Append(s, x) \in Seq(S) /\ DOMAIN Append(s, x) = 1 .. Len(s) + 1
      /\ \A k \in 1 .. Len(s) : Append(s, x)[k] = s[k]
      /\ Append(s, x)[Len(s) + 1] = x
  OBVIOUS
<1> QED
  BY <1>1

Placing(edits, removals, moved, skipped, pieces, end, clash) ==
  [edits |-> edits, removals |-> removals, moved |-> moved, skipped |-> skipped,
   pieces |-> pieces, end |-> end, clash |-> clash]

SoundParts(w, start, edits, removals, moved, skipped, pieces, end, clash) ==
  /\ edits \in Seq(Edit)
  /\ \A k \in DOMAIN edits : Harmless(w.theirs.text, edits[k])
  /\ removals \in Seq(Nat \X Nat)
  /\ \A k \in DOMAIN removals : Removable(w, removals[k])
  /\ moved \in SUBSET File /\ skipped \in Seq(File)
  /\ pieces \in Seq(File)
  /\ \A k \in DOMAIN pieces : OriginalItems(pieces[k]) = <<>>
  /\ end \in Nat /\ end >= start /\ clash \in BOOLEAN

LEMMA SoundHasParts ==
  ASSUME NEW w, NEW start, NEW acc \in Sound(w, start)
  PROVE  \E e, r, m, s, p, n, c :
           SoundParts(w, start, e, r, m, s, p, n, c) /\ acc = Placing(e, r, m, s, p, n, c)
<1>1. acc = Placing(acc.edits, acc.removals, acc.moved, acc.skipped, acc.pieces,
                    acc.end, acc.clash)
  BY DEF Sound, PlaceState, Placing
<1>2. SoundParts(w, start, acc.edits, acc.removals, acc.moved, acc.skipped, acc.pieces,
                 acc.end, acc.clash)
  BY DEF Sound, PlaceState, SoundParts
<1> QED
  BY <1>1, <1>2

LEMMA PartsMakeSound ==
  ASSUME NEW w, NEW start, NEW e, NEW r, NEW m, NEW s, NEW p, NEW n, NEW c,
         SoundParts(w, start, e, r, m, s, p, n, c)
  PROVE  Placing(e, r, m, s, p, n, c) \in Sound(w, start)
BY DEF Sound, PlaceState, Placing, SoundParts

LEMMA PieceAppended ==
  ASSUME NEW pieces \in Seq(File), \A k \in DOMAIN pieces : OriginalItems(pieces[k]) = <<>>,
         NEW piece \in File, OriginalItems(piece) = <<>>
  PROVE  /\ Append(pieces, piece) \in Seq(File)
         /\ \A k \in DOMAIN Append(pieces, piece) : OriginalItems(Append(pieces, piece)[k]) = <<>>
<1> DEFINE T == {t \in File : OriginalItems(t) = <<>>}
<1>1. T \in SUBSET File /\ piece \in T
  OBVIOUS
<1>2. \A k \in DOMAIN pieces : pieces[k] \in T
  BY Elements
<1>3. \A t \in T : OriginalItems(t) = <<>>
  OBVIOUS
<1> HIDE DEF T
<1> QED
  BY <1>1, <1>2, <1>3, AppendKeeps

LEMMA RemovalAppended ==
  ASSUME NEW w, NEW removals \in Seq(Nat \X Nat),
         \A k \in DOMAIN removals : Removable(w, removals[k]),
         NEW r \in Nat \X Nat, Removable(w, r)
  PROVE  /\ Append(removals, r) \in Seq(Nat \X Nat)
         /\ \A k \in DOMAIN Append(removals, r) : Removable(w, Append(removals, r)[k])
<1> DEFINE T == {x \in Nat \X Nat : Removable(w, x)}
<1>1. T \in SUBSET (Nat \X Nat) /\ r \in T
  OBVIOUS
<1>2. \A k \in DOMAIN removals : removals[k] \in T
  BY Elements
<1>3. \A t \in T : Removable(w, t)
  OBVIOUS
<1> HIDE DEF T
<1> QED
  BY <1>1, <1>2, <1>3, AppendKeeps

LEMMA EditAppended ==
  ASSUME NEW source, NEW edits \in Seq(Edit),
         \A k \in DOMAIN edits : Harmless(source, edits[k]),
         NEW e \in Edit, Harmless(source, e)
  PROVE  /\ Append(edits, e) \in Seq(Edit)
         /\ \A k \in DOMAIN Append(edits, e) : Harmless(source, Append(edits, e)[k])
<1> DEFINE T == {x \in Edit : Harmless(source, x)}
<1>1. T \in SUBSET Edit /\ e \in T
  OBVIOUS
<1>2. \A k \in DOMAIN edits : edits[k] \in T
  BY Elements
<1>3. \A t \in T : Harmless(source, t)
  OBVIOUS
<1> HIDE DEF T
<1> QED
  BY <1>1, <1>2, <1>3, AppendKeeps

(* The last of the units that start in a file.                             *)
LEMMA LastUnit ==
  ASSUME NEW n \in Nat, NEW same, same # {}, \A u \in same : u[1] \in 0 .. n
  PROVE  (CHOOSE u \in same : \A v \in same : v[1] <= u[1]) \in same
<1> DEFINE T == {u[1] : u \in same}
<1>1. T \in SUBSET (0 .. n) /\ T # {}
  OBVIOUS
<1>2. Max(T) \in T /\ \A m \in T : m <= Max(T)
  <2> HIDE DEF T
  <2> QED
    BY <1>1, MaxIsGreatest
<1>3. PICK x \in T : \A m \in T : m <= x
  BY <1>2
<1>4. PICK u \in same : u[1] = x
  BY <1>3
<1>5. \A v \in same : v[1] <= u[1]
  BY <1>3, <1>4
<1> QED
  BY <1>5

LEMMA PlaceBesideSound ==
  ASSUME NEW w, Ready(w), NEW run, NewRun(w, run),
         NEW unit, unit[1] \in run[1] .. run[2], unit[2] \in unit[1] .. run[2],
         NEW acc \in Sound(w, GapStart(w, run)), NEW point,
         NEW same, \A u \in same : /\ u \in TheirUnits(w)
                                   /\ UnitText(w.theirs.items, u) = UnitText(w.mine.items, unit)
  PROVE  PlaceBeside(w, acc, unit, point, same) \in Sound(w, GapStart(w, run))
<1> DEFINE start == GapStart(w, run)
           text == UnitText(w.mine.items, unit)
           their == CHOOSE u \in same : \A v \in same : v[1] <= u[1]
           lastPart == w.mine.at[unit[2]]
           piece == SubSeq(w.mine.text, acc.end + 1, lastPart)
           removal == <<w.theirs.at[their[1]] - 1, w.theirs.at[their[2]]>>
           clash == \E j \in unit[1] .. unit[2], k \in w.toTheirs.new :
                      Clashes(w.mine.items[j], w.theirs.items[k])
           result == PlaceBeside(w, acc, unit, point, same)
<1>1. PICK e, r, m, s, p, n, c :
        SoundParts(w, start, e, r, m, s, p, n, c) /\ acc = Placing(e, r, m, s, p, n, c)
  BY SoundHasParts
<1>2. /\ Len(w.mine.items) \in Nat /\ run[1] \in 1 .. Len(w.mine.items)
      /\ run[2] \in run[1] .. Len(w.mine.items)
      /\ run[1] .. run[2] \in SUBSET w.toMine.new
      /\ w.mine.items \in Seq(Entry)
  BY DEF Ready, Parsed, NewRun
<1>3. unit[2] \in run[1] .. run[2] /\ NewUnit(w, unit)
  <2>1. PICK a, b, x, y \in Nat : /\ a = run[1] /\ b = run[2] /\ x = unit[1] /\ y = unit[2]
                                  /\ x \in a .. b /\ y \in x .. b
    BY <1>2
  <2>2. y \in a .. b /\ x .. y \in SUBSET (a .. b)
    BY <2>1
  <2>3. PICK l \in Nat : l = Len(w.mine.items) /\ a \in 1 .. l /\ b \in a .. l
    BY <1>2, <2>1
  <2>4. x \in 1 .. l /\ y \in x .. l
    <3>1. 1 <= a /\ a <= x /\ x <= y
      BY <2>1, <2>3
    <3>2. y <= b /\ b <= l
      BY <2>1, <2>3
    <3> QED
      BY <3>1, <3>2
  <2> QED
    BY <1>2, <2>1, <2>2, <2>3, <2>4 DEF NewUnit
<1>4. lastPart \in Nat /\ lastPart >= start
  BY <1>3, GapBeforeRun
<1>5. text \in File
  <2>1. unit[1] \in 1 .. Len(w.mine.items) /\ unit[2] \in unit[1] .. Len(w.mine.items)
    BY <1>3 DEF NewUnit
  <2> QED
    BY <1>2, <2>1, ItemOfPart DEF UnitText, File
<1>6. acc.end = n /\ n \in Nat /\ n >= start
  BY <1>1 DEF Placing, SoundParts
<1>7. piece \in File /\ OriginalItems(piece) = <<>>
  <2>1. /\ SubSeq(w.mine.text, n + 1, lastPart) \in File
        /\ \A k \in DOMAIN SubSeq(w.mine.text, n + 1, lastPart) :
             ~IsOriginal(SubSeq(w.mine.text, n + 1, lastPart)[k])
    BY <1>3, <1>4, <1>6, PieceIsNew
  <2> QED
    BY <1>6, <2>1, NoneOriginal
<1>8. same # {} => removal \in Nat \X Nat /\ Removable(w, removal)
  <2> SUFFICES ASSUME same # {}
               PROVE  removal \in Nat \X Nat /\ Removable(w, removal)
    OBVIOUS
  <2>1. \A u \in same : TheirUnit(w, u)
    BY TheirUnitsAre
  <2>2. Len(w.theirs.items) \in Nat
    BY DEF Ready, Parsed
  <2>3. \A u \in same : u[1] \in 0 .. Len(w.theirs.items)
    BY <2>1, <2>2 DEF TheirUnit
  <2>4. their \in same
    BY <2>2, <2>3, LastUnit
  <2> HIDE DEF their
  <2> QED
    BY <1>3, <2>1, <2>4, UnitRemovable
<1>9. result =
        IF same # {} /\ w.theirs.at[their[1]] - 1 < point
        THEN [acc EXCEPT !.end = lastPart, !.skipped = Append(@, text)]
        ELSE IF same # {}
        THEN [acc EXCEPT !.end = lastPart, !.skipped = Append(@, text),
                         !.pieces = Append(@, piece), !.moved = @ \cup {text},
                         !.removals = Append(@, removal)]
        ELSE IF clash THEN [acc EXCEPT !.clash = TRUE]
        ELSE [acc EXCEPT !.end = lastPart, !.pieces = Append(@, piece)]
  BY DEF PlaceBeside
<1> HIDE DEF result, their, removal, clash, piece, text, lastPart
<1>10. \/ result = Placing(e, r, m, Append(s, text), p, lastPart, c)
       \/ /\ same # {}
          /\ result = Placing(e, Append(r, removal), m \cup {text}, Append(s, text),
                              Append(p, piece), lastPart, c)
       \/ result = Placing(e, r, m, s, p, n, TRUE)
       \/ result = Placing(e, r, m, s, Append(p, piece), lastPart, c)
  BY <1>1, <1>9 DEF Placing
<1>11. /\ Append(p, piece) \in Seq(File)
       /\ \A k \in DOMAIN Append(p, piece) : OriginalItems(Append(p, piece)[k]) = <<>>
  BY <1>1, <1>7, PieceAppended DEF SoundParts
<1>12. same # {} => /\ Append(r, removal) \in Seq(Nat \X Nat)
                    /\ \A k \in DOMAIN Append(r, removal) : Removable(w, Append(r, removal)[k])
  BY <1>1, <1>8, RemovalAppended DEF SoundParts
<1>13. Append(s, text) \in Seq(File) /\ m \cup {text} \in SUBSET File
  BY <1>1, <1>5 DEF SoundParts
<1>14. SoundParts(w, start, e, r, m, Append(s, text), p, lastPart, c)
  BY <1>1, <1>4, <1>13 DEF SoundParts
<1>15. same # {} => SoundParts(w, start, e, Append(r, removal), m \cup {text},
                               Append(s, text), Append(p, piece), lastPart, c)
  BY <1>1, <1>4, <1>11, <1>12, <1>13 DEF SoundParts
<1>16. SoundParts(w, start, e, r, m, s, p, n, TRUE)
  BY <1>1 DEF SoundParts
<1>17. SoundParts(w, start, e, r, m, s, Append(p, piece), lastPart, c)
  BY <1>1, <1>4, <1>11 DEF SoundParts
<1>18. result \in Sound(w, start)
  <2> HIDE DEF start
  <2>1. CASE result = Placing(e, r, m, Append(s, text), p, lastPart, c)
    BY <1>14, <2>1, PartsMakeSound
  <2>2. CASE /\ same # {}
             /\ result = Placing(e, Append(r, removal), m \cup {text}, Append(s, text),
                                 Append(p, piece), lastPart, c)
    BY <1>15, <2>2, PartsMakeSound
  <2>3. CASE result = Placing(e, r, m, s, p, n, TRUE)
    BY <1>16, <2>3, PartsMakeSound
  <2>4. CASE result = Placing(e, r, m, s, Append(p, piece), lastPart, c)
    BY <1>17, <2>4, PartsMakeSound
  <2> QED
    BY <1>10, <2>1, <2>2, <2>3, <2>4
<1> QED
  BY <1>18 DEF result

(* Past the comments of a gap.                                             *)

NextItem(file, p) ==
  Min({Len(file)} \cup {k - 1 : k \in {q \in DOMAIN file : p < q /\ IsItem(file[q])}})

Distance(file, p) == NextItem(file, p) - p

PassComment(file, acc, k) ==
  IF acc.left # <<>> /\ file[k] = Head(acc.left)
  THEN [at |-> k, left |-> Tail(acc.left)] ELSE acc

(* The function that AfterComments defines.                                *)
Passing(f, file, p, comments) ==
  f = [k \in 0 .. Distance(file, p) |-> IF k = 0 THEN [at |-> p, left |-> comments] ELSE PassComment(file, f[k-1], p + k)]

PassingClosed(file, p, comments, V) ==
  /\ [at |-> p, left |-> comments] \in V
  /\ \A k \in 1 .. Distance(file, p) : \A v \in V : PassComment(file, v, p + k) \in V

PassingSteps(g, file, p, comments) ==
  /\ g[0] = [at |-> p, left |-> comments]
  /\ \A k \in 1 .. Distance(file, p) : g[k] = PassComment(file, g[k-1], p + k)

Passed(file, p, comments, V) ==
  \E g \in [0 .. Distance(file, p) -> V] :
    PassingSteps(g, file, p, comments) /\ AfterComments(file, p, comments) = g[Distance(file, p)].at

LEMMA AfterCommentsSteps ==
  ASSUME NEW file, NEW p, NEW comments, NEW V,
         Distance(file, p) \in Nat, PassingClosed(file, p, comments, V)
  PROVE  Passed(file, p, comments, V)
<1> DEFINE n == Distance(file, p)
           first == [at |-> p, left |-> comments]
           step == [k \in 1 .. n |-> [v \in V |-> PassComment(file, v, p + k)]]
<1>1. n \in Nat
  OBVIOUS
<1>0. first \in V /\ \A k \in 1 .. n : \A v \in V : PassComment(file, v, p + k) \in V
  BY DEF PassingClosed
<1> HIDE DEF n, first
<1>2. step \in [1 .. n -> [V -> V]]
  BY <1>0
<1>3. PICK f \in [0 .. n -> V] : Iterates(f, first, step, n)
  <2> HIDE DEF step
  <2> QED
    BY <1>0, <1>1, <1>2, IterationExists
<1>4. \A k \in 1 .. n : f[k] = PassComment(file, f[k-1], p + k)
  <2> SUFFICES ASSUME NEW k \in 1 .. n
               PROVE  f[k] = PassComment(file, f[k-1], p + k)
    OBVIOUS
  <2>1. k - 1 \in 0 .. n
    BY <1>1
  <2>2. f[k] = step[k][f[k-1]] /\ f[k-1] \in V
    <3> HIDE DEF step
    <3> QED
      BY <1>3, <2>1 DEF Iterates
  <2> QED
    BY <2>2
<1> HIDE DEF step
<1>5. Passing(f, file, p, comments)
  <2>1. f = [k \in 0 .. n |-> f[k]] /\ f[0] = first
    BY <1>3 DEF Iterates
  <2>2. \A k \in 0 .. n : k # 0 => k \in 1 .. n
    BY <1>1
  <2>3. \A k \in 0 .. n : f[k] = IF k = 0 THEN first ELSE PassComment(file, f[k-1], p + k)
    BY <1>4, <2>1, <2>2
  <2> QED
    BY <2>1, <2>3 DEF Passing, n, first
<1> DEFINE g == CHOOSE h : Passing(h, file, p, comments)
<1>6. Passing(g, file, p, comments)
  BY <1>5
<1>7. AfterComments(file, p, comments) = g[n].at
  BY DEF AfterComments, NextItem, Distance, PassComment, Passing, n
<1> HIDE DEF g
<1>8. g[0] = first /\ \A k \in 1 .. n : g[k] = PassComment(file, g[k-1], p + k)
  <2>1. \A k \in 0 .. n : g[k] = IF k = 0 THEN first ELSE PassComment(file, g[k-1], p + k)
    BY <1>6 DEF Passing, n, first
  <2>2. 0 \in 0 .. n /\ \A k \in 1 .. n : k \in 0 .. n /\ k # 0
    BY <1>1
  <2> QED
    BY <2>1, <2>2
<1> DEFINE G == {k \in 0 .. n : g[k] \in V}
<1>9. \A k \in 0 .. n : k \in G
  <2>1. 0 \in G
    BY <1>0, <1>1, <1>8
  <2>2. \A k \in 1 .. n : k - 1 \in G => k \in G
    BY <1>0, <1>1, <1>8
  <2> HIDE DEF G
  <2> QED
    BY <1>1, <2>1, <2>2, InductionUpTo
<1>10. g \in [0 .. n -> V]
  <2>1. g = [k \in 0 .. n |-> IF k = 0 THEN first ELSE PassComment(file, g[k-1], p + k)]
    BY <1>6 DEF Passing, n, first
  <2>2. \A k \in 0 .. n : g[k] \in V
    BY <1>9
  <2> QED
    BY <2>1, <2>2
<1>11. PassingSteps(g, file, p, comments)
  BY <1>8 DEF PassingSteps, n, first
<1> QED
  BY <1>7, <1>10, <1>11 DEF n, Passed

LEMMA AfterCommentsType ==
  ASSUME NEW file \in File, NEW p \in 0 .. Len(file), NEW comments \in File
  PROVE  AfterComments(file, p, comments) \in Nat
<1> DEFINE n == NextItem(file, p)
           V == [at : Nat, left : File]
           ends == {Len(file)} \cup {k - 1 : k \in {q \in DOMAIN file : p < q /\ IsItem(file[q])}}
<1>1. Len(file) \in Nat /\ p \in Nat /\ p <= Len(file) /\ DOMAIN file = 1 .. Len(file)
  BY Elements DEF File
<1>2. n - p \in Nat /\ n - p = Distance(file, p)
  <2>1. ends \in SUBSET Nat /\ ends # {} /\ \A e \in ends : p <= e
    BY <1>1
  <2>2. n = Min(ends)
    BY DEF NextItem
  <2> HIDE DEF ends, n
  <2>3. n \in ends
    BY <2>1, <2>2, MinIsLeast
  <2>4. n - p \in Nat
    BY <1>1, <2>1, <2>3
  <2> QED
    BY <2>4 DEF n, Distance
<1>3. PassingClosed(file, p, comments, V)
  <2>1. [at |-> p, left |-> comments] \in V
    BY <1>1
  <2>2. ASSUME NEW k \in Nat, NEW v \in V
        PROVE  PassComment(file, v, k) \in V
    <3>1. CASE v.left # <<>> /\ file[k] = Head(v.left)
      <4>1. PICK left \in Seq(Entry) : left = v.left /\ left # <<>>
        BY <3>1 DEF File
      <4>2. Tail(left) \in File
        BY <4>1 DEF File
      <4>3. PassComment(file, v, k) = [at |-> k, left |-> Tail(left)]
        BY <3>1, <4>1 DEF PassComment
      <4> QED
        BY <4>2, <4>3
    <3>2. CASE ~(v.left # <<>> /\ file[k] = Head(v.left))
      BY <3>2 DEF PassComment
    <3> QED
      BY <3>1, <3>2
  <2>3. \A k \in 1 .. Distance(file, p) : p + k \in Nat
    BY <1>1, <1>2
  <2> HIDE DEF V, n
  <2> QED
    BY <2>1, <2>2, <2>3 DEF PassingClosed
<1> HIDE DEF V
<1>4. PICK g \in [0 .. Distance(file, p) -> V] :
        /\ PassingSteps(g, file, p, comments)
        /\ AfterComments(file, p, comments) = g[Distance(file, p)].at
  <2>1. Distance(file, p) \in Nat
    BY <1>2
  <2> QED
    BY <2>1, <1>3, AfterCommentsSteps DEF Passed
<1>5. g[Distance(file, p)] \in V
  <2>1. Distance(file, p) \in 0 .. Distance(file, p)
    BY <1>2
  <2> QED
    BY <2>1
<1> QED
  BY <1>4, <1>5 DEF V

(* Where a run goes.                                                       *)

PointAfter(w, run, leading) ==
  LET original == {i \in DOMAIN w.toMine.index : w.toMine.index[i] = run[1] - 1}
      after == Max({0} \cup {w.toTheirs.index[i] : i \in original})
      last == Min({j \in after .. Len(w.theirs.items) : j + 1 \notin w.toTheirs.new})
  IN  AfterComments(w.theirs.text, IF last = 0 THEN 0 ELSE w.theirs.at[last], leading)

Adjust(p, r) == IF r[1] < p /\ p <= r[2] THEN r[1] ELSE p

(* The function that InsertionPoint defines.                               *)
Adjusting(f, w, run, leading, removals) ==
  f = [k \in 0 .. Len(removals) |-> IF k = 0 THEN PointAfter(w, run, leading) ELSE Adjust(f[k-1], removals[k])]

AdjustingClosed(w, run, leading, removals, V) ==
  /\ PointAfter(w, run, leading) \in V
  /\ \A k \in 1 .. Len(removals) : \A v \in V : Adjust(v, removals[k]) \in V

AdjustingSteps(g, w, run, leading, removals) ==
  /\ g[0] = PointAfter(w, run, leading)
  /\ \A k \in 1 .. Len(removals) : g[k] = Adjust(g[k-1], removals[k])

Adjusted(w, run, leading, removals, V) ==
  \E g \in [0 .. Len(removals) -> V] :
    /\ AdjustingSteps(g, w, run, leading, removals)
    /\ InsertionPoint(w, run, leading, removals) = g[Len(removals)]

LEMMA InsertionPointSteps ==
  ASSUME NEW w, NEW run, NEW leading, NEW removals, NEW V,
         Len(removals) \in Nat, AdjustingClosed(w, run, leading, removals, V)
  PROVE  Adjusted(w, run, leading, removals, V)
<1> DEFINE n == Len(removals)
           first == PointAfter(w, run, leading)
           step == [k \in 1 .. n |-> [v \in V |-> Adjust(v, removals[k])]]
<1>1. n \in Nat
  OBVIOUS
<1>0. first \in V /\ \A k \in 1 .. n : \A v \in V : Adjust(v, removals[k]) \in V
  BY DEF AdjustingClosed
<1> HIDE DEF n, first
<1>2. step \in [1 .. n -> [V -> V]]
  BY <1>0
<1>3. PICK f \in [0 .. n -> V] : Iterates(f, first, step, n)
  <2> HIDE DEF step
  <2> QED
    BY <1>0, <1>1, <1>2, IterationExists
<1>4. \A k \in 1 .. n : f[k] = Adjust(f[k-1], removals[k])
  <2> SUFFICES ASSUME NEW k \in 1 .. n
               PROVE  f[k] = Adjust(f[k-1], removals[k])
    OBVIOUS
  <2>1. k - 1 \in 0 .. n
    BY <1>1
  <2>2. f[k] = step[k][f[k-1]] /\ f[k-1] \in V
    <3> HIDE DEF step
    <3> QED
      BY <1>3, <2>1 DEF Iterates
  <2> QED
    BY <2>2
<1> HIDE DEF step
<1>5. Adjusting(f, w, run, leading, removals)
  <2>1. f = [k \in 0 .. n |-> f[k]] /\ f[0] = first
    BY <1>3 DEF Iterates
  <2>2. \A k \in 0 .. n : k # 0 => k \in 1 .. n
    BY <1>1
  <2>3. \A k \in 0 .. n : f[k] = IF k = 0 THEN first ELSE Adjust(f[k-1], removals[k])
    BY <1>4, <2>1, <2>2
  <2> QED
    BY <2>1, <2>3 DEF Adjusting, n, first
<1> DEFINE g == CHOOSE h : Adjusting(h, w, run, leading, removals)
<1>6. Adjusting(g, w, run, leading, removals)
  BY <1>5
<1>7. InsertionPoint(w, run, leading, removals) = g[n]
  BY DEF InsertionPoint, PointAfter, Adjust, Adjusting, n
<1> HIDE DEF g
<1>8. g[0] = first /\ \A k \in 1 .. n : g[k] = Adjust(g[k-1], removals[k])
  <2>1. \A k \in 0 .. n : g[k] = IF k = 0 THEN first ELSE Adjust(g[k-1], removals[k])
    BY <1>6 DEF Adjusting, n, first
  <2>2. 0 \in 0 .. n /\ \A k \in 1 .. n : k \in 0 .. n /\ k # 0
    BY <1>1
  <2> QED
    BY <2>1, <2>2
<1> DEFINE G == {k \in 0 .. n : g[k] \in V}
<1>9. \A k \in 0 .. n : k \in G
  <2>1. 0 \in G
    BY <1>0, <1>1, <1>8
  <2>2. \A k \in 1 .. n : k - 1 \in G => k \in G
    BY <1>0, <1>1, <1>8
  <2> HIDE DEF G
  <2> QED
    BY <1>1, <2>1, <2>2, InductionUpTo
<1>10. g \in [0 .. n -> V]
  <2>1. g = [k \in 0 .. n |-> IF k = 0 THEN first ELSE Adjust(g[k-1], removals[k])]
    BY <1>6 DEF Adjusting, n, first
  <2>2. \A k \in 0 .. n : g[k] \in V
    BY <1>9
  <2> QED
    BY <2>1, <2>2
<1>11. AdjustingSteps(g, w, run, leading, removals)
  BY <1>8 DEF AdjustingSteps, n, first
<1> QED
  BY <1>7, <1>10, <1>11 DEF n, Adjusted

LEMMA InsertionPointType ==
  ASSUME NEW w, Ready(w), NEW run, NEW leading \in File, NEW removals \in Seq(Nat \X Nat)
  PROVE  InsertionPoint(w, run, leading, removals) \in Nat
<1> DEFINE n == Len(w.theirs.items)
           original == {i \in DOMAIN w.toMine.index : w.toMine.index[i] = run[1] - 1}
           after == Max({0} \cup {w.toTheirs.index[i] : i \in original})
           ends == {j \in after .. n : j + 1 \notin w.toTheirs.new}
           last == Min(ends)
           p == IF last = 0 THEN 0 ELSE w.theirs.at[last]
<1>1. /\ Parsed(w.theirs) /\ n \in Nat /\ w.toTheirs.new \in SUBSET (1 .. n)
      /\ Compared(w.toMine, w.base.items, w.mine.items)
      /\ Compared(w.toTheirs, w.base.items, w.theirs.items)
      /\ w.toTheirs.rules = {}
  BY DEF Ready, Parsed, Compared
<1>2. after \in 0 .. n
  <2> DEFINE T == {w.toTheirs.index[i] : i \in original}
  <2>1. ASSUME NEW i \in original
        PROVE  w.toTheirs.index[i] \in 1 .. n
    <3>1. i \in DOMAIN w.toTheirs.index
      BY <1>1 DEF Compared
    <3> QED
      BY <1>1, <3>1 DEF Compared
  <2>2. T \in SUBSET (0 .. n)
    BY <1>1, <2>1
  <2> DEFINE U == {0} \cup T
  <2>3. U \in SUBSET (0 .. n) /\ U # {}
    BY <1>1, <2>2
  <2>4. Max(U) \in U
    <3> HIDE DEF U
    <3> QED
      BY <1>1, <2>3, MaxIsGreatest
  <2>5. Max(U) \in 0 .. n
    <3> HIDE DEF U
    <3> QED
      BY <2>3, <2>4
  <2> QED
    BY <2>5
<1> HIDE DEF after
<1>3. last \in 0 .. n
  <2>1. n \in ends
    <3>1. n + 1 \notin w.toTheirs.new /\ n \in after .. n
      BY <1>1, <1>2
    <3> QED
      BY <3>1
  <2>2. ends \in SUBSET (0 .. n) /\ ends \in SUBSET Nat
    BY <1>1, <1>2
  <2>3. PICK E : E = ends
    OBVIOUS
  <2>4. Min(E) \in E
    BY <2>1, <2>2, <2>3, MinIsLeast
  <2>5. last = Min(E)
    BY <2>3
  <2> HIDE DEF last, ends
  <2> QED
    BY <2>2, <2>3, <2>4, <2>5
<1>4. PointAfter(w, run, leading) = AfterComments(w.theirs.text, p, leading)
  BY DEF PointAfter, after
<1> HIDE DEF last
<1>5. p \in 0 .. Len(w.theirs.text) /\ w.theirs.text \in File
  <2>1. Len(w.theirs.text) \in Nat
    BY <1>1 DEF Parsed
  <2>2. last # 0 => last \in 1 .. n
    BY <1>1, <1>3
  <2>3. last # 0 => w.theirs.at[last] \in 1 .. Len(w.theirs.text)
    BY <1>1, <2>2 DEF Parsed
  <2> QED
    BY <1>1, <2>1, <2>3 DEF Parsed
<1>6. PointAfter(w, run, leading) \in Nat
  <2> HIDE DEF p
  <2> QED
    BY <1>4, <1>5, AfterCommentsType
<1>7. /\ Len(removals) \in Nat
      /\ \A k \in 1 .. Len(removals) : removals[k] \in Nat \X Nat
  BY Elements
<1>8. AdjustingClosed(w, run, leading, removals, Nat)
  <2>1. \A v \in Nat : \A r \in Nat \X Nat : Adjust(v, r) \in Nat
    BY DEF Adjust
  <2> QED
    BY <1>6, <1>7, <2>1 DEF AdjustingClosed
<1>9. PICK g \in [0 .. Len(removals) -> Nat] :
        InsertionPoint(w, run, leading, removals) = g[Len(removals)]
  <2>1. PICK V : V = Nat
    OBVIOUS
  <2>2. AdjustingClosed(w, run, leading, removals, V)
    BY <1>8, <2>1
  <2>3. PICK g \in [0 .. Len(removals) -> V] :
          /\ AdjustingSteps(g, w, run, leading, removals)
          /\ InsertionPoint(w, run, leading, removals) = g[Len(removals)]
    <3>1. Len(removals) \in Nat
      BY <1>7
    <3> QED
      BY <3>1, <2>2, InsertionPointSteps DEF Adjusted
  <2> QED
    BY <2>1, <2>3
<1> QED
  BY <1>7, <1>9

(* The comments before a run.                                              *)

LEMMA PickedEntries ==
  ASSUME NEW gap \in File, \A k \in DOMAIN gap : ~IsOriginal(gap[k]),
         NEW K \in SUBSET (1 .. Len(gap)),
         NEW picked, picked = [k \in DOMAIN Ascending(K) |-> gap[Ascending(K)[k]]]
  PROVE  picked \in File /\ OriginalItems(picked) = <<>>
<1> DEFINE at == Ascending(K)
<1>1. /\ Len(gap) \in Nat /\ DOMAIN gap = 1 .. Len(gap)
      /\ \A k \in 1 .. Len(gap) : gap[k] \in Entry
  BY Elements DEF File
<1>2. at \in Seq(K)
  BY <1>1, Ascends
<1>3. Len(at) \in Nat /\ DOMAIN at = 1 .. Len(at) /\ \A k \in 1 .. Len(at) : at[k] \in K
  BY <1>2, Elements
<1> HIDE DEF at
<1>4. picked = [k \in 1 .. Len(at) |-> gap[at[k]]]
  BY <1>3 DEF at
<1>5. picked \in [1 .. Len(at) -> Entry] /\ \A k \in 1 .. Len(at) : ~IsOriginal(picked[k])
  BY <1>1, <1>3, <1>4
<1>6. picked \in File /\ Len(picked) = Len(at)
  BY <1>3, <1>5, IsSequence DEF File
<1>7. \A k \in DOMAIN picked : ~IsOriginal(picked[k])
  BY <1>4, <1>5
<1> QED
  BY <1>6, <1>7, NoneOriginal

LEMMA LeadingCommentsFacts ==
  ASSUME NEW gap \in File, \A k \in DOMAIN gap : ~IsOriginal(gap[k]), NEW baseGap
  PROVE  /\ LeadingComments(gap, baseGap).cut \in Nat
         /\ LeadingComments(gap, baseGap).found \in File
         /\ LeadingComments(gap, baseGap).written \in File
         /\ OriginalItems(LeadingComments(gap, baseGap).written) = <<>>
<1> DEFINE n == Len(gap)
           originals == {k \in DOMAIN gap : IsOriginalComment(gap, baseGap, k)}
           cut == Max({0} \cup originals)
           others == (1 .. cut) \ originals
           found == [k \in DOMAIN Ascending(originals) |-> gap[Ascending(originals)[k]]]
           written == [k \in DOMAIN Ascending(others) |-> gap[Ascending(others)[k]]]
<1>1. n \in Nat /\ DOMAIN gap = 1 .. n
  BY Elements DEF File
<1>2. LeadingComments(gap, baseGap) = [cut |-> cut, found |-> found, written |-> written]
  BY DEF LeadingComments
<1>3. originals \in SUBSET (1 .. n) /\ originals \in SUBSET (0 .. n)
  BY <1>1
<1> HIDE DEF originals
<1>4. cut \in 0 .. n
  <2>1. cut \in {0} \cup originals
    BY <1>1, <1>3, MaxOfPositions
  <2> HIDE DEF cut
  <2> QED
    BY <1>1, <1>3, <2>1
<1> HIDE DEF cut
<1>5. others \in SUBSET (1 .. n)
  BY <1>1, <1>4
<1> HIDE DEF others
<1>6. PICK f, r : f = found /\ r = written
  OBVIOUS
<1> HIDE DEF found, written
<1>7. f \in File
  BY <1>3, <1>6, PickedEntries DEF found
<1>8. r \in File /\ OriginalItems(r) = <<>>
  BY <1>5, <1>6, PickedEntries DEF written
<1> QED
  BY <1>2, <1>4, <1>6, <1>7, <1>8

(* One unit after another.                                                 *)

LEMMA PlaceUnlessSound ==
  ASSUME NEW w, Ready(w), NEW run, NewRun(w, run),
         NEW unit, unit[1] \in run[1] .. run[2], unit[2] \in unit[1] .. run[2],
         NEW acc \in Sound(w, GapStart(w, run)), NEW point
  PROVE  PlaceUnless(w, acc, unit, point) \in Sound(w, GapStart(w, run))
<1> DEFINE text == UnitText(w.mine.items, unit)
<1>1. PICK same : same = {u \in TheirUnits(w) :
                            UnitText(w.theirs.items, u) = text /\ text \notin acc.moved}
  OBVIOUS
<1>2. PlaceUnit(w, acc, unit, point) = PlaceBeside(w, acc, unit, point, same)
  BY <1>1 DEF PlaceUnit
<1>3. \A u \in same : u \in TheirUnits(w) /\ UnitText(w.theirs.items, u) = text
  BY <1>1
<1>4. PlaceBeside(w, acc, unit, point, same) \in Sound(w, GapStart(w, run))
  BY <1>3, PlaceBesideSound
<1> QED
  BY <1>2, <1>4 DEF PlaceUnless

(* The function that PlaceRunAt defines.                                   *)
PlacingUnits(f, w, acc, run, start, point) ==
  f = [k \in 0 .. Len(Units(w.mine.items, run)) |-> IF k = 0 THEN [acc EXCEPT !.end = start, !.pieces = <<>>] ELSE PlaceUnless(w, f[k-1], Units(w.mine.items, run)[k], point)]

PlacingUnitsClosed(w, acc, run, start, point, V) ==
  /\ [acc EXCEPT !.end = start, !.pieces = <<>>] \in V
  /\ \A k \in 1 .. Len(Units(w.mine.items, run)) : \A v \in V : PlaceUnless(w, v, Units(w.mine.items, run)[k], point) \in V

PlacingUnitsSteps(g, w, acc, run, start, point) ==
  /\ g[0] = [acc EXCEPT !.end = start, !.pieces = <<>>]
  /\ \A k \in 1 .. Len(Units(w.mine.items, run)) : g[k] = PlaceUnless(w, g[k-1], Units(w.mine.items, run)[k], point)

PlaceUnitsAre(w, acc, run, start, point, written, V) ==
  \E g \in [0 .. Len(Units(w.mine.items, run)) -> V] :
    PlacingUnitsSteps(g, w, acc, run, start, point) /\ PlaceRunAt(w, acc, run, start, written, point) = EndRun(g[Len(Units(w.mine.items, run))], point, written)

LEMMA PlaceUnits ==
  ASSUME NEW w, NEW acc, NEW run, NEW start, NEW point, NEW written, NEW V,
         Len(Units(w.mine.items, run)) \in Nat, PlacingUnitsClosed(w, acc, run, start, point, V)
  PROVE  PlaceUnitsAre(w, acc, run, start, point, written, V)
<1> DEFINE n == Len(Units(w.mine.items, run))
           first == [acc EXCEPT !.end = start, !.pieces = <<>>]
           step == [k \in 1 .. n |-> [v \in V |-> PlaceUnless(w, v, Units(w.mine.items, run)[k], point)]]
<1>1. n \in Nat
  OBVIOUS
<1>0. first \in V /\ \A k \in 1 .. n : \A v \in V : PlaceUnless(w, v, Units(w.mine.items, run)[k], point) \in V
  BY DEF PlacingUnitsClosed
<1> HIDE DEF n, first
<1>2. step \in [1 .. n -> [V -> V]]
  BY <1>0
<1>3. PICK f \in [0 .. n -> V] : Iterates(f, first, step, n)
  <2> HIDE DEF step
  <2> QED
    BY <1>0, <1>1, <1>2, IterationExists
<1>4. \A k \in 1 .. n : f[k] = PlaceUnless(w, f[k-1], Units(w.mine.items, run)[k], point)
  <2> SUFFICES ASSUME NEW k \in 1 .. n
               PROVE  f[k] = PlaceUnless(w, f[k-1], Units(w.mine.items, run)[k], point)
    OBVIOUS
  <2>1. k - 1 \in 0 .. n
    BY <1>1
  <2>2. f[k] = step[k][f[k-1]] /\ f[k-1] \in V
    <3> HIDE DEF step
    <3> QED
      BY <1>3, <2>1 DEF Iterates
  <2> QED
    BY <2>2
<1> HIDE DEF step
<1>5. PlacingUnits(f, w, acc, run, start, point)
  <2>1. f = [k \in 0 .. n |-> f[k]] /\ f[0] = first
    BY <1>3 DEF Iterates
  <2>2. \A k \in 0 .. n : k # 0 => k \in 1 .. n
    BY <1>1
  <2>3. \A k \in 0 .. n : f[k] = IF k = 0 THEN first ELSE PlaceUnless(w, f[k-1], Units(w.mine.items, run)[k], point)
    BY <1>4, <2>1, <2>2
  <2> QED
    BY <2>1, <2>3 DEF PlacingUnits, n, first
<1> DEFINE g == CHOOSE h : PlacingUnits(h, w, acc, run, start, point)
<1>6. PlacingUnits(g, w, acc, run, start, point)
  BY <1>5
<1>7. PlaceRunAt(w, acc, run, start, written, point) = EndRun(g[n], point, written)
  BY DEF PlaceRunAt, PlacingUnits, n
<1> HIDE DEF g
<1>8. g[0] = first /\ \A k \in 1 .. n : g[k] = PlaceUnless(w, g[k-1], Units(w.mine.items, run)[k], point)
  <2>1. \A k \in 0 .. n : g[k] = IF k = 0 THEN first ELSE PlaceUnless(w, g[k-1], Units(w.mine.items, run)[k], point)
    BY <1>6 DEF PlacingUnits, n, first
  <2>2. 0 \in 0 .. n /\ \A k \in 1 .. n : k \in 0 .. n /\ k # 0
    BY <1>1
  <2> QED
    BY <2>1, <2>2
<1> DEFINE G == {k \in 0 .. n : g[k] \in V}
<1>9. \A k \in 0 .. n : k \in G
  <2>1. 0 \in G
    BY <1>0, <1>1, <1>8
  <2>2. \A k \in 1 .. n : k - 1 \in G => k \in G
    BY <1>0, <1>1, <1>8
  <2> HIDE DEF G
  <2> QED
    BY <1>1, <2>1, <2>2, InductionUpTo
<1>10. g \in [0 .. n -> V]
  <2>1. g = [k \in 0 .. n |-> IF k = 0 THEN first ELSE PlaceUnless(w, g[k-1], Units(w.mine.items, run)[k], point)]
    BY <1>6 DEF PlacingUnits, n, first
  <2>2. \A k \in 0 .. n : g[k] \in V
    BY <1>9
  <2> QED
    BY <2>1, <2>2
<1>11. PlacingUnitsSteps(g, w, acc, run, start, point)
  BY <1>8 DEF PlacingUnitsSteps, n, first
<1> QED
  BY <1>7, <1>10, <1>11 DEF n, PlaceUnitsAre

(* A function with the domain of a sequence is one.                        *)
LEMMA SameDomain ==
  ASSUME NEW S, NEW s \in Seq(S), NEW f, DOMAIN f = DOMAIN s, f = [k \in DOMAIN f |-> f[k]]
  PROVE  Len(f) \in Nat /\ DOMAIN f = 1 .. Len(f)
<1>1. Len(s) \in Nat /\ DOMAIN f = 1 .. Len(s)
  BY Elements
<1> DEFINE V == {f[k] : k \in DOMAIN f}
<1>2. f \in [1 .. Len(s) -> V]
  BY <1>1
<1> HIDE DEF V
<1> QED
  BY <1>1, <1>2, IsSequence

LEMMA RunsCount ==
  ASSUME NEW n \in Nat, NEW I \in SUBSET (1 .. n)
  PROVE  Len(Runs(I)) \in Nat /\ DOMAIN Runs(I) = 1 .. Len(Runs(I))
<1> DEFINE first == {i \in I : i - 1 \notin I}
           starts == Ascending(first)
<1>1. first \in SUBSET (1 .. n)
  OBVIOUS
<1>2. DOMAIN Runs(I) = DOMAIN starts /\ Runs(I) = [k \in DOMAIN Runs(I) |-> Runs(I)[k]]
  BY DEF Runs
<1> HIDE DEF first
<1>3. starts \in Seq(first)
  BY <1>1, Ascends
<1> HIDE DEF starts
<1> QED
  BY <1>2, <1>3, SameDomain

LEMMA UnitsCount ==
  ASSUME NEW items, NEW run, run[1] \in Nat \ {0}, run[2] \in Nat
  PROVE  /\ Len(Units(items, run)) \in Nat
         /\ DOMAIN Units(items, run) = 1 .. Len(Units(items, run))
<1>1. PICK depth :
        LET first == {i \in run[1] .. run[2] : depth[i-1] = 0}
            upTo(i) == Min({j \in i .. run[2] : j = run[2] \/ j + 1 \in first})
            starts == Ascending(first)
        IN  Units(items, run) = [l \in DOMAIN starts |-> <<starts[l], upTo(starts[l])>>]
  BY DEF Units
<1> DEFINE first == {i \in run[1] .. run[2] : depth[i-1] = 0}
           starts == Ascending(first)
<1>2. PICK units : units = Units(items, run)
  OBVIOUS
<1>3. DOMAIN units = DOMAIN starts /\ units = [k \in DOMAIN units |-> units[k]]
  BY <1>1, <1>2
<1>4. first \in SUBSET (1 .. run[2])
  OBVIOUS
<1> HIDE DEF first
<1>5. starts \in Seq(first)
  BY <1>4, Ascends
<1> HIDE DEF starts
<1> QED
  BY <1>2, <1>3, <1>5, SameDomain

(* What has been placed of a run becomes an edit.                          *)
LEMMA EndRunSound ==
  ASSUME NEW w, NEW start, start >= 0, NEW acc \in Sound(w, start), NEW point \in Int,
         NEW written \in File, OriginalItems(written) = <<>>
  PROVE  EndRun(acc, point, written) \in Sound(w, 0)
<1>1. PICK e, r, m, s, p, n, c :
        SoundParts(w, start, e, r, m, s, p, n, c) /\ acc = Placing(e, r, m, s, p, n, c)
  BY SoundHasParts
<1>2. n >= 0 /\ n \in Nat
  BY <1>1 DEF SoundParts
<1>3. SoundParts(w, 0, e, r, m, s, p, n, c)
  BY <1>1, <1>2 DEF SoundParts
<1>4. CASE acc.pieces = <<>>
  <2>1. EndRun(acc, point, written) = Placing(e, r, m, s, p, n, c)
    BY <1>1, <1>4 DEF EndRun
  <2> QED
    BY <1>3, <2>1, PartsMakeSound
<1>5. CASE acc.pieces # <<>>
  <2> DEFINE text == written \o FlattenSeq(p)
             edit == [from |-> point, to |-> point, text |-> text]
  <2>1. p \in Seq(File) /\ \A k \in DOMAIN p : OriginalItems(p[k]) = <<>>
    BY <1>1 DEF SoundParts
  <2>2. PICK flat : flat = FlattenSeq(p)
    OBVIOUS
  <2>3. flat \in File /\ OriginalItems(flat) = <<>>
    BY <2>1, <2>2, OriginalItemsNowhere
  <2>4. written \o flat \in File /\ OriginalItems(written \o flat) = <<>> \o <<>>
    BY <2>3, OriginalItemsConcat
  <2>5. <<>> \o <<>> = <<>>
    BY ConcatEmptySeq, EmptySeq
  <2>6. text \in File /\ OriginalItems(text) = <<>>
    BY <2>2, <2>4, <2>5
  <2>7. EndRun(acc, point, written) = Placing(Append(e, edit), r, m, s, p, n, c)
    BY <1>1, <1>5 DEF EndRun, Placing
  <2> HIDE DEF text
  <2>8. edit \in Edit /\ Harmless(w.theirs.text, edit)
    BY <2>6 DEF Edit, Harmless
  <2> HIDE DEF edit
  <2>9. /\ Append(e, edit) \in Seq(Edit)
        /\ \A k \in DOMAIN Append(e, edit) : Harmless(w.theirs.text, Append(e, edit)[k])
    BY <1>1, <2>8, EditAppended DEF SoundParts
  <2>10. SoundParts(w, 0, Append(e, edit), r, m, s, p, n, c)
    BY <1>3, <2>9 DEF SoundParts
  <2> QED
    BY <2>7, <2>10, PartsMakeSound
<1> QED
  BY <1>4, <1>5

LEMMA NewRunNumbers ==
  ASSUME NEW w, Ready(w), NEW run, NewRun(w, run)
  PROVE  run[1] \in Nat \ {0} /\ run[2] \in Nat
<1>1. PICK n \in Nat : n = Len(w.mine.items)
  BY DEF Ready, Parsed
<1> QED
  BY <1>1 DEF NewRun

LEMMA PlaceRunAtSound ==
  ASSUME NEW w, Ready(w), NEW run, NewRun(w, run), NEW acc \in Sound(w, 0),
         NEW start \in Nat, start >= GapStart(w, run), NEW point \in Int,
         NEW written \in File, OriginalItems(written) = <<>>
  PROVE  PlaceRunAt(w, acc, run, start, written, point) \in Sound(w, 0)
<1> DEFINE first == [acc EXCEPT !.end = start, !.pieces = <<>>]
           N == Len(Units(w.mine.items, run))
<1>1. PICK V : V = Sound(w, GapStart(w, run))
  OBVIOUS
<1>2. first \in V
  <2>1. PICK e, r, m, s, p, n, c :
          SoundParts(w, 0, e, r, m, s, p, n, c) /\ acc = Placing(e, r, m, s, p, n, c)
    BY SoundHasParts
  <2>2. first = Placing(e, r, m, s, <<>>, start, c)
    <3>1. PICK nothing : nothing = <<>>
      OBVIOUS
    <3>2. [acc EXCEPT !.end = start, !.pieces = nothing] = Placing(e, r, m, s, nothing, start, c)
      <4>1. [acc EXCEPT !.end = start] = Placing(e, r, m, s, p, start, c)
        BY <2>1 DEF Placing
      <4>2. [Placing(e, r, m, s, p, start, c) EXCEPT !.pieces = nothing]
              = Placing(e, r, m, s, nothing, start, c)
        BY DEF Placing
      <4> QED
        BY <4>1, <4>2
    <3> QED
      BY <3>1, <3>2
  <2>3. SoundParts(w, GapStart(w, run), e, r, m, s, <<>>, start, c)
    <3>1. <<>> \in Seq(File) /\ DOMAIN <<>> = {}
      OBVIOUS
    <3> QED
      BY <2>1, <3>1 DEF SoundParts
  <2> QED
    BY <1>1, <2>2, <2>3, PartsMakeSound
<1>3. N \in Nat /\ DOMAIN Units(w.mine.items, run) = 1 .. N
  BY NewRunNumbers, UnitsCount
<1>4. ASSUME NEW k \in 1 .. N, NEW v \in V
      PROVE  PlaceUnless(w, v, Units(w.mine.items, run)[k], point) \in V
  <2>1. PICK unit : unit = Units(w.mine.items, run)[k]
    OBVIOUS
  <2>2. unit[1] \in run[1] .. run[2] /\ unit[2] \in unit[1] .. run[2]
    BY <1>3, <2>1, NewRunNumbers, UnitsAre
  <2> QED
    BY <1>1, <2>1, <2>2, PlaceUnlessSound
<1>5. PlacingUnitsClosed(w, acc, run, start, point, V)
  BY <1>2, <1>4 DEF PlacingUnitsClosed
<1>6. PlaceUnitsAre(w, acc, run, start, point, written, V)
  BY <1>3, <1>5, PlaceUnits
<1>7. PICK g \in [0 .. N -> V] :
        PlaceRunAt(w, acc, run, start, written, point) = EndRun(g[N], point, written)
  BY <1>6 DEF PlaceUnitsAre
<1>8. g[N] \in V
  <2>1. N \in 0 .. N
    BY <1>3
  <2> HIDE DEF N
  <2> QED
    BY <2>1
<1>9. GapStart(w, run) >= 0
  <2>1. run[1] \in run[1] .. run[2]
    BY NewRunNumbers DEF NewRun
  <2>2. GapStart(w, run) \in Nat
    BY <2>1, GapBeforeRun
  <2> QED
    BY <2>2
<1>10. EndRun(g[N], point, written) \in Sound(w, 0)
  BY <1>1, <1>8, <1>9, EndRunSound
<1> QED
  BY <1>7, <1>10

LEMMA PlaceRunSound ==
  ASSUME NEW w, Ready(w), NEW run, NewRun(w, run), NEW acc \in Sound(w, 0)
  PROVE  PlaceNext(w, acc, run) \in Sound(w, 0)
<1>1. CASE acc.clash
  BY <1>1 DEF PlaceNext
<1>2. CASE ~acc.clash
  <2> DEFINE start == GapStart(w, run)
             to == w.mine.at[run[1]] - 1
             gap == SubSeq(w.mine.text, start + 1, to)
             original == {i \in DOMAIN w.toMine.index : w.toMine.index[i] = run[1] - 1}
             base == IF original = {} THEN 0 ELSE Max(original)
             baseStart == IF base = 0 THEN 0 ELSE w.base.at[base]
             baseEnd == IF base < Len(w.base.items) THEN w.base.at[base + 1] - 1
                        ELSE Len(w.base.text)
             baseGap == SubSeq(w.base.text, baseStart + 1, baseEnd)
  <2> DEFINE leading == LeadingComments(gap, baseGap)
             point == InsertionPoint(w, run, leading.found, acc.removals)
  <2>1. PlaceRun(w, acc, run) = PlaceRunAt(w, acc, run, start + leading.cut, leading.written, point)
    BY DEF PlaceRun, GapStart
  <2> HIDE DEF baseGap
  <2>2. run[1] \in run[1] .. run[2]
    BY NewRunNumbers DEF NewRun
  <2>3. start \in Nat /\ w.mine.at[run[1]] \in Int /\ to \in Int /\ to <= w.mine.at[run[1]]
    <3>1. start \in Nat /\ w.mine.at[run[1]] \in 1 .. Len(w.mine.text)
      BY <2>2, GapBeforeRun
    <3>2. w.mine.at[run[1]] \in Int
      BY <3>1
    <3> QED
      BY <3>1, <3>2
  <2>4. gap \in File /\ \A k \in DOMAIN gap : ~IsOriginal(gap[k])
    <3> HIDE DEF to
    <3>1. start >= GapStart(w, run)
      BY <2>3
    <3> HIDE DEF start
    <3> QED
      BY <2>2, <2>3, <3>1, PieceIsNew
  <2>5. /\ leading.cut \in Nat /\ leading.found \in File
        /\ leading.written \in File /\ OriginalItems(leading.written) = <<>>
    <3> HIDE DEF gap
    <3> QED
      BY <2>4, LeadingCommentsFacts
  <2>6. PICK cut \in Nat, found \in File, written \in File :
          /\ cut = leading.cut /\ found = leading.found /\ written = leading.written
          /\ OriginalItems(written) = <<>>
    BY <2>5
  <2> HIDE DEF leading
  <2>7. PICK removals \in Seq(Nat \X Nat) : removals = acc.removals
    BY DEF Sound, PlaceState
  <2>8. InsertionPoint(w, run, found, removals) \in Nat
    BY InsertionPointType
  <2>9. PICK p \in Int : p = InsertionPoint(w, run, found, removals)
    BY <2>8
  <2>10. start + cut \in Nat /\ start + cut >= GapStart(w, run)
    BY <2>3
  <2>11. PICK from \in Nat : from = start + cut /\ from >= GapStart(w, run)
    BY <2>10
  <2>12. PlaceRunAt(w, acc, run, from, written, p) \in Sound(w, 0)
    BY <2>6, <2>11, PlaceRunAtSound
  <2>13. PlaceRun(w, acc, run) = PlaceRunAt(w, acc, run, from, written, p)
    BY <2>1, <2>6, <2>7, <2>9, <2>11 DEF leading
  <2> QED
    BY <1>2, <2>12, <2>13 DEF PlaceNext
<1> QED
  BY <1>1, <1>2

(* The function that PlaceRuns defines.                                    *)
PlacingRuns(f, w, contractEdits) ==
  f = [k \in 0 .. Len(Runs(w.toMine.new)) |-> IF k = 0 THEN [edits |-> contractEdits, removals |-> <<>>, moved |-> {}, skipped |-> <<>>, pieces |-> <<>>, end |-> 0, clash |-> FALSE] ELSE PlaceNext(w, f[k-1], Runs(w.toMine.new)[k])]

PlacingRunsClosed(w, contractEdits, V) ==
  /\ [edits |-> contractEdits, removals |-> <<>>, moved |-> {}, skipped |-> <<>>, pieces |-> <<>>, end |-> 0, clash |-> FALSE] \in V
  /\ \A k \in 1 .. Len(Runs(w.toMine.new)) : \A v \in V : PlaceNext(w, v, Runs(w.toMine.new)[k]) \in V

PlacingRunsSteps(g, w, contractEdits) ==
  /\ g[0] = [edits |-> contractEdits, removals |-> <<>>, moved |-> {}, skipped |-> <<>>, pieces |-> <<>>, end |-> 0, clash |-> FALSE]
  /\ \A k \in 1 .. Len(Runs(w.toMine.new)) : g[k] = PlaceNext(w, g[k-1], Runs(w.toMine.new)[k])

RunsPlaced(w, contractEdits, V) ==
  \E g \in [0 .. Len(Runs(w.toMine.new)) -> V] :
    PlacingRunsSteps(g, w, contractEdits) /\ PlaceRuns(w, contractEdits) = g[Len(Runs(w.toMine.new))]

LEMMA PlaceRunByRun ==
  ASSUME NEW w, NEW contractEdits, NEW V,
         Len(Runs(w.toMine.new)) \in Nat, PlacingRunsClosed(w, contractEdits, V)
  PROVE  RunsPlaced(w, contractEdits, V)
<1> DEFINE n == Len(Runs(w.toMine.new))
           first == [edits |-> contractEdits, removals |-> <<>>, moved |-> {}, skipped |-> <<>>, pieces |-> <<>>, end |-> 0, clash |-> FALSE]
           step == [k \in 1 .. n |-> [v \in V |-> PlaceNext(w, v, Runs(w.toMine.new)[k])]]
<1>1. n \in Nat
  OBVIOUS
<1>0. first \in V /\ \A k \in 1 .. n : \A v \in V : PlaceNext(w, v, Runs(w.toMine.new)[k]) \in V
  BY DEF PlacingRunsClosed
<1> HIDE DEF n, first
<1>2. step \in [1 .. n -> [V -> V]]
  BY <1>0
<1>3. PICK f \in [0 .. n -> V] : Iterates(f, first, step, n)
  <2> HIDE DEF step
  <2> QED
    BY <1>0, <1>1, <1>2, IterationExists
<1>4. \A k \in 1 .. n : f[k] = PlaceNext(w, f[k-1], Runs(w.toMine.new)[k])
  <2> SUFFICES ASSUME NEW k \in 1 .. n
               PROVE  f[k] = PlaceNext(w, f[k-1], Runs(w.toMine.new)[k])
    OBVIOUS
  <2>1. k - 1 \in 0 .. n
    BY <1>1
  <2>2. f[k] = step[k][f[k-1]] /\ f[k-1] \in V
    <3> HIDE DEF step
    <3> QED
      BY <1>3, <2>1 DEF Iterates
  <2> QED
    BY <2>2
<1> HIDE DEF step
<1>5. PlacingRuns(f, w, contractEdits)
  <2>1. f = [k \in 0 .. n |-> f[k]] /\ f[0] = first
    BY <1>3 DEF Iterates
  <2>2. \A k \in 0 .. n : k # 0 => k \in 1 .. n
    BY <1>1
  <2>3. \A k \in 0 .. n : f[k] = IF k = 0 THEN first ELSE PlaceNext(w, f[k-1], Runs(w.toMine.new)[k])
    BY <1>4, <2>1, <2>2
  <2> QED
    BY <2>1, <2>3 DEF PlacingRuns, n, first
<1> DEFINE g == CHOOSE h : PlacingRuns(h, w, contractEdits)
<1>6. PlacingRuns(g, w, contractEdits)
  BY <1>5
<1>7. PlaceRuns(w, contractEdits) = g[n]
  BY DEF PlaceRuns, PlacingRuns, n
<1> HIDE DEF g
<1>8. g[0] = first /\ \A k \in 1 .. n : g[k] = PlaceNext(w, g[k-1], Runs(w.toMine.new)[k])
  <2>1. \A k \in 0 .. n : g[k] = IF k = 0 THEN first ELSE PlaceNext(w, g[k-1], Runs(w.toMine.new)[k])
    BY <1>6 DEF PlacingRuns, n, first
  <2>2. 0 \in 0 .. n /\ \A k \in 1 .. n : k \in 0 .. n /\ k # 0
    BY <1>1
  <2> QED
    BY <2>1, <2>2
<1> DEFINE G == {k \in 0 .. n : g[k] \in V}
<1>9. \A k \in 0 .. n : k \in G
  <2>1. 0 \in G
    BY <1>0, <1>1, <1>8
  <2>2. \A k \in 1 .. n : k - 1 \in G => k \in G
    BY <1>0, <1>1, <1>8
  <2> HIDE DEF G
  <2> QED
    BY <1>1, <2>1, <2>2, InductionUpTo
<1>10. g \in [0 .. n -> V]
  <2>1. g = [k \in 0 .. n |-> IF k = 0 THEN first ELSE PlaceNext(w, g[k-1], Runs(w.toMine.new)[k])]
    BY <1>6 DEF PlacingRuns, n, first
  <2>2. \A k \in 0 .. n : g[k] \in V
    BY <1>9
  <2> QED
    BY <2>1, <2>2
<1>11. PlacingRunsSteps(g, w, contractEdits)
  BY <1>8 DEF PlacingRunsSteps, n, first
<1> QED
  BY <1>7, <1>10, <1>11 DEF n, RunsPlaced

LEMMA PlaceRunsSound ==
  ASSUME NEW w, Ready(w), NEW contractEdits \in Seq(Edit),
         \A k \in DOMAIN contractEdits : Harmless(w.theirs.text, contractEdits[k])
  PROVE  PlaceRuns(w, contractEdits) \in Sound(w, 0)
<1> DEFINE N == Len(Runs(w.toMine.new))
<1>1. PICK V : V = Sound(w, 0)
  OBVIOUS
<1>2. Placing(contractEdits, <<>>, {}, <<>>, <<>>, 0, FALSE) \in V
  <2>1. /\ <<>> \in Seq(File) /\ <<>> \in Seq(Nat \X Nat) /\ DOMAIN <<>> = {}
        /\ {} \in SUBSET File
    OBVIOUS
  <2>2. SoundParts(w, 0, contractEdits, <<>>, {}, <<>>, <<>>, 0, FALSE)
    BY <2>1 DEF SoundParts
  <2> QED
    BY <1>1, <2>2, PartsMakeSound
<1>3. PICK n \in Nat : n = Len(w.mine.items) /\ w.toMine.new \in SUBSET (1 .. n)
  BY DEF Ready, Parsed, Compared
<1>4. N \in Nat /\ DOMAIN Runs(w.toMine.new) = 1 .. N
  BY <1>3, RunsCount
<1>5. ASSUME NEW k \in 1 .. N, NEW v \in V
      PROVE  PlaceNext(w, v, Runs(w.toMine.new)[k]) \in V
  <2>1. PICK run : run = Runs(w.toMine.new)[k]
    OBVIOUS
  <2>2. PICK new \in SUBSET (1 .. n) : new = w.toMine.new
    BY <1>3
  <2>3. run = Runs(new)[k] /\ k \in DOMAIN Runs(new)
    BY <1>4, <2>1, <2>2
  <2>4. run[1] \in 1 .. n /\ run[2] \in run[1] .. n /\ run[1] .. run[2] \in SUBSET new
    BY <2>3, RunsAre
  <2>5. NewRun(w, run)
    BY <1>3, <2>2, <2>4 DEF NewRun
  <2> QED
    BY <1>1, <2>1, <2>5, PlaceRunSound
<1>6. PlacingRunsClosed(w, contractEdits, V)
  BY <1>2, <1>5 DEF PlacingRunsClosed, Placing
<1>7. RunsPlaced(w, contractEdits, V)
  BY <1>4, <1>6, PlaceRunByRun
<1>8. PICK g \in [0 .. N -> V] : PlaceRuns(w, contractEdits) = g[N]
  BY <1>7 DEF RunsPlaced
<1>9. N \in 0 .. N
  BY <1>4
<1> HIDE DEF N
<1> QED
  BY <1>1, <1>8, <1>9

-----------------------------------------------------------------------------
(* merge_copy.                                                             *)

SameOriginalItems(file, other) ==
  file \in File /\ OriginalItems(file) = OriginalItems(other)

AllHarmless(source, edits) ==
  edits \in Seq(Edit) /\ \A k \in DOMAIN edits : Harmless(source, edits[k])

LEMMA HarmlessConcat ==
  ASSUME NEW source, NEW a, AllHarmless(source, a), NEW b, AllHarmless(source, b)
  PROVE  AllHarmless(source, a \o b)
<1>1. /\ a \in Seq(Edit) /\ b \in Seq(Edit) /\ Len(a) \in Nat /\ Len(b) \in Nat
      /\ DOMAIN a = 1 .. Len(a) /\ DOMAIN b = 1 .. Len(b)
  BY DEF AllHarmless
<1>2. /\ a \o b \in Seq(Edit) /\ Len(a \o b) = Len(a) + Len(b)
      /\ \A k \in 1 .. Len(a) + Len(b) :
           (a \o b)[k] = IF k <= Len(a) THEN a[k] ELSE b[k - Len(a)]
  BY <1>1, ConcatProperties
<1>3. DOMAIN (a \o b) = 1 .. Len(a) + Len(b)
  BY <1>1, <1>2
<1>4. ASSUME NEW k \in 1 .. Len(a) + Len(b)
      PROVE  Harmless(source, (a \o b)[k])
  <2>1. CASE k <= Len(a)
    <3>1. k \in DOMAIN a /\ (a \o b)[k] = a[k]
      BY <1>1, <1>2, <2>1
    <3> QED
      BY <3>1 DEF AllHarmless
  <2>2. CASE ~(k <= Len(a))
    <3>1. k - Len(a) \in DOMAIN b /\ (a \o b)[k] = b[k - Len(a)]
      BY <1>1, <1>2, <2>2
    <3> QED
      BY <3>1 DEF AllHarmless
  <2> QED
    BY <2>1, <2>2
<1> QED
  BY <1>2, <1>3, <1>4 DEF AllHarmless

Removal(r) == [from |-> r[1], to |-> r[2], text |-> <<>>]

LEMMA RemovalHarmless ==
  ASSUME NEW w, NEW r \in Nat \X Nat, Removable(w, r)
  PROVE  Removal(r) \in Edit /\ Harmless(w.theirs.text, Removal(r))
<1>1. r[1] \in Int /\ r[2] \in Int /\ r[1] # r[2]
  BY DEF Removable
<1>2. PICK nothing : nothing = <<>> /\ nothing \in File /\ OriginalItems(nothing) = nothing
  BY NoOriginalItems
<1>3. Removal(r) = [from |-> r[1], to |-> r[2], text |-> nothing]
  BY <1>2 DEF Removal
<1>4. PICK e : e = Removal(r)
  OBVIOUS
<1>5. e.from = r[1] /\ e.to = r[2] /\ e.text = nothing /\ e \in Edit
  BY <1>1, <1>2, <1>3, <1>4 DEF Edit
<1>6. ASSUME NEW p \in 1 .. Len(w.theirs.text), r[1] < p, p <= r[2]
      PROVE  OriginalItem(w.theirs.text[p]) = nothing
  BY <1>2, <1>6 DEF OriginalItem, Removable
<1>7. Harmless(w.theirs.text, e)
  BY <1>1, <1>2, <1>5, <1>6 DEF Harmless
<1> QED
  BY <1>4, <1>5, <1>7

LEMMA RemovalsHarmless ==
  ASSUME NEW w, NEW removals \in Seq(Nat \X Nat),
         \A k \in DOMAIN removals : Removable(w, removals[k]),
         NEW remove, remove = [k \in DOMAIN removals |-> Removal(removals[k])]
  PROVE  AllHarmless(w.theirs.text, remove)
<1>1. /\ Len(removals) \in Nat /\ DOMAIN removals = 1 .. Len(removals)
      /\ \A k \in 1 .. Len(removals) : removals[k] \in Nat \X Nat
  BY Elements
<1>2. \A k \in 1 .. Len(removals) :
        remove[k] \in Edit /\ Harmless(w.theirs.text, remove[k])
  <2> SUFFICES ASSUME NEW k \in 1 .. Len(removals)
               PROVE  remove[k] \in Edit /\ Harmless(w.theirs.text, remove[k])
    OBVIOUS
  <2>1. PICK r \in Nat \X Nat : r = removals[k] /\ Removable(w, r)
    BY <1>1
  <2> QED
    BY <1>1, <2>1, RemovalHarmless
<1>3. remove \in [1 .. Len(removals) -> Edit]
  BY <1>1, <1>2
<1>4. remove \in Seq(Edit) /\ DOMAIN remove = 1 .. Len(removals)
  BY <1>1, <1>3, IsSequence
<1> QED
  BY <1>2, <1>4 DEF AllHarmless

LEMMA RefusedKeeps ==
  ASSUME NEW file \in File, NEW reason
  PROVE  SameOriginalItems(Refused(file, reason).file, file)
BY DEF Refused, SameOriginalItems

(* What is merged has the original items of the canonical file.            *)
LEMMA ReconcileKeeps ==
  ASSUME NEW w, Ready(w), NEW function, NEW wanted, NEW dropped, NEW placed \in Sound(w, 0)
  PROVE  SameOriginalItems(Reconcile(w, function, wanted, dropped, placed).file, w.theirs.text)
<1> DEFINE remove == [k \in DOMAIN placed.removals |->
                        [from |-> placed.removals[k][1], to |-> placed.removals[k][2],
                         text |-> <<>>]]
           merged == Apply(w.theirs.text, placed.edits \o remove)
           result == Reconcile(w, function, wanted, dropped, placed)
<1>1. w.theirs.text \in File
  BY DEF Ready, Parsed
<1>2. result.file = w.theirs.text \/ result.file = merged
  BY DEF Reconcile, Refused
<1>3. /\ placed.removals \in Seq(Nat \X Nat)
      /\ \A k \in DOMAIN placed.removals : Removable(w, placed.removals[k])
      /\ AllHarmless(w.theirs.text, placed.edits)
  BY DEF Sound, PlaceState, AllHarmless
<1>4. AllHarmless(w.theirs.text, remove)
  <2>1. PICK r : r = remove /\ r = [k \in DOMAIN placed.removals |-> Removal(placed.removals[k])]
    BY DEF Removal
  <2>2. AllHarmless(w.theirs.text, r)
    BY <1>3, <2>1, RemovalsHarmless
  <2> QED
    BY <2>1, <2>2
<1> HIDE DEF remove
<1>5. AllHarmless(w.theirs.text, placed.edits \o remove)
  BY <1>3, <1>4, HarmlessConcat
<1>6. SameOriginalItems(merged, w.theirs.text)
  BY <1>1, <1>5, ApplyKeeps DEF AllHarmless, SameOriginalItems
<1> QED
  BY <1>1, <1>2, <1>6 DEF SameOriginalItems

(* What is compared: two files that a session's copy and the canonical file*)
(* became, of which the copy has been accepted.                            *)
Comparable(w) ==
  /\ Parsed(w.base) /\ Parsed(w.mine) /\ Parsed(w.theirs)
  /\ Compared(w.toMine, w.base.items, w.mine.items)
  /\ Compared(w.toTheirs, w.base.items, w.theirs.items)
  /\ \A j \in w.toMine.new : ~IsOriginal(w.mine.items[j])

LEMMA ContractEditsHarmless ==
  ASSUME NEW w, Ready(w), NEW carriedItems \in SUBSET (DOMAIN w.toMine.index),
         NEW edits,
         edits = [k \in DOMAIN Ascending(carriedItems) |->
                    ContractEdit(w, Ascending(carriedItems)[k])]
  PROVE  AllHarmless(w.theirs.text, edits)
<1>1. PICK n \in Nat : carriedItems \in SUBSET (1 .. n)
  <2>1. Len(w.base.items) \in Nat /\ DOMAIN w.toMine.index \in SUBSET (1 .. Len(w.base.items))
    BY DEF Ready, Parsed, Compared
  <2> QED
    BY <2>1
<1>2. PICK at \in Seq(carriedItems) : at = Ascending(carriedItems)
  BY <1>1, Ascends
<1>3. /\ Len(at) \in Nat /\ DOMAIN at = 1 .. Len(at)
      /\ \A k \in 1 .. Len(at) : at[k] \in DOMAIN w.toMine.index
  BY Elements
<1>4. edits = [k \in 1 .. Len(at) |-> ContractEdit(w, at[k])]
  BY <1>2, <1>3
<1>5. \A k \in 1 .. Len(at) : edits[k] \in Edit /\ Harmless(w.theirs.text, edits[k])
  <2> SUFFICES ASSUME NEW k \in 1 .. Len(at)
               PROVE  edits[k] \in Edit /\ Harmless(w.theirs.text, edits[k])
    OBVIOUS
  <2>1. PICK i \in DOMAIN w.toMine.index : i = at[k]
    BY <1>3
  <2> QED
    BY <1>4, <2>1, ContractEditHarmless
<1>6. edits \in [1 .. Len(at) -> Edit]
  BY <1>4, <1>5
<1>7. edits \in Seq(Edit) /\ DOMAIN edits = 1 .. Len(at)
  BY <1>3, <1>6, IsSequence
<1> QED
  BY <1>5, <1>7 DEF AllHarmless

LEMMA MergeWaysKeeps ==
  ASSUME NEW w, Comparable(w), NEW function, NEW frozen
  PROVE  SameOriginalItems(MergeWays(w, function, frozen).file, w.theirs.text)
<1> DEFINE wanted == Wanted(w, function)
           dropped == {i \in wanted : NotCarried(w, i, function, frozen)}
           carriedItems == wanted \ dropped
           edits == [k \in DOMAIN Ascending(carriedItems) |->
                       ContractEdit(w, Ascending(carriedItems)[k])]
           result == Reconcile(w, function, wanted, dropped, PlaceRuns(w, edits))
<1>1. w.theirs.text \in File
  BY DEF Comparable, Parsed
<1>2. \/ \E reason : MergeWays(w, function, frozen) = Refused(w.theirs.text, reason)
      \/ MergeWays(w, function, frozen) = result
  BY DEF MergeWays
<1>3. SameOriginalItems(result.file, w.theirs.text)
  <2>1. CASE w.toTheirs.rules # {}
    <3>1. \E reason : result = Refused(w.theirs.text, reason)
      BY <2>1 DEF Reconcile
    <3> QED
      BY <1>1, <3>1, RefusedKeeps
  <2>2. CASE w.toTheirs.rules = {}
    <3>1. Ready(w)
      BY <2>2 DEF Ready, Comparable
    <3>2. carriedItems \in SUBSET (DOMAIN w.toMine.index)
      BY DEF Wanted
    <3> HIDE DEF carriedItems
    <3>3. AllHarmless(w.theirs.text, edits)
      BY <3>1, <3>2, ContractEditsHarmless
    <3> HIDE DEF edits
    <3>4. PlaceRuns(w, edits) \in Sound(w, 0)
      BY <3>1, <3>3, PlaceRunsSound DEF AllHarmless
    <3> QED
      BY <3>1, <3>4, ReconcileKeeps
  <2> QED
    BY <2>1, <2>2
<1> HIDE DEF result
<1>4. CASE \E reason : MergeWays(w, function, frozen) = Refused(w.theirs.text, reason)
  BY <1>1, <1>4, RefusedKeeps
<1> QED
  BY <1>2, <1>3, <1>4

(* merge_copy keeps the original items of the canonical file, if those of  *)
(* the fork base are the original ones, and the copy was accepted.         *)
LEMMA MergeCopyKeeps ==
  ASSUME NEW file \in File, NEW copy \in File, NEW base \in File, NEW function, NEW frozen,
         OriginalItems(base) = OriginalItems(Base), CheckEdits(base, copy, function) = {},
         NEW anyone
  PROVE  SameOriginalItems(MergeCopyOf(file, copy, base, anyone, frozen).file, file)
<1> DEFINE w == ThreeWay(file, copy, base)
<1>1. PICK b, m, t : b = Parse(base) /\ m = Parse(copy) /\ t = Parse(file)
  OBVIOUS
<1>2. PICK v : v = w
  OBVIOUS
<1>3. /\ v.base = b /\ v.mine = m /\ v.theirs = t
      /\ v.toMine = CompareItems(b.items, m.items)
      /\ v.toTheirs = CompareItems(b.items, t.items)
  BY <1>1, <1>2 DEF ThreeWay
<1>4. Parsed(b) /\ Parsed(m) /\ Parsed(t) /\ t.text = file
  BY <1>1, ParseFacts
<1>5. b.items \in Seq(Entry) /\ m.items \in Seq(Entry) /\ t.items \in Seq(Entry)
  BY <1>4 DEF Parsed
<1>6. Compared(v.toMine, b.items, m.items) /\ Compared(v.toTheirs, b.items, t.items)
  BY <1>3, <1>5, CompareItemsFacts
<1>7. \A j \in v.toMine.new : ~IsOriginal(m.items[j])
  BY <1>1, <1>3, NewItemsAreNew
<1>8. Comparable(v)
  BY <1>3, <1>4, <1>6, <1>7 DEF Comparable
<1>9. SameOriginalItems(MergeWays(v, anyone, frozen).file, v.theirs.text)
  BY <1>8, MergeWaysKeeps
<1> QED
  BY <1>2, <1>3, <1>4, <1>9 DEF MergeCopyOf

-----------------------------------------------------------------------------
(* What agents write.                                                      *)

LEMMA EditedType ==
  ASSUME NEW s \in Sessions, NEW file \in File, NEW copy \in Edited(s, file)
  PROVE  copy \in File
<1>1. /\ Contracts \subseteq SUBSET DOMAIN Needs
      /\ Insertions[s] \subseteq File
  BY CopyAssumption
<1>2. Len(file) \in Nat /\ DOMAIN file = 1 .. Len(file) /\ file \in Seq(Entry)
  BY Elements DEF File
<1> DEFINE Write(p, c) == [file EXCEPT ![p].contract = c]
           Insert(p, text) == SubSeq(file, 1, p) \o text \o SubSeq(file, p + 1, Len(file))
           Delete(p) == RemoveAt(file, p)
           functions == {q \in DOMAIN file : Kind(file[q]) = "function"}
           deletions == {q \in DOMAIN file : file[q].code \in Deletions[s]}
           written == \E p \in DOMAIN file, c \in Contracts : copy = Write(p, c)
           inserted == \E p \in 0 .. Len(file), text \in Insertions[s] : copy = Insert(p, text)
           deleted == \E p \in DOMAIN file : copy = Delete(p)
<1>0. written \/ inserted \/ deleted
  <2>1. Edited(s, file) = {Write(p, c) : p \in functions, c \in Contracts}
                          \cup {Insert(p, text) : p \in 0 .. Len(file), text \in Insertions[s]}
                          \cup {Delete(p) : p \in deletions}
    BY DEF Edited
  <2>2. functions \in SUBSET DOMAIN file /\ deletions \in SUBSET DOMAIN file
    OBVIOUS
  <2> HIDE DEF Write, Insert, Delete, functions, deletions
  <2> QED
    BY <2>1, <2>2
<1>3. CASE written
  <2>1. PICK p \in 1 .. Len(file), c \in SUBSET DOMAIN Needs :
          copy = [file EXCEPT ![p].contract = c]
    BY <1>1, <1>2, <1>3
  <2>2. [file[p] EXCEPT !.contract = c] \in Entry
    <3>1. PICK e \in Entry : e = file[p]
      BY <1>2
    <3>2. [e EXCEPT !.contract = c] \in Entry
      BY DEF Entry
    <3> QED
      BY <3>1, <3>2
  <2>3. PICK entry \in Entry : copy = [file EXCEPT ![p] = entry]
    BY <2>1, <2>2
  <2> QED
    BY <1>2, <2>3 DEF File
<1>4. CASE inserted
  <2>1. PICK p \in 0 .. Len(file), text \in Seq(Entry) :
          copy = SubSeq(file, 1, p) \o text \o SubSeq(file, p + 1, Len(file))
    BY <1>1, <1>4 DEF File
  <2>2. PICK a \in Seq(Entry), b \in Seq(Entry) :
          a = SubSeq(file, 1, p) /\ b = SubSeq(file, p + 1, Len(file))
    <3>1. \A k \in 1 .. Len(file) : file[k] \in Entry
      BY <1>2
    <3>2. SubSeq(file, 1, p) \in Seq(Entry) /\ SubSeq(file, p + 1, Len(file)) \in Seq(Entry)
      BY <1>2, <3>1, SubSeqProperties
    <3> QED
      BY <3>2
  <2>3. (a \o text) \o b \in Seq(Entry)
    BY ConcatProperties
  <2> QED
    BY <2>1, <2>2, <2>3 DEF File
<1>5. CASE deleted
  <2>1. PICK p \in 1 .. Len(file) : copy = SubSeq(file, 1, p - 1) \o SubSeq(file, p + 1, Len(file))
    BY <1>2, <1>5 DEF RemoveAt
  <2>2. PICK a \in Seq(Entry), b \in Seq(Entry) :
          a = SubSeq(file, 1, p - 1) /\ b = SubSeq(file, p + 1, Len(file))
    <3>1. \A k \in 1 .. Len(file) : file[k] \in Entry
      BY <1>2
    <3>2. SubSeq(file, 1, p - 1) \in Seq(Entry) /\ SubSeq(file, p + 1, Len(file)) \in Seq(Entry)
      BY <1>2, <3>1, SubSeqProperties
    <3> QED
      BY <3>2
  <2>3. a \o b \in Seq(Entry)
    BY ConcatProperties
  <2> QED
    BY <2>1, <2>2, <2>3 DEF File
<1> QED
  BY <1>0, <1>3, <1>4, <1>5

(* The function that Copies defines.                                       *)
Rewriting(f, s, file) ==
  f = [k \in 0 .. MaxEdits[s] |-> IF k = 0 THEN {file} ELSE f[k-1] \cup UNION {Edited(s, copy) : copy \in f[k-1]}]

RewritingClosed(s, file, V) ==
  /\ {file} \in V
  /\ \A k \in 1 .. MaxEdits[s] : \A v \in V : v \cup UNION {Edited(s, copy) : copy \in v} \in V

RewritingSteps(g, s, file) ==
  /\ g[0] = {file}
  /\ \A k \in 1 .. MaxEdits[s] : g[k] = g[k-1] \cup UNION {Edited(s, copy) : copy \in g[k-1]}

CopiesMade(s, file, V) ==
  \E g \in [0 .. MaxEdits[s] -> V] :
    RewritingSteps(g, s, file) /\ Copies(s, file) = g[MaxEdits[s]] \ {NoCopy}

LEMMA CopyByEdits ==
  ASSUME NEW s, NEW file, NEW V,
         MaxEdits[s] \in Nat, RewritingClosed(s, file, V)
  PROVE  CopiesMade(s, file, V)
<1> DEFINE n == MaxEdits[s]
           first == {file}
           step == [k \in 1 .. n |-> [v \in V |-> v \cup UNION {Edited(s, copy) : copy \in v}]]
<1>1. n \in Nat
  OBVIOUS
<1>0. first \in V /\ \A k \in 1 .. n : \A v \in V : v \cup UNION {Edited(s, copy) : copy \in v} \in V
  BY DEF RewritingClosed
<1> HIDE DEF n, first
<1>2. step \in [1 .. n -> [V -> V]]
  BY <1>0
<1>3. PICK f \in [0 .. n -> V] : Iterates(f, first, step, n)
  <2> HIDE DEF step
  <2> QED
    BY <1>0, <1>1, <1>2, IterationExists
<1>4. \A k \in 1 .. n : f[k] = f[k-1] \cup UNION {Edited(s, copy) : copy \in f[k-1]}
  <2> SUFFICES ASSUME NEW k \in 1 .. n
               PROVE  f[k] = f[k-1] \cup UNION {Edited(s, copy) : copy \in f[k-1]}
    OBVIOUS
  <2>1. k - 1 \in 0 .. n
    BY <1>1
  <2>2. f[k] = step[k][f[k-1]] /\ f[k-1] \in V
    <3> HIDE DEF step
    <3> QED
      BY <1>3, <2>1 DEF Iterates
  <2> QED
    BY <2>2
<1> HIDE DEF step
<1>5. Rewriting(f, s, file)
  <2>1. f = [k \in 0 .. n |-> f[k]] /\ f[0] = first
    BY <1>3 DEF Iterates
  <2>2. \A k \in 0 .. n : k # 0 => k \in 1 .. n
    BY <1>1
  <2>3. \A k \in 0 .. n : f[k] = IF k = 0 THEN first ELSE f[k-1] \cup UNION {Edited(s, copy) : copy \in f[k-1]}
    BY <1>4, <2>1, <2>2
  <2> QED
    BY <2>1, <2>3 DEF Rewriting, n, first
<1> DEFINE g == CHOOSE h : Rewriting(h, s, file)
<1>6. Rewriting(g, s, file)
  BY <1>5
<1>7. Copies(s, file) = g[n] \ {NoCopy}
  BY DEF Copies, Rewriting, n
<1> HIDE DEF g
<1>8. g[0] = first /\ \A k \in 1 .. n : g[k] = g[k-1] \cup UNION {Edited(s, copy) : copy \in g[k-1]}
  <2>1. \A k \in 0 .. n : g[k] = IF k = 0 THEN first ELSE g[k-1] \cup UNION {Edited(s, copy) : copy \in g[k-1]}
    BY <1>6 DEF Rewriting, n, first
  <2>2. 0 \in 0 .. n /\ \A k \in 1 .. n : k \in 0 .. n /\ k # 0
    BY <1>1
  <2> QED
    BY <2>1, <2>2
<1> DEFINE G == {k \in 0 .. n : g[k] \in V}
<1>9. \A k \in 0 .. n : k \in G
  <2>1. 0 \in G
    BY <1>0, <1>1, <1>8
  <2>2. \A k \in 1 .. n : k - 1 \in G => k \in G
    BY <1>0, <1>1, <1>8
  <2> HIDE DEF G
  <2> QED
    BY <1>1, <2>1, <2>2, InductionUpTo
<1>10. g \in [0 .. n -> V]
  <2>1. g = [k \in 0 .. n |-> IF k = 0 THEN first ELSE g[k-1] \cup UNION {Edited(s, copy) : copy \in g[k-1]}]
    BY <1>6 DEF Rewriting, n, first
  <2>2. \A k \in 0 .. n : g[k] \in V
    BY <1>9
  <2> QED
    BY <2>1, <2>2
<1>11. RewritingSteps(g, s, file)
  BY <1>8 DEF RewritingSteps, n, first
<1> QED
  BY <1>7, <1>10, <1>11 DEF n, CopiesMade

LEMMA CopiesType ==
  ASSUME NEW s \in Sessions, NEW file \in File, NEW copy \in Copies(s, file)
  PROVE  copy \in File
<1>1. MaxEdits[s] \in Nat
  BY CopyAssumption
<1>2. PICK V : V = SUBSET File
  OBVIOUS
<1>3. ASSUME NEW v \in V
      PROVE  v \cup UNION {Edited(s, c) : c \in v} \in V
  <2>1. \A c \in v : \A d \in Edited(s, c) : d \in File
    BY <1>2, EditedType
  <2> QED
    BY <1>2, <2>1
<1>4. RewritingClosed(s, file, V)
  BY <1>2, <1>3 DEF RewritingClosed
<1>5. CopiesMade(s, file, V)
  BY <1>1, <1>4, CopyByEdits
<1>6. PICK g \in [0 .. MaxEdits[s] -> V] : Copies(s, file) = g[MaxEdits[s]] \ {NoCopy}
  BY <1>5 DEF CopiesMade
<1>7. MaxEdits[s] \in 0 .. MaxEdits[s]
  BY <1>1
<1> QED
  BY <1>2, <1>6, <1>7

-----------------------------------------------------------------------------
(* The invariant.                                                          *)

(* The forks of live sessions have the original items too.                 *)
OriginalInv ==
  /\ TypeOK
  /\ OriginalItemsKept
  /\ \A s \in Live : OriginalItems(fork_base[s]) = OriginalItems(Base)

(* A merge that passes or does not keeps the original items.               *)
LEMMA OutcomesKeep ==
  ASSUME OriginalInv, NEW s \in Live, NEW r \in Outcomes(s)
  PROVE  SameOriginalItems(r.file, canonical)
<1>1. /\ canonical \in File /\ snapshot[s] \in File /\ fork_base[s] \in File
      /\ OriginalItems(fork_base[s]) = OriginalItems(Base)
  BY DEF OriginalInv, TypeOK, Live
<1>2. SameOriginalItems(canonical, canonical)
  BY <1>1 DEF SameOriginalItems
<1>3. CASE CheckEdits(fork_base[s], snapshot[s], s) # {}
  <2>1. \E reason : r = Refused(canonical, reason)
    BY <1>3 DEF Outcomes
  <2> QED
    BY <1>1, <2>1, RefusedKeeps
<1>4. CASE CheckEdits(fork_base[s], snapshot[s], s) = {}
  <2>1. ASSUME NEW frozen
        PROVE  SameOriginalItems(MergedCopy(s, frozen).file, canonical)
    BY <1>1, <1>4, MergeCopyKeeps DEF MergedCopy
  <2>2. ASSUME NEW m, SameOriginalItems(m.file, canonical)
        PROVE  SameOriginalItems(Built(m).file, canonical)
    <3>1. Built(m) = m \/ \E reason : Built(m) = Refused(canonical, reason)
      BY DEF Built
    <3> QED
      BY <1>1, <2>2, <3>1, RefusedKeeps
  <2>3. PICK full : full = MergedCopy(s, Live \ {s})
    OBVIOUS
  <2>4. r \in Committed(s, full)
    BY <1>4, <2>3 DEF Outcomes
  <2>5. r = Built(full) \/ r = Built(MergedCopy(s, Everyone)) \/ r = full
    BY <2>4 DEF Committed
  <2> QED
    BY <2>1, <2>2, <2>3, <2>5
<1> QED
  BY <1>3, <1>4

LEMMA InitKeeps == Init => OriginalInv
<1> SUFFICES ASSUME Init
             PROVE  OriginalInv
  OBVIOUS
<1>1. Base \in File /\ NoCopy \in File
  BY CopyAssumption DEF NoCopy, File
<1>2. TypeOK
  BY <1>1 DEF Init, TypeOK
<1>3. Live = {}
  BY DEF Init, Live
<1> QED
  BY <1>2, <1>3 DEF Init, OriginalInv, OriginalItemsKept

LEMMA SessionKeeps ==
  ASSUME OriginalInv, NEW s \in Sessions, Session(s)
  PROVE  OriginalInv'
<1>1. /\ canonical \in File /\ fork_base \in [Sessions -> File]
      /\ snapshot \in [Sessions -> File] /\ forks \in [Sessions -> Nat]
  BY DEF OriginalInv, TypeOK
<1>2. PICK copy \in File : snapshot' = [snapshot EXCEPT ![s] = copy]
  BY <1>1, CopiesType DEF Session
<1>3. /\ fork_base' = [fork_base EXCEPT ![s] = canonical]
      /\ forks' = [forks EXCEPT ![s] = @ + 1] /\ canonical' = canonical
  BY DEF Session
<1>4. TypeOK'
  BY <1>1, <1>2, <1>3 DEF TypeOK
<1>5. ASSUME NEW t \in Live'
      PROVE  OriginalItems(fork_base'[t]) = OriginalItems(Base)
  <2>1. CASE t = s
    BY <1>1, <1>3, <2>1 DEF OriginalInv, OriginalItemsKept
  <2>2. CASE t # s
    <3>1. t \in Live /\ fork_base'[t] = fork_base[t]
      BY <1>1, <1>2, <1>3, <2>2 DEF Live
    <3> QED
      BY <3>1 DEF OriginalInv
  <2> QED
    BY <2>1, <2>2
<1>6. OriginalItemsKept'
  BY <1>3 DEF OriginalInv, OriginalItemsKept
<1> QED
  BY <1>4, <1>5, <1>6 DEF OriginalInv

LEMMA MergeKeeps ==
  ASSUME OriginalInv, NEW s \in Sessions, Merge(s)
  PROVE  OriginalInv'
<1>1. /\ canonical \in File /\ fork_base \in [Sessions -> File]
      /\ snapshot \in [Sessions -> File] /\ forks \in [Sessions -> Nat]
  BY DEF OriginalInv, TypeOK
<1>2. PICK r \in Outcomes(s) : canonical' = r.file
  BY DEF Merge
<1>3. /\ s \in Live /\ snapshot' = [snapshot EXCEPT ![s] = NoCopy]
      /\ fork_base' = [fork_base EXCEPT ![s] = NoCopy] /\ forks' = forks
  BY DEF Merge
<1>4. SameOriginalItems(canonical', canonical)
  BY <1>2, <1>3, OutcomesKeep
<1>5. NoCopy \in File
  BY DEF NoCopy, File
<1>6. TypeOK'
  BY <1>1, <1>3, <1>4, <1>5 DEF TypeOK, SameOriginalItems
<1>7. ASSUME NEW t \in Live'
      PROVE  OriginalItems(fork_base'[t]) = OriginalItems(Base)
  <2>1. t # s /\ t \in Live /\ fork_base'[t] = fork_base[t]
    BY <1>1, <1>3 DEF Live
  <2> QED
    BY <2>1 DEF OriginalInv
<1>8. OriginalItemsKept'
  BY <1>4 DEF OriginalInv, OriginalItemsKept, SameOriginalItems
<1> QED
  BY <1>6, <1>7, <1>8 DEF OriginalInv

LEMMA StepKeeps == OriginalInv /\ [Next]_vars => OriginalInv'
<1> SUFFICES ASSUME OriginalInv, [Next]_vars
             PROVE  OriginalInv'
  OBVIOUS
<1>1. ASSUME NEW s \in Sessions, Session(s)
      PROVE  OriginalInv'
  BY <1>1, SessionKeeps
<1>2. ASSUME NEW s \in Sessions, Merge(s)
      PROVE  OriginalInv'
  BY <1>2, MergeKeeps
<1>3. CASE UNCHANGED vars
  BY <1>3 DEF vars, OriginalInv, TypeOK, OriginalItemsKept, Live
<1> QED
  BY <1>1, <1>2, <1>3 DEF Next

(* A run of sessions and merges keeps the file's type: every copy is a file*)
(* of known entries, and so is what merge_copy makes of it.                *)
THEOREM TypeCorrect == Spec => []TypeOK
<1>1. OriginalInv => TypeOK
  BY DEF OriginalInv
<1> QED
  BY InitKeeps, StepKeeps, <1>1, PTL DEF Spec

(* Rule 1 over the whole run: whatever the sessions write, and in whatever *)
(* order they fork and merge, the canonical file has the original items, in*)
(* their order, once each (check_edits and merge_copy).                    *)
THEOREM OriginalItemsStay == Spec => []OriginalItemsKept
<1>1. OriginalInv => OriginalItemsKept
  BY DEF OriginalInv
<1> QED
  BY InitKeeps, StepKeeps, <1>1, PTL DEF Spec
=============================================================================
