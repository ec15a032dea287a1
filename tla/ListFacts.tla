------------------------------ MODULE ListFacts ------------------------------
(***************************************************************************)
(* Facts about the operators on sequences that the components use.         *)
(***************************************************************************)
EXTENDS Naturals, SequencesExt, SequenceTheorems, WellFoundedInduction, TLAPS

\* A set of natural numbers has a minimum.
LEMMA MinOfNat ==
  ASSUME NEW I, I \subseteq Nat, I # {}
  PROVE  Min(I) \in I
<1> DEFINE R == {ss \in Nat \X Nat : ss[1] < ss[2]}
<1>1. OpToRel(<, Nat) = R
  BY Zenon DEF OpToRel
<1>2. PICK x \in I : \A y \in I : ~(<<y, x>> \in R)
  BY <1>1, WFMin, NatLessThanWellFounded, Zenon
<1>3. ASSUME NEW y \in I, ~(x <= y) PROVE FALSE
  <2>1. y \in Nat /\ x \in Nat /\ y < x
    BY <1>3
  <2>2. <<y, x>> \in R
    BY <2>1
  <2>3. QED
    BY <1>2, <2>2
<1>4. QED
  BY <1>3, <1>2 DEF Min

\* RemoveAt leaves out one position.
LEMMA RemoveAtFacts ==
  ASSUME NEW S, NEW s \in Seq(S), NEW k \in 1..Len(s)
  PROVE  /\ RemoveAt(s, k) \in Seq(S)
         /\ Len(RemoveAt(s, k)) = Len(s) - 1
         /\ \A i \in 1..Len(s) - 1 : RemoveAt(s, k)[i] = IF i < k THEN s[i] ELSE s[i + 1]
<1> DEFINE f == SubSeq(s, 1, k - 1)
           g == SubSeq(s, k + 1, Len(s))
<1>1. /\ f \in Seq(S) /\ Len(f) = k - 1
      /\ \A i \in 1..k - 1 : f[i] = s[i]
  OBVIOUS
<1>2. /\ g \in Seq(S) /\ Len(g) = Len(s) - k
      /\ \A i \in 1..Len(s) - k : g[i] = s[k + i]
  OBVIOUS
<1>3. RemoveAt(s, k) = f \o g
  BY DEF RemoveAt
<1> HIDE DEF f, g
<1>4. /\ f \o g \in Seq(S) /\ Len(f \o g) = Len(f) + Len(g)
      /\ \A i \in 1..Len(f) + Len(g) : (f \o g)[i] = IF i <= Len(f) THEN f[i] ELSE g[i - Len(f)]
  BY <1>1, <1>2, ConcatProperties, Zenon
<1>5. \A i \in 1..Len(s) - 1 : (f \o g)[i] = IF i < k THEN s[i] ELSE s[i + 1]
  <2> TAKE i \in 1..Len(s) - 1
  <2>1. CASE i < k
    BY <1>1, <1>2, <1>4, <2>1
  <2>2. CASE i >= k
    <3>1. (f \o g)[i] = g[i - (k - 1)]
      BY <1>1, <1>2, <1>4, <2>2
    <3>2. i - (k - 1) \in 1..Len(s) - k /\ k + (i - (k - 1)) = i + 1
      BY <2>2
    <3>3. g[i - (k - 1)] = s[i + 1]
      BY <1>2, <3>2
    <3>4. QED
      BY <2>2, <3>1, <3>3
  <2>3. i < k \/ i >= k
    OBVIOUS
  <2>4. QED
    BY <2>1, <2>2, <2>3, Zenon
<1>6. Len(f) + Len(g) = Len(s) - 1
  BY <1>1, <1>2
<1>7. QED
  BY <1>3, <1>4, <1>5, <1>6, Zenon

\* RemoveFirst removes at a position where the element is.
LEMMA RemoveFirstAt ==
  ASSUME NEW S, NEW s \in Seq(S), NEW a, Contains(s, a)
  PROVE  \E k \in 1..Len(s) : s[k] = a /\ RemoveFirst(s, a) = RemoveAt(s, k)
<1> DEFINE I == {i \in 1..Len(s) : s[i] = a}
<1>1. Min(I) \in I
  <2>1. I # {} /\ I \subseteq Nat
    BY DEF Contains
  <2> HIDE DEF I
  <2>2. QED
    BY <2>1, MinOfNat
<1>2. QED
  BY <1>1 DEF RemoveFirst, Contains, SelectInSeq

\* Whatever is removed, a sequence remains.
LEMMA RemoveFirstType ==
  ASSUME NEW S, NEW s \in Seq(S), NEW a
  PROVE  RemoveFirst(s, a) \in Seq(S)
<1>1. CASE Contains(s, a)
  BY <1>1, RemoveFirstAt, RemoveAtFacts
<1>2. CASE ~Contains(s, a)
  BY <1>2 DEF RemoveFirst, Contains
<1>3. QED
  BY <1>1, <1>2

\* Removing the only occurrence takes the element out and leaves the others.
LEMMA RemoveFirstFacts ==
  ASSUME NEW S, NEW s \in Seq(S), IsInjective(s), NEW a \in S
  PROVE  /\ RemoveFirst(s, a) \in Seq(S)
         /\ IsInjective(RemoveFirst(s, a))
         /\ ToSet(RemoveFirst(s, a)) = ToSet(s) \ {a}
<1>1. CASE ~Contains(s, a)
  BY <1>1 DEF RemoveFirst, Contains, ToSet
<1>2. CASE Contains(s, a)
  <2>2. PICK k \in 1..Len(s) : s[k] = a /\ RemoveFirst(s, a) = RemoveAt(s, k)
    BY <1>2, RemoveFirstAt
  <2> DEFINE r == RemoveAt(s, k)
  <2>3. /\ r \in Seq(S) /\ Len(r) = Len(s) - 1
        /\ \A i \in 1..Len(r) : r[i] = IF i < k THEN s[i] ELSE s[i + 1]
    BY RemoveAtFacts
  <2> HIDE DEF r
  <2>4. IsInjective(r)
    <3> SUFFICES ASSUME NEW i \in 1..Len(r), NEW j \in 1..Len(r), r[i] = r[j]
                 PROVE  i = j
      BY <2>3 DEF IsInjective
    <3> DEFINE before(m) == IF m < k THEN m ELSE m + 1
    <3>1. before(i) \in 1..Len(s) /\ before(j) \in 1..Len(s)
      BY <2>2, <2>3
    <3>2. s[before(i)] = s[before(j)]
      BY <2>3
    <3>3. before(i) = before(j)
      BY <3>1, <3>2 DEF IsInjective
    <3>4. QED
      BY <2>2, <2>3, <3>3
  <2>5. ToSet(r) = ToSet(s) \ {a}
    <3>1. ASSUME NEW b \in ToSet(r)
          PROVE  b \in ToSet(s) \ {a}
      BY <2>2, <2>3, <3>1 DEF ToSet, IsInjective
    <3>2. ASSUME NEW b \in ToSet(s) \ {a}
          PROVE  b \in ToSet(r)
      <4>1. PICK i \in 1..Len(s) : s[i] = b /\ i # k
        BY <2>2, <3>2 DEF ToSet
      <4>2. CASE i < k
        BY <2>2, <2>3, <4>1, <4>2 DEF ToSet
      <4>3. CASE i > k
        <5>1. i - 1 \in 1..Len(r) /\ r[i - 1] = s[i]
          BY <2>2, <2>3, <4>1, <4>3
        <5>2. QED
          BY <2>3, <4>1, <5>1 DEF ToSet
      <4>4. QED
        BY <2>2, <4>1, <4>2, <4>3
    <3>3. QED
      BY <3>1, <3>2
  <2>6. QED
    BY <2>2, <2>3, <2>4, <2>5 DEF r
<1>3. QED
  BY <1>1, <1>2

\* Inserting gives a sequence with one element more.
LEMMA InsertAtType ==
  ASSUME NEW S, NEW s \in Seq(S), NEW i \in 1..Len(s) + 1, NEW a \in S
  PROVE  InsertAt(s, i, a) \in Seq(S)
BY DEF InsertAt
=============================================================================
