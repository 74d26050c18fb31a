------------------------------ MODULE ListLemmas ------------------------------
(***************************************************************************)
(* Facts about lists for the proofs about the image cache.  Induction over *)
(* a list is by the least of the positions at which a claim fails.         *)
(***************************************************************************)
EXTENDS Lists, SequencesExt, FunctionTheorems, FiniteSetTheorems,
        WellFoundedInduction, SequenceTheorems, TLAPS

\* A nonempty set of naturals has a least element: the intervals that start at 0
\* are well-founded under strict inclusion.
LEMMA LeastOf ==
  ASSUME NEW S \in SUBSET Nat, S # {}
  PROVE  \E n \in S : \A m \in S : n <= m
<1> DEFINE F == {0..n : n \in S}
<1>1. F \subseteq FiniteSubsetsOf(Nat)
  <2> SUFFICES ASSUME NEW n \in S PROVE 0..n \in FiniteSubsetsOf(Nat)
    OBVIOUS
  <2>1. IsFiniteSet(0..n)
    BY FS_Interval
  <2> QED
    BY <2>1 DEF FiniteSubsetsOf
<1>2. PICK x \in F : \A y \in F : <<y, x>> \notin StrictSubsetOrdering(Nat)
  <2>1. F # {}
    OBVIOUS
  <2> HIDE DEF F
  <2> QED
    BY <1>1, <2>1, FS_StrictSubsetOrderingWellFounded, WFMin
<1>3. PICK n \in S : x = 0..n
  OBVIOUS
<1>4. ASSUME NEW m \in S PROVE n <= m
  <2> SUFFICES ASSUME m < n PROVE FALSE
    OBVIOUS
  <2>1. 0..m \subseteq 0..n /\ 0..m # 0..n
    <3>1. n \in 0..n /\ n \notin 0..m
      OBVIOUS
    <3> QED BY <3>1
  <2>2. <<0..m, 0..n>> \in StrictSubsetOrdering(Nat)
    BY <2>1 DEF StrictSubsetOrdering
  <2> QED
    BY <1>2, <1>3, <2>2
<1> QED
  BY <1>4

\* One step of a selection, and the selections from all heads of a list.
Taken(s, T, f, n) == IF n = 0 THEN <<>>
                     ELSE IF s[n] \in T THEN Append(f[n - 1], s[n]) ELSE f[n - 1]
Heads(s, T, f, n) == f = [i \in 0..n |-> Taken(s, T, f, i)]

LEMMA HeadsExist ==
  ASSUME NEW s, NEW T, NEW n \in Nat
  PROVE  \E f : Heads(s, T, f, n)
<1> DEFINE Bad == {m \in Nat : ~\E f : Heads(s, T, f, m)}
<1> SUFFICES ASSUME Bad # {} PROVE FALSE
  OBVIOUS
<1>1. PICK m \in Bad : \A k \in Bad : m <= k
  <2> HIDE DEF Bad
  <2>1. Bad \in SUBSET Nat
    BY DEF Bad
  <2> QED
    BY <2>1, LeastOf
<1>2. m # 0
  <2> DEFINE g == [i \in 0..0 |-> <<>>]
  <2>1. Heads(s, T, g, 0)
    <3>1. \A i \in 0..0 : Taken(s, T, g, i) = <<>>
      BY DEF Taken
    <3> QED
      BY <3>1 DEF Heads
  <2> QED
    BY <2>1
<1>3. m \in Nat /\ m - 1 \in Nat /\ m - 1 \notin Bad
  BY <1>1, <1>2
<1>4. PICK f : Heads(s, T, f, m - 1)
  BY <1>3
<1> DEFINE g == [i \in 0..m |-> Taken(s, T, f, i)]
<1>5. \A i \in 0..(m - 1) : f[i] = Taken(s, T, f, i)
  BY <1>4 DEF Heads
<1>6. \A i \in 0..(m - 1) : g[i] = f[i]
  BY <1>3, <1>5
<1>7. \A i \in 0..m : Taken(s, T, g, i) = Taken(s, T, f, i)
  <2> HIDE DEF g
  <2> SUFFICES ASSUME NEW i \in 0..m PROVE Taken(s, T, g, i) = Taken(s, T, f, i)
    OBVIOUS
  <2>1. i # 0 => i - 1 \in 0..(m - 1)
    BY <1>3
  <2> QED
    BY <1>6, <2>1 DEF Taken
<1>8. g = [i \in 0..m |-> Taken(s, T, g, i)]
  BY <1>7
<1> QED
  BY <1>8 DEF Heads

LEMMA MatchingHeads ==
  ASSUME NEW s, Len(s) \in Nat, NEW T
  PROVE  \E f : Heads(s, T, f, Len(s)) /\ Matching(s, T) = f[Len(s)]
<1> DEFINE f == CHOOSE f : Heads(s, T, f, Len(s))
<1>1. Heads(s, T, f, Len(s))
  BY HeadsExist
<1>2. Matching(s, T) = f[Len(s)]
  BY DEF Matching, Heads, Taken
<1> QED
  BY <1>1, <1>2

\* m selects from the first n elements of s, at the positions h.
Picks(m, s, T, n, h) ==
  /\ h \in [1..Len(m) -> 1..n]
  /\ \A i, j \in 1..Len(m) : i < j => h[i] < h[j]
  /\ \A i \in 1..Len(m) : m[i] = s[h[i]] /\ s[h[i]] \in T
  /\ \A k \in 1..n : s[k] \in T => \E i \in 1..Len(m) : h[i] = k

LEMMA HeadsPick ==
  ASSUME NEW S, NEW s \in Seq(S), NEW T, NEW f, Heads(s, T, f, Len(s)), NEW n \in 0..Len(s)
  PROVE  f[n] \in Seq(S) /\ \E h : Picks(f[n], s, T, n, h)
<1> DEFINE Bad == {m \in Nat : m <= Len(s) /\ ~(f[m] \in Seq(S) /\ \E h : Picks(f[m], s, T, m, h))}
<1> SUFFICES ASSUME Bad # {} PROVE FALSE
  OBVIOUS
<1>1. PICK m \in Bad : \A k \in Bad : m <= k
  <2> HIDE DEF Bad
  <2>1. Bad \in SUBSET Nat
    BY DEF Bad
  <2> QED
    BY <2>1, LeastOf
<1>0. m \in 0..Len(s) /\ f[m] = Taken(s, T, f, m)
  BY <1>1 DEF Heads
<1>2. m # 0
  <2> SUFFICES ASSUME m = 0 PROVE FALSE
    OBVIOUS
  <2>1. f[m] = <<>>
    BY <1>0 DEF Taken
  <2>2. 1..Len(<<>>) = {} /\ 1..0 = {}
    OBVIOUS
  <2>3. Picks(<<>>, s, T, 0, [i \in {} |-> 0])
    BY <2>2 DEF Picks
  <2>4. <<>> \in Seq(S)
    OBVIOUS
  <2> QED
    BY <1>1, <2>1, <2>3, <2>4
<1>3. m \in Nat /\ m - 1 \in Nat /\ m - 1 \notin Bad /\ m - 1 <= Len(s) /\ Len(s) \in Nat
  BY <1>1, <1>2
<1> DEFINE g == f[m - 1]
<1>4. g \in Seq(S) /\ \E h : Picks(g, s, T, m - 1, h)
  BY <1>3
<1>5. PICK h : Picks(g, s, T, m - 1, h)
  BY <1>4
<1> HIDE DEF g
<1>6. CASE s[m] \in T
  <2>1. f[m] = Append(g, s[m])
    BY <1>0, <1>2, <1>6 DEF Taken, g
  <2>2. s[m] \in S
    BY <1>2, <1>3
  <2>3. f[m] \in Seq(S) /\ Len(f[m]) = Len(g) + 1 /\ Len(g) \in Nat
    BY <1>4, <2>1, <2>2
  <2>4. \A i \in 1..Len(f[m]) : f[m][i] = IF i = Len(f[m]) THEN s[m] ELSE g[i]
    BY <1>4, <2>1, <2>2, <2>3
  <2> DEFINE k == [i \in 1..Len(f[m]) |-> IF i = Len(f[m]) THEN m ELSE h[i]]
  <2>5. \A i \in 1..Len(f[m]) : i # Len(f[m]) => i \in 1..Len(g)
    BY <2>3
  <2>6. k \in [1..Len(f[m]) -> 1..m]
    BY <1>3, <1>5, <2>5 DEF Picks
  <2>7. ASSUME NEW i \in 1..Len(f[m]), NEW j \in 1..Len(f[m]), i < j PROVE k[i] < k[j]
    <3>0. i # Len(f[m])
      BY <2>3, <2>7
    <3>1. i \in 1..Len(g) /\ k[i] = h[i] /\ h[i] \in 1..(m - 1)
      BY <1>5, <2>5, <3>0 DEF Picks
    <3>2. CASE j = Len(f[m])
      BY <1>3, <3>1, <3>2
    <3>3. CASE j # Len(f[m])
      BY <1>5, <2>5, <2>7, <3>1, <3>3 DEF Picks
    <3> QED BY <3>2, <3>3
  <2>8. \A i \in 1..Len(f[m]) : f[m][i] = s[k[i]] /\ s[k[i]] \in T
    BY <1>5, <1>6, <2>4, <2>5 DEF Picks
  <2>9. ASSUME NEW x \in 1..m, s[x] \in T PROVE \E i \in 1..Len(f[m]) : k[i] = x
    <3>1. CASE x = m
      <4>1. Len(f[m]) \in 1..Len(f[m]) /\ k[Len(f[m])] = m
        BY <2>3
      <4> QED BY <3>1, <4>1
    <3>2. CASE x # m
      <4>1. x \in 1..(m - 1)
        BY <1>3, <3>2
      <4>2. PICK i \in 1..Len(g) : h[i] = x
        BY <1>5, <2>9, <4>1 DEF Picks
      <4>3. i \in 1..Len(f[m]) /\ i # Len(f[m]) /\ k[i] = x
        BY <2>3, <4>2
      <4> QED BY <4>3
    <3> QED BY <3>1, <3>2
  <2> HIDE DEF k
  <2>10. Picks(f[m], s, T, m, k)
    BY <2>6, <2>7, <2>8, <2>9 DEF Picks
  <2> QED
    BY <1>1, <2>3, <2>10
<1>7. CASE s[m] \notin T
  <2>1. f[m] = g
    BY <1>0, <1>2, <1>7 DEF Taken, g
  <2>2. h \in [1..Len(g) -> 1..m]
    BY <1>3, <1>5 DEF Picks
  <2>3. \A x \in 1..m : s[x] \in T => x \in 1..(m - 1)
    BY <1>3, <1>7
  <2>4. Picks(g, s, T, m, h)
    BY <1>5, <2>2, <2>3 DEF Picks
  <2> QED
    BY <1>1, <1>4, <2>1, <2>4
<1> QED
  BY <1>6, <1>7

\* Matching selects from the whole list.
LEMMA MatchingIs ==
  ASSUME NEW S, NEW s \in Seq(S), NEW T
  PROVE  /\ Matching(s, T) \in Seq(S)
         /\ \E h : Picks(Matching(s, T), s, T, Len(s), h)
<1>1. Len(s) \in Nat
  OBVIOUS
<1>2. PICK f : Heads(s, T, f, Len(s)) /\ Matching(s, T) = f[Len(s)]
  BY <1>1, MatchingHeads
<1> QED
  BY <1>1, <1>2, HeadsPick

\* Its elements are those of s that lie in T.
LEMMA MatchingElements ==
  ASSUME NEW S, NEW s \in Seq(S), NEW T
  PROVE  /\ Matching(s, T) \in Seq(S)
         /\ \A i \in DOMAIN Matching(s, T) : Matching(s, T)[i] \in T
         /\ \A i \in DOMAIN Matching(s, T) : \E k \in DOMAIN s : Matching(s, T)[i] = s[k]
         /\ \A k \in DOMAIN s : s[k] \in T => \E i \in DOMAIN Matching(s, T) : Matching(s, T)[i] = s[k]
<1> DEFINE m == Matching(s, T)
<1>1. m \in Seq(S) /\ \E h : Picks(m, s, T, Len(s), h)
  BY MatchingIs
<1> HIDE DEF m
<1>2. DOMAIN m = 1..Len(m) /\ DOMAIN s = 1..Len(s)
  BY <1>1
<1>3. PICK h : Picks(m, s, T, Len(s), h)
  BY <1>1
<1>4. \A i \in 1..Len(m) : m[i] \in T /\ h[i] \in 1..Len(s) /\ m[i] = s[h[i]]
  BY <1>3 DEF Picks
<1>5. \A k \in 1..Len(s) : s[k] \in T => \E i \in 1..Len(m) : m[i] = s[k]
  BY <1>3 DEF Picks
<1> QED
  BY <1>1, <1>2, <1>4, <1>5 DEF m

\* Elements at two places come from two places.
LEMMA MatchingApart ==
  ASSUME NEW S, NEW s \in Seq(S), NEW T
  PROVE  \A i, j \in DOMAIN Matching(s, T) : i # j =>
           \E k, l \in DOMAIN s : k # l /\ Matching(s, T)[i] = s[k] /\ Matching(s, T)[j] = s[l]
<1> DEFINE m == Matching(s, T)
<1>1. m \in Seq(S) /\ \E h : Picks(m, s, T, Len(s), h)
  BY MatchingIs
<1> HIDE DEF m
<1>2. DOMAIN m = 1..Len(m) /\ DOMAIN s = 1..Len(s)
  BY <1>1
<1>3. PICK h : Picks(m, s, T, Len(s), h)
  BY <1>1
<1>4. ASSUME NEW i \in DOMAIN m, NEW j \in DOMAIN m, i # j
      PROVE  \E k, l \in DOMAIN s : k # l /\ m[i] = s[k] /\ m[j] = s[l]
  <2>0. i \in 1..Len(m) /\ j \in 1..Len(m) /\ Len(m) \in Nat
    BY <1>1, <1>2
  <2>1. \A a, b \in 1..Len(m) : a < b => h[a] < h[b]
    BY <1>3 DEF Picks
  <2>2. \A a \in 1..Len(m) : h[a] \in 1..Len(s) /\ m[a] = s[h[a]]
    BY <1>3 DEF Picks
  <2>3. i < j \/ j < i
    BY <1>4, <2>0
  <2>4. h[i] # h[j] /\ h[i] \in DOMAIN s /\ h[j] \in DOMAIN s
    BY <1>2, <2>0, <2>1, <2>2, <2>3
  <2> QED BY <2>0, <2>2, <2>4
<1>5. \A i, j \in DOMAIN m : i # j => \E k, l \in DOMAIN s : k # l /\ m[i] = s[k] /\ m[j] = s[l]
  BY <1>4
<1> QED
  BY <1>5 DEF m

\* The orders of a finite set are lists of all its elements, each once.
LEMMA EveryOrder ==
  ASSUME NEW S, IsFiniteSet(S), NEW f \in [1..Cardinality(S) -> S],
         \A i, j \in 1..Cardinality(S) : f[i] = f[j] => i = j
  PROVE  /\ f \in Seq(S) /\ DOMAIN f = 1..Len(f)
         /\ \A k \in S : \E j \in DOMAIN f : f[j] = k
<1> DEFINE n == Cardinality(S)
<1>1. n \in Nat
  BY FS_CardinalityType
<1> HIDE DEF n
<1>2. f \in [1..n -> S] /\ (\A i, j \in 1..n : f[i] = f[j] => i = j) /\ n = Cardinality(S)
  BY DEF n
<1>3. f \in Injection(1..n, S)
  BY <1>2, Fun_IsInj
<1>4. IsFiniteSet(1..n) /\ Cardinality(1..n) = n
  BY <1>1, FS_Interval
<1>5. f \in Surjection(1..n, S)
  BY <1>2, <1>3, <1>4, FS_Injection
<1>6. f \in Seq(S) /\ Len(f) = n
  BY <1>1, <1>2
<1> QED
  BY <1>2, <1>5, <1>6, Fun_SurjectionProperties

LEMMA SetToSeqsIs ==
  ASSUME NEW S, IsFiniteSet(S), NEW ks \in SetToSeqs(S)
  PROVE  /\ ks \in Seq(S) /\ DOMAIN ks = 1..Len(ks)
         /\ \A k \in S : \E j \in DOMAIN ks : ks[j] = k
         /\ \A i, j \in DOMAIN ks : ks[i] = ks[j] => i = j
<1>1. /\ ks \in [1..Cardinality(S) -> S]
      /\ \A i, j \in 1..Cardinality(S) : ks[i] = ks[j] => i = j
  BY DEF SetToSeqs
<1> QED
  BY <1>1, EveryOrder

LEMMA SetToSeqIs ==
  ASSUME NEW S, IsFiniteSet(S)
  PROVE  /\ SetToSeq(S) \in Seq(S) /\ DOMAIN SetToSeq(S) = 1..Len(SetToSeq(S))
         /\ \A k \in S : \E j \in DOMAIN SetToSeq(S) : SetToSeq(S)[j] = k
         /\ \A i, j \in DOMAIN SetToSeq(S) : SetToSeq(S)[i] = SetToSeq(S)[j] => i = j
<1> DEFINE n == Cardinality(S)
<1>1. n \in Nat /\ ExistsBijection(1..n, S)
  BY FS_CardinalityType
<1>2. PICK b : b \in Bijection(1..n, S)
  BY <1>1 DEF ExistsBijection
<1>3. b \in [1..n -> S] /\ IsInjective(b)
  <2> HIDE DEF n
  <2>1. b \in [1..n -> S] /\ (\A i, j \in 1..n : b[i] = b[j] => i = j)
    BY <1>2, Fun_BijectionProperties
  <2> QED
    BY <2>1 DEF IsInjective
<1>4. SetToSeq(S) \in [1..n -> S] /\ IsInjective(SetToSeq(S))
  BY <1>3 DEF SetToSeq
<1>5. \A i, j \in 1..n : SetToSeq(S)[i] = SetToSeq(S)[j] => i = j
  BY <1>4 DEF IsInjective
<1> QED
  BY <1>4, <1>5, EveryOrder

\* Steps put in the place of the first element of a list.
LEMMA InPlaceOfHead ==
  ASSUME NEW S, NEW a \in Seq(S), NEW t \in Seq(S), t # <<>>
  PROVE  /\ a \o Tail(t) \in Seq(S)
         /\ Len(a \o Tail(t)) = Len(a) + Len(t) - 1
         /\ Len(a) \in Nat /\ Len(t) \in Nat \ {0}
         /\ DOMAIN a = 1..Len(a) /\ DOMAIN t = 1..Len(t)
         /\ DOMAIN (a \o Tail(t)) = 1..(Len(a) + Len(t) - 1)
         /\ \A k \in 1..Len(a) : (a \o Tail(t))[k] = a[k]
         /\ \A k \in 2..Len(t) : (a \o Tail(t))[Len(a) + k - 1] = t[k]
         /\ \A k \in 1..(Len(a) + Len(t) - 1) :
              IF k <= Len(a) THEN (a \o Tail(t))[k] = a[k]
              ELSE k - Len(a) + 1 \in 2..Len(t) /\ (a \o Tail(t))[k] = t[k - Len(a) + 1]
<1>1. Tail(t) \in Seq(S) /\ Len(t) \in Nat \ {0} /\ Len(Tail(t)) = Len(t) - 1 /\ Len(a) \in Nat
  OBVIOUS
<1>2. \A k \in 1..(Len(t) - 1) : Tail(t)[k] = t[k + 1]
  OBVIOUS
<1>3. /\ a \o Tail(t) \in Seq(S) /\ Len(a \o Tail(t)) = Len(a) + Len(t) - 1
      /\ \A k \in 1..(Len(a) + Len(t) - 1) :
           (a \o Tail(t))[k] = IF k <= Len(a) THEN a[k] ELSE Tail(t)[k - Len(a)]
  BY <1>1
<1>4. ASSUME NEW k \in 1..(Len(a) + Len(t) - 1), ~(k <= Len(a))
      PROVE  k - Len(a) + 1 \in 2..Len(t) /\ (a \o Tail(t))[k] = t[k - Len(a) + 1]
  <2>1. k - Len(a) \in 1..(Len(t) - 1)
    BY <1>1, <1>4
  <2>2. Tail(t)[k - Len(a)] = t[k - Len(a) + 1]
    BY <1>2, <2>1
  <2> QED
    BY <1>1, <1>3, <1>4, <2>1, <2>2
<1>5. ASSUME NEW k \in 2..Len(t) PROVE (a \o Tail(t))[Len(a) + k - 1] = t[k]
  <2>1. /\ Len(a) + k - 1 \in 1..(Len(a) + Len(t) - 1)
        /\ ~(Len(a) + k - 1 <= Len(a)) /\ (Len(a) + k - 1) - Len(a) + 1 = k
    BY <1>1
  <2> QED
    BY <1>4, <2>1
<1>6. \A k \in 1..Len(a) : (a \o Tail(t))[k] = a[k]
  BY <1>1, <1>3
<1>7. DOMAIN a = 1..Len(a) /\ DOMAIN t = 1..Len(t) /\ DOMAIN (a \o Tail(t)) = 1..(Len(a) + Len(t) - 1)
  BY <1>3
<1> QED
  BY <1>1, <1>3, <1>4, <1>5, <1>6, <1>7

\* Lists of up to three given elements.
LEMMA Tuples ==
  ASSUME NEW S, NEW a \in S, NEW b \in S, NEW c \in S
  PROVE  /\ <<a>> \in Seq(S) /\ Len(<<a>>) = 1 /\ DOMAIN <<a>> = 1..1 /\ <<a>>[1] = a
         /\ <<a, b>> \in Seq(S) /\ Len(<<a, b>>) = 2 /\ DOMAIN <<a, b>> = 1..2
         /\ <<a, b>>[1] = a /\ <<a, b>>[2] = b
         /\ <<a, b, c>> \in Seq(S) /\ Len(<<a, b, c>>) = 3 /\ DOMAIN <<a, b, c>> = 1..3
         /\ <<a, b, c>>[1] = a /\ <<a, b, c>>[2] = b /\ <<a, b, c>>[3] = c
         /\ \A k \in 1..1 : k = 1
         /\ \A k \in 1..2 : k = 1 \/ k = 2
         /\ \A k \in 1..3 : k = 1 \/ k = 2 \/ k = 3
OBVIOUS

\* Two lists, one after the other.
LEMMA TwoLists ==
  ASSUME NEW S, NEW a \in Seq(S), NEW b \in Seq(S)
  PROVE  /\ a \o b \in Seq(S) /\ Len(a) \in Nat /\ Len(b) \in Nat
         /\ Len(a \o b) = Len(a) + Len(b) /\ DOMAIN (a \o b) = 1..(Len(a) + Len(b))
         /\ DOMAIN a = 1..Len(a) /\ DOMAIN b = 1..Len(b)
         /\ \A k \in 1..Len(a) : (a \o b)[k] = a[k]
         /\ \A k \in 1..Len(b) : Len(a) + k \in 1..(Len(a) + Len(b)) /\ (a \o b)[Len(a) + k] = b[k]
         /\ \A k \in 1..(Len(a) + Len(b)) :
              IF k <= Len(a) THEN k \in 1..Len(a) /\ (a \o b)[k] = a[k]
              ELSE k - Len(a) \in 1..Len(b) /\ (a \o b)[k] = b[k - Len(a)]
<1>1. /\ Len(a) \in Nat /\ Len(b) \in Nat /\ a \o b \in Seq(S) /\ Len(a \o b) = Len(a) + Len(b)
      /\ DOMAIN a = 1..Len(a) /\ DOMAIN b = 1..Len(b)
  OBVIOUS
<1>2. \A k \in 1..(Len(a) + Len(b)) : (a \o b)[k] = IF k <= Len(a) THEN a[k] ELSE b[k - Len(a)]
  BY <1>1
<1>3. DOMAIN (a \o b) = 1..(Len(a) + Len(b))
  BY <1>1
<1>4. \A k \in 1..Len(a) : (a \o b)[k] = a[k]
  BY <1>1, <1>2
<1>5. ASSUME NEW k \in 1..Len(b)
      PROVE  Len(a) + k \in 1..(Len(a) + Len(b)) /\ (a \o b)[Len(a) + k] = b[k]
  <2>1. Len(a) + k \in 1..(Len(a) + Len(b)) /\ ~(Len(a) + k <= Len(a)) /\ (Len(a) + k) - Len(a) = k
    BY <1>1
  <2> QED BY <1>2, <2>1
<1>6. ASSUME NEW k \in 1..(Len(a) + Len(b))
      PROVE  IF k <= Len(a) THEN k \in 1..Len(a) /\ (a \o b)[k] = a[k]
             ELSE k - Len(a) \in 1..Len(b) /\ (a \o b)[k] = b[k - Len(a)]
  BY <1>1, <1>2
<1> QED
  BY <1>1, <1>3, <1>4, <1>5, <1>6

LEMMA Before ==
  ASSUME NEW S, NEW x \in S, NEW b \in Seq(S)
  PROVE  /\ <<x>> \o b \in Seq(S) /\ Len(<<x>> \o b) = Len(b) + 1 /\ Len(b) \in Nat
         /\ DOMAIN (<<x>> \o b) = 1..(Len(b) + 1) /\ DOMAIN b = 1..Len(b)
         /\ (<<x>> \o b)[1] = x
         /\ \A k \in 1..Len(b) : (<<x>> \o b)[k + 1] = b[k]
         /\ \A k \in 1..(Len(b) + 1) : k = 1 \/ (k - 1 \in 1..Len(b) /\ (<<x>> \o b)[k] = b[k - 1])
OBVIOUS

LEMMA After ==
  ASSUME NEW S, NEW x \in S, NEW a \in Seq(S)
  PROVE  /\ a \o <<x>> \in Seq(S) /\ Len(a \o <<x>>) = Len(a) + 1 /\ Len(a) \in Nat
         /\ DOMAIN (a \o <<x>>) = 1..(Len(a) + 1) /\ DOMAIN a = 1..Len(a)
         /\ (a \o <<x>>)[Len(a) + 1] = x
         /\ \A k \in 1..Len(a) : (a \o <<x>>)[k] = a[k]
         /\ \A k \in 1..(Len(a) + 1) : k = Len(a) + 1 \/ (k \in 1..Len(a) /\ (a \o <<x>>)[k] = a[k])
OBVIOUS

LEMMA TwoMore ==
  ASSUME NEW S, NEW h \in Seq(S), NEW c \in S, NEW d \in S
  PROVE  Len(h) = 2 =>
         /\ (h \o <<c>>) \o <<d>> \in Seq(S) /\ Len((h \o <<c>>) \o <<d>>) = 4
         /\ DOMAIN ((h \o <<c>>) \o <<d>>) = 1..4
         /\ ((h \o <<c>>) \o <<d>>)[1] = h[1] /\ ((h \o <<c>>) \o <<d>>)[2] = h[2]
         /\ ((h \o <<c>>) \o <<d>>)[3] = c /\ ((h \o <<c>>) \o <<d>>)[4] = d
<1> DEFINE t == h \o <<c>>
           u == t \o <<d>>
<1>1. /\ t \in Seq(S) /\ Len(t) = Len(h) + 1 /\ t[Len(h) + 1] = c
      /\ \A k \in 1..Len(h) : t[k] = h[k]
  BY After
<1>5. t \in Seq(S)
  BY <1>1
<1>3. /\ u \in Seq(S) /\ Len(u) = Len(t) + 1 /\ DOMAIN u = 1..(Len(t) + 1) /\ u[Len(t) + 1] = d
      /\ \A k \in 1..Len(t) : u[k] = t[k]
  <2> HIDE DEF t
  <2> QED
    BY <1>5, After
<1>0. SUFFICES ASSUME Len(h) = 2
               PROVE  /\ u \in Seq(S) /\ Len(u) = 4 /\ DOMAIN u = 1..4
                      /\ u[1] = h[1] /\ u[2] = h[2] /\ u[3] = c /\ u[4] = d
  OBVIOUS
<1>2. t \in Seq(S) /\ Len(t) = 3 /\ t[1] = h[1] /\ t[2] = h[2] /\ t[3] = c
  BY <1>0, <1>1
<1> HIDE DEF t, u
<1>4. /\ u \in Seq(S) /\ Len(u) = 4 /\ DOMAIN u = 1..4
      /\ u[1] = h[1] /\ u[2] = h[2] /\ u[3] = c /\ u[4] = d
  BY <1>2, <1>3
<1> QED
  BY <1>4

\* A list of one element has nothing behind it.
LEMMA LastStep ==
  ASSUME NEW S, NEW t \in Seq(S), Len(t) = 1, NEW u \in Seq(S)
  PROVE  u \o Tail(t) = u
<1>1. t # <<>>
  BY EmptySeq
<1>2. Tail(t) \in Seq(S) /\ Len(Tail(t)) = 0
  BY <1>1, HeadTailProperties
<1>3. Tail(t) = <<>>
  BY <1>2, EmptySeq
<1> QED
  BY <1>3, ConcatEmptySeq
===============================================================================
