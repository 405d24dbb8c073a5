----------------------------- MODULE ListsProofs -----------------------------
(* What Kept keeps. *)
EXTENDS Lists, FiniteSetTheorems, SequenceTheorems, WellFoundedInduction, TLAPS

LEMMA PlacesBelow ==
    ASSUME NEW places \in SUBSET Nat, IsFiniteSet(places), NEW n \in places
    PROVE  /\ IsFiniteSet({m \in places : m <= n})
           /\ Cardinality({m \in places : m <= n}) \in 1 .. Cardinality(places)
<1> DEFINE below == {m \in places : m <= n}
<1>1. below \in SUBSET places
  OBVIOUS
<1>2. IsFiniteSet(below) /\ Cardinality(below) <= Cardinality(places)
  BY <1>1, FS_Subset
<1>3. Cardinality(below) \in Nat /\ Cardinality(places) \in Nat
  BY <1>2, FS_CardinalityType
<1>4. Cardinality(below) # 0
  <2>1. n \in below
    OBVIOUS
  <2> QED BY <2>1, <1>2, FS_EmptySet
<1> QED BY <1>2, <1>3, <1>4

\* A place further down has more places up to it.
LEMMA PlacesApart ==
    ASSUME NEW places \in SUBSET Nat, IsFiniteSet(places), NEW m \in places, NEW n \in places, m < n
    PROVE  Cardinality({k \in places : k <= m}) < Cardinality({k \in places : k <= n})
<1> DEFINE low == {k \in places : k <= m}
           high == {k \in places : k <= n}
<1>1. \A k \in places : k \in Nat /\ (k <= m => k <= n)
  OBVIOUS
<1>4. low \in SUBSET high /\ n \in high
  <2>1. ASSUME NEW k \in low PROVE k \in high
    BY <1>1
  <2>2. n \in high
    BY <1>1
  <2> QED BY <2>1, <2>2
<1>5. n \notin low
  BY <1>1
<1>2. IsFiniteSet(high) /\ IsFiniteSet(low)
  BY PlacesBelow
<1> HIDE DEF low, high
<1>3. Cardinality(low) <= Cardinality(high) /\ Cardinality(low) # Cardinality(high)
  BY <1>2, <1>4, <1>5, FS_Subset
<1>6. Cardinality(low) < Cardinality(high)
  BY <1>2, <1>3, FS_CardinalityType
<1> QED BY <1>6 DEF low, high

\* Every number up to the size of the set is the rank of one place.
LEMMA PlaceOfRank ==
    ASSUME NEW places \in SUBSET Nat, IsFiniteSet(places), NEW k \in 1 .. Cardinality(places)
    PROVE  /\ Place(places, k) \in places
           /\ Cardinality({m \in places : m <= Place(places, k)}) = k
<1> DEFINE rank == [n \in places |-> Cardinality({m \in places : m <= n})]
           ranks == 1 .. Cardinality(places)
<1>1. rank \in [places -> ranks]
  BY PlacesBelow
<1>2. \A m, n \in places : rank[m] = rank[n] => m = n
  <2> SUFFICES ASSUME NEW m \in places, NEW n \in places, m < n
               PROVE  rank[m] # rank[n]
    OBVIOUS
  <2>1. rank[m] < rank[n]
    BY PlacesApart
  <2>2. rank[m] \in Nat /\ rank[n] \in Nat
    BY <1>1
  <2> QED BY <2>1, <2>2
<1> HIDE DEF rank
<1>3. rank \in Injection(places, ranks)
  BY <1>1, <1>2, Zenon DEF Injection, IsInjective
<1>4. Cardinality(places) \in Nat
  BY FS_CardinalityType
<1>5. IsFiniteSet(ranks) /\ Cardinality(ranks) = Cardinality(places)
  BY <1>4, FS_Interval
<1>6. rank \in Surjection(places, ranks)
  BY <1>3, <1>5, FS_Injection
<1>7. \E n \in places : rank[n] = k
  BY <1>6 DEF Surjection
<1>8. \E n \in places : Cardinality({m \in places : m <= n}) = k
  BY <1>7 DEF rank
<1> QED BY <1>8, Zenon DEF Place

\* The places in their order, each of them once.
LEMMA PlacesInOrder ==
    ASSUME NEW places \in SUBSET Nat, IsFiniteSet(places)
    PROVE  /\ Cardinality(places) \in Nat
           /\ \A k \in 1 .. Cardinality(places) : Place(places, k) \in places
           /\ \A j, k \in 1 .. Cardinality(places) : j < k <=> Place(places, j) < Place(places, k)
           /\ \A n \in places : \E k \in 1 .. Cardinality(places) : Place(places, k) = n
<1>3. Cardinality(places) \in Nat
  BY FS_CardinalityType
<1> DEFINE card == Cardinality(places)
           upTo(n) == Cardinality({m \in places : m <= n})
<1>5. \A k \in 1 .. card : Place(places, k) \in places /\ upTo(Place(places, k)) = k
  BY PlaceOfRank
<1>6. \A m, n \in places : m < n => upTo(m) < upTo(n)
  BY PlacesApart
<1>7. \A n \in places : upTo(n) \in 1 .. card
  BY PlacesBelow
<1> HIDE DEF upTo
<1>8. \A j, k \in 1 .. card : j < k <=> Place(places, j) < Place(places, k)
  <2> SUFFICES ASSUME NEW j \in 1 .. card, NEW k \in 1 .. card
               PROVE  j < k <=> Place(places, j) < Place(places, k)
    OBVIOUS
  <2>1. PICK m \in places : m = Place(places, j) /\ upTo(m) = j
    BY <1>5
  <2>2. PICK n \in places : n = Place(places, k) /\ upTo(n) = k
    BY <1>5
  <2>3. m \in Nat /\ n \in Nat /\ (m < n => j < k) /\ (n < m => k < j) /\ (m = n => j = k)
    BY <1>6, <2>1, <2>2
  <2> QED BY <2>1, <2>2, <2>3
<1>9. \A n \in places : \E k \in 1 .. card : Place(places, k) = n
  <2> SUFFICES ASSUME NEW n \in places PROVE Place(places, upTo(n)) = n
    BY <1>7
  <2>1. PICK m \in places : m = Place(places, upTo(n)) /\ upTo(m) = upTo(n)
    BY <1>5, <1>7
  <2>2. ~(m < n) /\ ~(n < m)
    BY <1>3, <1>6, <1>7, <2>1
  <2> QED BY <2>1, <2>2
<1> QED BY <1>3, <1>5, <1>8, <1>9

\* A kept list is the places in their order, each of them once.
LEMMA KeptPlaces ==
    ASSUME NEW S, NEW list \in Seq(S), NEW places \in SUBSET DOMAIN list
    PROVE  /\ IsFiniteSet(places) /\ Cardinality(places) \in 0 .. Len(list)
           /\ Kept(list, places) \in Seq(S)
           /\ Len(Kept(list, places)) = Cardinality(places)
           /\ \A k \in 1 .. Cardinality(places) :
                 Place(places, k) \in places /\ Kept(list, places)[k] = list[Place(places, k)]
           /\ \A j, k \in 1 .. Cardinality(places) : j < k <=> Place(places, j) < Place(places, k)
           /\ \A n \in places : \E k \in 1 .. Cardinality(places) : Place(places, k) = n
<1>1. DOMAIN list = 1 .. Len(list) /\ Len(list) \in Nat
  OBVIOUS
<1>2. IsFiniteSet(DOMAIN list) /\ Cardinality(DOMAIN list) = Len(list)
  <2>1. /\ IsFiniteSet(1 .. Len(list))
        /\ Cardinality(1 .. Len(list)) = IF 1 > Len(list) THEN 0 ELSE Len(list) - 1 + 1
    BY <1>1, FS_Interval
  <2> QED BY <1>1, <2>1
<1>3. IsFiniteSet(places) /\ Cardinality(places) \in 0 .. Len(list)
  BY <1>1, <1>2, FS_Subset, FS_CardinalityType
<1>4. places \in SUBSET Nat
  BY <1>1
<1> DEFINE card == Cardinality(places)
<1>5. /\ \A k \in 1 .. card : Place(places, k) \in places
      /\ \A j, k \in 1 .. card : j < k <=> Place(places, j) < Place(places, k)
      /\ \A n \in places : \E k \in 1 .. card : Place(places, k) = n
  BY <1>3, <1>4, PlacesInOrder
<1>10. \A k \in 1 .. card : list[Place(places, k)] \in S
  BY <1>5
<1>11. Kept(list, places) = [k \in 1 .. card |-> list[Place(places, k)]]
  BY DEF Kept
<1>12. Kept(list, places) \in Seq(S) /\ Len(Kept(list, places)) = card
  BY <1>3, <1>10, <1>11
<1> QED BY <1>3, <1>5, <1>11, <1>12

\* One of the places is the first.
LEMMA FirstPlace ==
    ASSUME NEW places \in SUBSET Nat, places # {}
    PROVE  \E m \in places : \A n \in places : m <= n
<1> DEFINE R == {p \in Nat \X Nat : p[1] < p[2]}
<1>1. IsWellFoundedOn(R, Nat)
  BY NatLessThanWellFounded DEF OpToRel
<1>2. \E m \in places : \A n \in places : ~(<<n, m>> \in R)
  <2> HIDE DEF R
  <2> QED BY <1>1, WFMin
<1>3. PICK m \in places : \A n \in places : ~(<<n, m>> \in R)
  BY <1>2
<1>4. ASSUME NEW n \in places PROVE m <= n
  <2>1. m \in Nat /\ n \in Nat
    OBVIOUS
  <2>2. ~(n < m)
    BY <1>3, <2>1
  <2> QED BY <2>1, <2>2
<1> QED BY <1>4

\* The last of the places up to n.
LEMMA LastPlace ==
    ASSUME NEW n \in Nat, NEW places \in SUBSET (1 .. n), places # {}
    PROVE  \E m \in places : \A k \in places : k <= m
<1> DEFINE above == {m \in Nat : \A k \in places : k <= m}
<1>1. n \in above
  OBVIOUS
<1>2. PICK m \in above : \A l \in above : m <= l
  <2>1. above \in SUBSET Nat /\ above # {}
    BY <1>1
  <2> HIDE DEF above
  <2> QED BY <2>1, FirstPlace
<1>3. PICK p \in places : p \in Nat /\ p > 0 /\ p <= m
  <2>1. PICK p : p \in places
    OBVIOUS
  <2>2. p \in 1 .. n /\ p <= m
    BY <1>2, <2>1
  <2> QED BY <2>1, <2>2
<1>4. m \in places
  <2> SUFFICES ASSUME m \notin places PROVE FALSE
    OBVIOUS
  <2>1. m \in Nat /\ m - 1 \in Nat
    BY <1>2, <1>3
  <2>2. \A k \in places : k \in Nat /\ k <= m /\ k # m
    BY <1>2
  <2>3. m - 1 \in above
    BY <2>1, <2>2
  <2>4. m <= m - 1
    BY <1>2, <2>3
  <2> QED BY <2>1, <2>4
<1> QED BY <1>2, <1>4

\* Places that reach up to the last one are the places from the first of them.
LEMMA LastPlaces ==
    ASSUME NEW l \in Nat, NEW places \in SUBSET (1 .. l), places # {},
           \A m \in places, n \in 1 .. l : m < n => n \in places
    PROVE  Cardinality(places) \in 1 .. l /\ places = (l - Cardinality(places) + 1) .. l
<1>1. PICK m \in places : \A n \in places : m <= n
  BY FirstPlace
<1>2. m \in 1 .. l
  OBVIOUS
<1>3. places = m .. l
  <2>1. ASSUME NEW n \in places PROVE n \in m .. l
    BY <1>1
  <2>2. ASSUME NEW n \in m .. l PROVE n \in places
    BY <1>2
  <2> QED BY <2>1, <2>2
<1>4. Cardinality(m .. l) = l - m + 1
  BY <1>2, FS_Interval
<1> QED BY <1>2, <1>3, <1>4
\* What holds of 0 and of each number whose predecessor it holds of, holds up to n.
LEMMA UpTo ==
    ASSUME NEW n \in Nat, NEW S, 0 \in S, \A i \in 1 .. n : i - 1 \in S => i \in S
    PROVE  0 .. n \subseteq S
<1> DEFINE T == {i \in 0 .. n : i \notin S}
<1> SUFFICES ASSUME T # {} PROVE FALSE
  OBVIOUS
<1>1. T \in SUBSET Nat
  OBVIOUS
<1>2. PICK i \in T : \A j \in T : i <= j
  <2> HIDE DEF T
  <2> QED BY <1>1, FirstPlace
<1>3. i \in 1 .. n /\ i - 1 \in 0 .. n /\ ~(i <= i - 1)
  OBVIOUS
<1>4. i - 1 \in S
  BY <1>2, <1>3
<1> QED BY <1>3, <1>4

\* A run f of a loop over n places: its state, of X, is x at first, and s makes the next one.
LoopRun(f, X, x, n, s) ==
  f \in [0 .. n -> X] /\ f[0] = x /\ \A i \in 1 .. n : f[i] = s[<<i, f[i - 1]>>]

\* A loop over n places, with a state of X and a body s: it runs, and whatever function
\* satisfies its equation does what it does.
LEMMA LoopRuns ==
    ASSUME NEW X, NEW x \in X, NEW n \in Nat, NEW s \in [(1 .. n) \X X -> X]
    PROVE  \E f : LoopRun(f, X, x, n, s)
<1> DEFINE Runs(k) == \E f \in [0 .. k -> X] : f[0] = x /\ \A i \in 1 .. k : f[i] = s[<<i, f[i - 1]>>]
           S == {k \in 0 .. n : Runs(k)}
<1>1. 0 \in S
  <2> DEFINE f == [i \in 0 .. 0 |-> x]
  <2>1. f \in [0 .. 0 -> X] /\ f[0] = x /\ \A i \in 1 .. 0 : f[i] = s[<<i, f[i - 1]>>]
    OBVIOUS
  <2>2. Runs(0)
    BY <2>1
  <2> HIDE DEF Runs
  <2> QED BY <2>2
<1>2. ASSUME NEW k \in 1 .. n, k - 1 \in S PROVE k \in S
  <2>1. PICK f \in [0 .. k - 1 -> X] : f[0] = x /\ \A i \in 1 .. k - 1 : f[i] = s[<<i, f[i - 1]>>]
    BY <1>2
  <2>2. k \in Nat /\ k > 0 /\ k - 1 \in 0 .. k - 1 /\ f[k - 1] \in X
    BY <2>1
  <2>3. s[<<k, f[k - 1]>>] \in X
    BY <2>2
  <2> DEFINE g == [i \in 0 .. k |-> IF i = k THEN s[<<k, f[k - 1]>>] ELSE f[i]]
  <2>4. \A i \in 0 .. k : i # k => i \in 0 .. k - 1
    BY <2>2
  <2>5. g \in [0 .. k -> X]
    BY <2>1, <2>3, <2>4
  <2>6. 0 \in 0 .. k /\ g[0] = x
    BY <2>1, <2>2
  <2>7. ASSUME NEW i \in 1 .. k PROVE g[i] = s[<<i, g[i - 1]>>]
    <3>1. i \in 0 .. k /\ i - 1 \in 0 .. k /\ i - 1 # k
      BY <2>2
    <3>2. g[i - 1] = f[i - 1]
      BY <3>1
    <3>3. CASE i = k
      BY <3>1, <3>2, <3>3
    <3>4. CASE i # k
      <4>1. i \in 1 .. k - 1
        BY <2>2, <3>4
      <4> QED BY <2>1, <3>1, <3>2, <3>4, <4>1
    <3> QED BY <3>3, <3>4
  <2>8. Runs(k)
    <3> HIDE DEF g
    <3> QED BY <2>5, <2>6, <2>7
  <2> HIDE DEF Runs
  <2> QED BY <1>2, <2>8
<1>3. n \in S
  <2> HIDE DEF S
  <2> QED BY <1>1, <1>2, UpTo
<1> QED BY <1>3 DEF LoopRun

\* A run f of the loop that keeps the members of S of a list over T.
KeepingRun(f, T, S, list) ==
  /\ f \in [0 .. Len(list) -> Seq(T)]
  /\ f[0] = <<>>
  /\ \A i \in 1 .. Len(list) : f[i] = IF list[i] \in S THEN Append(f[i - 1], list[i]) ELSE f[i - 1]

\* Within goes over the list once.
LEMMA WithinRuns ==
    ASSUME NEW T, NEW S, NEW list \in Seq(T)
    PROVE  \E f : KeepingRun(f, T, S, list) /\ Within(list, S) = f[Len(list)]
<1> DEFINE n == Len(list)
           X == Seq(T)
           body(i, l) == IF list[i] \in S THEN Append(l, list[i]) ELSE l
           step(f, i) == IF i = 0 THEN <<>> ELSE IF list[i] \in S THEN Append(f[i - 1], list[i]) ELSE f[i - 1]
           s == [p \in (1 .. n) \X X |-> body(p[1], p[2])]
           kept == CHOOSE f : f = [i \in 0 .. n |-> step(f, i)]
<1>1. n \in Nat /\ \A i \in 1 .. n : list[i] \in T
  BY ElementOfSeq
<1>2. \A i \in 1 .. n, l \in X : body(i, l) \in X
  BY <1>1
<1>3. s \in [(1 .. n) \X X -> X]
  <2> HIDE DEF body, X
  <2> QED BY <1>2
<1>4. \A i \in 1 .. n, l \in X : s[<<i, l>>] = body(i, l)
  <2> HIDE DEF body, X
  <2> QED OBVIOUS
<1>5. PICK g \in [0 .. n -> X] : g[0] = <<>> /\ \A i \in 1 .. n : g[i] = s[<<i, g[i - 1]>>]
  <2>1. <<>> \in X
    OBVIOUS
  <2> HIDE DEF s, X, n
  <2>2. \E f : LoopRun(f, X, <<>>, n, s)
    BY <1>1, <1>3, <2>1, LoopRuns
  <2> QED BY <2>2 DEF LoopRun
<1>6. \A i \in 0 .. n : g[i] = step(g, i)
  <2> TAKE i \in 0 .. n
  <2>1. CASE i = 0
    BY <1>5, <2>1
  <2>2. CASE i # 0
    <3>1. i \in 1 .. n /\ i - 1 \in 0 .. n /\ g[i - 1] \in X
      BY <1>1, <1>5, <2>2
    <3>2. g[i] = body(i, g[i - 1])
      <4> HIDE DEF s, body
      <4> QED BY <1>4, <1>5, <3>1
    <3> QED BY <2>2, <3>2
  <2> QED BY <2>1, <2>2
<1>7. g = [i \in 0 .. n |-> step(g, i)]
  <2> HIDE DEF step, n
  <2> QED BY <1>5, <1>6
<1>8. kept = [i \in 0 .. n |-> step(kept, i)]
  <2> HIDE DEF step, n
  <2> QED BY <1>7
<1>9. \A i \in 0 .. n : kept[i] = step(kept, i)
  <2> HIDE DEF step, kept
  <2> QED BY <1>8
<1>10. \A i \in 1 .. n : i # 0 /\ i \in 0 .. n
  BY <1>1
<1>11. kept[0] = <<>> /\ \A i \in 1 .. n : kept[i] = body(i, kept[i - 1])
  <2>1. 0 \in 0 .. n
    BY <1>1
  <2> HIDE DEF kept
  <2> QED BY <1>9, <1>10, <2>1
<1>12. \A i \in 0 .. n : kept[i] \in X
  <2> DEFINE Fine == {i \in 0 .. n : kept[i] \in X}
  <2> HIDE DEF kept
  <2>0. 0 \in 0 .. n /\ <<>> \in X
    BY <1>1
  <2>1. 0 \in Fine
    <3> HIDE DEF n, X
    <3> QED BY <1>11, <2>0
  <2>2. \A i \in 1 .. n : i - 1 \in Fine => i \in Fine
    <3> HIDE DEF body, X
    <3> QED BY <1>2, <1>10, <1>11
  <2>3. 0 .. n \subseteq Fine
    <3> HIDE DEF Fine, n
    <3> QED BY <1>1, <2>1, <2>2, UpTo
  <2> QED BY <2>3
<1>13. kept \in [0 .. n -> X]
  <2> HIDE DEF kept, step, X
  <2>1. kept = [i \in 0 .. n |-> kept[i]]
    BY <1>8, <1>9
  <2> QED BY <1>12, <2>1
<1>14. Within(list, S) = kept[n]
  BY DEF Within, Chosen
<1> HIDE DEF kept
<1> QED BY <1>11, <1>13, <1>14 DEF KeepingRun

\* What is left of a list is a list of members of S; it is all of a list that has no others.
LEMMA WithinList ==
    ASSUME NEW T, NEW S, NEW list \in Seq(T)
    PROVE  /\ Within(list, S) \in Seq(T)
           /\ \A k \in 1 .. Len(Within(list, S)) : Within(list, S)[k] \in S
           /\ (\A k \in 1 .. Len(list) : list[k] \in S) => Within(list, S) = list
<1>0. PICK f : KeepingRun(f, T, S, list) /\ Within(list, S) = f[Len(list)]
  BY WithinRuns
<1>1. /\ f \in [0 .. Len(list) -> Seq(T)]
      /\ f[0] = <<>> /\ Within(list, S) = f[Len(list)]
      /\ \A i \in 1 .. Len(list) :
            f[i] = IF list[i] \in S THEN Append(f[i - 1], list[i]) ELSE f[i - 1]
  BY <1>0 DEF KeepingRun
<1>2. PICK n \in Nat : n = Len(list)
  OBVIOUS
<1>3. \A i \in 1 .. n : list[i] \in T /\ i - 1 \in 0 .. n /\ i \in 0 .. n /\ f[i - 1] \in Seq(T)
  <2> TAKE i \in 1 .. n
  <2>1. i - 1 \in 0 .. n /\ i \in 0 .. n /\ i \in 1 .. Len(list)
    BY <1>2
  <2>2. f[i - 1] \in Seq(T)
    BY <1>1, <1>2, <2>1
  <2>3. list[i] \in T
    BY <2>1, ElementOfSeq
  <2> QED BY <2>1, <2>2, <2>3
<1>4. ASSUME NEW l \in Seq(T), NEW x \in T
      PROVE  /\ Append(l, x) \in Seq(T) /\ Len(Append(l, x)) = Len(l) + 1 /\ Len(l) \in Nat
             /\ Append(l, x)[Len(l) + 1] = x
             /\ \A k \in 1 .. Len(l) : Append(l, x)[k] = l[k]
  OBVIOUS
<1>5. \A k \in 1 .. Len(f[n]) : f[n][k] \in S
  <2> DEFINE Fine == {i \in 0 .. n : \A k \in 1 .. Len(f[i]) : f[i][k] \in S}
  <2>1. 0 \in Fine
    BY <1>1, <1>2
  <2>2. ASSUME NEW i \in 1 .. n, i - 1 \in Fine PROVE i \in Fine
    <3>1. CASE list[i] \in S
      <4>1. f[i] = Append(f[i - 1], list[i]) /\ f[i - 1] \in Seq(T) /\ list[i] \in T /\ i \in 0 .. n
        BY <1>1, <1>2, <1>3, <3>1
      <4>2. \A k \in 1 .. Len(f[i - 1]) : f[i - 1][k] \in S
        BY <2>2
      <4>3. PICK m \in Nat : m = Len(f[i - 1])
        BY <4>1
      <4>4. Len(f[i]) = m + 1 /\ f[i][m + 1] = list[i] /\ \A k \in 1 .. m : f[i][k] = f[i - 1][k]
        BY <1>4, <4>1, <4>3
      <4>5. \A k \in 1 .. m + 1 : k = m + 1 \/ k \in 1 .. m
        OBVIOUS
      <4>6. \A k \in 1 .. Len(f[i]) : f[i][k] \in S
        BY <3>1, <4>2, <4>3, <4>4, <4>5
      <4> QED BY <4>1, <4>6
    <3>2. CASE list[i] \notin S
      <4>1. f[i] = f[i - 1]
        BY <1>1, <1>2, <3>2
      <4> QED BY <1>3, <2>2, <4>1
    <3> QED BY <3>1, <3>2
  <2>3. 0 .. n \subseteq Fine
    <3> HIDE DEF Fine
    <3> QED BY <2>1, <2>2, UpTo
  <2> QED BY <2>3
<1>6. ASSUME \A k \in 1 .. n : list[k] \in S
      PROVE  f[n] = list
  <2> DEFINE Fine == {i \in 0 .. n : Len(f[i]) = i /\ \A k \in 1 .. i : f[i][k] = list[k]}
  <2>1. 0 \in Fine
    BY <1>1, <1>2
  <2>2. ASSUME NEW i \in 1 .. n, i - 1 \in Fine PROVE i \in Fine
    <3>1. f[i] = Append(f[i - 1], list[i]) /\ f[i - 1] \in Seq(T) /\ list[i] \in T /\ i \in 0 .. n
      BY <1>1, <1>2, <1>3, <1>6
    <3>2. Len(f[i - 1]) = i - 1 /\ \A k \in 1 .. i - 1 : f[i - 1][k] = list[k]
      BY <2>2
    <3>3. PICK m \in Nat : m = i - 1 /\ m + 1 = i
      OBVIOUS
    <3>4. Len(f[i]) = m + 1 /\ f[i][m + 1] = list[i] /\ \A k \in 1 .. m : f[i][k] = f[i - 1][k]
      BY <1>4, <3>1, <3>2, <3>3
    <3>5. \A k \in 1 .. i : k = i \/ k \in 1 .. m
      BY <3>3
    <3> QED BY <3>1, <3>2, <3>3, <3>4, <3>5
  <2>3. 0 .. n \subseteq Fine
    <3> HIDE DEF Fine
    <3> QED BY <2>1, <2>2, UpTo
  <2>4. n \in 0 .. n /\ f[n] \in Seq(T)
    BY <1>1, <1>2
  <2>5. Len(f[n]) = n /\ \A k \in 1 .. n : f[n][k] = list[k]
    BY <2>3, <2>4
  <2> QED BY <1>2, <2>4, <2>5
<1>7. Within(list, S) = f[n] /\ f[n] \in Seq(T)
  BY <1>1, <1>2
<1> QED BY <1>2, <1>5, <1>6, <1>7

\* Nothing of nothing is left.
LEMMA NothingWithin ==
    ASSUME NEW S
    PROVE  Within(<<>>, S) = <<>>
<1>1. <<>> \in Seq({})
  OBVIOUS
<1>2. Within(<<>>, S) \in Seq({})
  BY <1>1, WithinList, Zenon
<1>3. \A s \in Seq({}) : s = <<>>
  <2>1. ASSUME NEW s \in Seq({}), s # <<>> PROVE FALSE
    BY <2>1, ElementOfSeq
  <2> QED BY <2>1
<1> QED BY <1>2, <1>3

=============================================================================
