------------------------- MODULE ExecutionReviewProofs -------------------------
(***************************************************************************)
(* What the guard around the review of an execution promises, proved for   *)
(* every repository, every contract and everything the models may return.  *)
(***************************************************************************)
EXTENDS ExecutionReview, FiniteSetTheorems, WellFoundedInduction, TLAPS

(* What a list is: a function on an initial segment of the naturals.       *)
LEMMA Lists ==
  ASSUME NEW s
  PROVE  /\ IsList(s) => Len(s) \in Nat /\ DOMAIN s = 1 .. Len(s)
         /\ \A n \in Nat : \A S : s \in [1 .. n -> S] => IsList(s) /\ Len(s) = n
<1>1. IsList(s) => Len(s) \in Nat /\ DOMAIN s = 1 .. Len(s)
  BY DEF IsList
<1>2. ASSUME NEW n \in Nat, NEW S, s \in [1 .. n -> S] PROVE IsList(s) /\ Len(s) = n
  <2>1. s \in [1 .. n -> ToSet(s)]
    BY <1>2 DEF ToSet
  <2> QED
    BY <2>1 DEF IsList
<1> QED
  BY <1>1, <1>2

(* The first n numbers are n.                                              *)
LEMMA OneTo ==
  ASSUME NEW n \in Nat
  PROVE  IsFiniteSet(1 .. n) /\ Cardinality(1 .. n) = n
<1>1. 1 \in Int /\ n \in Int /\ (1 > n <=> n = 0) /\ n - 1 + 1 = n
  OBVIOUS
<1>2. IsFiniteSet(1 .. n) /\ Cardinality(1 .. n) = IF 1 > n THEN 0 ELSE n - 1 + 1
  BY <1>1, FS_Interval
<1> QED
  BY <1>1, <1>2

(* Positions are finitely many.                                            *)
LEMMA Positions ==
  ASSUME NEW m \in Nat, NEW K \in SUBSET (1 .. m)
  PROVE  /\ IsFiniteSet(K) /\ Cardinality(K) \in Nat
         /\ K \subseteq Nat /\ K \subseteq Int
<1>1. IsFiniteSet(K)
  BY OneTo, FS_Subset
<1>2. Cardinality(K) \in Nat
  BY <1>1, FS_CardinalityType
<1>3. \A k \in K : k \in Nat /\ k \in Int
  OBVIOUS
<1> QED
  BY <1>1, <1>2, <1>3

(* A list in which nothing repeats has each of its entries at one place.   *)
LEMMA NoRepetition ==
  ASSUME NEW s, IsList(s), ~Duplicated(s), NEW i \in DOMAIN s, NEW j \in DOMAIN s, s[i] = s[j]
  PROVE  i = j
<1>1. Len(s) \in Nat /\ DOMAIN s = 1 .. Len(s) /\ s \in [1 .. Len(s) -> ToSet(s)]
  BY Lists DEF IsList
<1>2. s \in Surjection(1 .. Len(s), ToSet(s))
  BY <1>1 DEF Surjection, ToSet
<1>3. IsFiniteSet(1 .. Len(s)) /\ Cardinality(1 .. Len(s)) = Len(s)
  BY <1>1, OneTo
<1>4. s \in Injection(1 .. Len(s), ToSet(s))
  BY <1>1, <1>2, <1>3, FS_Surjection DEF Duplicated
<1> QED
  BY <1>1, <1>4 DEF Injection, IsInjective

(* And the converse.                                                       *)
LEMMA Distinct ==
  ASSUME NEW s, IsList(s), \A i, j \in DOMAIN s : s[i] = s[j] => i = j
  PROVE  ~Duplicated(s) /\ Cardinality(ToSet(s)) = Len(s)
<1>1. Len(s) \in Nat /\ DOMAIN s = 1 .. Len(s) /\ s \in [1 .. Len(s) -> ToSet(s)]
  BY Lists DEF IsList
<1>2. s \in Bijection(1 .. Len(s), ToSet(s))
  BY <1>1 DEF Surjection, Injection, Bijection, IsInjective, ToSet
<1>3. Cardinality(ToSet(s)) = Len(s)
  BY <1>1, <1>2, FS_CountingElements DEF ExistsBijection
<1> QED
  BY <1>3 DEF Duplicated

-----------------------------------------------------------------------------
(* Positions.  The place of a position among others grows with it, and each*)
(* place is taken.                                                         *)
Rank(K, i) == Cardinality({k \in K : k <= i})

LEMMA RankGrows ==
  ASSUME NEW m \in Nat, NEW K \in SUBSET (1 .. m)
  PROVE  \A i, j \in K :
           /\ i \in Nat /\ Rank(K, i) \in 1 .. Cardinality(K) /\ Rank(K, i) \in Nat
           /\ i < j <=> Rank(K, i) < Rank(K, j)
           /\ i = j <=> Rank(K, i) = Rank(K, j)
<1> DEFINE R(x) == {k \in K : k <= x}
<1>1. IsFiniteSet(K) /\ Cardinality(K) \in Nat /\ K \subseteq Nat
  BY Positions
<1>2. ASSUME NEW x \in K
      PROVE  /\ IsFiniteSet(R(x))
             /\ Rank(K, x) \in Nat /\ 1 <= Rank(K, x) /\ Rank(K, x) <= Cardinality(K)
  <2>1. IsFiniteSet(R(x)) /\ Cardinality(R(x)) <= Cardinality(K)
    BY <1>1, FS_Subset
  <2>2. x \in Nat /\ x \in R(x)
    BY <1>1
  <2>3. Cardinality(R(x)) \in Nat
    BY <2>1, FS_CardinalityType
  <2>4. Cardinality(R(x)) # 0
    BY <2>1, <2>2, FS_EmptySet
  <2> QED
    BY <1>1, <2>1, <2>3, <2>4 DEF Rank
<1>3. ASSUME NEW x \in K, NEW y \in K, x < y PROVE Rank(K, x) < Rank(K, y)
  <2>1. x \in Nat /\ y \in Nat /\ \A k \in K : k \in Nat
    BY <1>1
  <2>2. y \in R(y) /\ y \notin R(x)
    BY <1>3, <2>1
  <2>3. \A k \in K : k <= x => k <= y
    BY <1>3, <2>1
  <2>4. R(x) \in SUBSET R(y)
    BY <2>3
  <2> HIDE DEF R
  <2>5. Cardinality(R(x)) <= Cardinality(R(y)) /\ Cardinality(R(x)) # Cardinality(R(y))
    BY <1>2, <2>2, <2>4, FS_Subset
  <2>6. Rank(K, x) = Cardinality(R(x)) /\ Rank(K, y) = Cardinality(R(y))
    BY DEF Rank, R
  <2>7. Rank(K, x) \in Nat /\ Rank(K, y) \in Nat
    BY <1>2
  <2> QED
    BY <2>5, <2>6, <2>7
<1> HIDE DEF R
<1> SUFFICES ASSUME NEW i \in K, NEW j \in K
             PROVE  /\ i \in Nat /\ Rank(K, i) \in 1 .. Cardinality(K) /\ Rank(K, i) \in Nat
                    /\ i < j <=> Rank(K, i) < Rank(K, j)
                    /\ i = j <=> Rank(K, i) = Rank(K, j)
  OBVIOUS
<1>4. i \in Nat /\ j \in Nat
  BY <1>1
<1>5. Rank(K, i) \in Nat /\ Rank(K, j) \in Nat /\ Rank(K, i) \in 1 .. Cardinality(K)
  BY <1>1, <1>2
<1>6. (i < j => Rank(K, i) < Rank(K, j)) /\ (j < i => Rank(K, j) < Rank(K, i))
  BY <1>3
<1> QED
  BY <1>4, <1>5, <1>6

(* The least of some positions is one of them.                             *)
LEMMA LeastIsOne ==
  ASSUME NEW E \in SUBSET Nat, E # {}
  PROVE  \E k \in E : \A d \in E : k <= d
<1> DEFINE R == {p \in Nat \X Nat : p[1] < p[2]}
<1>1. IsWellFoundedOn(R, Nat)
  BY NatLessThanWellFounded DEF OpToRel
<1>2. \A d, c \in Nat : d < c => <<d, c>> \in R
  OBVIOUS
<1> HIDE DEF R
<1>3. PICK k \in E : \A d \in E : ~(<<d, k>> \in R)
  BY <1>1, WFMin, Zenon
<1>4. \A d \in E : k <= d
  <2> SUFFICES ASSUME NEW d \in E PROVE k <= d
    OBVIOUS
  <2>1. d \in Nat /\ k \in Nat /\ ~(d < k)
    BY <1>2, <1>3
  <2> QED
    BY <2>1
<1> QED
  BY <1>4

LEMMA EveryRank ==
  ASSUME NEW m \in Nat, NEW K \in SUBSET (1 .. m), NEW n \in 1 .. Cardinality(K)
  PROVE  \E i \in K : Rank(K, i) = n
<1>1. IsFiniteSet(K) /\ Cardinality(K) \in Nat /\ K \subseteq Nat
  BY Positions
<1> DEFINE Bad == {c \in 1 .. Cardinality(K) : \A i \in K : Rank(K, i) # c}
<1> SUFFICES ASSUME Bad # {} PROVE FALSE
  OBVIOUS
<1>2. Bad \in SUBSET Nat
  BY <1>1
<1>3. PICK c \in Bad : \A d \in Bad : c <= d
  BY <1>2, LeastIsOne
<1>4. /\ c \in Nat /\ 1 <= c /\ c <= Cardinality(K)
      /\ \A i \in K : Rank(K, i) # c
      /\ \A d \in 1 .. Cardinality(K) : d < c => \E i \in K : Rank(K, i) = d
  BY <1>1, <1>3
<1>5. \A i, j \in K :
        /\ i \in Nat /\ Rank(K, i) \in 1 .. Cardinality(K) /\ Rank(K, i) \in Nat
        /\ i < j <=> Rank(K, i) < Rank(K, j)
        /\ i = j <=> Rank(K, i) = Rank(K, j)
  BY RankGrows
<1> HIDE DEF Bad
<1> DEFINE Low == {k \in K : Rank(K, k) < c}
<1>6. IsFiniteSet(Low) /\ Low \subseteq K /\ Cardinality(Low) = c - 1
  <2>1. IsFiniteSet(Low) /\ Low \subseteq K
    BY <1>1, FS_Subset
  <2>2. CASE c = 1
    <3>1. \A k \in K : 1 <= Rank(K, k) /\ Rank(K, k) \in Nat
      BY <1>1, <1>5
    <3>2. \A k \in K : ~(Rank(K, k) < c)
      BY <2>2, <3>1
    <3>3. Low = {}
      BY <3>2
    <3> QED
      BY <2>1, <2>2, <3>3, FS_EmptySet
  <2>3. CASE c > 1
    <3>1. c - 1 \in 1 .. Cardinality(K) /\ c - 1 < c
      BY <1>1, <1>4, <2>3
    <3>2. PICK i \in K : Rank(K, i) = c - 1
      BY <1>4, <3>1
    <3>3. \A k \in K : Rank(K, k) < c <=> k <= i
      BY <1>4, <1>5, <3>2
    <3>4. Low = {k \in K : k <= i}
      BY <3>3
    <3> QED
      BY <2>1, <3>2, <3>4 DEF Rank
  <2> QED
    BY <1>4, <2>1, <2>2, <2>3
<1>7. K \ Low # {}
  BY <1>1, <1>4, <1>6
<1>8. K \ Low \in SUBSET Nat
  BY <1>1
<1>9. PICK i \in K \ Low : \A j \in K \ Low : i <= j
  BY <1>7, <1>8, LeastIsOne
<1>10. i \in K /\ i \notin Low /\ i \in Nat /\ \A j \in K : j \notin Low => i <= j
  BY <1>5, <1>9
<1>11. \A k \in K : k <= i <=> k \in Low \/ k = i
  <2> SUFFICES ASSUME NEW k \in K PROVE k <= i <=> k \in Low \/ k = i
    OBVIOUS
  <2>1. /\ k \in Nat /\ i \in Nat /\ Rank(K, i) \in Nat /\ Rank(K, k) \in Nat
        /\ i < k <=> Rank(K, i) < Rank(K, k)
        /\ k < i <=> Rank(K, k) < Rank(K, i)
        /\ i = k <=> Rank(K, i) = Rank(K, k)
    BY <1>5, <1>10
  <2>2. ~(Rank(K, i) < c)
    BY <1>10
  <2>3. k \in Low => k < i
    BY <1>4, <2>1, <2>2
  <2>4. k \notin Low => i <= k
    BY <1>10
  <2> QED
    BY <2>1, <2>3, <2>4
<1>12. {k \in K : k <= i} = Low \cup {i}
  BY <1>6, <1>10, <1>11
<1> HIDE DEF Low
<1>13. Cardinality(Low \cup {i}) = Cardinality(Low) + 1
  BY <1>6, <1>10, FS_AddElement
<1>14. Rank(K, i) = Cardinality(Low \cup {i})
  BY <1>12 DEF Rank
<1>15. Rank(K, i) = c
  BY <1>4, <1>6, <1>13, <1>14
<1> QED
  BY <1>4, <1>10, <1>15

(* The positions in their order.                                           *)
LEMMA NthIsTheOne ==
  ASSUME NEW m \in Nat, NEW K \in SUBSET (1 .. m)
  PROVE  /\ Cardinality(K) \in Nat
         /\ \A n \in 1 .. Cardinality(K) : Nth(K, n) \in K /\ Rank(K, Nth(K, n)) = n
         /\ \A i \in K : Rank(K, i) \in 1 .. Cardinality(K) /\ Nth(K, Rank(K, i)) = i
         /\ \A n, o \in 1 .. Cardinality(K) : n < o <=> Nth(K, n) < Nth(K, o)
<1>1. Cardinality(K) \in Nat
  BY Positions
<1>2. ASSUME NEW n \in 1 .. Cardinality(K) PROVE Nth(K, n) \in K /\ Rank(K, Nth(K, n)) = n
  <2>1. \E i \in K : Rank(K, i) = n
    BY EveryRank
  <2> QED
    BY <2>1 DEF Nth, Rank
<1>3. ASSUME NEW i \in K PROVE Rank(K, i) \in 1 .. Cardinality(K) /\ Nth(K, Rank(K, i)) = i
  <2>1. Rank(K, i) \in 1 .. Cardinality(K)
    BY RankGrows
  <2>2. Nth(K, Rank(K, i)) \in K /\ Rank(K, Nth(K, Rank(K, i))) = Rank(K, i)
    BY <1>2, <2>1
  <2> QED
    BY <2>1, <2>2, RankGrows
<1>4. ASSUME NEW n \in 1 .. Cardinality(K), NEW o \in 1 .. Cardinality(K)
      PROVE  n < o <=> Nth(K, n) < Nth(K, o)
  <2> DEFINE i == Nth(K, n)
             j == Nth(K, o)
  <2>1. i \in K /\ Rank(K, i) = n /\ j \in K /\ Rank(K, j) = o
    BY <1>2
  <2> HIDE DEF i, j
  <2>2. i < j <=> Rank(K, i) < Rank(K, j)
    BY <2>1, RankGrows
  <2>3. n < o <=> i < j
    BY <2>1, <2>2
  <2> QED
    BY <2>3 DEF i, j
<1> QED
  BY <1>1, <1>2, <1>3, <1>4

(* Some entries of a list, in their order: each is at a place of its own.  *)
LEMMA AtIsList ==
  ASSUME NEW s, IsList(s), NEW K \in SUBSET (DOMAIN s)
  PROVE  /\ Cardinality(K) \in Nat /\ Cardinality(K) <= Len(s)
         /\ IsList(At(s, K)) /\ DOMAIN At(s, K) = 1 .. Cardinality(K)
         /\ Len(At(s, K)) = Cardinality(K)
         /\ \A n \in 1 .. Cardinality(K) : Nth(K, n) \in K /\ At(s, K)[n] = s[Nth(K, n)]
         /\ \A n, o \in 1 .. Cardinality(K) : n < o <=> Nth(K, n) < Nth(K, o)
         /\ \A i \in K : \E n \in 1 .. Cardinality(K) : Nth(K, n) = i /\ At(s, K)[n] = s[i]
<1>1. Len(s) \in Nat /\ DOMAIN s = 1 .. Len(s)
  BY Lists
<1>2. /\ Cardinality(K) \in Nat
      /\ \A n \in 1 .. Cardinality(K) : Nth(K, n) \in K /\ Rank(K, Nth(K, n)) = n
      /\ \A i \in K : Rank(K, i) \in 1 .. Cardinality(K) /\ Nth(K, Rank(K, i)) = i
      /\ \A n, o \in 1 .. Cardinality(K) : n < o <=> Nth(K, n) < Nth(K, o)
  BY <1>1, NthIsTheOne
<1>3. Cardinality(K) <= Len(s)
  <2>1. IsFiniteSet(1 .. Len(s)) /\ Cardinality(1 .. Len(s)) = Len(s)
    BY <1>1, OneTo
  <2> QED
    BY <1>1, <2>1, FS_Subset
<1>4. At(s, K) \in [1 .. Cardinality(K) -> {s[i] : i \in DOMAIN s}]
  BY <1>2 DEF At
<1>5. IsList(At(s, K)) /\ Len(At(s, K)) = Cardinality(K)
  BY <1>2, <1>4, Lists
<1>6. /\ DOMAIN At(s, K) = 1 .. Cardinality(K)
      /\ \A n \in 1 .. Cardinality(K) : At(s, K)[n] = s[Nth(K, n)]
  BY DEF At
<1>7. ASSUME NEW i \in K
      PROVE  \E n \in 1 .. Cardinality(K) : Nth(K, n) = i /\ At(s, K)[n] = s[i]
  <2>1. Rank(K, i) \in 1 .. Cardinality(K) /\ Nth(K, Rank(K, i)) = i
    BY <1>2
  <2> QED
    BY <1>6, <2>1
<1> QED
  BY <1>2, <1>3, <1>5, <1>6, <1>7

(* The first entries of every value: no value twice, and none is missing.  *)
First(f) == {i \in DOMAIN f : \A j \in DOMAIN f : j < i => f[j] # f[i]}

LEMMA FirstsAreAll ==
  ASSUME NEW m \in Nat, NEW f, DOMAIN f = 1 .. m
  PROVE  /\ First(f) \in SUBSET (1 .. m)
         /\ \A i, j \in First(f) : f[i] = f[j] => i = j
         /\ \A i \in 1 .. m : \E k \in First(f) : k <= i /\ f[k] = f[i]
<1>1. First(f) \in SUBSET (1 .. m)
  BY DEF First
<1>2. ASSUME NEW i \in First(f), NEW j \in First(f), f[i] = f[j] PROVE i = j
  <2>1. i \in 1 .. m /\ j \in 1 .. m /\ ~(j < i) /\ ~(i < j)
    BY <1>2 DEF First
  <2> QED
    BY <2>1
<1>3. ASSUME NEW i \in 1 .. m PROVE \E k \in First(f) : k <= i /\ f[k] = f[i]
  <2> DEFINE E == {k \in 1 .. m : f[k] = f[i]}
  <2>1. E \in SUBSET Nat /\ E # {}
    BY <1>3
  <2>2. PICK k \in E : \A d \in E : k <= d
    BY <2>1, LeastIsOne
  <2>3. k \in 1 .. m /\ f[k] = f[i] /\ k <= i
    BY <1>3, <2>2
  <2>4. \A j \in 1 .. m : j < k => f[j] # f[k]
    <3> SUFFICES ASSUME NEW j \in 1 .. m, j < k, f[j] = f[k] PROVE FALSE
      OBVIOUS
    <3>1. k <= j
      BY <2>2, <2>3
    <3> QED
      BY <2>3, <3>1
  <2> QED
    BY <2>3, <2>4 DEF First
<1> QED
  BY <1>1, <1>2, <1>3

(* Up keeps the first n entries.                                           *)
LEMMA UpIsList ==
  ASSUME NEW s, IsList(s), NEW n \in Nat
  PROVE  /\ IsList(Up(s, n)) /\ Len(Up(s, n)) \in Nat
         /\ Len(Up(s, n)) = IF Len(s) <= n THEN Len(s) ELSE n
         /\ DOMAIN Up(s, n) = 1 .. Len(Up(s, n)) /\ DOMAIN Up(s, n) \subseteq DOMAIN s
         /\ \A i \in DOMAIN Up(s, n) : Up(s, n)[i] = s[i]
<1>1. Len(s) \in Nat /\ DOMAIN s = 1 .. Len(s)
  BY Lists
<1> DEFINE l == IF Len(s) <= n THEN Len(s) ELSE n
<1>2. l \in Nat /\ {k \in DOMAIN s : k <= n} = 1 .. l
  BY <1>1
<1> HIDE DEF l
<1>3. Up(s, n) = [i \in 1 .. l |-> s[i]]
  BY <1>2 DEF Up
<1>4. Up(s, n) \in [1 .. l -> {s[i] : i \in 1 .. l}]
  BY <1>3
<1>5. IsList(Up(s, n)) /\ Len(Up(s, n)) = l
  BY <1>2, <1>4, Lists
<1>6. DOMAIN Up(s, n) = 1 .. l /\ \A i \in 1 .. l : Up(s, n)[i] = s[i]
  BY <1>3
<1>7. 1 .. l \subseteq DOMAIN s
  BY <1>2
<1> QED
  BY <1>2, <1>5, <1>6, <1>7 DEF l

(* One list after another.                                                 *)
LEMMA Joined ==
  ASSUME NEW s, IsList(s), NEW t, IsList(t)
  PROVE  /\ IsList(s \o t) /\ Len(s \o t) = Len(s) + Len(t)
         /\ DOMAIN (s \o t) = 1 .. Len(s) + Len(t)
         /\ \A i \in DOMAIN s : i \in DOMAIN (s \o t) /\ (s \o t)[i] = s[i]
         /\ \A i \in DOMAIN t :
              Len(s) + i \in DOMAIN (s \o t) /\ (s \o t)[Len(s) + i] = t[i]
<1> DEFINE T == ToSet(s) \cup ToSet(t)
<1>1. /\ Len(s) \in Nat /\ DOMAIN s = 1 .. Len(s) /\ s \in [1 .. Len(s) -> ToSet(s)]
      /\ Len(t) \in Nat /\ DOMAIN t = 1 .. Len(t) /\ t \in [1 .. Len(t) -> ToSet(t)]
  BY Lists DEF IsList
<1>2. s \in Seq(T) /\ t \in Seq(T)
  <2>1. s \in [1 .. Len(s) -> T] /\ t \in [1 .. Len(t) -> T]
    BY <1>1
  <2> HIDE DEF T
  <2> QED
    BY <1>1, <2>1
<1> HIDE DEF T
<1>3. s \o t \in Seq(T) /\ Len(s \o t) = Len(s) + Len(t)
  BY <1>2
<1>4. DOMAIN (s \o t) = 1 .. Len(s) + Len(t)
  BY <1>3
<1>5. IsList(s \o t)
  <2> DEFINE u == s \o t
  <2>1. u \in Seq(T)
    BY <1>3
  <2> HIDE DEF u
  <2>2. Len(u) \in Nat /\ u \in [1 .. Len(u) -> T]
    BY <2>1
  <2>3. IsList(u)
    BY <2>2, Lists
  <2> QED
    BY <2>3 DEF u
<1>6. ASSUME NEW i \in DOMAIN s PROVE i \in DOMAIN (s \o t) /\ (s \o t)[i] = s[i]
  <2>1. i \in 1 .. Len(s) + Len(t) /\ i <= Len(s)
    BY <1>1
  <2> QED
    BY <1>1, <1>2, <1>4, <2>1
<1>7. ASSUME NEW i \in DOMAIN t
      PROVE  Len(s) + i \in DOMAIN (s \o t) /\ (s \o t)[Len(s) + i] = t[i]
  <2>1. Len(s) + i \in 1 .. Len(s) + Len(t) /\ Len(s) + i > Len(s) /\ Len(s) + i - Len(s) = i
    BY <1>1
  <2> QED
    BY <1>1, <1>2, <1>4, <2>1
<1> QED
  BY <1>3, <1>4, <1>5, <1>6, <1>7

-----------------------------------------------------------------------------
(* The contract.  What is read of a document.                              *)
LEMMA Read ==
  ASSUME NEW doc, IsDocument(doc)
  PROVE  /\ IsList(Bounded(doc))
         /\ \A i \in DOMAIN Up(doc.items, doc.fits) :
              i \in DOMAIN Bounded(doc) /\ Bounded(doc)[i] = Up(doc.items, doc.fits)[i]
<1>1. IsList(doc.items) /\ IsList(doc.broken) /\ doc.fits \in Nat
  BY DEF IsDocument
<1>2. IsList(Up(doc.items, doc.fits))
  BY <1>1, UpIsList
<1> QED
  BY <1>1, <1>2, Joined DEF Bounded

(* What a document contributes.                                            *)
LEMMA Extracted ==
  ASSUME NEW doc, IsDocument(doc), NEW origin
  PROVE  LET E == extract_requirement_items(doc, origin) IN
         /\ IsList(E) /\ Len(E) \in Nat /\ DOMAIN E = 1 .. Len(E)
         /\ Len(E) = 0 => Len(Bounded(doc)) = 0
         /\ \A i \in DOMAIN Bounded(doc) :
              Len(Bounded(doc)) <= MaxRequirements /\ Bounded(doc)[i].material
                => \E n \in DOMAIN E : E[n][2] = Bounded(doc)[i].text
<1> DEFINE items == Bounded(doc)
           material == {i \in DOMAIN items : section_is_requirement_material(items[i])}
           selected == CASE material = {}       -> DOMAIN items
                         [] material # {} /\ origin = "source" -> material
                         [] OTHER -> {i \in DOMAIN items :
                                        \E j \in material : items[j].text = items[i].text}
           prefix(item) == IF origin = "source" THEN "source:req"
                           ELSE IF item.validation THEN "plan:validation" ELSE "plan:step"
           item == At(items, selected)
           all == [n \in DOMAIN item |-> <<prefix(item[n]), item[n].text>>]
           E == extract_requirement_items(doc, origin)
<1>1. E = Up(all, MaxRequirements)
  BY DEF extract_requirement_items
<1>2. /\ selected \in SUBSET (DOMAIN items) /\ material \subseteq selected
      /\ DOMAIN items # {} => selected # {}
  <2>1. CASE material = {}
    BY <2>1
  <2>2. CASE material # {} /\ origin = "source"
    BY <2>2
  <2>3. CASE material # {} /\ origin # "source"
    <3>1. selected = {i \in DOMAIN items : \E j \in material : items[j].text = items[i].text}
      BY <2>3
    <3> QED
      BY <2>3, <3>1
  <2> QED
    BY <2>1, <2>2, <2>3
<1>3. \A i \in DOMAIN items : items[i].material => i \in selected
  BY <1>2 DEF section_is_requirement_material
<1> HIDE DEF selected, material
<1>0. IsList(items)
  BY Read
<1>4. Len(items) \in Nat /\ DOMAIN items = 1 .. Len(items)
  BY <1>0, Lists
<1>5. /\ IsList(item) /\ DOMAIN item = 1 .. Len(item) /\ Len(item) \in Nat
      /\ Len(item) = Cardinality(selected) /\ Len(item) <= Len(items)
      /\ \A i \in selected : \E n \in DOMAIN item : item[n] = items[i]
  <2>1. IsList(items) /\ selected \in SUBSET (DOMAIN items)
    BY <1>0, <1>2
  <2> HIDE DEF items
  <2>2. /\ Cardinality(selected) \in Nat /\ Cardinality(selected) <= Len(items)
        /\ IsList(item) /\ DOMAIN item = 1 .. Cardinality(selected)
        /\ Len(item) = Cardinality(selected)
        /\ \A i \in selected : \E n \in 1 .. Cardinality(selected) :
             Nth(selected, n) = i /\ item[n] = items[i]
    BY <2>1, AtIsList
  <2> QED
    BY <2>2
<1> HIDE DEF item, items, prefix
<1>6. all \in [1 .. Len(item) -> {all[n] : n \in 1 .. Len(item)}]
  BY <1>5
<1>7. /\ IsList(all) /\ Len(all) = Len(item) /\ DOMAIN all = DOMAIN item
      /\ \A n \in DOMAIN item : all[n] = <<prefix(item[n]), item[n].text>>
  BY <1>5, <1>6, Lists
<1> HIDE DEF all
<1>8. MaxRequirements \in Nat /\ MaxRequirements > 0
  BY ReviewAssumption
<1>9. /\ IsList(E) /\ Len(E) \in Nat /\ DOMAIN E = 1 .. Len(E)
      /\ Len(E) = IF Len(all) <= MaxRequirements THEN Len(all) ELSE MaxRequirements
      /\ \A n \in DOMAIN E : E[n] = all[n]
  BY <1>1, <1>7, <1>8, UpIsList
<1> HIDE DEF E
<1>10. Len(E) = 0 => Len(items) = 0
  <2> SUFFICES ASSUME Len(E) = 0, Len(items) # 0 PROVE FALSE
    OBVIOUS
  <2>1. Len(item) = 0
    BY <1>5, <1>7, <1>8, <1>9
  <2>2. 1 \in DOMAIN items
    BY <1>4
  <2>3. PICK i \in selected : TRUE
    BY <1>2, <2>2
  <2>4. PICK n \in DOMAIN item : TRUE
    BY <1>5, <2>3
  <2> QED
    BY <1>5, <2>1, <2>4
<1>11. ASSUME NEW i \in DOMAIN items, Len(items) <= MaxRequirements, items[i].material
       PROVE  \E n \in DOMAIN E : E[n][2] = items[i].text
  <2>1. PICK n \in DOMAIN item : item[n] = items[i]
    BY <1>3, <1>5, <1>11
  <2>2. Len(E) = Len(item)
    BY <1>4, <1>5, <1>7, <1>8, <1>9, <1>11
  <2>3. n \in DOMAIN E /\ E[n] = <<prefix(item[n]), item[n].text>>
    BY <1>5, <1>7, <1>9, <2>1, <2>2
  <2> QED
    BY <2>1, <2>3
<1>12. \A i \in DOMAIN items : Len(items) <= MaxRequirements /\ items[i].material
                => \E n \in DOMAIN E : E[n][2] = items[i].text
  BY <1>11
<1>13. IsList(E) /\ Len(E) \in Nat /\ DOMAIN E = 1 .. Len(E)
  BY <1>9
<1> QED
  BY <1>10, <1>12, <1>13, Zenon DEF E, items

(* Requirements with ids of their own are as many as their ids, and so for *)
(* their texts.                                                            *)
LEMMA OwnIds ==
  ASSUME NEW s, IsList(s), \A i, j \in DOMAIN s : s[i].id = s[j].id => i = j
  PROVE  Cardinality({s[i].id : i \in DOMAIN s}) = Len(s)
<1> DEFINE f == [i \in DOMAIN s |-> s[i].id]
<1>1. Len(s) \in Nat /\ DOMAIN s = 1 .. Len(s)
  BY Lists
<1>2. f \in [1 .. Len(s) -> {s[i].id : i \in DOMAIN s}]
  BY <1>1
<1>3. IsList(f) /\ Len(f) = Len(s) /\ DOMAIN f = DOMAIN s
  BY <1>1, <1>2, Lists
<1>4. Cardinality(ToSet(f)) = Len(f)
  BY <1>3, Distinct
<1>5. ToSet(f) = {s[i].id : i \in DOMAIN s}
  BY DEF ToSet
<1> QED
  BY <1>3, <1>4, <1>5

LEMMA OwnTexts ==
  ASSUME NEW s, IsList(s), \A i, j \in DOMAIN s : s[i].text = s[j].text => i = j
  PROVE  ~Duplicated([i \in DOMAIN s |-> s[i].text])
<1> DEFINE f == [i \in DOMAIN s |-> s[i].text]
<1>1. Len(s) \in Nat /\ DOMAIN s = 1 .. Len(s)
  BY Lists
<1>2. f \in [1 .. Len(s) -> {s[i].text : i \in DOMAIN s}]
  BY <1>1
<1>3. IsList(f) /\ DOMAIN f = DOMAIN s
  BY <1>1, <1>2, Lists
<1>4. \A i, j \in DOMAIN f : f[i] = f[j] => i = j
  OBVIOUS
<1> HIDE DEF f
<1>5. ~Duplicated(f)
  BY <1>3, <1>4, Distinct
<1> QED
  BY <1>5 DEF f

(* A number that counts the entries of a kind so far tells them apart.     *)
SoFar(f, n) == {k \in 1 .. n : f[k][1] = f[n][1]}

LEMMA CountersDiffer ==
  ASSUME NEW m \in Nat, NEW f, NEW n \in 1 .. m, NEW o \in 1 .. m, f[n][1] = f[o][1],
         Cardinality(SoFar(f, n)) = Cardinality(SoFar(f, o))
  PROVE  n = o
<1>1. ASSUME NEW x \in 1 .. m, NEW y \in 1 .. m, x < y, f[x][1] = f[y][1]
      PROVE  Cardinality(SoFar(f, x)) # Cardinality(SoFar(f, y))
  <2>1. y \in Nat /\ x \in Nat
    OBVIOUS
  <2>2. SoFar(f, y) \in SUBSET (1 .. y)
    BY DEF SoFar
  <2>3. IsFiniteSet(SoFar(f, y))
    BY <2>1, <2>2, Positions
  <2>4. SoFar(f, x) \in SUBSET SoFar(f, y)
    BY <1>1, <2>1 DEF SoFar
  <2>5. y \in SoFar(f, y) /\ y \notin SoFar(f, x)
    BY <1>1, <2>1 DEF SoFar
  <2> QED
    BY <2>3, <2>4, <2>5, FS_Subset
<1>2. ~(n < o) /\ ~(o < n)
  BY <1>1
<1> QED
  BY <1>2

(* The requirements listed by the two documents.                           *)
Candidates(source, plan) ==
  extract_requirement_items(source, "source") \o extract_requirement_items(plan, "plan")
Texts(source, plan) ==
  [i \in DOMAIN Candidates(source, plan) |-> Candidates(source, plan)[i][2]]
Kept(source, plan) == Up(AtFirst(Candidates(source, plan), Texts(source, plan)), MaxRequirements)
Listed(source, plan) ==
  [n \in DOMAIN Kept(source, plan) |->
     Requirement(Kept(source, plan)[n][1], Cardinality(SoFar(Kept(source, plan), n)),
                 Kept(source, plan)[n][2])]

Wanted(doc) == IF Len(Bounded(doc)) > MaxRequirements THEN {}
               ELSE Required(Up(doc.items, doc.fits))

(* What is wanted of a document is among what is read of it.               *)
LEMMA WantedIsRead ==
  ASSUME NEW doc, IsDocument(doc), NEW t \in Wanted(doc)
  PROVE  /\ Len(Bounded(doc)) <= MaxRequirements
         /\ \E i \in DOMAIN Bounded(doc) : Bounded(doc)[i].material /\ Bounded(doc)[i].text = t
<1>1. Len(Bounded(doc)) \in Nat /\ MaxRequirements \in Nat
  BY Read, Lists, ReviewAssumption
<1>2. ~(Len(Bounded(doc)) > MaxRequirements) /\ t \in Required(Up(doc.items, doc.fits))
  BY DEF Wanted
<1>3. PICK i \in DOMAIN Up(doc.items, doc.fits) :
        Up(doc.items, doc.fits)[i].material /\ Up(doc.items, doc.fits)[i].text = t
  BY <1>2 DEF Required, ToSet
<1> QED
  BY <1>1, <1>2, <1>3, Read

LEMMA ListedRequirements ==
  ASSUME NEW source, IsDocument(source), NEW plan, IsDocument(plan)
  PROVE  LET L == Listed(source, plan) IN
         /\ IsList(L) /\ Len(L) <= MaxRequirements
         /\ Len(L) = 0 => Len(Bounded(source)) = 0 /\ Len(Bounded(plan)) = 0
         /\ \A n, o \in DOMAIN L : L[n].text = L[o].text => n = o
         /\ \A n, o \in DOMAIN L : L[n].id = L[o].id => n = o
         /\ \/ Len(L) = MaxRequirements
            \/ Wanted(source) \cup Wanted(plan) \subseteq {L[n].text : n \in DOMAIN L}
<1> DEFINE S == extract_requirement_items(source, "source")
           P == extract_requirement_items(plan, "plan")
           C == Candidates(source, plan)
           f == Texts(source, plan)
           K == First(f)
           D == At(C, K)
           Y == Kept(source, plan)
           L == Listed(source, plan)
<1>1. /\ IsList(S) /\ Len(S) \in Nat /\ DOMAIN S = 1 .. Len(S)
      /\ Len(S) = 0 => Len(Bounded(source)) = 0
      /\ \A i \in DOMAIN Bounded(source) :
           Len(Bounded(source)) <= MaxRequirements /\ Bounded(source)[i].material
             => \E n \in DOMAIN S : S[n][2] = Bounded(source)[i].text
  BY Extracted
<1>2. /\ IsList(P) /\ Len(P) \in Nat /\ DOMAIN P = 1 .. Len(P)
      /\ Len(P) = 0 => Len(Bounded(plan)) = 0
      /\ \A i \in DOMAIN Bounded(plan) :
           Len(Bounded(plan)) <= MaxRequirements /\ Bounded(plan)[i].material
             => \E n \in DOMAIN P : P[n][2] = Bounded(plan)[i].text
  BY Extracted
<1>3. C = S \o P
  BY DEF Candidates
<1> HIDE DEF S, P, C
<1>4. /\ IsList(C) /\ Len(C) = Len(S) + Len(P) /\ DOMAIN C = 1 .. Len(C) /\ Len(C) \in Nat
      /\ \A i \in DOMAIN S : \E k \in DOMAIN C : C[k] = S[i]
      /\ \A i \in DOMAIN P : \E k \in DOMAIN C : C[k] = P[i]
  <2>1. /\ IsList(C) /\ Len(C) = Len(S) + Len(P) /\ DOMAIN C = 1 .. Len(S) + Len(P)
        /\ \A i \in DOMAIN S : i \in DOMAIN C /\ C[i] = S[i]
        /\ \A i \in DOMAIN P : Len(S) + i \in DOMAIN C /\ C[Len(S) + i] = P[i]
    <3>1. IsList(S) /\ IsList(P)
      BY <1>1, <1>2
    <3>2. /\ IsList(S \o P) /\ Len(S \o P) = Len(S) + Len(P)
          /\ DOMAIN (S \o P) = 1 .. Len(S) + Len(P)
          /\ \A i \in DOMAIN S : i \in DOMAIN (S \o P) /\ (S \o P)[i] = S[i]
          /\ \A i \in DOMAIN P :
               Len(S) + i \in DOMAIN (S \o P) /\ (S \o P)[Len(S) + i] = P[i]
      BY <3>1, Joined
    <3> QED
      BY <1>3, <3>2
  <2>2. Len(C) \in Nat /\ DOMAIN C = 1 .. Len(C)
    BY <1>1, <1>2, <2>1
  <2>3. \A i \in DOMAIN S : \E k \in DOMAIN C : C[k] = S[i]
    BY <2>1
  <2>4. \A i \in DOMAIN P : \E k \in DOMAIN C : C[k] = P[i]
    BY <2>1
  <2> QED
    BY <2>1, <2>2, <2>3, <2>4
<1>5. DOMAIN f = 1 .. Len(C) /\ \A i \in DOMAIN C : f[i] = C[i][2]
  BY <1>4 DEF Texts, C
<1>6. Y = Up(D, MaxRequirements)
  BY <1>4, <1>5 DEF Kept, AtFirst, First, C
<1>7. /\ DOMAIN L = DOMAIN Y
      /\ \A n \in DOMAIN Y :
           L[n] = Requirement(Y[n][1], Cardinality(SoFar(Y, n)), Y[n][2])
  BY DEF Listed
<1> HIDE DEF f, K, D, Y, L
<1>8. /\ K \in SUBSET (1 .. Len(C))
      /\ \A i, j \in K : f[i] = f[j] => i = j
      /\ \A i \in 1 .. Len(C) : \E k \in K : f[k] = f[i]
  <2> DEFINE m == Len(C)
  <2>1. m \in Nat /\ DOMAIN f = 1 .. m
    BY <1>4, <1>5
  <2> HIDE DEF m
  <2>2. /\ First(f) \in SUBSET (1 .. m)
        /\ \A i, j \in First(f) : f[i] = f[j] => i = j
        /\ \A i \in 1 .. m : \E k \in First(f) : k <= i /\ f[k] = f[i]
    BY <2>1, FirstsAreAll
  <2> QED
    BY <2>2 DEF K, m
<1>9. /\ IsList(D) /\ DOMAIN D = 1 .. Cardinality(K) /\ Len(D) = Cardinality(K)
      /\ Cardinality(K) \in Nat
      /\ \A n \in DOMAIN D : Nth(K, n) \in K /\ D[n] = C[Nth(K, n)]
      /\ \A n, o \in DOMAIN D : n < o <=> Nth(K, n) < Nth(K, o)
      /\ \A i \in K : \E n \in DOMAIN D : D[n] = C[i]
  <2>1. K \in SUBSET (DOMAIN C)
    BY <1>4, <1>8
  <2>2. /\ Cardinality(K) \in Nat /\ IsList(At(C, K)) /\ DOMAIN At(C, K) = 1 .. Cardinality(K)
        /\ Len(At(C, K)) = Cardinality(K)
        /\ \A n \in 1 .. Cardinality(K) : Nth(K, n) \in K /\ At(C, K)[n] = C[Nth(K, n)]
        /\ \A n, o \in 1 .. Cardinality(K) : n < o <=> Nth(K, n) < Nth(K, o)
        /\ \A i \in K : \E n \in 1 .. Cardinality(K) : Nth(K, n) = i /\ At(C, K)[n] = C[i]
    BY <1>4, <2>1, AtIsList
  <2>3. \A i \in K : \E n \in 1 .. Cardinality(K) : At(C, K)[n] = C[i]
    BY <2>2
  <2> QED
    BY <2>2, <2>3 DEF D
<1>10. MaxRequirements \in Nat /\ MaxRequirements > 0
  BY ReviewAssumption
<1>11. /\ IsList(Y) /\ DOMAIN Y = 1 .. Len(Y) /\ Len(Y) \in Nat
       /\ Len(Y) = IF Len(D) <= MaxRequirements THEN Len(D) ELSE MaxRequirements
       /\ DOMAIN Y \subseteq DOMAIN D /\ \A n \in DOMAIN Y : Y[n] = D[n]
  BY <1>6, <1>9, <1>10, UpIsList
<1>12. IsList(L) /\ Len(L) = Len(Y)
  <2>1. L \in [1 .. Len(Y) -> {L[n] : n \in DOMAIN Y}]
    BY <1>7, <1>11 DEF L, Listed, Y
  <2> QED
    BY <1>11, <2>1, Lists
<1>13. \A n \in DOMAIN L : L[n].text = f[Nth(K, n)] /\ L[n].text = D[n][2]
  <2> SUFFICES ASSUME NEW n \in DOMAIN L
               PROVE  L[n].text = f[Nth(K, n)] /\ L[n].text = D[n][2]
    OBVIOUS
  <2>1. n \in DOMAIN D /\ Y[n] = D[n] /\ n \in DOMAIN Y
    BY <1>7, <1>11
  <2>2. L[n].text = Y[n][2]
    BY <1>7, <2>1 DEF Requirement
  <2>3. Nth(K, n) \in DOMAIN C /\ D[n] = C[Nth(K, n)]
    BY <1>4, <1>8, <1>9, <2>1
  <2> QED
    BY <1>5, <2>1, <2>2, <2>3
<1>14. \A n \in DOMAIN L : L[n].id = <<Y[n][1], Cardinality(SoFar(Y, n))>>
  BY <1>7 DEF Requirement
<1>15. ASSUME NEW n \in DOMAIN L, NEW o \in DOMAIN L, L[n].text = L[o].text PROVE n = o
  <2>1. n \in DOMAIN D /\ o \in DOMAIN D
    BY <1>7, <1>11
  <2>2. Nth(K, n) = Nth(K, o)
    <3>1. Nth(K, n) \in K /\ Nth(K, o) \in K
      BY <1>9, <2>1
    <3>2. f[Nth(K, n)] = f[Nth(K, o)]
      BY <1>13, <1>15
    <3> QED
      BY <1>8, <3>1, <3>2
  <2>3. n \in Nat /\ o \in Nat /\ Nth(K, n) \in Nat
    <3>1. Nth(K, n) \in 1 .. Len(C) /\ Len(C) \in Nat
      BY <1>4, <1>8, <1>9, <2>1
    <3>2. n \in 1 .. Cardinality(K) /\ o \in 1 .. Cardinality(K) /\ Cardinality(K) \in Nat
      BY <1>9, <2>1
    <3> QED
      BY <3>1, <3>2
  <2>4. ~(n < o) /\ ~(o < n)
    BY <1>9, <2>1, <2>2, <2>3
  <2> QED
    BY <2>3, <2>4
<1>16. ASSUME NEW n \in DOMAIN L, NEW o \in DOMAIN L, L[n].id = L[o].id PROVE n = o
  <2>1. n \in 1 .. Len(Y) /\ o \in 1 .. Len(Y)
    BY <1>7, <1>11
  <2>2. Y[n][1] = Y[o][1] /\ Cardinality(SoFar(Y, n)) = Cardinality(SoFar(Y, o))
    BY <1>14, <1>16
  <2> QED
    BY <1>11, <2>1, <2>2, CountersDiffer
<1>17. ASSUME Len(L) # MaxRequirements, NEW i \in DOMAIN C
       PROVE  \E n \in DOMAIN L : L[n].text = C[i][2]
  <2>1. PICK k \in K : f[k] = f[i]
    BY <1>4, <1>8, <1>17
  <2>2. k \in DOMAIN C
    BY <1>4, <1>8, <2>1
  <2>3. PICK n \in DOMAIN D : D[n] = C[k]
    BY <1>9, <2>1
  <2>4. DOMAIN Y = DOMAIN D
    BY <1>9, <1>10, <1>11, <1>12, <1>17
  <2> QED
    <3>1. n \in DOMAIN L /\ L[n].text = D[n][2]
      BY <1>7, <1>13, <2>3, <2>4
    <3>2. D[n][2] = f[k] /\ f[i] = C[i][2]
      BY <1>5, <1>17, <2>2, <2>3
    <3> QED
      BY <2>1, <3>1, <3>2
<1>18. Len(L) <= MaxRequirements
  BY <1>9, <1>10, <1>11, <1>12
<1>19. ASSUME Len(L) = 0 PROVE Len(Bounded(source)) = 0 /\ Len(Bounded(plan)) = 0
  <2>1. DOMAIN L = {} /\ Len(L) # MaxRequirements
    <3>1. Len(Y) = 0 /\ DOMAIN Y = 1 .. 0
      BY <1>11, <1>12, <1>19
    <3> QED
      BY <1>7, <1>10, <1>19, <3>1
  <2>2. DOMAIN C = {}
    BY <1>17, <2>1
  <2>3. Len(C) = 0
    <3>1. ~(1 \in DOMAIN C)
      BY <2>2
    <3> QED
      BY <1>4, <3>1
  <2>4. Len(S) = 0 /\ Len(P) = 0
    <3>1. Len(S) \in Nat /\ Len(P) \in Nat /\ Len(C) = Len(S) + Len(P)
      BY <1>1, <1>2, <1>4
    <3> QED
      BY <2>3, <3>1
  <2> QED
    BY <1>1, <1>2, <2>4
<1>20. ASSUME Len(L) # MaxRequirements
       PROVE  Wanted(source) \cup Wanted(plan) \subseteq {L[n].text : n \in DOMAIN L}
  <2> SUFFICES ASSUME NEW t \in Wanted(source) \cup Wanted(plan)
               PROVE  \E n \in DOMAIN L : L[n].text = t
    OBVIOUS
  <2>1. CASE t \in Wanted(source)
    <3>1. PICK i \in DOMAIN Bounded(source) :
            Bounded(source)[i].material /\ Bounded(source)[i].text = t
      BY <2>1, WantedIsRead
    <3>2. Len(Bounded(source)) <= MaxRequirements
      BY <2>1, WantedIsRead
    <3>3. PICK n \in DOMAIN S : S[n][2] = t
      BY <1>1, <3>1, <3>2
    <3> QED
      BY <1>4, <1>17, <1>20, <3>3
  <2>2. CASE t \in Wanted(plan)
    <3>1. PICK i \in DOMAIN Bounded(plan) :
            Bounded(plan)[i].material /\ Bounded(plan)[i].text = t
      BY <2>2, WantedIsRead
    <3>2. Len(Bounded(plan)) <= MaxRequirements
      BY <2>2, WantedIsRead
    <3>3. PICK n \in DOMAIN P : P[n][2] = t
      BY <1>2, <3>1, <3>2
    <3> QED
      BY <1>4, <1>17, <1>20, <3>3
  <2> QED
    BY <2>1, <2>2
<1>21. \A n, o \in DOMAIN L : L[n].text = L[o].text => n = o
  BY <1>15
<1>22. \A n, o \in DOMAIN L : L[n].id = L[o].id => n = o
  BY <1>16
<1>23. \/ Len(L) = MaxRequirements
       \/ Wanted(source) \cup Wanted(plan) \subseteq {L[n].text : n \in DOMAIN L}
  BY <1>20
<1>24. Len(L) = 0 => Len(Bounded(source)) = 0 /\ Len(Bounded(plan)) = 0
  BY <1>19
<1> QED
  BY <1>12, <1>18, <1>21, <1>22, <1>23, <1>24, Zenon DEF L

(* The requirements a request without a list gives.                        *)
Overall(prefix, doc) == IF doc.whole = "" THEN <<>> ELSE <<Requirement(prefix, 1, doc.whole)>>
Fallback(source, plan) ==
  Up(Overall("source:overall", source) \o Overall("plan:overall", plan), MaxRequirements)

LEMMA FallbackRequirements ==
  ASSUME NEW source, NEW plan
  PROVE  LET F == Fallback(source, plan) IN
         /\ IsList(F) /\ Len(F) <= MaxRequirements
         /\ \A n, o \in DOMAIN F : F[n].id = F[o].id => n = o
<1> DEFINE A == Overall("source:overall", source)
           B == Overall("plan:overall", plan)
           J == A \o B
           F == Fallback(source, plan)
<1>1. ASSUME NEW prefix, NEW doc
      PROVE  LET O == Overall(prefix, doc) IN
             /\ IsList(O) /\ Len(O) \in 0 .. 1
             /\ \A n \in DOMAIN O : n = 1 /\ O[n].id = <<prefix, 1>>
  <2>1. CASE doc.whole = ""
    <3>1. Overall(prefix, doc) = <<>>
      BY <2>1 DEF Overall
    <3> QED
      BY <3>1 DEF IsList, ToSet
  <2>2. CASE doc.whole # ""
    <3> DEFINE q == Requirement(prefix, 1, doc.whole)
    <3>1. Overall(prefix, doc) = <<q>>
      BY <2>2 DEF Overall
    <3>2. q.id = <<prefix, 1>>
      BY DEF Requirement
    <3> HIDE DEF q
    <3>3. <<q>> \in Seq(ToSet(<<q>>)) /\ Len(<<q>>) = 1 /\ DOMAIN <<q>> = {1} /\ <<q>>[1] = q
      BY DEF ToSet
    <3> QED
      BY <3>1, <3>2, <3>3 DEF IsList
  <2> QED
    BY <2>1, <2>2
<1>2. /\ IsList(A) /\ Len(A) \in 0 .. 1
      /\ \A n \in DOMAIN A : n = 1 /\ A[n].id = <<"source:overall", 1>>
  BY <1>1
<1>3. /\ IsList(B) /\ Len(B) \in 0 .. 1
      /\ \A n \in DOMAIN B : n = 1 /\ B[n].id = <<"plan:overall", 1>>
  BY <1>1
<1>4. F = Up(J, MaxRequirements)
  BY DEF Fallback
<1> HIDE DEF A, B, F
<1>5. J = A \o B
  OBVIOUS
<1> HIDE DEF J
<1>6. /\ IsList(J) /\ Len(J) = Len(A) + Len(B)
      /\ DOMAIN J = 1 .. Len(A) + Len(B)
      /\ \A i \in DOMAIN A : J[i] = A[i]
      /\ \A i \in DOMAIN B : J[Len(A) + i] = B[i]
  <2>1. IsList(A) /\ IsList(B)
    BY <1>2, <1>3
  <2> QED
    BY <1>5, <2>1, Joined
<1>7. MaxRequirements \in Nat
  BY ReviewAssumption
<1>8. /\ IsList(F) /\ Len(F) <= MaxRequirements
      /\ DOMAIN F \subseteq DOMAIN J /\ \A i \in DOMAIN F : F[i] = J[i]
  <2>1. Len(J) \in Nat
    BY <1>6, Lists
  <2>2. /\ IsList(F) /\ Len(F) = IF Len(J) <= MaxRequirements THEN Len(J) ELSE MaxRequirements
        /\ DOMAIN F \subseteq DOMAIN J /\ \A i \in DOMAIN F : F[i] = J[i]
    BY <1>4, <1>6, <1>7, UpIsList
  <2> QED
    BY <1>7, <2>1, <2>2
<1>9. ASSUME NEW n \in DOMAIN J, NEW o \in DOMAIN J, n < o
      PROVE  J[n].id # J[o].id
  <2>1. DOMAIN A = 1 .. Len(A) /\ DOMAIN B = 1 .. Len(B)
    BY <1>2, <1>3, Lists
  <2>2. Len(A) = 1 /\ Len(B) = 1 /\ n = 1 /\ o = Len(A) + 1
    <3>1. n \in 1 .. Len(A) + Len(B) /\ o \in 1 .. Len(A) + Len(B)
      BY <1>6
    <3>2. (Len(A) = 0 \/ Len(A) = 1) /\ (Len(B) = 0 \/ Len(B) = 1)
      BY <1>2, <1>3
    <3>3. \A a, b \in {0, 1} : \A i, j \in 1 .. a + b :
            i < j => a = 1 /\ b = 1 /\ i = 1 /\ j = a + 1
      OBVIOUS
    <3>4. n < o
      BY <1>9
    <3> QED
      BY <3>1, <3>2, <3>3, <3>4
  <2>3. J[n] = A[1] /\ J[o] = B[1] /\ 1 \in DOMAIN A /\ 1 \in DOMAIN B
    BY <1>6, <2>1, <2>2
  <2>4. A[1].id # B[1].id
    BY <1>2, <1>3, <2>3
  <2> QED
    BY <2>3, <2>4
<1>10. ASSUME NEW n \in DOMAIN F, NEW o \in DOMAIN F, F[n].id = F[o].id PROVE n = o
  <2>1. n \in DOMAIN J /\ o \in DOMAIN J /\ ~(n < o) /\ ~(o < n)
    BY <1>8, <1>9, <1>10
  <2>2. n \in 1 .. Len(A) + Len(B) /\ o \in 1 .. Len(A) + Len(B)
    BY <1>6, <2>1
  <2>3. Len(A) + Len(B) \in Nat
    BY <1>2, <1>3
  <2> QED
    BY <2>1, <2>2, <2>3
<1>11. \A n, o \in DOMAIN F : F[n].id = F[o].id => n = o
  BY <1>10
<1>12. IsList(F) /\ Len(F) <= MaxRequirements
  BY <1>8
<1> QED
  BY <1>11, <1>12, Zenon DEF F

(* The contract of a request: bounded, never empty, no id twice, and what  *)
(* the documents require is in it.                                         *)
ContractOf(source, plan) == build_review_requirement_contract(source, plan)

IsContract(C, source, plan) ==
  /\ IsList(C) /\ C # <<>> /\ Len(C) <= MaxRequirements
  /\ \A n, o \in DOMAIN C : C[n].id = C[o].id => n = o
  /\ \/ \A n, o \in DOMAIN C : C[n].text = C[o].text => n = o
     \/ Len(Bounded(source)) = 0 /\ Len(Bounded(plan)) = 0
  /\ \/ Len(C) = MaxRequirements
     \/ Wanted(source) \cup Wanted(plan) \subseteq {C[n].text : n \in DOMAIN C}

LEMMA Contracts ==
  ASSUME NEW source, IsDocument(source), NEW plan, IsDocument(plan)
  PROVE  IsContract(ContractOf(source, plan), source, plan)
<1> DEFINE C == ContractOf(source, plan)
           L == Listed(source, plan)
           F == Fallback(source, plan)
           R == [id |-> <<"review:overall", 1>>, text |-> "", class |-> "BEHAVIORAL"]
<1>1. \/ L # <<>> /\ C = L
      \/ L = <<>> /\ ((C = F /\ F # <<>>) \/ C = <<R>>)
  <2>1. C = IF L # <<>> THEN L ELSE IF F # <<>> THEN F ELSE <<R>>
    BY DEF ContractOf, build_review_requirement_contract, Listed, Kept, Texts, Candidates,
           SoFar, Fallback, Overall
  <2> HIDE DEF C, L, F, R
  <2>2. CASE L # <<>>
    <3>1. C = L
      BY <2>1, <2>2
    <3> QED
      BY <2>2, <3>1
  <2>3. CASE L = <<>> /\ F # <<>>
    BY <2>1, <2>3
  <2>4. CASE L = <<>> /\ F = <<>>
    BY <2>1, <2>4
  <2> QED
    BY <2>2, <2>3, <2>4
<1>2. /\ IsList(L) /\ Len(L) <= MaxRequirements
      /\ Len(L) = 0 => Len(Bounded(source)) = 0 /\ Len(Bounded(plan)) = 0
      /\ \A n, o \in DOMAIN L : L[n].text = L[o].text => n = o
      /\ \A n, o \in DOMAIN L : L[n].id = L[o].id => n = o
      /\ \/ Len(L) = MaxRequirements
         \/ Wanted(source) \cup Wanted(plan) \subseteq {L[n].text : n \in DOMAIN L}
  BY ListedRequirements
<1>3. /\ IsList(F) /\ Len(F) <= MaxRequirements
      /\ \A n, o \in DOMAIN F : F[n].id = F[o].id => n = o
  BY FallbackRequirements
<1>4. /\ IsList(<<R>>) /\ Len(<<R>>) = 1 /\ <<R>> # <<>>
      /\ \A n, o \in DOMAIN <<R>> : n = o
  <2> HIDE DEF R
  <2>1. <<R>> \in Seq(ToSet(<<R>>)) /\ Len(<<R>>) = 1 /\ DOMAIN <<R>> = {1}
    BY DEF ToSet
  <2> QED
    BY <2>1 DEF IsList
<1> HIDE DEF C, L, F, R
<1>5. CASE L # <<>>
  <2>1. C = L
    BY <1>1, <1>5
  <2> QED
    BY <1>2, <1>5, <2>1 DEF IsContract, C
<1>6. CASE L = <<>>
  <2>1. Len(Bounded(source)) = 0 /\ Len(Bounded(plan)) = 0
    BY <1>2, <1>6
  <2>2. Wanted(source) = {} /\ Wanted(plan) = {}
    <3>1. DOMAIN Bounded(source) = {} /\ DOMAIN Bounded(plan) = {}
      BY <2>1, Read, Lists
    <3> QED
      BY <3>1, WantedIsRead
  <2>3. (C = F /\ F # <<>>) \/ C = <<R>>
    BY <1>1, <1>6
  <2>4. IsList(C) /\ C # <<>> /\ Len(C) <= MaxRequirements
    <3>1. 1 <= MaxRequirements
      BY ReviewAssumption
    <3> QED
      BY <1>3, <1>4, <2>3, <3>1
  <2>5. \A n, o \in DOMAIN C : C[n].id = C[o].id => n = o
    BY <1>3, <1>4, <2>3
  <2>6. Wanted(source) \cup Wanted(plan) \subseteq {C[n].text : n \in DOMAIN C}
    BY <2>2
  <2> QED
    BY <2>1, <2>4, <2>5, <2>6 DEF IsContract, C
<1> QED
  BY <1>5, <1>6

LEMMA ContractsAreComplete ==
  ASSUME request \in Inputs,
         contract = build_review_requirement_contract(request.source, request.plan)
  PROVE  ContractIsComplete
<1> DEFINE source == request.source
           plan == request.plan
           texts == ContractTexts
<1>1. IsDocument(source) /\ IsDocument(plan)
  BY ArtifactAssumption
<1>2. contract = ContractOf(source, plan)
  BY DEF ContractOf
<1> HIDE DEF source, plan
<1>3. /\ IsList(contract) /\ contract # <<>> /\ Len(contract) <= MaxRequirements
      /\ \A n, o \in DOMAIN contract : contract[n].id = contract[o].id => n = o
      /\ \/ \A n, o \in DOMAIN contract : contract[n].text = contract[o].text => n = o
         \/ Len(Bounded(source)) = 0 /\ Len(Bounded(plan)) = 0
      /\ \/ Len(contract) = MaxRequirements
         \/ Wanted(source) \cup Wanted(plan) \subseteq {contract[n].text : n \in DOMAIN contract}
  BY <1>1, <1>2, Contracts DEF IsContract
<1>4. Cardinality(Ids) = Len(contract)
  BY <1>3, OwnIds DEF Ids
<1>5. ~Duplicated(texts) \/ Len(Bounded(source) \o Bounded(plan)) = 0
  <2>1. CASE \A n, o \in DOMAIN contract : contract[n].text = contract[o].text => n = o
    BY <1>3, <2>1, OwnTexts DEF ContractTexts
  <2>2. CASE Len(Bounded(source)) = 0 /\ Len(Bounded(plan)) = 0
    <3>1. Len(Bounded(source) \o Bounded(plan)) = Len(Bounded(source)) + Len(Bounded(plan))
      BY <1>1, Read, Joined
    <3> QED
      BY <2>2, <3>1
  <2> QED
    BY <1>3, <2>1, <2>2
<1>6. Len(contract) = MaxRequirements \/ Wanted(source) \cup Wanted(plan) \subseteq ToSet(texts)
  <2>1. ToSet(texts) = {contract[n].text : n \in DOMAIN contract}
    BY DEF ToSet, ContractTexts
  <2> QED
    BY <1>3, <2>1
<1> HIDE DEF texts
<1> QED
  BY <1>3, <1>4, <1>5, <1>6, Zenon DEF ContractIsComplete, Wanted, source, plan, texts
-----------------------------------------------------------------------------
(* The guard.  The entries of a list by a key of theirs.                   *)
LEMMA OwnRequirements ==
  ASSUME NEW s, IsList(s), ~Duplicated([i \in DOMAIN s |-> s[i].req])
  PROVE  \A i, j \in DOMAIN s : s[i].req = s[j].req => i = j
<1> DEFINE f == [i \in DOMAIN s |-> s[i].req]
<1>1. Len(s) \in Nat /\ DOMAIN s = 1 .. Len(s)
  BY Lists
<1>2. f \in [1 .. Len(s) -> {s[i].req : i \in DOMAIN s}]
  BY <1>1
<1>3. IsList(f) /\ DOMAIN f = DOMAIN s
  BY <1>1, <1>2, Lists
<1>4. \A i \in DOMAIN s : f[i] = s[i].req
  OBVIOUS
<1>5. ~Duplicated(f)
  OBVIOUS
<1> HIDE DEF f
<1>6. \A i, j \in DOMAIN f : f[i] = f[j] => i = j
  BY <1>3, <1>5, NoRepetition
<1> QED
  BY <1>3, <1>4, <1>6

LEMMA OwnObservations ==
  ASSUME NEW s, IsList(s), ~Duplicated([i \in DOMAIN s |-> s[i].id])
  PROVE  \A i, j \in DOMAIN s : s[i].id = s[j].id => i = j
<1> DEFINE f == [i \in DOMAIN s |-> s[i].id]
<1>1. Len(s) \in Nat /\ DOMAIN s = 1 .. Len(s)
  BY Lists
<1>2. f \in [1 .. Len(s) -> {s[i].id : i \in DOMAIN s}]
  BY <1>1
<1>3. IsList(f) /\ DOMAIN f = DOMAIN s
  BY <1>1, <1>2, Lists
<1>4. \A i \in DOMAIN s : f[i] = s[i].id
  OBVIOUS
<1>5. ~Duplicated(f)
  OBVIOUS
<1> HIDE DEF f
<1>6. \A i, j \in DOMAIN f : f[i] = f[j] => i = j
  BY <1>3, <1>5, NoRepetition
<1> QED
  BY <1>3, <1>4, <1>6

(* A dictionary loses an entry only to a later one with its key.           *)
LEMMA EveryInspection ==
  ASSUME NEW s, IsList(s), \A i, j \in DOMAIN s : s[i].req = s[j].req => i = j
  PROVE  Latest(s, LAMBDA y : y.req) = ToSet(s)
<1>1. Len(s) \in Nat /\ DOMAIN s = 1 .. Len(s)
  BY Lists
<1>2. \A j, k \in DOMAIN s : k > j => s[k].req # s[j].req
  BY <1>1
<1> QED
  BY <1>2 DEF Latest, ToSet

LEMMA EveryObservation ==
  ASSUME NEW rep, IsList(rep.observations),
         \A i, j \in DOMAIN rep.observations :
           rep.observations[i].id = rep.observations[j].id => i = j
  PROVE  ObservationsById(rep) = ToSet(rep.observations)
<1> DEFINE s == rep.observations
<1>1. Len(s) \in Nat /\ DOMAIN s = 1 .. Len(s)
  BY Lists
<1>2. \A j, k \in DOMAIN s : k > j => s[k].id # s[j].id
  BY <1>1
<1> QED
  BY <1>2 DEF ObservationsById, Latest, ToSet

(* What a check and an inspection of requirement r show when the guard has *)
(* let an ACCEPT pass: they are the only ones, and nothing is wrong with   *)
(* what they cite.                                                         *)
Cited(i, k) == ToSet(report.inspections[k].refs) \cup ToSet(result.checks[i].refs)

Judged(r, i, k) ==
  /\ i \in DOMAIN result.checks /\ k \in DOMAIN report.inspections
  /\ result.checks[i].req = r /\ result.checks[i].status = "SATISFIED"
  /\ report.inspections[k].req = r /\ report.inspections[k].status = "VERIFIED"
  /\ \A j \in DOMAIN result.checks : result.checks[j].req = r => i = j
  /\ \A j \in DOMAIN report.inspections : report.inspections[j].req = r => k = j
  /\ Cited(i, k) # {}
  /\ \A ref \in Cited(i, k) : ~reference_problem(ref, r, report)
  /\ ~inspection_authority_problems(report.inspections[k], Cited(i, k), report)

LEMMA AcceptedIsJudged ==
  ASSUME Accepted, IsReport(report), IsVerdict(result), ~accept_coverage_problems(result),
         NEW r \in Ids
  PROVE  \E i, k : Judged(r, i, k)
<1> DEFINE checked == [i \in DOMAIN result.checks |-> result.checks[i].req]
           inspected == [i \in DOMAIN report.inspections |-> report.inspections[i].req]
           current == {x \in Latest(report.inspections, LAMBDA y : y.req) : x.req = r}
<1>1. /\ ToSet(checked) = Ids /\ ~Duplicated(checked)
      /\ \A c \in ToSet(result.checks) : c.status = "SATISFIED"
      /\ ~artifact_problems(result)
  BY DEF Accepted, accept_coverage_problems
<1>2. IsList(result.checks) /\ IsList(report.inspections)
  BY DEF IsReport, IsVerdict
<1>3. ToSet(inspected) = Ids /\ ~Duplicated(inspected)
  BY <1>1, Zenon DEF artifact_problems
<1>4. \A i, j \in DOMAIN result.checks : result.checks[i].req = result.checks[j].req => i = j
  BY <1>1, <1>2, OwnRequirements
<1>5. \A i, j \in DOMAIN report.inspections :
        report.inspections[i].req = report.inspections[j].req => i = j
  BY <1>2, <1>3, OwnRequirements
<1>6. PICK i \in DOMAIN result.checks : result.checks[i].req = r
  BY <1>1 DEF ToSet
<1>7. PICK k \in DOMAIN report.inspections : report.inspections[k].req = r
  BY <1>3 DEF ToSet
<1>8. result.checks[i] \in ToSet(result.checks) /\ result.checks[i].status = "SATISFIED"
  BY <1>1, <1>6 DEF ToSet
<1>9. report.inspections[k] \in current
  <2>1. Latest(report.inspections, LAMBDA y : y.req) = ToSet(report.inspections)
    BY <1>2, <1>5, EveryInspection
  <2> QED
    BY <1>7, <2>1 DEF ToSet
<1>10. LET refs == Cited(i, k) IN
       /\ report.inspections[k].status = "VERIFIED"
       /\ \A ref \in refs : ~reference_problem(ref, r, report)
       /\ refs # {}
       /\ ~inspection_authority_problems(report.inspections[k], refs, report)
  <2> DEFINE c == result.checks[i]
             x == report.inspections[k]
  <2>1. c \in ToSet(result.checks) /\ c.status = "SATISFIED" /\ c.req = r /\ x \in current
    BY <1>6, <1>8, <1>9
  <2>2. ~\E d \in ToSet(result.checks) :
           /\ d.status = "SATISFIED"
           /\ \/ d.req \notin Ids
              \/ {y \in Latest(report.inspections, LAMBDA y : y.req) : y.req = d.req} = {}
              \/ \E y \in {y \in Latest(report.inspections, LAMBDA y : y.req) : y.req = d.req} :
                   d.req \in Ids
                   /\ LET refs == ToSet(y.refs) \cup ToSet(d.refs) IN
                      \/ y.status # "VERIFIED"
                      \/ \E ref \in refs : reference_problem(ref, d.req, report)
                      \/ refs = {}
                      \/ inspection_authority_problems(y, refs, report)
    BY <1>1, Zenon DEF artifact_problems
  <2> HIDE DEF c, x
  <2>3. ~LET refs == ToSet(x.refs) \cup ToSet(c.refs) IN
         \/ x.status # "VERIFIED"
         \/ \E ref \in refs : reference_problem(ref, r, report)
         \/ refs = {}
         \/ inspection_authority_problems(x, refs, report)
    BY <2>1, <2>2, Zenon
  <2> QED
    BY <2>3, Zenon DEF Cited, c, x
<1>11. /\ \A j \in DOMAIN result.checks : result.checks[j].req = r => i = j
       /\ \A j \in DOMAIN report.inspections : report.inspections[j].req = r => k = j
  BY <1>4, <1>5, <1>6, <1>7
<1>12. Judged(r, i, k)
  BY <1>6, <1>7, <1>8, <1>10, <1>11 DEF Judged
<1> QED
  BY <1>12

(* What is judged is all there is about the requirement.                   *)
LEMMA JudgedOnAll ==
  ASSUME NEW r, NEW i, NEW k, Judged(r, i, k)
  PROVE  RefsOf(r) = Cited(i, k)
<1>1. {y \in ToSet(report.inspections) : y.req = r} = {report.inspections[k]}
  BY DEF Judged, ToSet
<1>2. {d \in ToSet(result.checks) : d.req = r} = {result.checks[i]}
  BY DEF Judged, ToSet
<1>3. UNION {ToSet(x.refs) : x \in {report.inspections[k]}} = ToSet(report.inspections[k].refs)
  OBVIOUS
<1>4. UNION {ToSet(c.refs) : c \in {result.checks[i]}} = ToSet(result.checks[i].refs)
  OBVIOUS
<1> QED
  BY <1>1, <1>2, <1>3, <1>4, Zenon DEF RefsOf, Cited

(* An observation of a requirement that is judged is grounded.             *)
LEMMA ObservedIsGrounded ==
  ASSUME Accepted, IsReport(report), ~accept_coverage_problems(result),
         NEW r, NEW i, NEW k, Judged(r, i, k)
  PROVE  LET observed == {o \in ToSet(report.observations) : o.req = r} IN
         /\ \A o \in observed : o.kind \in {"CODE", "TEST"} => Grounded(o, Cited(i, k))
         /\ ~ProofMissing(r, Cited(i, k), observed)
<1> DEFINE ids == [n \in DOMAIN report.observations |-> report.observations[n].id]
           observed == {o \in ToSet(report.observations) : o.req = r}
           x == report.inspections[k]
<1>1. IsList(report.observations)
  BY DEF IsReport
<1>2. ~artifact_problems(result)
  BY DEF Accepted, accept_coverage_problems
<1>3. ~Duplicated(ids)
  BY <1>2, Zenon DEF artifact_problems
<1>4. \A n, m \in DOMAIN report.observations :
        report.observations[n].id = report.observations[m].id => n = m
  BY <1>1, <1>3, OwnObservations
<1>5. ObservationsById(report) = ToSet(report.observations)
  BY <1>1, <1>4, EveryObservation
<1>6. x.req = r /\ x.status = "VERIFIED" /\ ~inspection_authority_problems(x, Cited(i, k), report)
  BY DEF Judged
<1>7. /\ ~\E o \in {o \in ObservationsById(report) : o.req = x.req} :
             o.kind \in {"CODE", "TEST"} /\ ~Grounded(o, Cited(i, k))
      /\ ~ProofMissing(x.req, Cited(i, k), {o \in ObservationsById(report) : o.req = x.req})
  <2> HIDE DEF x
  <2> QED
    BY <1>6, Zenon DEF inspection_authority_problems
<1> HIDE DEF x
<1> QED
  BY <1>5, <1>6, <1>7, Zenon

(* A reference without a problem is true of the diff and of the ledger.    *)
LEMMA SoundReference ==
  ASSUME NEW ref, NEW r, ~reference_problem(ref, r, report)
  PROVE  /\ ref.kind = "TRUSTED_DIFF" => ref.path \in changed \cup {NoPath}
         /\ ref.kind = "ABSENCE_OF_CHANGE" => {f \in changed : <<f, ref.path>> \in Within} = {}
         /\ ref.kind = "INSPECTED_FILE" =>
              \E id \in ToSet(ledger) :
                /\ id = ref.source[2] /\ ReadOf[id].path = ref.path
                /\ ref.range # <<>> => Covers(ReadOf[id].lines, ref.range)
         /\ ref.kind = "EXECUTION" =>
              ref.source = <<>> \/ ExecutionIds = {} \/ ref.source[2] \in ExecutionIds
<1>1. ref.kind = "TRUSTED_DIFF" => ref.path \in changed \cup {NoPath}
  BY Zenon DEF reference_problem
<1>2. ref.kind = "ABSENCE_OF_CHANGE" => ~scope_contains_change(ref.path)
  BY Zenon DEF reference_problem
<1>3. ref.kind = "INSPECTED_FILE" =>
        \E id \in ToSet(ledger) :
          /\ id = ref.source[2] /\ ReadOf[id].path = ref.path
          /\ ref.range # <<>> => Covers(ReadOf[id].lines, ref.range)
  <2>1. ~read_ref_problem(ref)
    BY Zenon DEF reference_problem
  <2> QED
    BY <2>1, Zenon DEF read_ref_problem
<1>4. ref.kind = "EXECUTION" =>
        ref.source = <<>> \/ ExecutionIds = {} \/ ref.source[2] \in ExecutionIds
  BY Zenon DEF reference_problem
<1>5. ref.kind = "ABSENCE_OF_CHANGE" => {f \in changed : <<f, ref.path>> \in Within} = {}
  BY <1>2 DEF scope_contains_change
<1> QED
  BY <1>1, <1>3, <1>4, <1>5, Zenon

(* Among the proof that an absence of change asks for is an absence.       *)
LEMMA AbsenceIsCited ==
  ASSUME NEW refs, NEW text, has_required_absence_refs(refs, text)
  PROVE  \E ref \in refs : ref.kind = "ABSENCE_OF_CHANGE"
<1>1. {ref.path : ref \in {x \in refs : x.kind = "ABSENCE_OF_CHANGE"}} \cap Scope # {}
  BY Zenon DEF has_required_absence_refs
<1> QED
  BY <1>1

(* An ACCEPT the guard let pass is earned.                                 *)
LEMMA GuardedIsEarned ==
  ASSUME Accepted, IsReport(report), IsVerdict(result), ~accept_coverage_problems(result)
  PROVE  AcceptIsEarned
<1>1. AcceptCoversContract
  <2>1. ASSUME NEW r \in Ids
        PROVE  /\ \E i \in DOMAIN result.checks :
                    /\ result.checks[i].req = r /\ result.checks[i].status = "SATISFIED"
                    /\ \A j \in DOMAIN result.checks : result.checks[j].req = r => i = j
               /\ \E i \in DOMAIN report.inspections :
                    /\ report.inspections[i].req = r
                    /\ report.inspections[i].status = "VERIFIED"
                    /\ \A j \in DOMAIN report.inspections :
                         report.inspections[j].req = r => i = j
    <3>1. PICK i, k : Judged(r, i, k)
      BY AcceptedIsJudged
    <3> QED
      BY <3>1, Zenon DEF Judged
  <2> QED
    BY <2>1, Zenon DEF AcceptCoversContract
<1>2. AcceptRestsOnFacts
  <2>1. ASSUME NEW r \in Ids
        PROVE  /\ RefsOf(r) # {}
               /\ \A ref \in RefsOf(r) :
                    /\ ref.kind = "TRUSTED_DIFF" => ref.path \in changed \cup {NoPath}
                    /\ ref.kind = "ABSENCE_OF_CHANGE" =>
                         {f \in changed : <<f, ref.path>> \in Within} = {}
                    /\ ref.kind = "INSPECTED_FILE" =>
                         \E id \in ToSet(ledger) :
                           /\ ReadOf[id].path = ref.path
                           /\ ref.range # <<>> => ref.range[1] >= ReadOf[id].lines[1]
                                                  /\ ref.range[2] <= ReadOf[id].lines[2]
                    /\ ref.kind = "EXECUTION" =>
                         ref.source = <<>> \/ ExecutionIds = {} \/ ref.source[2] \in ExecutionIds
               /\ \A o \in ToSet(report.observations) :
                    o.req = r /\ o.kind = "CODE" =>
                      o.path \in changed \/ \E id \in ToSet(ledger) : ReadOf[id].path = o.path
    <3>1. PICK i, k : Judged(r, i, k)
      BY AcceptedIsJudged
    <3>2. RefsOf(r) = Cited(i, k) /\ RefsOf(r) # {}
      BY <3>1, JudgedOnAll DEF Judged
    <3>3. \A ref \in RefsOf(r) : ~reference_problem(ref, r, report)
      BY <3>1, <3>2, Zenon DEF Judged
    <3>4. ASSUME NEW ref \in RefsOf(r)
          PROVE  /\ ref.kind = "TRUSTED_DIFF" => ref.path \in changed \cup {NoPath}
                 /\ ref.kind = "ABSENCE_OF_CHANGE" =>
                      {f \in changed : <<f, ref.path>> \in Within} = {}
                 /\ ref.kind = "INSPECTED_FILE" =>
                      \E id \in ToSet(ledger) :
                        /\ ReadOf[id].path = ref.path
                        /\ ref.range # <<>> => ref.range[1] >= ReadOf[id].lines[1]
                                               /\ ref.range[2] <= ReadOf[id].lines[2]
                 /\ ref.kind = "EXECUTION" =>
                      ref.source = <<>> \/ ExecutionIds = {} \/ ref.source[2] \in ExecutionIds
      <4>1. ~reference_problem(ref, r, report)
        BY <3>3, <3>4
      <4> QED
        BY <4>1, SoundReference DEF Covers
    <3>5. ASSUME NEW o \in ToSet(report.observations), o.req = r, o.kind = "CODE"
          PROVE  o.path \in changed \/ \E id \in ToSet(ledger) : ReadOf[id].path = o.path
      <4>1. Grounded(o, Cited(i, k))
        BY <3>1, <3>5, ObservedIsGrounded
      <4>2. CASE \E ref \in Cited(i, k) :
                   /\ ref.kind = "INSPECTED_FILE" /\ ref.source # <<>>
                   /\ ref.source[2] \in ToSet(ledger) /\ ref.path = o.path
        <5>1. PICK ref \in Cited(i, k) :
                /\ ref.kind = "INSPECTED_FILE" /\ ref.source # <<>>
                /\ ref.source[2] \in ToSet(ledger) /\ ref.path = o.path
          BY <4>2
        <5>2. ~reference_problem(ref, r, report)
          BY <3>2, <3>3
        <5>3. \E id \in ToSet(ledger) : ReadOf[id].path = ref.path
          BY <5>1, <5>2, SoundReference
        <5> QED
          BY <5>1, <5>3
      <4> QED
        BY <4>1, <4>2, Zenon DEF Grounded
    <3> QED
      BY <3>2, <3>4, <3>5, Zenon
  <2> QED
    BY <2>1, Zenon DEF AcceptRestsOnFacts
<1>3. AcceptHasTheRightProof
  <2>1. ASSUME NEW r \in Ids, Of(r).class # "VALIDATION"
        PROVE  IF Of(r).text \in Negative \ Outcome
               THEN \E ref \in RefsOf(r) : ref.kind = "ABSENCE_OF_CHANGE"
               ELSE Of(r).class = "BEHAVIORAL" /\ Of(r).text \notin Negative =>
                      \E o \in ToSet(report.observations) : o.req = r /\ o.kind = "CODE"
    <3> DEFINE text == Of(r).text
               class == Of(r).class
               observed == {o \in ToSet(report.observations) : o.req = r}
    <3>1. PICK i, k : Judged(r, i, k)
      BY AcceptedIsJudged
    <3>2. RefsOf(r) = Cited(i, k)
      BY <3>1, JudgedOnAll
    <3>3. ~ProofMissing(r, Cited(i, k), observed)
      BY <3>1, ObservedIsGrounded
    <3>4. CASE class = "BEHAVIORAL"
      <4>1. ~(IF text \in Negative /\ ~(asserts_an_outcome(text) /\ Targets[text] = {})
              THEN ~has_required_absence_refs(Cited(i, k), text)
              ELSE \A o \in observed : o.kind # "CODE")
        <5> HIDE DEF observed
        <5> QED
          BY <3>3, <3>4 DEF ProofMissing
      <4>2. CASE text \in Negative \ Outcome
        <5>1. has_required_absence_refs(Cited(i, k), text)
          <6> HIDE DEF observed, text
          <6> QED
            BY <4>1, <4>2 DEF asserts_an_outcome
        <5> QED
          BY <3>2, <4>2, <5>1, AbsenceIsCited
      <4>3. CASE text \notin Negative
        <5>1. \E o \in observed : o.kind = "CODE"
          <6> HIDE DEF observed, text
          <6> QED
            BY <4>1, <4>3
        <5> QED
          BY <4>3, <5>1
      <4> QED
        BY <4>2, <4>3
    <3>5. CASE class # "BEHAVIORAL"
      <4>1. ~(/\ text \in Negative /\ ~asserts_an_outcome(text)
              /\ ~has_required_absence_refs(Cited(i, k), text))
        <5> HIDE DEF observed
        <5> QED
          BY <2>1, <3>3, <3>5 DEF ProofMissing
      <4>2. CASE text \in Negative \ Outcome
        <5>1. has_required_absence_refs(Cited(i, k), text)
          <6> HIDE DEF text
          <6> QED
            BY <4>1, <4>2 DEF asserts_an_outcome
        <5> QED
          BY <3>2, <4>2, <5>1, AbsenceIsCited
      <4> QED
        BY <3>5, <4>2
    <3> QED
      BY <3>4, <3>5
  <2> QED
    BY <2>1, Zenon DEF AcceptHasTheRightProof
<1> QED
  BY <1>1, <1>2, <1>3 DEF AcceptIsEarned

-----------------------------------------------------------------------------
(* Evidence that was lost.  What is unavailable depends on the requirements*)
(* and the references of the inspections alone.                            *)
LEMMA UnavailableDependsOn ==
  ASSUME NEW a, NEW b, DOMAIN a.inspections = DOMAIN b.inspections,
         \A i \in DOMAIN a.inspections : /\ a.inspections[i].req = b.inspections[i].req
                                         /\ a.inspections[i].refs = b.inspections[i].refs
  PROVE  unavailable_requirement_ids(a) = unavailable_requirement_ids(b)
<1> DEFINE place(rep) == UNION {{<<i, j>> : j \in DOMAIN rep.inspections[i].refs}
                                  : i \in DOMAIN rep.inspections}
           ref(rep, p) == rep.inspections[p[1]].refs[p[2]]
           before(p, q) == p[1] < q[1] \/ (p[1] = q[1] /\ p[2] < q[2])
           entry(rep) == {p \in place(rep) : EvidenceId(ref(rep, p)) # <<>>}
           shown(rep) == {p \in entry(rep) : ~NoText(ref(rep, p))}
           first(rep, id) ==
             {q \in shown(rep) : \A o \in shown(rep) : EvidenceId(ref(rep, o)) = id => before(q, o)}
           earlier(rep, id) == {EvidenceId(ref(rep, p)) : p \in first(rep, id)}
           fits(rep, p) == Cardinality(earlier(rep, EvidenceId(ref(rep, p)))) < CatalogLimit
           lost(rep) == {q \in entry(rep) : NoText(ref(rep, q)) \/ ~fits(rep, q)
                                             \/ CutShort(ref(rep, q))}
<1>1. place(a) = place(b)
  <2> DEFINE of(rep, i) == {<<i, j>> : j \in DOMAIN rep.inspections[i].refs}
  <2>1. \A i \in DOMAIN a.inspections : of(a, i) = of(b, i)
    OBVIOUS
  <2> HIDE DEF of
  <2>2. {of(a, i) : i \in DOMAIN a.inspections} = {of(b, i) : i \in DOMAIN b.inspections}
    BY <2>1
  <2> QED
    BY <2>2, Zenon DEF of
<1>2. ASSUME NEW p \in place(a) PROVE p[1] \in DOMAIN a.inspections
  <2>1. PICK i \in DOMAIN a.inspections : \E j \in DOMAIN a.inspections[i].refs : p = <<i, j>>
    OBVIOUS
  <2> QED
    BY <2>1
<1> HIDE DEF place
<1>3. \A p \in place(a) : ref(a, p) = ref(b, p)
  BY <1>2
<1> HIDE DEF ref
<1>4. entry(a) = entry(b) /\ \A p \in entry(a) : p \in place(a)
  BY <1>1, <1>3
<1> HIDE DEF entry
<1>5. shown(a) = shown(b) /\ \A p \in shown(a) : p \in place(a)
  BY <1>3, <1>4
<1> HIDE DEF shown, before
<1>6. \A id : first(a, id) = first(b, id) /\ \A p \in first(a, id) : p \in place(a)
  BY <1>3, <1>5
<1> HIDE DEF first
<1>7. \A id : earlier(a, id) = earlier(b, id)
  BY <1>3, <1>6
<1> HIDE DEF earlier
<1>8. \A p \in entry(a) : fits(a, p) = fits(b, p)
  BY <1>3, <1>4, <1>7
<1> HIDE DEF fits
<1>9. lost(a) = lost(b) /\ \A p \in lost(a) : p \in place(a)
  BY <1>3, <1>4, <1>8
<1> HIDE DEF lost
<1>10. \A p \in lost(a) : a.inspections[p[1]].req = b.inspections[p[1]].req
  BY <1>2, <1>9
<1>11. ASSUME NEW rep
       PROVE  unavailable_requirement_ids(rep) = {rep.inspections[p[1]].req : p \in lost(rep)}
  BY DEF unavailable_requirement_ids, lost, fits, earlier, first, shown, entry, before, ref, place
<1>12. {a.inspections[p[1]].req : p \in lost(a)} = {b.inspections[p[1]].req : p \in lost(b)}
  BY <1>9, <1>10
<1> QED
  BY <1>11, <1>12, Zenon

(* No inspection of a requirement whose evidence was lost is VERIFIED.     *)
LostIsOpen(rep) ==
  \A x \in ToSet(rep.inspections) :
    x.req \in unavailable_requirement_ids(rep) => x.status # "VERIFIED"

LEMMA FailsClosed ==
  ASSUME NEW rep, IsReport(rep)
  PROVE  LET F == fail_closed_unavailable_inspections(rep, unavailable_requirement_ids(rep)) IN
         IsReport(F) /\ LostIsOpen(F)
<1> DEFINE lost == unavailable_requirement_ids(rep)
           closed(x) == IF x.req \in lost THEN [x EXCEPT !.status = "UNVERIFIED"] ELSE x
           K == DOMAIN rep.inspections
           list == [i \in K |-> closed(rep.inspections[i])]
           F == fail_closed_unavailable_inspections(rep, lost)
<1>1. /\ DOMAIN rep = {"inspections", "observations"} /\ IsList(rep.observations)
      /\ K = 1 .. Len(rep.inspections) /\ Len(rep.inspections) \in Nat
      /\ \A i \in K : DOMAIN rep.inspections[i] = {"req", "status", "refs"}
  BY Lists DEF IsReport, ToSet
<1>2. F = [rep EXCEPT !.inspections = list]
  BY DEF fail_closed_unavailable_inspections
<1>3. DOMAIN F = DOMAIN rep /\ F.inspections = list /\ F.observations = rep.observations
  BY <1>1, <1>2
<1>4. \A i \in K : /\ DOMAIN list[i] = {"req", "status", "refs"}
                   /\ list[i].req = rep.inspections[i].req
                   /\ list[i].refs = rep.inspections[i].refs
                   /\ list[i].req \in lost => list[i].status # "VERIFIED"
  <2> HIDE DEF lost
  <2>1. ASSUME NEW i \in K
        PROVE  LET x == closed(rep.inspections[i]) IN
               /\ DOMAIN x = {"req", "status", "refs"}
               /\ x.req = rep.inspections[i].req /\ x.refs = rep.inspections[i].refs
               /\ x.req \in lost => x.status # "VERIFIED"
    <3>1. CASE rep.inspections[i].req \in lost
      BY <1>1, <3>1
    <3>2. CASE rep.inspections[i].req \notin lost
      BY <1>1, <3>2
    <3> QED
      BY <3>1, <3>2
  <2> QED
    BY <2>1
<1>5. list \in [1 .. Len(rep.inspections) -> {list[i] : i \in K}] /\ DOMAIN list = K
  BY <1>1
<1> HIDE DEF list, closed, F, K, lost
<1>6. IsList(list)
  BY <1>1, <1>5, Lists
<1>7. ToSet(list) = {list[i] : i \in K}
  BY <1>5 DEF ToSet
<1>8. IsReport(F)
  <2>1. \A x \in ToSet(list) : DOMAIN x = {"req", "status", "refs"}
    BY <1>4, <1>7
  <2>2. /\ DOMAIN F = {"inspections", "observations"}
        /\ IsList(F.inspections) /\ IsList(F.observations)
    BY <1>1, <1>3, <1>6
  <2>3. \A x \in ToSet(F.inspections) : DOMAIN x = {"req", "status", "refs"}
    BY <1>3, <2>1
  <2> QED
    BY <2>2, <2>3, Zenon DEF IsReport
<1>9. unavailable_requirement_ids(F) = lost
  <2>1. DOMAIN F.inspections = DOMAIN rep.inspections
    BY <1>3, <1>5 DEF K
  <2>2. \A i \in DOMAIN F.inspections : /\ F.inspections[i].req = rep.inspections[i].req
                                        /\ F.inspections[i].refs = rep.inspections[i].refs
    BY <1>3, <1>4, <1>5
  <2> QED
    BY <2>1, <2>2, UnavailableDependsOn DEF lost
<1>10. LostIsOpen(F)
  BY <1>3, <1>4, <1>7, <1>9 DEF LostIsOpen
<1> QED
  BY <1>8, <1>10 DEF F, lost

(* What the guard makes of an inspector's report is a report of that kind. *)
LEMMA EvaluatedReports ==
  ASSUME NEW rep, IsReport(rep)
  PROVE  IsReport(Evaluated(rep)) /\ LostIsOpen(Evaluated(rep))
<1> DEFINE bound == canonical_inspection_provenance(rep)
           K == DOMAIN rep.inspections
<1>1. /\ DOMAIN rep = {"inspections", "observations"} /\ IsList(rep.observations)
      /\ K = 1 .. Len(rep.inspections) /\ Len(rep.inspections) \in Nat
      /\ \A i \in K : DOMAIN rep.inspections[i] = {"req", "status", "refs"}
  BY Lists DEF IsReport, ToSet
<1>2. \E refs : bound = [rep EXCEPT !.inspections =
                          [i \in K |-> [rep.inspections[i] EXCEPT !.refs = refs[i]]]]
  <2> DEFINE own(req) == SelectSeq(rep.observations, LAMBDA o : o.req = req)
             all(x) == FlattenSeq([i \in DOMAIN own(x.req) |->
                                     FromObservation(own(x.req)[i], x.req)])
                        \o FlattenSeq([i \in DOMAIN x.refs |-> FromRef(x.refs[i], x.req)])
             kept(x) == SelectSeq(x.refs, LAMBDA ref : ~Rebound(ref.kind))
             new(x) == kept(x) \o Unique(all(x))
             refs == [i \in K |-> new(rep.inspections[i])]
  <2>1. bound = [rep EXCEPT !.inspections =
                  [i \in K |-> [rep.inspections[i] EXCEPT !.refs = new(rep.inspections[i])]]]
    BY DEF canonical_inspection_provenance
  <2> HIDE DEF new, bound
  <2>2. \A i \in K : refs[i] = new(rep.inspections[i])
    OBVIOUS
  <2> HIDE DEF refs
  <2>3. [i \in K |-> [rep.inspections[i] EXCEPT !.refs = new(rep.inspections[i])]]
          = [i \in K |-> [rep.inspections[i] EXCEPT !.refs = refs[i]]]
    BY <2>2
  <2> QED
    BY <2>1, <2>3
<1>3. PICK refs : bound = [rep EXCEPT !.inspections =
                            [i \in K |-> [rep.inspections[i] EXCEPT !.refs = refs[i]]]]
  BY <1>2
<1> DEFINE list == [i \in K |-> [rep.inspections[i] EXCEPT !.refs = refs[i]]]
<1>4. list \in [1 .. Len(rep.inspections) -> {list[i] : i \in K}] /\ DOMAIN list = K
  BY <1>1
<1>5. \A i \in K : DOMAIN list[i] = {"req", "status", "refs"}
  BY <1>1
<1> HIDE DEF list, bound, K
<1>6. DOMAIN bound = DOMAIN rep /\ bound.inspections = list
      /\ bound.observations = rep.observations
  BY <1>1, <1>3 DEF list
<1>7. IsList(list) /\ ToSet(list) = {list[i] : i \in K}
  BY <1>1, <1>4, Lists DEF ToSet
<1>8. IsReport(bound)
  <2>1. \A x \in ToSet(list) : DOMAIN x = {"req", "status", "refs"}
    BY <1>5, <1>7
  <2>2. /\ DOMAIN bound = {"inspections", "observations"}
        /\ IsList(bound.inspections) /\ IsList(bound.observations)
    BY <1>1, <1>6, <1>7
  <2>3. \A x \in ToSet(bound.inspections) : DOMAIN x = {"req", "status", "refs"}
    BY <1>6, <2>1
  <2> QED
    BY <2>2, <2>3, Zenon DEF IsReport
<1> QED
  BY <1>8, FailsClosed DEF Evaluated, bound

-----------------------------------------------------------------------------
(* The guard's questions keep their answers while what they are about does.*)
Settled == UNCHANGED <<changed, contract, ledger, report, stages>>

LEMMA ScopesSettled ==
  ASSUME Settled
  PROVE  /\ \A scope : scope_contains_change(scope)' = scope_contains_change(scope)
         /\ \A scope, target :
              absence_scope_covers_target(scope, target)' = absence_scope_covers_target(scope, target)
         /\ \A refs, text :
              has_required_absence_refs(refs, text)' = has_required_absence_refs(refs, text)
<1>1. \A scope : scope_contains_change(scope)' = scope_contains_change(scope)
  BY DEF Settled, scope_contains_change
<1>2. \A scope, target :
        absence_scope_covers_target(scope, target)' = absence_scope_covers_target(scope, target)
  BY <1>1 DEF Settled, absence_scope_covers_target
<1>3. \A refs, text :
        has_required_absence_refs(refs, text)' = has_required_absence_refs(refs, text)
  BY <1>2 DEF Settled, has_required_absence_refs
<1> QED
  BY <1>1, <1>2, <1>3

LEMMA EvidenceSettled ==
  ASSUME Settled
  PROVE  /\ Ids' = Ids /\ \A r : Of(r)' = Of(r)
         /\ \A ref, r, rep : reference_problem(ref, r, rep)' <=> reference_problem(ref, r, rep)
         /\ \A x, refs, rep :
              inspection_authority_problems(x, refs, rep)'
                <=> inspection_authority_problems(x, refs, rep)
<1>1. Ids' = Ids /\ \A r : Of(r)' = Of(r)
  BY DEF Settled, Ids, Of
<1>2. \A ref : read_ref_problem(ref)' <=> read_ref_problem(ref)
  BY DEF Settled, read_ref_problem
<1>3. \A ref, r, rep : reference_problem(ref, r, rep)' <=> reference_problem(ref, r, rep)
  BY <1>2, ScopesSettled DEF Settled, reference_problem
<1>4. \A o, refs : Grounded(o, refs)' <=> Grounded(o, refs)
  BY DEF Settled, Grounded
<1>5. \A r, refs, observed : ProofMissing(r, refs, observed)' <=> ProofMissing(r, refs, observed)
  BY <1>1, ScopesSettled DEF ProofMissing
<1>6. \A x, refs, rep :
        inspection_authority_problems(x, refs, rep)' <=> inspection_authority_problems(x, refs, rep)
  BY <1>3, <1>4, <1>5 DEF inspection_authority_problems
<1> QED
  BY <1>1, <1>3, <1>6

LEMMA FindingsSettled ==
  ASSUME Settled
  PROVE  semantic_artifact_problems' <=> semantic_artifact_problems
<1>1. \A s : clusters_for_stage(s)' = clusters_for_stage(s)
  BY DEF Settled, clusters_for_stage, evidence_clusters, Sections
<1>2. linked_implementation_clusters' = linked_implementation_clusters
  BY <1>1 DEF linked_implementation_clusters
<1>3. \A s : Context(s)' = Context(s)
  BY <1>1, <1>2 DEF Context
<1>4. \A f, s : finding_provenance_errors(f, s)' <=> finding_provenance_errors(f, s)
  BY <1>1, <1>3 DEF finding_provenance_errors
<1>5. candidate_requirement_associations' = candidate_requirement_associations
  BY DEF Settled, candidate_requirement_associations
<1> QED
  BY <1>1, <1>4, <1>5 DEF Settled, semantic_artifact_problems

LEMMA GuardSettled ==
  ASSUME Settled, NEW v
  PROVE  accept_coverage_problems(v)' <=> accept_coverage_problems(v)
<1> DEFINE inspected == [i \in DOMAIN report.inspections |-> report.inspections[i].req]
           current(r) == {x \in Latest(report.inspections, LAMBDA y : y.req) : x.req = r}
           wrong(x, c) ==
             LET refs == ToSet(x.refs) \cup ToSet(c.refs) IN
             \/ x.status # "VERIFIED"
             \/ \E ref \in refs : reference_problem(ref, c.req, report)
             \/ refs = {}
             \/ inspection_authority_problems(x, refs, report)
           unearned(c) ==
             /\ c.status = "SATISFIED"
             /\ \/ c.req \notin Ids \/ current(c.req) = {}
                \/ \E x \in current(c.req) : c.req \in Ids /\ wrong(x, c)
<1>1. artifact_problems(v)' <=> artifact_problems(v)
  <2>1. report' = report /\ Ids' = Ids
    BY EvidenceSettled DEF Settled
  <2>2. \A r : current(r)' = current(r)
    BY <2>1 DEF Latest
  <2>3. \A x, c : wrong(x, c)' <=> wrong(x, c)
    BY <2>1, EvidenceSettled
  <2> HIDE DEF current, wrong
  <2>4. \A c : unearned(c)' <=> unearned(c)
    BY <2>1, <2>2, <2>3
  <2>5. artifact_problems(v) <=>
          \/ Duplicated(inspected)
          \/ Duplicated([i \in DOMAIN report.observations |-> report.observations[i].id])
          \/ ToSet(inspected) # Ids
          \/ \E o \in ToSet(report.observations) : o.req \notin Ids
          \/ \E c \in ToSet(v.checks) : unearned(c)
          \/ semantic_artifact_problems
    BY Zenon DEF artifact_problems, current, wrong
  <2>6. artifact_problems(v)' <=>
          (\/ Duplicated(inspected)
           \/ Duplicated([i \in DOMAIN report.observations |-> report.observations[i].id])
           \/ ToSet(inspected) # Ids
           \/ \E o \in ToSet(report.observations) : o.req \notin Ids
           \/ \E c \in ToSet(v.checks) : unearned(c)
           \/ semantic_artifact_problems)'
    BY Zenon DEF artifact_problems, current, wrong
  <2> HIDE DEF unearned
  <2> QED
    BY <2>1, <2>4, <2>5, <2>6, FindingsSettled
<1> QED
  BY <1>1, EvidenceSettled DEF accept_coverage_problems

-----------------------------------------------------------------------------
(* What is made of a finalizer's result is a result of that kind, and an   *)
(* ACCEPT among them has passed the guard.                                 *)
LEMMA RoutedVerdicts ==
  ASSUME NEW v, IsVerdict(v)
  PROVE  IsVerdict(Routed(v))
<1> DEFINE bound == canonical_finalizer_provenance(v)
           K == DOMAIN v.checks
<1>1. /\ DOMAIN v = {"verdict", "checks", "instructions"}
      /\ v.verdict \in {"ACCEPT", "NEEDS_FIXES", "BLOCKED"}
      /\ K = 1 .. Len(v.checks) /\ Len(v.checks) \in Nat
      /\ \A i \in K : DOMAIN v.checks[i] = {"req", "status", "refs", "repairability"}
  BY Lists DEF IsVerdict, ToSet
<1>2. \E refs : bound = [v EXCEPT !.checks = [i \in K |-> [v.checks[i] EXCEPT !.refs = refs[i]]]]
  <2> DEFINE rebind(ref, req) ==
               IF ref.kind = "ABSENCE_OF_CHANGE" THEN canonical_absence_ref(ref, req) ELSE <<ref>>
             new(c) == Unique(FlattenSeq([j \in DOMAIN c.refs |-> rebind(c.refs[j], c.req)]))
             refs == [i \in K |-> new(v.checks[i])]
  <2>1. bound = [v EXCEPT !.checks = [i \in K |-> [v.checks[i] EXCEPT !.refs = new(v.checks[i])]]]
    BY DEF canonical_finalizer_provenance
  <2> HIDE DEF new, bound
  <2>2. \A i \in K : refs[i] = new(v.checks[i])
    OBVIOUS
  <2> HIDE DEF refs
  <2>3. [i \in K |-> [v.checks[i] EXCEPT !.refs = new(v.checks[i])]]
          = [i \in K |-> [v.checks[i] EXCEPT !.refs = refs[i]]]
    BY <2>2
  <2> QED
    BY <2>1, <2>3
<1>3. PICK refs : bound = [v EXCEPT !.checks = [i \in K |-> [v.checks[i] EXCEPT !.refs = refs[i]]]]
  BY <1>2
<1> DEFINE list == [i \in K |-> [v.checks[i] EXCEPT !.refs = refs[i]]]
<1>4. list \in [1 .. Len(v.checks) -> {list[i] : i \in K}] /\ DOMAIN list = K
  BY <1>1
<1>5. \A i \in K : DOMAIN list[i] = {"req", "status", "refs", "repairability"}
  BY <1>1
<1> HIDE DEF list, bound, K
<1>6. DOMAIN bound = DOMAIN v /\ bound.checks = list /\ bound.verdict = v.verdict
  BY <1>1, <1>3 DEF list
<1>7. IsList(list) /\ ToSet(list) = {list[i] : i \in K}
  BY <1>1, <1>4, Lists DEF ToSet
<1>8. \A c \in ToSet(bound.checks) : DOMAIN c = {"req", "status", "refs", "repairability"}
  BY <1>5, <1>6, <1>7
<1> DEFINE R == guard_repairability(bound)
<1>9. R = bound \/ R = [bound EXCEPT !.verdict = "NEEDS_FIXES"]
  BY DEF guard_repairability
<1> HIDE DEF R
<1>10. /\ DOMAIN R = {"verdict", "checks", "instructions"} /\ R.checks = bound.checks
       /\ R.verdict \in {"ACCEPT", "NEEDS_FIXES", "BLOCKED"}
  BY <1>1, <1>6, <1>9
<1>11. IsVerdict(R)
  BY <1>6, <1>7, <1>8, <1>10, Zenon DEF IsVerdict
<1> QED
  BY <1>11 DEF Routed, R, bound

LEMMA GuardedVerdicts ==
  ASSUME NEW v, IsVerdict(v)
  PROVE  LET w == apply_accept_coverage_guard(v) IN
         IsVerdict(w) /\ (w.verdict = "ACCEPT" => ~accept_coverage_problems(w))
<1> DEFINE w == apply_accept_coverage_guard(v)
<1>1. CASE accept_coverage_problems(v)
  <2>1. w = [v EXCEPT !.verdict = "BLOCKED", !.instructions = FALSE]
    BY <1>1 DEF apply_accept_coverage_guard
  <2>2. DOMAIN v = {"verdict", "checks", "instructions"}
    BY DEF IsVerdict
  <2> HIDE DEF w
  <2>3. DOMAIN w = DOMAIN v /\ w.checks = v.checks /\ w.verdict = "BLOCKED"
    BY <2>1, <2>2
  <2>4. /\ IsList(v.checks) /\ DOMAIN v = {"verdict", "checks", "instructions"}
        /\ \A c \in ToSet(v.checks) : DOMAIN c = {"req", "status", "refs", "repairability"}
    BY Zenon DEF IsVerdict
  <2>5. IsList(w.checks)
        /\ \A c \in ToSet(w.checks) : DOMAIN c = {"req", "status", "refs", "repairability"}
    BY <2>3, <2>4
  <2>6. DOMAIN w = {"verdict", "checks", "instructions"}
        /\ w.verdict \in {"ACCEPT", "NEEDS_FIXES", "BLOCKED"}
    BY <2>3, <2>4
  <2>7. IsVerdict(w)
    BY <2>5, <2>6, Zenon DEF IsVerdict
  <2> QED
    BY <2>3, <2>7 DEF w
<1>2. CASE ~accept_coverage_problems(v)
  BY <1>2 DEF apply_accept_coverage_guard
<1> QED
  BY <1>1, <1>2

(* The report of a stage is empty, or all its specialist answered.         *)
Follows(rep, answer) ==
  \/ rep = NoFindings
  \/ rep = StageReport("SKIPPED", <<>>) /\ answer = NoAnswer
  \/ rep = StageReport("COMPLETED", answer.findings)

LEMMA SpecialistsAreHeard ==
  ASSUME NEW stage, NEW answer \in Answers(stage)
  PROVE  Follows(invoke_specialist(stage, answer), answer)
<1>1. CASE clusters_for_stage(stage) = {}
  BY <1>1, Zenon DEF Answers, Follows, invoke_specialist
<1>2. CASE clusters_for_stage(stage) # {}
  BY <1>2, Zenon DEF Follows, invoke_specialist
<1> QED
  BY <1>1, <1>2

LEMMA SharedIdsEmptyBoth ==
  ASSUME NEW impl, NEW test, NEW a, NEW b, Follows(impl, a), Follows(test, b)
  PROVE  LET S == WithoutSharedIds(impl, test) IN
         /\ DOMAIN S = Stage
         /\ Follows(S["IMPLEMENTATION"], a) /\ Follows(S["TEST_VALIDATION"], b)
<1> DEFINE S == WithoutSharedIds(impl, test)
<1>1. \/ S = [IMPLEMENTATION |-> impl, TEST_VALIDATION |-> test]
      \/ S = [IMPLEMENTATION |-> NoFindings, TEST_VALIDATION |-> NoFindings]
  BY DEF WithoutSharedIds
<1> HIDE DEF S
<1>2. DOMAIN S = Stage
  BY <1>1 DEF Stage
<1>3. \/ S["IMPLEMENTATION"] = impl /\ S["TEST_VALIDATION"] = test
      \/ S["IMPLEMENTATION"] = NoFindings /\ S["TEST_VALIDATION"] = NoFindings
  BY <1>1
<1>4. Follows(S["IMPLEMENTATION"], a) /\ Follows(S["TEST_VALIDATION"], b)
  BY <1>3, Zenon DEF Follows
<1> QED
  BY <1>2, <1>4 DEF S

-----------------------------------------------------------------------------
(* The inductive invariant of a review: what it is about stays as it was,  *)
(* its reads and attempts are counted, its report and its findings are what*)
(* the guard and the specialists made of them, and an ACCEPT passed the    *)
(* guard on the very evidence that is there when it leaves.                *)
Frozen ==
  /\ request \in Inputs /\ changed \in ChangeSets
  /\ contract = build_review_requirement_contract(request.source, request.plan)

Counted ==
  /\ attempt \in 1 .. 2 /\ calls \in 0 .. MaxCalls /\ truncated \in BOOLEAN
  /\ ledger \in Seq(DOMAIN ReadOf)
  /\ Len(ledger) <= IF attempt = 1 THEN calls ELSE MaxCalls + calls

Phased ==
  /\ pc \in {"inspect", "implementation", "tests", "finalize", "done"}
  /\ result.verdict \in {"PENDING", "ERROR", "ACCEPT", "NEEDS_FIXES", "BLOCKED"}
  /\ (pc = "done") = (result.verdict # "PENDING")

Reported ==
  /\ IsReport(report)
  /\ pc \in {"implementation", "tests", "finalize"} \/ Accepted => LostIsOpen(report)

Heard ==
  /\ DOMAIN answers = Stage /\ DOMAIN stages = Stage
  /\ \A s \in Stage : Follows(stages[s], answers[s])

Guarded == Accepted => IsVerdict(result) /\ ~accept_coverage_problems(result)

ReviewInv == Frozen /\ Counted /\ Phased /\ Reported /\ Heard /\ Guarded

LEMMA FrozenKept ==
  ASSUME Frozen, UNCHANGED caseVars
  PROVE  Frozen'
BY DEF Frozen, caseVars

LEMMA CountedKept ==
  ASSUME Counted, UNCHANGED <<attempt, calls, ledger>>, truncated' \in BOOLEAN
  PROVE  Counted'
BY DEF Counted

LEMMA HeardKept ==
  ASSUME Heard, UNCHANGED <<answers, stages>>
  PROVE  Heard'
BY DEF Heard, Follows, NoFindings, StageReport, NoAnswer

LEMMA LostSettled ==
  ASSUME UNCHANGED <<changed, ledger>>
  PROVE  \A rep : unavailable_requirement_ids(rep)' = unavailable_requirement_ids(rep)
<1>1. \A ref : EvidenceId(ref)' = EvidenceId(ref)
  <2>1. \A scope : scope_contains_change(scope)' = scope_contains_change(scope)
    BY DEF scope_contains_change
  <2> QED
    BY <2>1 DEF EvidenceId
<1>2. \A ref : NoText(ref)' <=> NoText(ref)
  BY DEF NoText, Sections
<1>3. \A ref : CutShort(ref)' <=> CutShort(ref)
  BY DEF CutShort, Sections
<1> DEFINE place(rep) == UNION {{<<i, j>> : j \in DOMAIN rep.inspections[i].refs}
                                  : i \in DOMAIN rep.inspections}
           ref(rep, p) == rep.inspections[p[1]].refs[p[2]]
           before(p, q) == p[1] < q[1] \/ (p[1] = q[1] /\ p[2] < q[2])
           entry(rep) == {p \in place(rep) : EvidenceId(ref(rep, p)) # <<>>}
           shown(rep) == {p \in entry(rep) : ~NoText(ref(rep, p))}
           first(rep, id) ==
             {q \in shown(rep) : \A o \in shown(rep) : EvidenceId(ref(rep, o)) = id => before(q, o)}
           earlier(rep, id) == {EvidenceId(ref(rep, p)) : p \in first(rep, id)}
           fits(rep, p) == Cardinality(earlier(rep, EvidenceId(ref(rep, p)))) < CatalogLimit
           lost(rep) == {q \in entry(rep) : NoText(ref(rep, q)) \/ ~fits(rep, q)
                                             \/ CutShort(ref(rep, q))}
<1> HIDE DEF place, ref, before
<1>4. \A rep : entry(rep)' = entry(rep)
  BY <1>1
<1> HIDE DEF entry
<1>5. \A rep : shown(rep)' = shown(rep)
  BY <1>2, <1>4
<1> HIDE DEF shown
<1>6. \A rep, id : first(rep, id)' = first(rep, id)
  BY <1>1, <1>5
<1> HIDE DEF first
<1>7. \A rep, id : earlier(rep, id)' = earlier(rep, id)
  BY <1>1, <1>6
<1> HIDE DEF earlier
<1>8. \A rep, p : fits(rep, p)' <=> fits(rep, p)
  BY <1>1, <1>7
<1> HIDE DEF fits
<1>9. \A rep : lost(rep)' = lost(rep)
  BY <1>2, <1>3, <1>4, <1>8
<1> HIDE DEF lost
<1>10. ASSUME NEW rep
       PROVE  /\ unavailable_requirement_ids(rep) = {rep.inspections[p[1]].req : p \in lost(rep)}
              /\ unavailable_requirement_ids(rep)' = {rep.inspections[p[1]].req : p \in lost(rep)'}
  BY DEF unavailable_requirement_ids, lost, fits, earlier, first, shown, entry, before, ref, place
<1> QED
  BY <1>9, <1>10

(* A report the guard has closed stays one while the evidence does.        *)
LEMMA OpenSettled ==
  ASSUME UNCHANGED <<changed, ledger>>, NEW rep, LostIsOpen(rep), report' = rep
  PROVE  LostIsOpen(report)'
<1>1. unavailable_requirement_ids(report)' = unavailable_requirement_ids(rep)
  BY LostSettled
<1> QED
  BY <1>1 DEF LostIsOpen

LEMMA OpenKept ==
  ASSUME UNCHANGED <<changed, ledger, report>>, IsReport(report), LostIsOpen(report)
  PROVE  IsReport(report)' /\ LostIsOpen(report)'
<1>1. PICK x : x = report /\ IsReport(x) /\ LostIsOpen(x)
  OBVIOUS
<1>2. report' = x
  BY <1>1
<1>3. LostIsOpen(report)'
  BY <1>1, <1>2, OpenSettled
<1>4. IsReport(report)'
  BY <1>1, <1>2 DEF IsReport
<1> QED
  BY <1>3, <1>4

(* The reports and the results a model may return are of their kinds.      *)
LEMMA ArtifactsAreWellFormed ==
  ASSUME Frozen
  PROVE  /\ \A rep \in {Evaluated(x) : x \in Reports(contract)} : IsReport(rep) /\ LostIsOpen(rep)
         /\ \A v \in {Routed(x) : x \in Verdicts(contract)} : IsVerdict(v)
<1>1. /\ \A x \in Reports(contract) : IsReport(x)
      /\ \A x \in Verdicts(contract) : IsVerdict(x)
  BY ArtifactAssumption DEF Frozen
<1>2. \A x \in Reports(contract) : IsReport(Evaluated(x)) /\ LostIsOpen(Evaluated(x))
  BY <1>1, EvaluatedReports
<1>3. \A x \in Verdicts(contract) : IsVerdict(Routed(x))
  BY <1>1, RoutedVerdicts
<1> QED
  BY <1>2, <1>3

-----------------------------------------------------------------------------
(* Each step keeps the invariant.                                          *)
LEMMA ReadStep ==
  ASSUME ReviewInv, NEW id \in DOMAIN ReadOf, read_repo_file(id)
  PROVE  ReviewInv'
<1>1. /\ pc = "inspect" /\ calls < MaxCalls /\ calls' = calls + 1
      /\ ledger' = IF resolve_reviewer_file(ReadOf[id].path) THEN Append(ledger, id) ELSE ledger
      /\ UNCHANGED <<caseVars, pc, attempt, report, truncated, answers, stages, result>>
  BY DEF read_repo_file
<1>2. Frozen' /\ Heard'
  BY <1>1, FrozenKept, HeardKept DEF ReviewInv
<1>3. Counted'
  <2>1. /\ attempt \in 1 .. 2 /\ calls \in 0 .. MaxCalls /\ truncated \in BOOLEAN
        /\ ledger \in Seq(DOMAIN ReadOf)
        /\ Len(ledger) <= IF attempt = 1 THEN calls ELSE MaxCalls + calls
    BY DEF ReviewInv, Counted
  <2>2. MaxCalls \in Nat
    BY ReviewAssumption
  <2>3. calls' \in 0 .. MaxCalls /\ calls' = calls + 1
    BY <1>1, <2>1, <2>2
  <2>4. /\ ledger' \in Seq(DOMAIN ReadOf) /\ Len(ledger) \in Nat
        /\ Len(ledger') \in {Len(ledger), Len(ledger) + 1}
    <3>1. Len(ledger) \in Nat
      BY <2>1
    <3>2. Append(ledger, id) \in Seq(DOMAIN ReadOf)
      BY <2>1
    <3>3. Len(Append(ledger, id)) = Len(ledger) + 1
      BY <2>1
    <3>4. ledger' = ledger \/ ledger' = Append(ledger, id)
      BY <1>1
    <3> QED
      BY <2>1, <3>1, <3>2, <3>3, <3>4
  <2>5. Len(ledger') <= IF attempt' = 1 THEN calls' ELSE MaxCalls + calls'
    BY <1>1, <2>1, <2>2, <2>3, <2>4
  <2> QED
    BY <1>1, <2>1, <2>3, <2>4, <2>5 DEF Counted
<1>4. Phased'
  BY <1>1 DEF ReviewInv, Phased
<1>5. ~Accepted'
  BY <1>1 DEF ReviewInv, Phased, Accepted
<1>6. Reported'
  <2>1. IsReport(report)'
    BY <1>1 DEF ReviewInv, Reported, IsReport
  <2> QED
    BY <1>1, <1>5, <2>1 DEF Reported
<1> QED
  BY <1>2, <1>3, <1>4, <1>5, <1>6 DEF ReviewInv, Guarded

(* The three fates of an inspector's report.                               *)
LEMMA InspectionStep ==
  ASSUME ReviewInv, NEW rep \in {Evaluated(x) : x \in Reports(contract)},
         InspectionPasses(rep) \/ InspectionIsCorrected(rep) \/ InspectionIsRejected(rep)
  PROVE  ReviewInv'
<1>1. /\ pc = "inspect" /\ report' = rep
      /\ UNCHANGED <<caseVars, ledger, truncated, answers, stages>>
      /\ \/ pc' = "implementation" /\ UNCHANGED <<attempt, calls, result>>
         \/ attempt = 1 /\ attempt' = 2 /\ calls' = 0 /\ UNCHANGED <<pc, result>>
         \/ pc' = "done" /\ result' = Raised /\ UNCHANGED <<attempt, calls>>
  BY DEF InspectionPasses, InspectionIsCorrected, InspectionIsRejected
<1>2. Frozen' /\ Heard'
  BY <1>1, FrozenKept, HeardKept DEF ReviewInv
<1>3. Counted'
  <2>1. /\ attempt \in 1 .. 2 /\ calls \in 0 .. MaxCalls /\ truncated \in BOOLEAN
        /\ ledger \in Seq(DOMAIN ReadOf)
        /\ Len(ledger) <= IF attempt = 1 THEN calls ELSE MaxCalls + calls
    BY DEF ReviewInv, Counted
  <2>2. MaxCalls \in Nat /\ Len(ledger) \in Nat
    BY <2>1, ReviewAssumption
  <2>3. CASE UNCHANGED <<attempt, calls>>
    BY <1>1, <2>1, <2>3 DEF Counted
  <2>4. CASE attempt = 1 /\ attempt' = 2 /\ calls' = 0
    <3>1. Len(ledger') <= MaxCalls + calls'
      BY <1>1, <2>1, <2>2, <2>4
    <3> QED
      BY <1>1, <2>1, <2>2, <2>4, <3>1 DEF Counted
  <2> QED
    BY <1>1, <2>3, <2>4
<1>4. Phased' /\ ~Accepted'
  BY <1>1 DEF ReviewInv, Phased, Accepted, Raised
<1>5. Reported'
  <2>1. IsReport(rep) /\ LostIsOpen(rep)
    BY ArtifactsAreWellFormed DEF ReviewInv
  <2>2. IsReport(report)'
    BY <1>1, <2>1 DEF IsReport
  <2>3. UNCHANGED <<changed, ledger>>
    BY <1>1 DEF caseVars
  <2>4. LostIsOpen(report)'
    BY <1>1, <2>1, <2>3, OpenSettled
  <2> QED
    BY <2>2, <2>4 DEF Reported
<1> QED
  BY <1>2, <1>3, <1>4, <1>5 DEF ReviewInv, Guarded

LEMMA RunsOutStep ==
  ASSUME ReviewInv, InspectionRunsOut
  PROVE  ReviewInv'
<1> DEFINE rep == fail_closed_unavailable_inspections(report, unavailable_requirement_ids(report))
<1>1. /\ pc = "inspect" /\ pc' = "implementation" /\ report' = rep /\ truncated' = TRUE
      /\ UNCHANGED <<caseVars, attempt, calls, ledger, answers, stages, result>>
  BY DEF InspectionRunsOut
<1>2. IsReport(rep) /\ LostIsOpen(rep)
  BY FailsClosed DEF ReviewInv, Reported
<1>3. \E x : report' = x /\ IsReport(x) /\ LostIsOpen(x)
  BY <1>1, <1>2
<1>4. PICK x : report' = x /\ IsReport(x) /\ LostIsOpen(x)
  BY <1>3
<1>5. Frozen' /\ Heard'
  BY <1>1, FrozenKept, HeardKept DEF ReviewInv
<1>6. Counted'
  BY <1>1, CountedKept DEF ReviewInv
<1>7. Phased' /\ ~Accepted'
  BY <1>1 DEF ReviewInv, Phased, Accepted
<1>8. Reported'
  <2>1. IsReport(report)'
    BY <1>4 DEF IsReport
  <2>2. UNCHANGED <<changed, ledger>>
    BY <1>1 DEF caseVars
  <2>3. LostIsOpen(report)'
    BY <1>4, <2>2, OpenSettled
  <2> QED
    BY <2>1, <2>3 DEF Reported
<1> QED
  BY <1>5, <1>6, <1>7, <1>8 DEF ReviewInv, Guarded

(* Exceptions, and a prompt that does not pack.                            *)
LEMMA FailureStep ==
  ASSUME ReviewInv, OperationalFailure \/ FinalizerDoesNotPack
  PROVE  ReviewInv'
<1>1. /\ pc' = "done" /\ result'.verdict \in {"ERROR", "BLOCKED"}
      /\ UNCHANGED <<caseVars, attempt, calls, ledger, report, truncated, answers, stages>>
  BY DEF OperationalFailure, FinalizerDoesNotPack, inspectVars, Raised, blocked_finalization_result
<1>2. Frozen' /\ Heard'
  BY <1>1, FrozenKept, HeardKept DEF ReviewInv
<1>3. Counted'
  <2>1. truncated' \in BOOLEAN
    BY <1>1 DEF ReviewInv, Counted
  <2> QED
    BY <1>1, <2>1, CountedKept DEF ReviewInv
<1>4. Phased' /\ ~Accepted'
  BY <1>1 DEF Phased, Accepted
<1>5. Reported'
  <2>1. IsReport(report)'
    BY <1>1 DEF ReviewInv, Reported, IsReport
  <2> QED
    BY <1>1, <1>4, <2>1 DEF Reported
<1> QED
  BY <1>2, <1>3, <1>4, <1>5 DEF ReviewInv, Guarded

LEMMA ImplementationStep ==
  ASSUME ReviewInv, NEW answer \in Answers("IMPLEMENTATION"), ReviewImplementation(answer)
  PROVE  ReviewInv'
<1> DEFINE rep == invoke_specialist("IMPLEMENTATION", answer)
<1>1. /\ pc = "implementation" /\ pc' = "tests"
      /\ answers' = [answers EXCEPT !["IMPLEMENTATION"] = answer]
      /\ stages' = [stages EXCEPT !["IMPLEMENTATION"] = rep]
      /\ UNCHANGED <<caseVars, attempt, calls, ledger, report, truncated, result>>
  BY DEF ReviewImplementation, inspectVars
<1>2. Follows(rep, answer)
  BY SpecialistsAreHeard
<1> HIDE DEF rep
<1>3. Frozen'
  BY <1>1, FrozenKept DEF ReviewInv
<1>4. Counted'
  <2>1. truncated' \in BOOLEAN
    BY <1>1 DEF ReviewInv, Counted
  <2> QED
    BY <1>1, <2>1, CountedKept DEF ReviewInv
<1>5. Phased' /\ ~Accepted'
  BY <1>1 DEF ReviewInv, Phased, Accepted
<1>6. Reported'
  <2>1. IsReport(report) /\ LostIsOpen(report)
    BY <1>1 DEF ReviewInv, Reported
  <2> QED
    BY <1>1, <2>1, OpenKept DEF Reported, caseVars
<1>7. Heard'
  <2>1. /\ DOMAIN answers = Stage /\ DOMAIN stages = Stage
        /\ \A s \in Stage : Follows(stages[s], answers[s])
    BY DEF ReviewInv, Heard
  <2>2. DOMAIN answers' = Stage /\ DOMAIN stages' = Stage
    BY <1>1, <2>1
  <2>3. ASSUME NEW s \in Stage PROVE Follows(stages'[s], answers'[s])
    <3>1. CASE s = "IMPLEMENTATION"
      <4>1. stages'[s] = rep /\ answers'[s] = answer
        BY <1>1, <2>1, <3>1
      <4> QED
        BY <1>2, <4>1
    <3>2. CASE s # "IMPLEMENTATION"
      <4>1. stages'[s] = stages[s] /\ answers'[s] = answers[s]
        BY <1>1, <2>1, <3>2
      <4> QED
        BY <2>1, <4>1
    <3> QED
      BY <3>1, <3>2
  <2> QED
    BY <2>2, <2>3 DEF Heard, Stage, Follows, NoFindings, StageReport, NoAnswer
<1> QED
  BY <1>3, <1>4, <1>5, <1>6, <1>7 DEF ReviewInv, Guarded

LEMMA TestsStep ==
  ASSUME ReviewInv, NEW answer \in Answers("TEST_VALIDATION"), ReviewTests(answer)
  PROVE  ReviewInv'
<1> DEFINE impl == stages["IMPLEMENTATION"]
           test == invoke_specialist("TEST_VALIDATION", answer)
           S == WithoutSharedIds(impl, test)
<1>1. /\ pc = "tests" /\ pc' = "finalize"
      /\ answers' = [answers EXCEPT !["TEST_VALIDATION"] = answer]
      /\ stages' = S
      /\ UNCHANGED <<caseVars, attempt, calls, ledger, report, truncated, result>>
  BY DEF ReviewTests, inspectVars
<1>2. Frozen'
  BY <1>1, FrozenKept DEF ReviewInv
<1>3. Counted'
  <2>1. truncated' \in BOOLEAN
    BY <1>1 DEF ReviewInv, Counted
  <2> QED
    BY <1>1, <2>1, CountedKept DEF ReviewInv
<1>4. Phased' /\ ~Accepted'
  BY <1>1 DEF ReviewInv, Phased, Accepted
<1>5. Reported'
  <2>1. IsReport(report) /\ LostIsOpen(report)
    BY <1>1 DEF ReviewInv, Reported
  <2> QED
    BY <1>1, <2>1, OpenKept DEF Reported, caseVars
<1>6. Heard'
  <2>1. /\ DOMAIN answers = Stage /\ Follows(impl, answers["IMPLEMENTATION"])
    BY DEF ReviewInv, Heard, Stage
  <2>2. Follows(test, answer)
    BY SpecialistsAreHeard
  <2>3. /\ DOMAIN S = Stage
        /\ Follows(S["IMPLEMENTATION"], answers["IMPLEMENTATION"])
        /\ Follows(S["TEST_VALIDATION"], answer)
    BY <2>1, <2>2, SharedIdsEmptyBoth
  <2> HIDE DEF S
  <2>4. /\ DOMAIN answers' = Stage /\ answers'["IMPLEMENTATION"] = answers["IMPLEMENTATION"]
        /\ answers'["TEST_VALIDATION"] = answer
    BY <1>1, <2>1 DEF Stage
  <2>5. \A s \in Stage : Follows(stages'[s], answers'[s])
    <3>1. Follows(stages'["IMPLEMENTATION"], answers'["IMPLEMENTATION"])
      BY <1>1, <2>3, <2>4
    <3>2. Follows(stages'["TEST_VALIDATION"], answers'["TEST_VALIDATION"])
      BY <1>1, <2>3, <2>4
    <3> QED
      BY <3>1, <3>2 DEF Stage
  <2> QED
    BY <1>1, <2>3, <2>4, <2>5 DEF Heard, Stage, Follows, NoFindings, StageReport, NoAnswer
<1> QED
  BY <1>2, <1>3, <1>4, <1>5, <1>6 DEF ReviewInv, Guarded

LEMMA FinalizeStep ==
  ASSUME ReviewInv, NEW v \in {Routed(x) : x \in Verdicts(contract)}, Finalize(v)
  PROVE  ReviewInv'
<1> DEFINE w == apply_accept_coverage_guard(v)
<1>1. /\ pc = "finalize" /\ pc' = "done" /\ result' = w
      /\ UNCHANGED <<caseVars, attempt, calls, ledger, report, truncated, answers, stages>>
  BY DEF Finalize, inspectVars
<1>2. IsVerdict(w) /\ (w.verdict = "ACCEPT" => ~accept_coverage_problems(w))
  <2>1. IsVerdict(v)
    BY ArtifactsAreWellFormed DEF ReviewInv
  <2> QED
    BY <2>1, GuardedVerdicts
<1>3. PICK y : y = w /\ IsVerdict(y) /\ (y.verdict = "ACCEPT" => ~accept_coverage_problems(y))
  BY <1>2
<1>4. result' = y
  BY <1>1, <1>3
<1>5. Frozen' /\ Heard'
  BY <1>1, FrozenKept, HeardKept DEF ReviewInv
<1>6. Counted'
  <2>1. truncated' \in BOOLEAN
    BY <1>1 DEF ReviewInv, Counted
  <2> QED
    BY <1>1, <2>1, CountedKept DEF ReviewInv
<1>7. Phased'
  <2>1. y.verdict \in {"ACCEPT", "NEEDS_FIXES", "BLOCKED"}
    BY <1>3 DEF IsVerdict
  <2> QED
    BY <1>1, <1>4, <2>1 DEF Phased
<1>8. Reported'
  <2>1. IsReport(report) /\ LostIsOpen(report)
    BY <1>1 DEF ReviewInv, Reported
  <2> QED
    BY <1>1, <2>1, OpenKept DEF Reported, caseVars
<1>9. Guarded'
  <2>1. Settled
    BY <1>1 DEF Settled, caseVars
  <2>2. accept_coverage_problems(y)' <=> accept_coverage_problems(y)
    BY <2>1, GuardSettled
  <2>3. accept_coverage_problems(result)' <=> accept_coverage_problems(y)'
    BY <1>4 DEF accept_coverage_problems, artifact_problems
  <2>4. Accepted' => y.verdict = "ACCEPT"
    BY <1>4 DEF Accepted
  <2>5. IsVerdict(result)'
    BY <1>3, <1>4 DEF IsVerdict
  <2> QED
    BY <1>3, <2>2, <2>3, <2>4, <2>5 DEF Guarded
<1> QED
  BY <1>5, <1>6, <1>7, <1>8, <1>9 DEF ReviewInv

LEMMA StutterStep ==
  ASSUME ReviewInv, UNCHANGED vars
  PROVE  ReviewInv'
<1>1. UNCHANGED <<request, changed, contract, pc, attempt, calls, ledger, report, truncated,
                  answers, stages, result>>
  BY DEF vars
<1>2. Frozen' /\ Heard'
  BY <1>1, FrozenKept, HeardKept DEF ReviewInv, caseVars
<1>3. Counted' /\ Phased' /\ (Accepted' <=> Accepted)
  BY <1>1 DEF ReviewInv, Counted, Phased, Accepted
<1>4. Reported'
  <2>1. IsReport(report) /\ (pc \in {"implementation", "tests", "finalize"} \/ Accepted
                               => LostIsOpen(report))
    BY DEF ReviewInv, Reported
  <2>2. IsReport(report)'
    BY <1>1, <2>1 DEF IsReport
  <2>3. LostIsOpen(report) => LostIsOpen(report)'
    BY <1>1, <2>1, OpenKept
  <2> QED
    BY <1>1, <1>3, <2>1, <2>2, <2>3 DEF Reported
<1>5. Guarded'
  <2>1. Accepted => IsVerdict(result) /\ ~accept_coverage_problems(result)
    BY DEF ReviewInv, Guarded
  <2>2. PICK y : y = result
    OBVIOUS
  <2>3. accept_coverage_problems(y)' <=> accept_coverage_problems(y)
    BY <1>1, GuardSettled DEF Settled
  <2>4. accept_coverage_problems(result)' <=> accept_coverage_problems(y)'
    BY <1>1, <2>2 DEF accept_coverage_problems, artifact_problems
  <2>5. IsVerdict(result) => IsVerdict(result)'
    BY <1>1 DEF IsVerdict
  <2>6. accept_coverage_problems(result) <=> accept_coverage_problems(y)
    BY <2>2
  <2> QED
    BY <1>3, <2>1, <2>3, <2>4, <2>5, <2>6 DEF Guarded
<1> QED
  BY <1>2, <1>3, <1>4, <1>5 DEF ReviewInv

(* What is lost is the evidence of an inspection.                          *)
LEMMA LostHasInspection ==
  ASSUME NEW rep, NEW r \in unavailable_requirement_ids(rep)
  PROVE  \E n \in DOMAIN rep.inspections : rep.inspections[n].req = r
<1> DEFINE place == UNION {{<<i, j>> : j \in DOMAIN rep.inspections[i].refs}
                             : i \in DOMAIN rep.inspections}
<1>1. \E p \in place : r = rep.inspections[p[1]].req
  BY DEF unavailable_requirement_ids
<1>2. PICK p \in place : r = rep.inspections[p[1]].req
  BY <1>1
<1>3. PICK i \in DOMAIN rep.inspections : \E j \in DOMAIN rep.inspections[i].refs : p = <<i, j>>
  OBVIOUS
<1> QED
  BY <1>2, <1>3

LEMMA ReviewBegins == Init => ReviewInv
<1> SUFFICES ASSUME Init PROVE ReviewInv
  OBVIOUS
<1>1. Frozen
  BY DEF Init, Frozen
<1>2. Counted
  <2>1. attempt = 1 /\ calls = 0 /\ truncated = FALSE /\ ledger = <<>>
    BY DEF Init
  <2>2. MaxCalls \in Nat
    BY ReviewAssumption
  <2>3. ledger \in Seq(DOMAIN ReadOf) /\ Len(ledger) = 0
    BY <2>1
  <2>4. attempt \in 1 .. 2 /\ calls \in 0 .. MaxCalls
    BY <2>1, <2>2
  <2>5. truncated \in BOOLEAN
    BY <2>1, Zenon
  <2>6. Len(ledger) <= IF attempt = 1 THEN calls ELSE MaxCalls + calls
    BY <2>1, <2>3
  <2> QED
    BY <2>3, <2>4, <2>5, <2>6, Zenon DEF Counted
<1>3. result.verdict = "PENDING" /\ ~Accepted
  BY DEF Init, Raised, Accepted
<1>4. Phased
  BY <1>3 DEF Init, Phased
<1>5. Reported
  <2>1. pc = "inspect" /\ report = EmptyReport
    BY DEF Init
  <2>2. /\ DOMAIN report = {"inspections", "observations"}
        /\ report.inspections = <<>> /\ report.observations = <<>>
    BY <2>1 DEF EmptyReport
  <2>3. IsList(<<>>) /\ ToSet(<<>>) = {}
    BY DEF IsList, ToSet
  <2>4. IsReport(report)
    BY <2>2, <2>3 DEF IsReport
  <2> QED
    BY <1>3, <2>1, <2>4 DEF Reported
<1>6. Heard
  BY DEF Init, Heard, Follows
<1> QED
  BY <1>1, <1>2, <1>3, <1>4, <1>5, <1>6 DEF ReviewInv, Guarded

(* What the guard around a review maintains, step by step.                 *)
THEOREM ReviewInductive == Spec => []ReviewInv
<1>1. ReviewInv /\ [Next]_vars => ReviewInv'
  <2> SUFFICES ASSUME ReviewInv, [Next]_vars PROVE ReviewInv'
    OBVIOUS
  <2>1. ASSUME NEW id \in DOMAIN ReadOf, read_repo_file(id) PROVE ReviewInv'
    BY <2>1, ReadStep
  <2>2. ASSUME NEW rep \in {Evaluated(x) : x \in Reports(contract)},
               InspectionPasses(rep) \/ InspectionIsCorrected(rep) \/ InspectionIsRejected(rep)
        PROVE  ReviewInv'
    BY <2>2, InspectionStep
  <2>3. CASE InspectionRunsOut
    BY <2>3, RunsOutStep
  <2>4. CASE OperationalFailure \/ FinalizerDoesNotPack
    BY <2>4, FailureStep
  <2>5. ASSUME NEW a \in Answers("IMPLEMENTATION"), ReviewImplementation(a) PROVE ReviewInv'
    BY <2>5, ImplementationStep
  <2>6. ASSUME NEW a \in Answers("TEST_VALIDATION"), ReviewTests(a) PROVE ReviewInv'
    BY <2>6, TestsStep
  <2>7. ASSUME NEW v \in {Routed(x) : x \in Verdicts(contract)}, Finalize(v) PROVE ReviewInv'
    BY <2>7, FinalizeStep
  <2>8. CASE Returned \/ UNCHANGED vars
    BY <2>8, StutterStep DEF Returned
  <2> QED
    BY <2>1, <2>2, <2>3, <2>4, <2>5, <2>6, <2>7, <2>8, Zenon DEF Next
<1> QED
  BY <1>1, ReviewBegins, PTL DEF Spec

(* A review makes at most two inspections, each within its budget of calls,*)
(* and it has a verdict exactly when it is done.                           *)
THEOREM ReviewTypes == Spec => []TypeOK
<1>1. ReviewInv => TypeOK
  <2> SUFFICES ASSUME ReviewInv PROVE TypeOK
    OBVIOUS
  <2>1. Len(ledger) <= 2 * MaxCalls /\ ToSet(ledger) \subseteq DOMAIN ReadOf
    <3>1. /\ attempt \in 1 .. 2 /\ calls \in 0 .. MaxCalls /\ ledger \in Seq(DOMAIN ReadOf)
          /\ Len(ledger) <= IF attempt = 1 THEN calls ELSE MaxCalls + calls
      BY DEF ReviewInv, Counted
    <3>2. MaxCalls \in Nat /\ Len(ledger) \in Nat
      BY <3>1, ReviewAssumption
    <3>3. Len(ledger) <= 2 * MaxCalls
      BY <3>1, <3>2
    <3>4. ToSet(ledger) \subseteq DOMAIN ReadOf
      BY <3>1 DEF ToSet
    <3> QED
      BY <3>3, <3>4
  <2>2. \A s \in Stage : stages[s].status \in {"COMPLETED", "UNVERIFIED", "SKIPPED"}
    BY DEF ReviewInv, Heard, Follows, StageReport, NoFindings
  <2> QED
    BY <2>1, <2>2, Zenon DEF TypeOK, ReviewInv, Counted, Phased
<1> QED
  BY <1>1, ReviewInductive, PTL

(* Every requirement in the characters read is in a contract with room, and*)
(* no ACCEPT leaves before every changed file with a section of the diff   *)
(* was put before a specialist that completed.                             *)
THEOREM NothingStaysOut == Spec => []NothingIsLeftOut
<1>1. ReviewInv => NothingIsLeftOut
  <2> SUFFICES ASSUME ReviewInv PROVE NothingIsLeftOut
    OBVIOUS
  <2>1. ContractIsComplete
    BY ContractsAreComplete DEF ReviewInv, Frozen
  <2>2. ASSUME Accepted, NEW f \in changed \ NoSection
        PROVE  \E s \in Stage : f \in clusters_for_stage(s) /\ stages[s].status = "COMPLETED"
    <3>1. ~semantic_artifact_problems
      BY <2>2, Zenon DEF ReviewInv, Guarded, Accepted, accept_coverage_problems, artifact_problems
    <3>2. f \in File
      BY ReviewAssumption DEF ReviewInv, Frozen
    <3>3. PICK s \in Stage : f \in clusters_for_stage(s)
      BY <3>2, ReviewAssumption
         DEF Stage, clusters_for_stage, evidence_clusters, Sections, cluster_role
    <3>4. stages[s].status \notin {"SKIPPED", "UNVERIFIED"}
      BY <3>1, <3>3 DEF semantic_artifact_problems
    <3>5. stages[s].status \in {"COMPLETED", "UNVERIFIED", "SKIPPED"}
      BY <3>3 DEF ReviewInv, Heard, Follows, StageReport, NoFindings
    <3> QED
      BY <3>3, <3>4, <3>5
  <2> QED
    BY <2>1, <2>2 DEF NothingIsLeftOut, ChangesReachSpecialists
<1> QED
  BY <1>1, ReviewInductive, PTL

(* An ACCEPT is earned for each requirement of the contract, whatever the  *)
(* models returned: judged once, on facts the tools returned, of the kind  *)
(* the requirement asks for.                                               *)
THEOREM AcceptStaysEarned == Spec => []AcceptIsEarned
<1>1. ReviewInv => AcceptIsEarned
  <2>1. CASE Accepted
    BY <2>1, GuardedIsEarned DEF ReviewInv, Reported, Guarded
  <2>2. CASE ~Accepted
    BY <2>2, Zenon DEF AcceptIsEarned, AcceptCoversContract, AcceptRestsOnFacts, AcceptHasTheRightProof
  <2> QED
    BY <2>1, <2>2
<1> QED
  BY <1>1, ReviewInductive, PTL

(* Evidence that was lost and defects that were reported prevent an ACCEPT,*)
(* also when the artifact that carried them was replaced or discarded.     *)
THEOREM DoubtsPrevent == Spec => []DoubtsPreventAcceptance
<1>1. ReviewInv => DoubtsPreventAcceptance
  <2> SUFFICES ASSUME ReviewInv, Accepted
               PROVE  /\ unavailable_requirement_ids(report) = {}
                      /\ \A s \in Stage : \A f \in ToSet(answers[s].findings) :
                           f.severity # "BLOCKING"
    BY DEF DoubtsPreventAcceptance, UnavailableIsNotAccepted, NoBlockerIsDropped
  <2>1. IsReport(report) /\ LostIsOpen(report) /\ ~accept_coverage_problems(result)
        /\ IsVerdict(result)
    BY DEF ReviewInv, Reported, Guarded
  <2>2. ~artifact_problems(result)
    BY <2>1 DEF Accepted, accept_coverage_problems
  <2>3. unavailable_requirement_ids(report) = {}
    <3>1. SUFFICES ASSUME NEW r \in unavailable_requirement_ids(report) PROVE FALSE
      OBVIOUS
    <3>2. PICK n \in DOMAIN report.inspections : report.inspections[n].req = r
      BY <3>1, LostHasInspection
    <3>3. r \in Ids
      <4>1. ToSet([i \in DOMAIN report.inspections |-> report.inspections[i].req]) = Ids
        BY <2>2, Zenon DEF artifact_problems
      <4> QED
        BY <3>2, <4>1 DEF ToSet
    <3>4. AcceptIsEarned
      BY <2>1, GuardedIsEarned
    <3>5. PICK i \in DOMAIN report.inspections :
            /\ report.inspections[i].req = r /\ report.inspections[i].status = "VERIFIED"
      BY <3>3, <3>4 DEF AcceptIsEarned, AcceptCoversContract
    <3> QED
      BY <2>1, <3>1, <3>5 DEF LostIsOpen, ToSet
  <2>4. ASSUME NEW s \in Stage, NEW f \in ToSet(answers[s].findings)
        PROVE  f.severity # "BLOCKING"
    <3>1. ~semantic_artifact_problems
      BY <2>2, Zenon DEF artifact_problems
    <3>2. stages[s].status # "UNVERIFIED"
          /\ \A g \in ToSet(stages[s].findings) : g.severity # "BLOCKING"
      BY <3>1 DEF semantic_artifact_problems
    <3>3. \/ stages[s].status = "UNVERIFIED"
          \/ answers[s].findings = <<>>
          \/ stages[s].findings = answers[s].findings
      BY DEF ReviewInv, Heard, Follows, StageReport, NoFindings, NoAnswer
    <3>4. ToSet(<<>>) = {}
      BY DEF ToSet
    <3> QED
      BY <3>2, <3>3, <3>4
  <2> QED
    BY <2>3, <2>4
<1> QED
  BY <1>1, ReviewInductive, PTL

(* A review ends: every step brings it closer to its return.               *)
THEOREM ReviewEnds == Spec => ReviewAdvances
<1>1. ReviewInv /\ [Next]_vars => [StepsLeft' < StepsLeft]_vars
  <2> SUFFICES ASSUME ReviewInv, Next, ~UNCHANGED vars PROVE StepsLeft' < StepsLeft
    BY DEF vars
  <2>1. /\ attempt \in {1, 2} /\ calls \in 0 .. MaxCalls /\ MaxCalls \in Nat
        /\ pc \in {"inspect", "implementation", "tests", "finalize", "done"}
    BY ReviewAssumption DEF ReviewInv, Counted, Phased
  <2>2. /\ pc = "inspect" /\ attempt = 1 => StepsLeft = 4 + (MaxCalls + 1) + MaxCalls - calls
        /\ pc = "inspect" /\ attempt = 2 => StepsLeft = 4 + MaxCalls - calls
        /\ pc = "implementation" => StepsLeft = 3
        /\ pc = "tests" => StepsLeft = 2
        /\ pc = "finalize" => StepsLeft = 1
    BY <2>1 DEF StepsLeft
  <2>3. /\ pc' = "inspect" /\ attempt' = 1
             => StepsLeft' = 4 + (MaxCalls + 1) + MaxCalls - calls'
        /\ pc' = "inspect" /\ attempt' = 2 => StepsLeft' = 4 + MaxCalls - calls'
        /\ pc' = "implementation" => StepsLeft' = 3
        /\ pc' = "tests" => StepsLeft' = 2
        /\ pc' = "finalize" => StepsLeft' = 1
        /\ pc' = "done" => StepsLeft' = 0
    BY <2>1 DEF StepsLeft
  <2>4. ASSUME NEW id \in DOMAIN ReadOf, read_repo_file(id) PROVE StepsLeft' < StepsLeft
    BY <2>1, <2>2, <2>3, <2>4 DEF read_repo_file
  <2>5. ASSUME NEW rep, InspectionPasses(rep) PROVE StepsLeft' < StepsLeft
    BY <2>1, <2>2, <2>3, <2>5 DEF InspectionPasses
  <2>6. ASSUME NEW rep, InspectionIsCorrected(rep) PROVE StepsLeft' < StepsLeft
    BY <2>1, <2>2, <2>3, <2>6 DEF InspectionIsCorrected
  <2>7. ASSUME NEW rep, InspectionIsRejected(rep) PROVE StepsLeft' < StepsLeft
    BY <2>1, <2>2, <2>3, <2>7 DEF InspectionIsRejected
  <2>8. CASE InspectionRunsOut
    BY <2>1, <2>2, <2>3, <2>8 DEF InspectionRunsOut
  <2>9. CASE OperationalFailure \/ FinalizerDoesNotPack
    BY <2>1, <2>2, <2>3, <2>9 DEF OperationalFailure, FinalizerDoesNotPack
  <2>10. ASSUME NEW a, ReviewImplementation(a) PROVE StepsLeft' < StepsLeft
    BY <2>2, <2>3, <2>10 DEF ReviewImplementation
  <2>11. ASSUME NEW a, ReviewTests(a) PROVE StepsLeft' < StepsLeft
    BY <2>2, <2>3, <2>11 DEF ReviewTests
  <2>12. ASSUME NEW v, Finalize(v) PROVE StepsLeft' < StepsLeft
    BY <2>2, <2>3, <2>12 DEF Finalize
  <2> QED
    BY <2>4, <2>5, <2>6, <2>7, <2>8, <2>9, <2>10, <2>11, <2>12, Zenon DEF Next, Returned
<1> QED
  BY <1>1, ReviewInductive, PTL DEF Spec, ReviewAdvances

=============================================================================
