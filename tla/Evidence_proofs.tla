-------------------------- MODULE Evidence_proofs --------------------------
(***************************************************************************)
(* The evidence of a case, for any supply of sales, any kinds of them and  *)
(* any number of reports: how the candidates share their budget, what the  *)
(* selection stores, where the headline figure lies, and that report,      *)
(* value and context agree.                                                *)
(***************************************************************************)
EXTENDS MCComparables, Integers, FiniteSetTheorems, WellFoundedInduction, TLAPS

-----------------------------------------------------------------------------
(* Lists *)

\* Every non-empty set of numbers has a least element.
LEMMA LeastNumber ==
  ASSUME NEW S, S \subseteq Nat, S # {}
  PROVE  \E k \in S : \A m \in S : k <= m
<1>1. \E k \in S : \A m \in S : ~(<<m, k>> \in OpToRel(<, Nat))
  BY NatLessThanWellFounded, WFMin
<1>2. PICK k \in S : \A m \in S : ~(<<m, k>> \in OpToRel(<, Nat))  BY <1>1
<1>3. \A m \in S : ~(m < k)  BY <1>2 DEF OpToRel
<1>4. \A m \in S : k <= m  BY <1>3
<1> QED BY <1>4

\* A strict total order on S.
Orders(before, S) ==
  /\ \A s \in S : << s, s >> \notin before
  /\ \A s, t, u \in S : << s, t >> \in before /\ << t, u >> \in before => << s, u >> \in before
  /\ \A s, t \in S : s # t => << s, t >> \in before \/ << t, s >> \in before

\* How many of S stand before s.
PlaceIn(s, S, before) == Cardinality({t \in S : << t, s >> \in before})

\* The earlier of two has fewer before it.
LEMMA EarlierPlace ==
  ASSUME NEW S, IsFiniteSet(S), NEW before, Orders(before, S),
         NEW s \in S, NEW t \in S, << s, t >> \in before
  PROVE  /\ PlaceIn(s, S, before) \in Nat /\ PlaceIn(t, S, before) \in Nat
         /\ PlaceIn(s, S, before) < PlaceIn(t, S, before)
<1> DEFINE A == {u \in S : << u, s >> \in before}
           B == {u \in S : << u, t >> \in before}
<1>1. A \subseteq B /\ s \in B /\ s \notin A  BY DEF Orders
<1>2. IsFiniteSet(A) /\ IsFiniteSet(B)  BY FS_Subset
<1>3. Cardinality(A) \in Nat /\ Cardinality(B) \in Nat  BY <1>2, FS_CardinalityType
<1>4. Cardinality(A) <= Cardinality(B) /\ (Cardinality(A) = Cardinality(B) => A = B)
  BY <1>1, <1>2, FS_Subset
<1>5. Cardinality(A) < Cardinality(B)  BY <1>1, <1>3, <1>4
<1> QED BY <1>3, <1>5 DEF PlaceIn

\* Listed lists every member of a finite set once, in the order.
LEMMA ListedLists ==
  ASSUME NEW S, IsFiniteSet(S), NEW before, Orders(before, S)
  PROVE  /\ Cardinality(S) \in Nat
         /\ Listed(S, before) \in [1..Cardinality(S) -> S]
         /\ \A m, n \in 1..Cardinality(S) :
              m < n => << Listed(S, before)[m], Listed(S, before)[n] >> \in before
         /\ \A m, n \in 1..Cardinality(S) :
              Listed(S, before)[m] = Listed(S, before)[n] => m = n
         /\ \A s \in S : \E n \in 1..Cardinality(S) : Listed(S, before)[n] = s
<1> DEFINE size == Cardinality(S)
           place == [s \in S |-> PlaceIn(s, S, before) + 1]
<1>1. size \in Nat  BY FS_CardinalityType
<1>2. ASSUME NEW s \in S PROVE PlaceIn(s, S, before) \in 0..(size - 1)
  <2> DEFINE A == {t \in S : << t, s >> \in before}
  <2>1. A \subseteq S /\ A # S  BY DEF Orders
  <2>2. IsFiniteSet(A) /\ Cardinality(A) \in Nat  BY FS_Subset, FS_CardinalityType
  <2>3. Cardinality(A) <= size /\ (Cardinality(A) = size => A = S)  BY <2>1, FS_Subset
  <2>4. Cardinality(A) < size  BY <2>1, <2>2, <2>3, <1>1
  <2> QED BY <2>2, <2>4, <1>1 DEF PlaceIn
<1>3. \A s, t \in S : PlaceIn(s, S, before) = PlaceIn(t, S, before) => s = t
  <2> SUFFICES ASSUME NEW s \in S, NEW t \in S, s # t,
                      PlaceIn(s, S, before) = PlaceIn(t, S, before)
               PROVE  FALSE
    OBVIOUS
  <2>1. PlaceIn(s, S, before) \in Nat  BY <1>2
  <2>2. CASE << s, t >> \in before  BY <2>1, <2>2, EarlierPlace
  <2>3. CASE << t, s >> \in before  BY <2>1, <2>3, EarlierPlace
  <2> QED BY <2>2, <2>3 DEF Orders
<1>4. place \in Injection(S, 1..size)
  <2>1. place \in [S -> 1..size]  BY <1>1, <1>2
  <2>2. ASSUME NEW s \in S, NEW t \in S, place[s] = place[t] PROVE s = t
    <3>1. PlaceIn(s, S, before) + 1 = PlaceIn(t, S, before) + 1  BY <2>2
    <3>2. PlaceIn(s, S, before) \in Nat /\ PlaceIn(t, S, before) \in Nat  BY <1>2
    <3> QED BY <3>1, <3>2, <1>3
  <2> QED BY <2>1, <2>2 DEF Injection, IsInjective
<1>5. IsFiniteSet(1..size) /\ Cardinality(1..size) = size  BY <1>1, FS_Interval
<1>6. place \in Surjection(S, 1..size)  BY <1>4, <1>5, FS_Injection
<1>7. \A n \in 1..size : \E s \in S : PlaceIn(s, S, before) = n - 1
  <2> TAKE n \in 1..size
  <2>1. PICK s \in S : PlaceIn(s, S, before) + 1 = n  BY <1>6 DEF Surjection
  <2> QED BY <2>1, <1>2
<1> DEFINE l == Listed(S, before)
<1>8. l \in [1..size -> S] /\ \A n \in 1..size : PlaceIn(l[n], S, before) = n - 1
  <2>1. l = [n \in 1..size |-> CHOOSE s \in S : PlaceIn(s, S, before) = n - 1]
    BY DEF Listed, PlaceIn
  <2>2. \A n \in 1..size : l[n] \in S /\ PlaceIn(l[n], S, before) = n - 1
    BY <2>1, <1>7
  <2> QED BY <2>1, <2>2
<1> HIDE DEF l
<1>9. \A m, n \in 1..size : m < n => << l[m], l[n] >> \in before
  <2> SUFFICES ASSUME NEW m \in 1..size, NEW n \in 1..size, m < n,
                      << l[m], l[n] >> \notin before
               PROVE  FALSE
    OBVIOUS
  <2>1. l[m] \in S /\ l[n] \in S /\ PlaceIn(l[m], S, before) = m - 1 /\ PlaceIn(l[n], S, before) = n - 1
    BY <1>8
  <2>2. l[m] # l[n]  BY <2>1
  <2>3. << l[n], l[m] >> \in before  BY <2>1, <2>2 DEF Orders
  <2>4. n - 1 < m - 1  BY <2>1, <2>3, EarlierPlace
  <2> QED BY <2>4
<1>10. \A m, n \in 1..size : l[m] = l[n] => m = n  BY <1>8
<1>11. \A s \in S : \E n \in 1..size : l[n] = s
  <2> TAKE s \in S
  <2>1. PlaceIn(s, S, before) + 1 \in 1..size /\ (PlaceIn(s, S, before) + 1) - 1 = PlaceIn(s, S, before)
    BY <1>1, <1>2
  <2>2. PlaceIn(l[PlaceIn(s, S, before) + 1], S, before) = PlaceIn(s, S, before)
        /\ l[PlaceIn(s, S, before) + 1] \in S
    BY <2>1, <1>8
  <2>3. l[PlaceIn(s, S, before) + 1] = s  BY <2>2, <1>3
  <2> QED BY <2>1, <2>3
<1> QED BY <1>1, <1>8, <1>9, <1>10, <1>11 DEF l
\* Keys that are numbers order a set of numbers.
LEMMA KeysOrder ==
  ASSUME NEW S, S \subseteq Nat, NEW key, \A s \in S : key[s] \in Int
  PROVE  Orders(KeyOrder(S, key), S)
<1> DEFINE before == KeyOrder(S, key)
<1>1. \A i, j \in S : << i, j >> \in before <=>
        key[i] < key[j] \/ (key[i] = key[j] /\ i < j)
  BY DEF KeyOrder
<1>2. \A i \in S : i \in Nat /\ key[i] \in Int  OBVIOUS
<1> HIDE DEF before
<1>3. \A i \in S : << i, i >> \notin before  BY <1>1, <1>2
<1>4. ASSUME NEW i \in S, NEW j \in S, NEW k \in S, << i, j >> \in before, << j, k >> \in before
      PROVE  << i, k >> \in before
  <2> DEFINE a == key[i]
             b == key[j]
             c == key[k]
  <2>1. a \in Int /\ b \in Int /\ c \in Int /\ i \in Nat /\ j \in Nat /\ k \in Nat  BY <1>2
  <2>2. (a < b \/ (a = b /\ i < j)) /\ (b < c \/ (b = c /\ j < k))  BY <1>1, <1>4
  <2>3. (<< i, k >> \in before) <=> (a < c \/ (a = c /\ i < k))  BY <1>1
  <2> HIDE DEF a, b, c
  <2> QED BY <2>1, <2>2, <2>3
<1>5. ASSUME NEW i \in S, NEW j \in S, i # j
      PROVE  << i, j >> \in before \/ << j, i >> \in before
  <2> DEFINE a == key[i]
             b == key[j]
  <2>1. a \in Int /\ b \in Int /\ i \in Nat /\ j \in Nat  BY <1>2
  <2>2. (<< i, j >> \in before) <=> (a < b \/ (a = b /\ i < j))  BY <1>1
  <2>3. (<< j, i >> \in before) <=> (b < a \/ (b = a /\ j < i))  BY <1>1
  <2> HIDE DEF a, b
  <2> QED BY <2>1, <2>2, <2>3, <1>5
<1> QED BY <1>3, <1>4, <1>5 DEF Orders, before

\* ByKey lists every member once, and by key.
LEMMA ByKeyLists ==
  ASSUME NEW S, S \subseteq Nat, IsFiniteSet(S), NEW key, \A s \in S : key[s] \in Int
  PROVE  /\ Cardinality(S) \in Nat
         /\ ByKey(S, key) \in [1..Cardinality(S) -> S]
         /\ \A m, n \in 1..Cardinality(S) :
              m <= n => key[ByKey(S, key)[m]] <= key[ByKey(S, key)[n]]
         /\ \A m, n \in 1..Cardinality(S) : ByKey(S, key)[m] = ByKey(S, key)[n] => m = n
         /\ \A s \in S : \E n \in 1..Cardinality(S) : ByKey(S, key)[n] = s
<1> DEFINE before == KeyOrder(S, key)
           l == Listed(S, before)
           size == Cardinality(S)
<1>1. ByKey(S, key) = l  BY DEF ByKey
<1>2. Orders(before, S)  BY KeysOrder
<1>3. \A i, j \in S : << i, j >> \in before => key[i] <= key[j]
  <2> SUFFICES ASSUME NEW i \in S, NEW j \in S, << i, j >> \in before PROVE key[i] <= key[j]
    OBVIOUS
  <2>1. key[i] \in Int /\ key[j] \in Int  OBVIOUS
  <2>2. key[i] < key[j] \/ key[i] = key[j]  BY DEF KeyOrder
  <2> QED BY <2>1, <2>2
<1> HIDE DEF before
<1>4. /\ size \in Nat /\ l \in [1..size -> S]
      /\ \A m, n \in 1..size : m < n => << l[m], l[n] >> \in before
      /\ \A m, n \in 1..size : l[m] = l[n] => m = n
      /\ \A s \in S : \E n \in 1..size : l[n] = s
  BY <1>2, ListedLists
<1> HIDE DEF l, size
<1>5. \A m, n \in 1..size : m <= n => key[l[m]] <= key[l[n]]
  <2> SUFFICES ASSUME NEW m \in 1..size, NEW n \in 1..size, m <= n
               PROVE  key[l[m]] <= key[l[n]]
    OBVIOUS
  <2>1. l[m] \in S /\ l[n] \in S /\ key[l[m]] \in Int  BY <1>4
  <2>2. CASE m = n  BY <2>1, <2>2
  <2>3. CASE m < n  BY <2>1, <2>3, <1>3, <1>4
  <2> QED BY <2>2, <2>3, <1>4
<1> QED BY <1>1, <1>4, <1>5 DEF size

\* The same of InOrder.
LEMMA InOrderLists ==
  ASSUME NEW S, S \subseteq Nat, IsFiniteSet(S)
  PROVE  /\ Cardinality(S) \in Nat
         /\ InOrder(S) \in [1..Cardinality(S) -> S]
         /\ \A m, n \in 1..Cardinality(S) : InOrder(S)[m] = InOrder(S)[n] => m = n
         /\ \A s \in S : \E n \in 1..Cardinality(S) : InOrder(S)[n] = s
<1> DEFINE key == [s \in S |-> s]
<1>1. (\A s \in S : key[s] \in Int) /\ InOrder(S) = ByKey(S, key)  BY DEF InOrder
<1> HIDE DEF key
<1>2. /\ Cardinality(S) \in Nat
      /\ ByKey(S, key) \in [1..Cardinality(S) -> S]
      /\ \A m, n \in 1..Cardinality(S) : ByKey(S, key)[m] = ByKey(S, key)[n] => m = n
      /\ \A s \in S : \E n \in 1..Cardinality(S) : ByKey(S, key)[n] = s
  BY <1>1, ByKeyLists
<1> QED BY <1>1, <1>2

\* The numbers up to n are n many.
LEMMA CountUpTo == ASSUME NEW n \in Nat PROVE IsFiniteSet(1..n) /\ Cardinality(1..n) = n
BY FS_Interval

\* What a list without repetitions holds at the places from m to n is at
\* least n - m + 1 many.
LEMMA AtLeast ==
  ASSUME NEW S, IsFiniteSet(S), NEW size \in Nat, NEW l \in [1..size -> S],
         \A i, j \in 1..size : l[i] = l[j] => i = j,
         NEW m \in 1..size, NEW n \in 0..size, m <= n + 1,
         NEW B \in SUBSET S, \A i \in m..n : l[i] \in B
  PROVE  Cardinality(B) \in Nat /\ Cardinality(B) >= n - m + 1
<1> DEFINE part == [i \in m..n |-> l[i]]
<1>1. IsFiniteSet(m..n) /\ Cardinality(m..n) = n - m + 1
  <2>1. m \in Int /\ n \in Int  OBVIOUS
  <2>2. IsFiniteSet(m..n) /\ Cardinality(m..n) = IF m > n THEN 0 ELSE n - m + 1
    BY <2>1, FS_Interval
  <2> QED BY <2>2
<1>2. IsFiniteSet(B)  BY FS_Subset
<1>3. part \in Injection(m..n, B)
  <2>1. \A i \in m..n : i \in 1..size  OBVIOUS
  <2>2. part \in [m..n -> B]  BY <2>1
  <2>3. \A i, j \in m..n : part[i] = part[j] => i = j  BY <2>1
  <2> QED BY <2>2, <2>3 DEF Injection, IsInjective
<1>4. Cardinality(m..n) <= Cardinality(B)  BY <1>2, <1>3, FS_Injection
<1>5. Cardinality(B) \in Nat  BY <1>2, FS_CardinalityType
<1> QED BY <1>1, <1>4, <1>5

-----------------------------------------------------------------------------
(* The selection *)

\* Every set of sales is listed once by id.
LEMMA SalesInOrder ==
  ASSUME NEW S, S \subseteq Sales
  PROVE  /\ IsFiniteSet(S) /\ Cardinality(S) \in Nat
         /\ InOrder(S) \in [1..Cardinality(S) -> S]
         /\ \A m, n \in 1..Cardinality(S) : InOrder(S)[m] = InOrder(S)[n] => m = n
         /\ \A s \in S : \E n \in 1..Cardinality(S) : InOrder(S)[n] = s
<1>1. SaleCount \in Nat /\ S \subseteq 1..SaleCount  BY SelectionAssumption DEF Sales
<1>2. IsFiniteSet(1..SaleCount)  BY <1>1, FS_Interval
<1>3. IsFiniteSet(S)  BY <1>1, <1>2, FS_Subset
<1>4. S \subseteq Nat  BY <1>1
<1> QED BY <1>3, <1>4, InOrderLists

\* What is gathered.
EntryType == [id : Sales, tier : {"preferred", "widened", "extrapolated"}]

\* An entry has a rung unless it is both stale and outside the standard band.
HasRung(e) == ~(e.tier = "widened" /\ kind[e.id].band = "last_resort")

\* Every entry with a rung has a place on the ladder.
LEMMA RankTyped ==
  ASSUME kind \in [Sales -> SaleKinds], NEW e \in EntryType
  PROVE  /\ Rank(e) \in Nat
         /\ HasRung(e) => Rank(e) # 0
<1> DEFINE I == {n \in 1..Len(SELECTION_RUNGS) : SELECTION_RUNGS[n] = RungOf(e)}
<1>1. Rank(e) = IF I # {} THEN Min(I) ELSE 0  BY DEF Rank, SelectInSeq
<1>2. Len(SELECTION_RUNGS) = 11  BY DEF SELECTION_RUNGS
<1>3. I # {} => Min(I) \in I
  <2>1. I \subseteq Nat  BY <1>2
  <2> HIDE DEF I
  <2> QED BY <2>1, LeastNumber DEF Min
<1>4. HasRung(e) => I # {}
  <2>1. kind[e.id] \in SaleKinds /\ e.tier \in {"preferred", "widened", "extrapolated"}
    BY DEF EntryType
  <2>2. kind[e.id].band \in {"fresh", "recent", "adjusted", "last_resort"}
    BY <2>1, KindsAssumption
  <2>3. \A n \in 1..11 : SELECTION_RUNGS[n] = RungOf(e) => n \in I  BY <1>2
  <2> HIDE DEF I
  <2> QED BY <2>1, <2>2, <2>3 DEF HasRung, RungOf, SELECTION_RUNGS
<1> QED BY <1>1, <1>2, <1>3, <1>4

\* While the target is not met everything with a rung is walked.
LEMMA AllWalked ==
  ASSUME kind \in [Sales -> SaleKinds], NEW pool \in Seq(EntryType),
         \A i \in DOMAIN pool : HasRung(pool[i]),
         Cardinality(Walked(pool)) < TARGET_COMPARABLES
  PROVE  Walked(pool) = DOMAIN pool
<1> DEFINE Left == {r \in Nat : \E i \in DOMAIN pool : i \notin Walked(pool) /\ Rank(pool[i]) = r}
<1>1. \A i \in DOMAIN pool : Rank(pool[i]) \in Nat \ {0}
  BY RankTyped
<1>2. SUFFICES ASSUME Left # {} PROVE FALSE
  BY <1>1 DEF Walked
<1>3. PICK r \in Left : \A q \in Left : r <= q
  <2>1. Left \subseteq Nat  OBVIOUS
  <2> HIDE DEF Left
  <2> QED BY <1>2, <2>1, LeastNumber
<1>4. PICK i \in DOMAIN pool : i \notin Walked(pool) /\ Rank(pool[i]) = r  BY <1>3
<1> DEFINE Above == {j \in DOMAIN pool : Rank(pool[j]) \in 1..r - 1}
<1>5. Above \subseteq Walked(pool)
  <2> SUFFICES ASSUME NEW j \in Above, j \notin Walked(pool) PROVE FALSE  OBVIOUS
  <2>1. Rank(pool[j]) \in Left /\ Rank(pool[j]) < r /\ r \in Nat  BY <1>1, <1>3
  <2> QED BY <2>1, <1>3
<1>6. IsFiniteSet(DOMAIN pool)
  <2>1. DOMAIN pool = 1..Len(pool) /\ Len(pool) \in Nat  OBVIOUS
  <2> QED BY <2>1, FS_Interval
<1>7. Walked(pool) \subseteq DOMAIN pool  BY DEF Walked
<1>8. IsFiniteSet(Walked(pool)) /\ IsFiniteSet(Above)  BY <1>6, <1>7, <1>5, FS_Subset
<1>9. Cardinality(Above) <= Cardinality(Walked(pool)) /\ Cardinality(Above) \in Nat
      /\ Cardinality(Walked(pool)) \in Nat
  BY <1>5, <1>8, FS_Subset, FS_CardinalityType
<1>10. Cardinality(Above) < TARGET_COMPARABLES  BY <1>9, SelectionAssumption
<1>11. Rank(pool[i]) # 0 /\ Cardinality({j \in DOMAIN pool : Rank(pool[j]) \in 1..Rank(pool[i]) - 1})
          < TARGET_COMPARABLES
  BY <1>1, <1>4, <1>10
<1> QED BY <1>4, <1>11 DEF Walked

\* places says where each of selected stands in pool: no place is taken twice,
\* they come by rung, what is left out stands on no better rung, and nothing is
\* left out while the target is not met.
Selects(pool, selected, places) ==
  /\ places \in [1..Len(selected) -> DOMAIN pool]
  /\ \A m, n \in 1..Len(selected) : places[m] = places[n] => m = n
  /\ \A n \in 1..Len(selected) : selected[n] = pool[places[n]]
  /\ \A m, n \in 1..Len(selected) : m < n => Rank(selected[m]) <= Rank(selected[n])
  /\ \A n \in 1..Len(selected) : \A i \in DOMAIN pool :
       (\A m \in 1..Len(selected) : places[m] # i) => Rank(selected[n]) <= Rank(pool[i])
  /\ Len(selected) < TARGET_COMPARABLES =>
       \A i \in DOMAIN pool : \E n \in 1..Len(selected) : places[n] = i

\* What selectByTimeBandPreference returns of a gathered pool.
LEMMA SelectionSelects ==
  ASSUME kind \in [Sales -> SaleKinds], NEW pool \in Seq(EntryType),
         \A i \in DOMAIN pool : HasRung(pool[i])
  PROVE  /\ SelectByTimeBandPreference(pool) \in Seq(EntryType)
         /\ \E places : Selects(pool, SelectByTimeBandPreference(pool), places)
<1> DEFINE W == Walked(pool)
           rank == [i \in DOMAIN pool |-> Rank(pool[i])]
           places == ByKey(W, rank)
           size == Cardinality(W)
           sel == SelectByTimeBandPreference(pool)
<1>1. W \subseteq DOMAIN pool /\ IsFiniteSet(W)
  <2>1. W \subseteq 1..Len(pool) /\ DOMAIN pool = 1..Len(pool) /\ Len(pool) \in Nat  BY DEF Walked
  <2>2. IsFiniteSet(1..Len(pool))  BY <2>1, FS_Interval
  <2> QED BY <2>1, <2>2, FS_Subset
<1>2. W \subseteq Nat /\ \A i \in W : rank[i] = Rank(pool[i]) /\ rank[i] \in Nat
  <2>1. \A i \in W : i \in Nat /\ pool[i] \in EntryType /\ i \in DOMAIN pool  BY <1>1
  <2>2. \A i \in W : rank[i] = Rank(pool[i]) /\ Rank(pool[i]) \in Nat  BY <2>1, RankTyped
  <2> HIDE DEF W, rank
  <2> QED BY <2>1, <2>2
<1> HIDE DEF W, rank
<1>3. /\ size \in Nat /\ places \in [1..size -> W]
      /\ \A m, n \in 1..size : m <= n => rank[places[m]] <= rank[places[n]]
      /\ \A m, n \in 1..size : places[m] = places[n] => m = n
      /\ \A s \in W : \E n \in 1..size : places[n] = s
  <2>1. \A i \in W : rank[i] \in Int  BY <1>2
  <2> QED BY <2>1, <1>1, <1>2, ByKeyLists
<1>4. sel = [n \in DOMAIN places |-> pool[places[n]]]  BY DEF SelectByTimeBandPreference, W, rank
<1> HIDE DEF places, sel
<1>5. DOMAIN places = 1..size  BY <1>3
<1>6. sel \in [1..size -> EntryType]  BY <1>1, <1>3, <1>4
<1>7. sel \in Seq(EntryType) /\ Len(sel) = size  BY <1>3, <1>6
<1>8. \A n \in 1..size : sel[n] = pool[places[n]] /\ places[n] \in W /\ places[n] \in DOMAIN pool
  BY <1>1, <1>3, <1>4, <1>5
<1>9. \A i \in DOMAIN pool : Rank(pool[i]) \in Nat \ {0}  BY RankTyped
<1>10. \A m, n \in 1..size : m < n => Rank(sel[m]) <= Rank(sel[n])
  <2> SUFFICES ASSUME NEW m \in 1..size, NEW n \in 1..size, m < n
               PROVE  Rank(pool[places[m]]) <= Rank(pool[places[n]])
    BY <1>8
  <2>1. rank[places[m]] <= rank[places[n]]  BY <1>3
  <2> QED BY <2>1, <1>2, <1>8
<1>11. ASSUME NEW n \in 1..size, NEW i \in DOMAIN pool, \A m \in 1..size : places[m] # i
       PROVE  Rank(sel[n]) <= Rank(pool[i])
  <2> DEFINE w == places[n]
             A == {j \in DOMAIN pool : Rank(pool[j]) \in 1..Rank(pool[w]) - 1}
             B == {j \in DOMAIN pool : Rank(pool[j]) \in 1..Rank(pool[i]) - 1}
  <2> SUFFICES ASSUME ~(Rank(pool[w]) <= Rank(pool[i])) PROVE FALSE  BY <1>8
  <2>1. w \in W /\ w \in DOMAIN pool /\ i \notin W  BY <1>3, <1>8, <1>11
  <2>2. Cardinality(A) < TARGET_COMPARABLES  BY <2>1 DEF W, Walked
  <2>3. ~(Cardinality(B) < TARGET_COMPARABLES)  BY <2>1, <1>9 DEF W, Walked
  <2>4. B \subseteq A  BY <2>1, <1>9
  <2>5. IsFiniteSet(DOMAIN pool)
    <3>1. DOMAIN pool = 1..Len(pool) /\ Len(pool) \in Nat  OBVIOUS
    <3> QED BY <3>1, FS_Interval
  <2>6. IsFiniteSet(A) /\ IsFiniteSet(B)  BY <2>5, FS_Subset
  <2>7. Cardinality(A) \in Nat /\ Cardinality(B) \in Nat /\ Cardinality(B) <= Cardinality(A)
    BY <2>4, <2>6, FS_Subset, FS_CardinalityType
  <2> HIDE DEF A, B
  <2> QED BY <2>2, <2>3, <2>7, SelectionAssumption
<1>12. size < TARGET_COMPARABLES => \A i \in DOMAIN pool : \E n \in 1..size : places[n] = i
  <2> SUFFICES ASSUME size < TARGET_COMPARABLES PROVE W = DOMAIN pool
    BY <1>3
  <2> QED BY AllWalked DEF W
<1>13. Selects(pool, sel, places)
  BY <1>1, <1>3, <1>7, <1>8, <1>10, <1>11, <1>12 DEF Selects
<1> QED BY <1>7, <1>13 DEF sel

-----------------------------------------------------------------------------
(* What the selection maintains *)

\* Everything gathered and stored has its type.
SelTyped ==
  /\ kind \in [Sales -> SaleKinds]
  /\ step \in {"search", "ranked", "persist", "done", "aborted"}
  /\ roundsRun \in 0..MAX_ROUNDS
  /\ seenPoolIds \subseteq Sales
  /\ allConsideredPool \subseteq seenPoolIds
  /\ resolvedIds \subseteq Sales
  /\ accumulatedPool \in Seq(EntryType)
  /\ persisted \in Seq(EntryType)

\* What the gates and the rules let through.
Fits(e) ==
  /\ Sound(e.id) /\ Supports(e.id)
  /\ kind[e.id].reach <= MAX_ROUNDS
  /\ e.tier = "extrapolated" \/ kind[e.id].size = e.tier
  /\ HasRung(e)

\* The gathered sales are the resolved ones, each once.
PoolInv ==
  /\ \A i \in DOMAIN accumulatedPool : Fits(accumulatedPool[i])
  /\ resolvedIds = Ids(accumulatedPool)
  /\ \A m, n \in DOMAIN accumulatedPool :
       accumulatedPool[m].id = accumulatedPool[n].id =>
         m = n \/ accumulatedPool[m].id \in doubled

\* An entry of the ranking.
Extrapolated(i) == accumulatedPool[i].tier = "extrapolated"

\* The ranking comes last, and only fills up what is missing.
RegularFirst ==
  /\ step \in {"search", "ranked"} => \A i \in DOMAIN accumulatedPool : ~Extrapolated(i)
  /\ (\E i \in DOMAIN accumulatedPool : Extrapolated(i)) =>
       Cardinality({i \in DOMAIN accumulatedPool : ~Extrapolated(i)}) < MINIMUM_COMPARABLES

\* Once the ranking is reached every round was run, and after it either the
\* minimum is met or every sale seen that would do is gathered.
NothingLeft ==
  /\ \A s \in allConsideredPool : kind[s].reach <= MAX_ROUNDS
  /\ step \in {"ranked", "persist"} => roundsRun = MAX_ROUNDS
  /\ step = "persist" =>
       \/ ~Insufficient
       \/ \A s \in allConsideredPool : Sound(s) /\ Supports(s) => s \in resolvedIds

\* What is stored is stored in the end, and is what is claimed of it.
StoredAtEnd ==
  /\ step # "done" => persisted = << >>
  /\ Len(persisted) <= MAX_PERSISTED_COMPARABLES
  /\ EachSaleOnce /\ ShortOnlyWhenExhausted /\ BestStored /\ StoredIsSupport

\* The inductive invariant.
SelInv == SelTyped /\ PoolInv /\ RegularFirst /\ NothingLeft /\ StoredAtEnd

\* Nothing is gathered at the start.
LEMMA SelInvInit == SelInit => SelInv
<1> SUFFICES ASSUME SelInit PROVE SelInv  OBVIOUS
<1>1. accumulatedPool = << >> /\ persisted = << >> /\ step = "search" /\ resolvedIds = {}
      /\ allConsideredPool = {} /\ seenPoolIds = {} /\ roundsRun = 0 /\ kind \in [Sales -> SaleKinds]
  BY DEF SelInit
<1>2. DOMAIN accumulatedPool = {} /\ DOMAIN persisted = {} /\ Len(persisted) = 0  BY <1>1
<1>3. SelTyped  BY <1>1, SelectionAssumption DEF SelTyped
<1>4. PoolInv  BY <1>1, <1>2 DEF PoolInv, Ids, ToSet
<1>5. RegularFirst  BY <1>2 DEF RegularFirst
<1>6. NothingLeft  BY <1>1 DEF NothingLeft
<1>7. StoredAtEnd
  BY <1>1, <1>2, SelectionAssumption
  DEF StoredAtEnd, EachSaleOnce, ShortOnlyWhenExhausted, BestStored, StoredIsSupport, ToSet
<1> QED BY <1>3, <1>4, <1>5, <1>6, <1>7 DEF SelInv

\* Before the end the claims about what is stored are about nothing.
LEMMA NothingStored ==
  ASSUME persisted = << >>, step # "done"
  PROVE  StoredAtEnd
<1>1. DOMAIN persisted = {} /\ Len(persisted) = 0  OBVIOUS
<1> QED BY <1>1, SelectionAssumption
        DEF StoredAtEnd, EachSaleOnce, ShortOnlyWhenExhausted, BestStored, StoredIsSupport, ToSet

-----------------------------------------------------------------------------
(* Gathering *)

\* Q is a list of new entries that fit, each sale once but for those in D.
Gathers(Q, D) ==
  /\ Q \in Seq(EntryType)
  /\ \A i \in DOMAIN Q : Fits(Q[i]) /\ Q[i].id \notin resolvedIds
  /\ \A m, n \in DOMAIN Q : Q[m].id = Q[n].id => m = n \/ Q[m].id \in D

\* The entries of two lists one after the other.
LEMMA Joined ==
  ASSUME NEW P \in Seq(EntryType), NEW Q \in Seq(EntryType)
  PROVE  /\ P \o Q \in Seq(EntryType)
         /\ Len(P) \in Nat /\ Len(Q) \in Nat /\ Len(P \o Q) = Len(P) + Len(Q)
         /\ DOMAIN P = 1..Len(P) /\ DOMAIN Q = 1..Len(Q)
         /\ DOMAIN (P \o Q) = 1..Len(P) + Len(Q)
         /\ \A i \in DOMAIN P : i \in DOMAIN (P \o Q) /\ (P \o Q)[i] = P[i]
         /\ \A i \in DOMAIN Q : Len(P) + i \in DOMAIN (P \o Q) /\ (P \o Q)[Len(P) + i] = Q[i]
         /\ \A i \in DOMAIN (P \o Q) :
              \/ i \in DOMAIN P
              \/ i - Len(P) \in DOMAIN Q /\ (P \o Q)[i] = Q[i - Len(P)]
OBVIOUS

\* The sales of two lists one after the other.
LEMMA JoinedIds ==
  ASSUME NEW P \in Seq(EntryType), NEW Q \in Seq(EntryType)
  PROVE  Ids(P \o Q) = Ids(P) \cup Ids(Q)
<1> DEFINE R == P \o Q
<1>1. /\ \A i \in DOMAIN P : i \in DOMAIN R /\ R[i] = P[i]
      /\ \A i \in DOMAIN Q : Len(P) + i \in DOMAIN R /\ R[Len(P) + i] = Q[i]
      /\ \A i \in DOMAIN R : \/ i \in DOMAIN P
                             \/ i - Len(P) \in DOMAIN Q /\ R[i] = Q[i - Len(P)]
  BY Joined
<1> HIDE DEF R
<1>2. \A S \in {P, Q, R} : \A s : s \in Ids(S) <=> \E i \in DOMAIN S : S[i].id = s
  BY DEF Ids, ToSet
<1>3. Ids(R) \subseteq Ids(P) \cup Ids(Q)
  <2> SUFFICES ASSUME NEW s \in Ids(R) PROVE s \in Ids(P) \/ s \in Ids(Q)  OBVIOUS
  <2>1. PICK i \in DOMAIN R : R[i].id = s  BY <1>2
  <2>2. CASE i \in DOMAIN P  BY <2>1, <2>2, <1>1, <1>2
  <2>3. CASE i - Len(P) \in DOMAIN Q /\ R[i] = Q[i - Len(P)]  BY <2>1, <2>3, <1>2
  <2> QED BY <2>2, <2>3, <1>1
<1>4. Ids(P) \subseteq Ids(R)
  <2> SUFFICES ASSUME NEW s \in Ids(P) PROVE s \in Ids(R)  OBVIOUS
  <2>1. PICK i \in DOMAIN P : P[i].id = s  BY <1>2
  <2> QED BY <2>1, <1>1, <1>2
<1>5. Ids(Q) \subseteq Ids(R)
  <2> SUFFICES ASSUME NEW s \in Ids(Q) PROVE s \in Ids(R)  OBVIOUS
  <2>1. PICK i \in DOMAIN Q : Q[i].id = s  BY <1>2
  <2> QED BY <2>1, <1>1, <1>2
<1> QED BY <1>3, <1>4, <1>5 DEF R

\* Gathering keeps the pool what it is.
LEMMA GatheringKeepsPool ==
  ASSUME SelInv, NEW Q, Gathers(Q, doubled'), doubled \subseteq doubled',
         kind' = kind, accumulatedPool' = accumulatedPool \o Q,
         resolvedIds' = resolvedIds \cup Ids(Q)
  PROVE  /\ accumulatedPool' \in Seq(EntryType)
         /\ resolvedIds' \subseteq Sales
         /\ PoolInv'
<1> DEFINE P == accumulatedPool
           R == P \o Q
<1>1. P \in Seq(EntryType) /\ Q \in Seq(EntryType) /\ R \in Seq(EntryType)
  BY Joined DEF SelInv, SelTyped, Gathers
<1>2. /\ \A i \in DOMAIN P : i \in DOMAIN R /\ R[i] = P[i] /\ i \in Nat
      /\ \A i \in DOMAIN R : \/ i \in DOMAIN P
                             \/ i - Len(P) \in DOMAIN Q /\ R[i] = Q[i - Len(P)]
      /\ Len(P) \in Nat /\ \A i \in DOMAIN R : i \in Nat
  BY <1>1, Joined
<1>3. Ids(R) = Ids(P) \cup Ids(Q)  BY <1>1, JoinedIds
<1>4. /\ \A i \in DOMAIN P : Fits(P[i]) /\ P[i].id \in resolvedIds
      /\ \A m, n \in DOMAIN P : P[m].id = P[n].id => m = n \/ P[m].id \in doubled'
      /\ resolvedIds = Ids(P)
  BY DEF SelInv, PoolInv, Ids, ToSet
<1>5. /\ \A i \in DOMAIN Q : Fits(Q[i]) /\ Q[i].id \notin resolvedIds
      /\ \A m, n \in DOMAIN Q : Q[m].id = Q[n].id => m = n \/ Q[m].id \in doubled'
  BY DEF Gathers
<1> HIDE DEF P, R
<1>6. \A i \in DOMAIN R : Fits(R[i])  BY <1>2, <1>4, <1>5
<1>7. \A m, n \in DOMAIN R : R[m].id = R[n].id => m = n \/ R[m].id \in doubled'
  <2> SUFFICES ASSUME NEW m \in DOMAIN R, NEW n \in DOMAIN R, R[m].id = R[n].id
               PROVE  m = n \/ R[m].id \in doubled'
    OBVIOUS
  <2>1. CASE m \in DOMAIN P /\ n \in DOMAIN P  BY <2>1, <1>2, <1>4
  <2>2. CASE m \in DOMAIN P /\ n \notin DOMAIN P  BY <2>2, <1>2, <1>4, <1>5
  <2>3. CASE m \notin DOMAIN P /\ n \in DOMAIN P  BY <2>3, <1>2, <1>4, <1>5
  <2>4. CASE m \notin DOMAIN P /\ n \notin DOMAIN P
    <3>1. m - Len(P) = n - Len(P) \/ R[m].id \in doubled'  BY <2>4, <1>2, <1>5
    <3> QED BY <3>1, <1>2
  <2> QED BY <2>1, <2>2, <2>3, <2>4
<1>8. accumulatedPool' = R  BY DEF R, P
<1>9. resolvedIds' = Ids(R)  BY <1>3, <1>4
<1>10. Ids(R) \subseteq Sales
  <2>1. \A i \in DOMAIN R : R[i] \in EntryType  BY <1>1
  <2>2. \A i \in DOMAIN R : R[i].id \in Sales  BY <2>1 DEF EntryType
  <2> QED BY <2>2 DEF Ids, ToSet
<1>11. PoolInv'
  BY <1>6, <1>7, <1>8, <1>9
  DEF PoolInv, Fits, Sound, Supports, HasRung, Ids, ToSet
<1> QED BY <1>1, <1>8, <1>9, <1>10, <1>11

\* One entry for each of S, with the tier t gives it.
LEMMA EntriesOf ==
  ASSUME NEW S, S \subseteq Sales, NEW t \in [S -> {"preferred", "widened", "extrapolated"}],
         NEW Q, Q = [n \in 1..Cardinality(S) |-> Entry(InOrder(S)[n], t[InOrder(S)[n]])]
  PROVE  /\ Q \in Seq(EntryType) /\ Len(Q) = Cardinality(S)
         /\ \A i \in DOMAIN Q : Q[i].id \in S /\ Q[i].tier = t[Q[i].id]
         /\ \A m, n \in DOMAIN Q : Q[m].id = Q[n].id => m = n
         /\ Ids(Q) = S
<1>1. /\ Cardinality(S) \in Nat
      /\ InOrder(S) \in [1..Cardinality(S) -> S]
      /\ \A m, n \in 1..Cardinality(S) : InOrder(S)[m] = InOrder(S)[n] => m = n
      /\ \A s \in S : \E n \in 1..Cardinality(S) : InOrder(S)[n] = s
  BY SalesInOrder
<1>2. DOMAIN Q = 1..Cardinality(S)  OBVIOUS
<1>3. \A n \in 1..Cardinality(S) : Q[n].id = InOrder(S)[n] /\ Q[n].tier = t[InOrder(S)[n]]
  BY DEF Entry
<1>4. \A n \in 1..Cardinality(S) : Q[n] \in EntryType
  BY <1>1 DEF Entry, EntryType
<1>5. Q \in [1..Cardinality(S) -> EntryType]  BY <1>4
<1>6. Q \in Seq(EntryType) /\ Len(Q) = Cardinality(S)  BY <1>1, <1>5
<1>7. \A i \in DOMAIN Q : Q[i].id \in S /\ Q[i].tier = t[Q[i].id]  BY <1>1, <1>2, <1>3
<1>8. \A m, n \in DOMAIN Q : Q[m].id = Q[n].id => m = n  BY <1>1, <1>2, <1>3
<1>9. Ids(Q) = S
  <2>1. \A s : s \in Ids(Q) <=> \E i \in DOMAIN Q : Q[i].id = s  BY DEF Ids, ToSet
  <2>2. S \subseteq Ids(Q)
    <3> SUFFICES ASSUME NEW s \in S PROVE \E i \in DOMAIN Q : Q[i].id = s  BY <2>1
    <3>1. PICK n \in 1..Cardinality(S) : InOrder(S)[n] = s  BY <1>1
    <3> QED BY <3>1, <1>2, <1>3
  <2>3. Ids(Q) \subseteq S  BY <1>7, <2>1
  <2> QED BY <2>2, <2>3
<1> QED BY <1>6, <1>7, <1>8, <1>9

\* The model's sales, those of twice listed again.
AnswerList(S, T) ==
  [n \in 1..Len(InOrder(S) \o InOrder(T)) |-> Entry((InOrder(S) \o InOrder(T))[n], "preferred")]

\* Each of its entries is of one of the sales, and only those of T come twice.
LEMMA AnswerEntries ==
  ASSUME NEW S, S \subseteq Sales, NEW T, T \subseteq S
  PROVE  /\ AnswerList(S, T) \in Seq(EntryType)
         /\ \A i \in DOMAIN AnswerList(S, T) :
              AnswerList(S, T)[i].id \in S /\ AnswerList(S, T)[i].tier = "preferred"
         /\ \A m, n \in DOMAIN AnswerList(S, T) :
              AnswerList(S, T)[m].id = AnswerList(S, T)[n].id =>
                m = n \/ AnswerList(S, T)[m].id \in T
         /\ Ids(AnswerList(S, T)) = S
<1> DEFINE A == InOrder(S)
           B == InOrder(T)
           a == Cardinality(S)
           b == Cardinality(T)
           listed == A \o B
           Q == AnswerList(S, T)
<1>0. Q = [n \in 1..Len(listed) |-> Entry(listed[n], "preferred")]  BY DEF AnswerList
<1> HIDE DEF Q
<1>1. /\ a \in Nat /\ A \in [1..a -> S]
      /\ \A m, n \in 1..a : A[m] = A[n] => m = n
      /\ \A s \in S : \E n \in 1..a : A[n] = s
  BY SalesInOrder
<1>2. /\ b \in Nat /\ B \in [1..b -> T]
      /\ \A m, n \in 1..b : B[m] = B[n] => m = n
  BY SalesInOrder
<1> HIDE DEF A, B, a, b, listed
<1>3. A \in Seq(S) /\ B \in Seq(S) /\ Len(A) = a /\ Len(B) = b  BY <1>1, <1>2
<1>4. listed = A \o B  BY DEF listed
<1>5. listed \in Seq(S) /\ Len(listed) = a + b
  <2>1. \A X, Y \in Seq(S) : X \o Y \in Seq(S) /\ Len(X \o Y) = Len(X) + Len(Y)  OBVIOUS
  <2> QED BY <2>1, <1>3, <1>4
<1>6. \A n \in 1..Len(listed) :
        \/ n \in 1..a /\ listed[n] = A[n]
        \/ n - a \in 1..b /\ listed[n] = B[n - a]
  BY <1>1, <1>2, <1>3, <1>4, <1>5
<1>7. \A n \in 1..a : n \in 1..Len(listed) /\ listed[n] = A[n]
  BY <1>1, <1>2, <1>3, <1>4, <1>5
<1>8. DOMAIN Q = 1..Len(listed) /\ Len(listed) \in Nat /\ \A n \in 1..Len(listed) : n \in Nat
  BY <1>0, <1>5
<1>9. \A n \in 1..Len(listed) : /\ Q[n].id = listed[n] /\ Q[n].tier = "preferred"
                                /\ listed[n] \in S /\ Q[n] \in EntryType
  BY <1>0, <1>5 DEF Entry, EntryType
<1>10. Q \in Seq(EntryType)
  <2>1. Q \in [1..Len(listed) -> EntryType]  BY <1>0, <1>9
  <2> QED BY <2>1, <1>8
<1>11. \A m, n \in DOMAIN Q : Q[m].id = Q[n].id => m = n \/ Q[m].id \in T
  <2> SUFFICES ASSUME NEW m \in 1..Len(listed), NEW n \in 1..Len(listed), listed[m] = listed[n],
                      listed[m] \notin T
               PROVE  m = n
    BY <1>8, <1>9
  <2>1. m \in 1..a /\ listed[m] = A[m]  BY <1>2, <1>6
  <2>2. n \in 1..a /\ listed[n] = A[n]  BY <1>2, <1>6
  <2> QED BY <2>1, <2>2, <1>1
<1>12. Ids(Q) = S
  <2>1. \A s : s \in Ids(Q) <=> \E i \in DOMAIN Q : Q[i].id = s  BY DEF Ids, ToSet
  <2>2. S \subseteq Ids(Q)
    <3> SUFFICES ASSUME NEW s \in S PROVE \E i \in DOMAIN Q : Q[i].id = s  BY <2>1
    <3>1. PICK n \in 1..a : A[n] = s  BY <1>1
    <3> QED BY <3>1, <1>7, <1>8, <1>9
  <2>3. Ids(Q) \subseteq S  BY <1>8, <1>9, <2>1
  <2> QED BY <2>2, <2>3
<1> QED BY <1>8, <1>9, <1>10, <1>11, <1>12 DEF Q

\* Two lists of new entries that fit make one, if no sale is in both.
LEMMA GathersBoth ==
  ASSUME NEW A, NEW B, NEW D, Gathers(A, D), Gathers(B, D), Ids(A) \cap Ids(B) = {}
  PROVE  Gathers(A \o B, D)
<1> DEFINE R == A \o B
<1>1. A \in Seq(EntryType) /\ B \in Seq(EntryType)  BY DEF Gathers
<1>2. /\ R \in Seq(EntryType)
      /\ \A i \in DOMAIN A : i \in DOMAIN R /\ R[i] = A[i]
      /\ \A i \in DOMAIN R : \/ i \in DOMAIN A
                             \/ i - Len(A) \in DOMAIN B /\ R[i] = B[i - Len(A)]
      /\ Len(A) \in Nat /\ \A i \in DOMAIN R : i \in Nat
  BY <1>1, Joined
<1>3. \A i \in DOMAIN A : \A j \in DOMAIN B : A[i].id # B[j].id
  BY DEF Ids, ToSet
<1>4. /\ \A i \in DOMAIN A : Fits(A[i]) /\ A[i].id \notin resolvedIds
      /\ \A m, n \in DOMAIN A : A[m].id = A[n].id => m = n \/ A[m].id \in D
      /\ \A i \in DOMAIN B : Fits(B[i]) /\ B[i].id \notin resolvedIds
      /\ \A m, n \in DOMAIN B : B[m].id = B[n].id => m = n \/ B[m].id \in D
  BY DEF Gathers
<1> HIDE DEF R
<1>5. \A i \in DOMAIN R : Fits(R[i]) /\ R[i].id \notin resolvedIds  BY <1>2, <1>4
<1>6. \A m, n \in DOMAIN R : R[m].id = R[n].id => m = n \/ R[m].id \in D
  <2> SUFFICES ASSUME NEW m \in DOMAIN R, NEW n \in DOMAIN R, R[m].id = R[n].id
               PROVE  m = n \/ R[m].id \in D
    OBVIOUS
  <2>1. CASE m \in DOMAIN A /\ n \in DOMAIN A  BY <2>1, <1>2, <1>4
  <2>2. CASE m \in DOMAIN A /\ n \notin DOMAIN A  BY <2>2, <1>2, <1>3
  <2>3. CASE m \notin DOMAIN A /\ n \in DOMAIN A  BY <2>3, <1>2, <1>3
  <2>4. CASE m \notin DOMAIN A /\ n \notin DOMAIN A
    <3>1. m - Len(A) = n - Len(A) \/ R[m].id \in D  BY <2>4, <1>2, <1>4
    <3> QED BY <3>1, <1>2
  <2> QED BY <2>1, <2>2, <2>3, <2>4
<1> QED BY <1>2, <1>5, <1>6 DEF Gathers, R

\* What a search gathers: new sales that fit, none of them extrapolated.
LEMMA SearchGathers ==
  ASSUME SelInv, NEW geo, NEW radius \in Nat, radius <= MAX_ROUNDS, NEW lastResort \in BOOLEAN,
         geo \subseteq {s \in Sales : kind[s].reach <= radius},
         GatherRoundCandidates(geo, radius, lastResort)
  PROVE  \E Q : /\ Gathers(Q, doubled') /\ doubled \subseteq doubled'
                /\ accumulatedPool' = accumulatedPool \o Q
                /\ resolvedIds' = resolvedIds \cup Ids(Q)
                /\ \A i \in DOMAIN Q : Q[i].tier # "extrapolated"
<1> DEFINE auto == Unresolved({s \in geo : AutoIncludable(s)})
           llmPool == Unresolved(geo) \ auto
<1>1. PICK answer \in SUBSET Sales, justified \in BOOLEAN :
        \E twice \in {{}} \cup {{s} : s \in answer \cap llmPool} :
         LET supporting == {s \in Unresolved(answer) \ auto :
               /\ s \in llmPool \/ kind[s].reach <= radius
               /\ PassesGates(s, justified, lastResort)}
             listed == InOrder(supporting) \o InOrder(supporting \cap twice) IN
         /\ accumulatedPool' = accumulatedPool
              \o [n \in 1..Cardinality(auto) |->
                    Entry(InOrder(auto)[n], kind[InOrder(auto)[n]].size)]
              \o [n \in 1..Len(listed) |-> Entry(listed[n], "preferred")]
         /\ resolvedIds' = resolvedIds \cup auto \cup supporting
         /\ doubled' = doubled \cup (supporting \cap twice)
  BY DEF GatherRoundCandidates
<1> DEFINE supporting == {s \in Unresolved(answer) \ auto :
               /\ s \in llmPool \/ kind[s].reach <= radius
               /\ PassesGates(s, justified, lastResort)}
<1>2. PICK twice :
         /\ accumulatedPool' = accumulatedPool
              \o [n \in 1..Cardinality(auto) |->
                    Entry(InOrder(auto)[n], kind[InOrder(auto)[n]].size)]
              \o [n \in 1..Len(InOrder(supporting) \o InOrder(supporting \cap twice)) |->
                    Entry((InOrder(supporting) \o InOrder(supporting \cap twice))[n], "preferred")]
         /\ resolvedIds' = resolvedIds \cup auto \cup supporting
         /\ doubled' = doubled \cup (supporting \cap twice)
  BY <1>1
<1> DEFINE T == supporting \cap twice
           listed == InOrder(supporting) \o InOrder(T)
           A == [n \in 1..Cardinality(auto) |->
                    Entry(InOrder(auto)[n], kind[InOrder(auto)[n]].size)]
           L == [n \in 1..Len(listed) |-> Entry(listed[n], "preferred")]
           t == [s \in auto |-> kind[s].size]
<1>3. accumulatedPool \in Seq(EntryType) /\ kind \in [Sales -> SaleKinds]
  BY DEF SelInv, SelTyped
<1>4. \A s \in auto : /\ s \in Sales /\ s \notin resolvedIds /\ Sound(s) /\ Supports(s)
                      /\ kind[s].reach <= MAX_ROUNDS /\ kind[s].size \in {"preferred", "widened"}
                      /\ ~(kind[s].size = "widened" /\ kind[s].band = "last_resort")
  <2> TAKE s \in auto
  <2>1. s \in Sales /\ s \notin resolvedIds /\ AutoIncludable(s) /\ kind[s].reach <= radius
    BY DEF Unresolved
  <2>2. kind[s].reach \in Nat  BY <2>1, <1>3, KindsAssumption
  <2> QED BY <2>1, <2>2, SelectionAssumption DEF AutoIncludable
<1>5. \A s \in supporting : /\ s \in Sales /\ s \notin resolvedIds /\ s \notin auto
                            /\ Sound(s) /\ Supports(s)
                            /\ kind[s].reach <= MAX_ROUNDS /\ kind[s].size = "preferred"
  <2> TAKE s \in supporting
  <2>1. s \in Sales /\ s \notin resolvedIds /\ s \notin auto /\ PassesGates(s, justified, lastResort)
        /\ kind[s].reach <= radius
    BY DEF Unresolved
  <2>2. kind[s].reach \in Nat  BY <2>1, <1>3, KindsAssumption
  <2> QED BY <2>1, <2>2, SelectionAssumption DEF PassesGates
<1> HIDE DEF auto, supporting, llmPool
<1>6. auto \subseteq Sales /\ supporting \subseteq Sales /\ T \subseteq supporting
  BY <1>4, <1>5
<1>7. t \in [auto -> {"preferred", "widened", "extrapolated"}]  BY <1>4
<1>8. A = [n \in 1..Cardinality(auto) |-> Entry(InOrder(auto)[n], t[InOrder(auto)[n]])]
  <2>1. InOrder(auto) \in [1..Cardinality(auto) -> auto]  BY <1>6, SalesInOrder
  <2> QED BY <2>1
<1>9. /\ A \in Seq(EntryType) /\ Ids(A) = auto
      /\ \A i \in DOMAIN A : A[i].id \in auto /\ A[i].tier = t[A[i].id]
      /\ \A m, n \in DOMAIN A : A[m].id = A[n].id => m = n
  <2> HIDE DEF A, t
  <2> QED BY <1>6, <1>7, <1>8, EntriesOf
<1>10. /\ L \in Seq(EntryType) /\ Ids(L) = supporting
       /\ \A i \in DOMAIN L : L[i].id \in supporting /\ L[i].tier = "preferred"
       /\ \A m, n \in DOMAIN L : L[m].id = L[n].id => m = n \/ L[m].id \in T
  <2>1. L = AnswerList(supporting, T)  BY DEF AnswerList
  <2> HIDE DEF T, L
  <2> QED BY <1>6, <2>1, AnswerEntries
<1>11. /\ accumulatedPool' = (accumulatedPool \o A) \o L
       /\ resolvedIds' = resolvedIds \cup auto \cup supporting
       /\ doubled' = doubled \cup T
  BY <1>2
<1>12. \A i \in DOMAIN A : A[i].tier = kind[A[i].id].size  BY <1>9
<1> HIDE DEF A, L, T, t
<1>13. Gathers(A, doubled')
  BY <1>4, <1>9, <1>12 DEF Gathers, Fits, HasRung
<1>14. Gathers(L, doubled')
  BY <1>5, <1>10, <1>11 DEF Gathers, Fits, HasRung
<1>15. Ids(A) \cap Ids(L) = {}  BY <1>5, <1>9, <1>10
<1>16. Gathers(A \o L, doubled')  BY <1>13, <1>14, <1>15, GathersBoth
<1>17. accumulatedPool' = accumulatedPool \o (A \o L)  BY <1>3, <1>9, <1>10, <1>11
<1>18. resolvedIds' = resolvedIds \cup Ids(A \o L)  BY <1>9, <1>10, <1>11, JoinedIds
<1>19. \A i \in DOMAIN (A \o L) : (A \o L)[i].tier # "extrapolated"
  <2> TAKE i \in DOMAIN (A \o L)
  <2>1. CASE i \in DOMAIN A
    <3>1. (A \o L)[i] = A[i]  BY <2>1, <1>9, <1>10, Joined
    <3> QED BY <3>1, <2>1, <1>4, <1>9, <1>12
  <2>2. CASE i \notin DOMAIN A
    <3>1. i - Len(A) \in DOMAIN L /\ (A \o L)[i] = L[i - Len(A)]  BY <2>2, <1>9, <1>10, Joined
    <3> QED BY <3>1, <1>10
  <2> QED BY <2>1, <2>2
<1> QED BY <1>11, <1>16, <1>17, <1>18, <1>19

\* The selection of the pool as it stands.
LEMMA PoolSelected ==
  ASSUME SelInv
  PROVE  /\ accumulatedPool \in Seq(EntryType) /\ kind \in [Sales -> SaleKinds]
         /\ \A i \in DOMAIN accumulatedPool : HasRung(accumulatedPool[i])
         /\ Selected \in Seq(EntryType) /\ Len(Selected) \in Nat
         /\ \E places : Selects(accumulatedPool, Selected, places)
<1>1. accumulatedPool \in Seq(EntryType) /\ kind \in [Sales -> SaleKinds]
  BY DEF SelInv, SelTyped
<1>2. \A i \in DOMAIN accumulatedPool : HasRung(accumulatedPool[i])
  BY DEF SelInv, PoolInv, Fits
<1>3. Selected \in Seq(EntryType) /\ \E places : Selects(accumulatedPool, Selected, places)
  BY <1>1, <1>2, SelectionSelects DEF Selected
<1> QED BY <1>1, <1>2, <1>3

\* Kinds never change, so an entry keeps its rung.
LEMMA RankKept ==
  ASSUME kind' = kind
  PROVE  \A e : Rank(e)' = Rank(e)
<1> TAKE e
<1> DEFINE I == {n \in 1..Len(SELECTION_RUNGS) : SELECTION_RUNGS[n] = RungOf(e)}
<1>1. Rank(e) = IF I # {} THEN Min(I) ELSE 0  BY DEF Rank, SelectInSeq
<1>2. Rank(e)' = IF I' # {} THEN Min(I') ELSE 0  BY DEF Rank, SelectInSeq
<1>3. I' = I  BY DEF RungOf
<1> HIDE DEF I
<1> QED BY <1>1, <1>2, <1>3

\* So the selection is made of the pool alone.
LEMMA SelectionKept ==
  ASSUME kind' = kind, NEW pool, accumulatedPool' = pool
  PROVE  Selected' = SelectByTimeBandPreference(pool)
<1>1. \A i \in DOMAIN pool : Rank(pool[i])' = Rank(pool[i])  BY RankKept
<1>2. Walked(pool)' = Walked(pool)  BY <1>1 DEF Walked
<1>3. [i \in DOMAIN pool |-> Rank(pool[i])]' = [i \in DOMAIN pool |-> Rank(pool[i])]  BY <1>1
<1>4. SelectByTimeBandPreference(pool)' = SelectByTimeBandPreference(pool)
  BY <1>2, <1>3 DEF SelectByTimeBandPreference
<1> QED BY <1>4 DEF Selected

\* Below the target the selection is as long as the pool.
LEMMA ShortIsWhole ==
  ASSUME kind \in [Sales -> SaleKinds], NEW pool \in Seq(EntryType),
         \A i \in DOMAIN pool : HasRung(pool[i]),
         Len(SelectByTimeBandPreference(pool)) < TARGET_COMPARABLES
  PROVE  Len(SelectByTimeBandPreference(pool)) = Len(pool)
<1> DEFINE sel == SelectByTimeBandPreference(pool)
<1>1. PICK places : Selects(pool, sel, places)  BY SelectionSelects
<1>2. sel \in Seq(EntryType)  BY SelectionSelects
<1> HIDE DEF sel
<1>3. Len(sel) \in Nat /\ Len(pool) \in Nat /\ DOMAIN pool = 1..Len(pool)  BY <1>2
<1>4. places \in Injection(1..Len(sel), 1..Len(pool))
  BY <1>1, <1>3 DEF Selects, Injection, IsInjective
<1>5. places \in Surjection(1..Len(sel), 1..Len(pool))
  BY <1>1, <1>3 DEF Selects, Surjection, sel
<1>6. /\ IsFiniteSet(1..Len(sel)) /\ Cardinality(1..Len(sel)) = Len(sel)
      /\ IsFiniteSet(1..Len(pool)) /\ Cardinality(1..Len(pool)) = Len(pool)
  BY <1>3, CountUpTo
<1>7. Len(sel) <= Len(pool)  BY <1>4, <1>6, FS_Injection
<1>8. Len(pool) <= Len(sel)  BY <1>5, <1>6, FS_Surjection
<1>9. Len(sel) = Len(pool)  BY <1>3, <1>7, <1>8
<1> QED BY <1>9 DEF sel

-----------------------------------------------------------------------------
(* The steps *)

\* A search, within a round or across the zoning classes.
LEMMA SearchKeeps ==
  ASSUME SelInv, step = "search",
         NEW fetchable, fetchable \subseteq Sales,
         NEW radius \in Nat, radius <= MAX_ROUNDS, NEW lastResort \in BOOLEAN,
         Search(fetchable, radius, lastResort),
         kind' = kind, persisted' = persisted, roundsRun' \in 0..MAX_ROUNDS,
         step' \in {"search", "ranked"}, step' = "ranked" => roundsRun' = MAX_ROUNDS
  PROVE  SelInv'
<1>1. PICK fetched \in SUBSET (fetchable \ seenPoolIds) :
        LET geo == Within(Deduped(fetched), radius) IN
        /\ seenPoolIds' = seenPoolIds \cup fetched
        /\ allConsideredPool' = allConsideredPool \cup geo
        /\ GatherRoundCandidates(geo, radius, lastResort)
  BY DEF Search
<1> DEFINE geo == Within(Deduped(fetched), radius)
<1>2. /\ seenPoolIds' = seenPoolIds \cup fetched
      /\ allConsideredPool' = allConsideredPool \cup geo
      /\ GatherRoundCandidates(geo, radius, lastResort)
  BY <1>1
<1>3. geo \subseteq fetched /\ geo \subseteq {s \in Sales : kind[s].reach <= radius}
  BY DEF Within, Deduped
<1> HIDE DEF geo
<1>4. PICK Q : /\ Gathers(Q, doubled') /\ doubled \subseteq doubled'
               /\ accumulatedPool' = accumulatedPool \o Q
               /\ resolvedIds' = resolvedIds \cup Ids(Q)
               /\ \A i \in DOMAIN Q : Q[i].tier # "extrapolated"
  BY <1>2, <1>3, SearchGathers
<1>5. accumulatedPool' \in Seq(EntryType) /\ resolvedIds' \subseteq Sales /\ PoolInv'
  BY <1>4, GatheringKeepsPool
<1>6. SelTyped'  BY <1>2, <1>3, <1>5 DEF SelInv, SelTyped
<1>7. \A i \in DOMAIN accumulatedPool' : accumulatedPool'[i].tier # "extrapolated"
  <2>1. accumulatedPool \in Seq(EntryType) /\ Q \in Seq(EntryType)
    BY <1>4 DEF SelInv, SelTyped, Gathers
  <2>2. \A i \in DOMAIN accumulatedPool : accumulatedPool[i].tier # "extrapolated"
    BY DEF SelInv, RegularFirst, Extrapolated
  <2> QED BY <1>4, <2>1, <2>2, Joined
<1>8. RegularFirst'  BY <1>7 DEF RegularFirst, Extrapolated
<1>9. NothingLeft'
  <2>1. \A s \in geo : kind[s].reach <= MAX_ROUNDS
    <3> TAKE s \in geo
    <3>1. s \in Sales /\ kind[s].reach <= radius  BY <1>3
    <3>2. kind[s].reach \in Nat  BY <3>1, KindsAssumption DEF SelInv, SelTyped
    <3> QED BY <3>1, <3>2, SelectionAssumption
  <2>2. \A s \in allConsideredPool : kind[s].reach <= MAX_ROUNDS  BY DEF SelInv, NothingLeft
  <2> QED BY <1>2, <2>1, <2>2 DEF NothingLeft
<1>10. StoredAtEnd'
  <2>1. persisted' = << >> /\ step' # "done"  BY DEF SelInv, StoredAtEnd
  <2>2. DOMAIN persisted' = {} /\ Len(persisted') = 0  BY <2>1
  <2> QED BY <2>1, <2>2, SelectionAssumption
          DEF StoredAtEnd, EachSaleOnce, ShortOnlyWhenExhausted, BestStored, StoredIsSupport, ToSet
<1> QED BY <1>5, <1>6, <1>8, <1>9, <1>10 DEF SelInv

\* A selection that is short of the minimum is not strong: every round was run.
LEMMA ShortAfterAllRounds ==
  ASSUME SelInv, RoundsOver, Insufficient
  PROVE  roundsRun = MAX_ROUNDS /\ step = "search"
<1>1. Len(Selected) \in Nat  BY PoolSelected
<1> QED BY <1>1, SelectionAssumption DEF RoundsOver, Strong, Insufficient

\* The ranking fills up to the minimum, or takes all there is.
LEMMA RankingKeeps ==
  ASSUME SelInv, RankedLastResort
  PROVE  SelInv'
<1> DEFINE P == accumulatedPool
           needed == MINIMUM_COMPARABLES - Len(Selected)
           count == IF Cardinality(Rankable) < needed THEN Cardinality(Rankable) ELSE needed
<1>1. /\ step = "ranked" /\ Insufficient /\ step' = "persist"
      /\ UNCHANGED << kind, roundsRun, seenPoolIds, allConsideredPool, persisted, doubled >>
  BY DEF RankedLastResort
<1>2. PICK closest \in kSubset(count, Rankable) :
       /\ accumulatedPool' = accumulatedPool \o
            [n \in 1..count |-> Entry(InOrder(closest)[n], "extrapolated")]
       /\ resolvedIds' = resolvedIds \cup closest
  BY DEF RankedLastResort
<1>3. closest \subseteq Rankable /\ Cardinality(closest) = count  BY DEF kSubset
<1>4. P \in Seq(EntryType) /\ kind \in [Sales -> SaleKinds] /\ Len(Selected) \in Nat /\ Len(P) \in Nat
      /\ \A i \in DOMAIN P : HasRung(P[i])
  BY PoolSelected
<1>5. Len(Selected) = Len(P) /\ Len(P) < MINIMUM_COMPARABLES
  <2>1. Len(Selected) < TARGET_COMPARABLES  BY <1>1, <1>4, SelectionAssumption DEF Insufficient
  <2> QED BY <1>1, <1>4, <2>1, ShortIsWhole DEF Insufficient, Selected
<1>6. Rankable \subseteq Sales /\ IsFiniteSet(Rankable) /\ Cardinality(Rankable) \in Nat
  <2>1. Rankable \subseteq Sales
    BY DEF Rankable, Unresolved, SelInv, SelTyped
  <2> QED BY <2>1, SalesInOrder
<1>7. \A s \in closest : /\ s \in Sales /\ s \notin resolvedIds /\ Sound(s) /\ Supports(s)
                         /\ kind[s].reach <= MAX_ROUNDS
  BY <1>3, <1>6 DEF Rankable, Unresolved, SelInv, NothingLeft
<1> DEFINE t == [s \in closest |-> "extrapolated"]
           Q == [n \in 1..count |-> Entry(InOrder(closest)[n], "extrapolated")]
<1>8. Q = [n \in 1..Cardinality(closest) |-> Entry(InOrder(closest)[n], t[InOrder(closest)[n]])]
  <2>1. InOrder(closest) \in [1..Cardinality(closest) -> closest]  BY <1>7, SalesInOrder
  <2> HIDE DEF count
  <2> QED BY <2>1, <1>3
<1>9. /\ Q \in Seq(EntryType) /\ Len(Q) = count /\ Ids(Q) = closest
      /\ \A i \in DOMAIN Q : Q[i].id \in closest /\ Q[i].tier = t[Q[i].id]
      /\ \A m, n \in DOMAIN Q : Q[m].id = Q[n].id => m = n
  <2>1. t \in [closest -> {"preferred", "widened", "extrapolated"}] /\ closest \subseteq Sales
    BY <1>7
  <2> HIDE DEF t, Q, count
  <2> QED BY <1>3, <1>8, <2>1, EntriesOf
<1>10. \A i \in DOMAIN Q : Q[i].id \in closest /\ Q[i].tier = "extrapolated"  BY <1>9
<1>11. accumulatedPool' = P \o Q /\ resolvedIds' = resolvedIds \cup Ids(Q)  BY <1>2, <1>9
<1> HIDE DEF t, Q
<1>12. Gathers(Q, doubled')
  BY <1>7, <1>9, <1>10 DEF Gathers, Fits, HasRung
<1>13. accumulatedPool' \in Seq(EntryType) /\ resolvedIds' \subseteq Sales /\ PoolInv'
  BY <1>1, <1>11, <1>12, GatheringKeepsPool
<1>14. SelTyped'  BY <1>1, <1>13 DEF SelInv, SelTyped
<1>15. RegularFirst'
  <2> DEFINE R == {i \in DOMAIN accumulatedPool' : accumulatedPool'[i].tier # "extrapolated"}
  <2>1. R \subseteq 1..Len(P)
    BY <1>4, <1>9, <1>10, <1>11, Joined
  <2>2. IsFiniteSet(1..Len(P)) /\ Cardinality(1..Len(P)) = Len(P)  BY <1>4, CountUpTo
  <2>3. IsFiniteSet(R) /\ Cardinality(R) <= Len(P)  BY <2>1, <2>2, FS_Subset
  <2>4. Cardinality(R) \in Nat  BY <2>3, FS_CardinalityType
  <2>5. Cardinality(R) < MINIMUM_COMPARABLES  BY <1>4, <1>5, <2>3, <2>4, SelectionAssumption
  <2> QED BY <1>1, <2>5 DEF RegularFirst, Extrapolated
<1>16. NothingLeft'
  <2>1. CASE Cardinality(Rankable) < needed
    <3>1. closest = Rankable  BY <1>3, <1>6, <2>1, FS_Subset
    <3>2. \A s \in allConsideredPool : Sound(s) /\ Supports(s) => s \in resolvedIds'
      BY <1>2, <3>1 DEF Rankable, Unresolved
    <3> QED BY <1>1, <3>2 DEF SelInv, NothingLeft, Sound, Supports
  <2>2. CASE ~(Cardinality(Rankable) < needed)
    <3>1. count = needed  BY <2>2
    <3>2. PICK pool : pool = accumulatedPool'  OBVIOUS
    <3>3. Len(pool) = MINIMUM_COMPARABLES
      <4>1. Len(P \o Q) = Len(P) + Len(Q)  BY <1>4, <1>9, Joined
      <4> QED BY <1>4, <1>5, <1>9, <1>11, <3>1, <3>2, <4>1, SelectionAssumption
    <3>4. pool \in Seq(EntryType) /\ \A i \in DOMAIN pool : HasRung(pool[i])
      BY <1>1, <1>13, <3>2 DEF PoolInv, Fits, HasRung
    <3>5. ~(Len(SelectByTimeBandPreference(pool)) < MINIMUM_COMPARABLES)
      <4> SUFFICES ASSUME Len(SelectByTimeBandPreference(pool)) < MINIMUM_COMPARABLES
                   PROVE  FALSE
        OBVIOUS
      <4>1. SelectByTimeBandPreference(pool) \in Seq(EntryType)
        BY <1>4, <3>4, SelectionSelects
      <4>2. Len(SelectByTimeBandPreference(pool)) < TARGET_COMPARABLES
        BY <4>1, SelectionAssumption
      <4>3. Len(SelectByTimeBandPreference(pool)) = Len(pool)
        BY <1>4, <3>4, <4>2, ShortIsWhole
      <4> QED BY <3>3, <4>3, SelectionAssumption
    <3>6. Selected' = SelectByTimeBandPreference(pool)  BY <1>1, <3>2, SelectionKept
    <3>7. ~Insufficient'  BY <3>5, <3>6 DEF Insufficient
    <3> QED BY <1>1, <3>7 DEF SelInv, NothingLeft
  <2> QED BY <2>1, <2>2
<1>17. StoredAtEnd'
  <2>1. persisted' = << >> /\ step' # "done"  BY <1>1 DEF SelInv, StoredAtEnd
  <2>2. DOMAIN persisted' = {} /\ Len(persisted') = 0  BY <2>1
  <2> QED BY <2>1, <2>2, SelectionAssumption
          DEF StoredAtEnd, EachSaleOnce, ShortOnlyWhenExhausted, BestStored, StoredIsSupport, ToSet
<1> QED BY <1>13, <1>14, <1>15, <1>16, <1>17 DEF SelInv

\* What is stored is the front of the selection.
LEMMA TrimmedFront ==
  ASSUME NEW sel \in Seq(EntryType)
  PROVE  \E k \in 0..Len(sel) :
           /\ k <= MAX_PERSISTED_COMPARABLES
           /\ k < MINIMUM_COMPARABLES => k = Len(sel)
           /\ Trimmed(sel) \in Seq(EntryType) /\ Len(Trimmed(sel)) = k
           /\ \A n \in 1..k : Trimmed(sel)[n] = sel[n]
<1> DEFINE k == Min({Len(sel), MAX_PERSISTED_COMPARABLES})
<1>1. Len(sel) \in Nat /\ MAX_PERSISTED_COMPARABLES \in Nat /\ MINIMUM_COMPARABLES \in Nat
      /\ MINIMUM_COMPARABLES <= MAX_PERSISTED_COMPARABLES
  BY SelectionAssumption
<1>2. \E x \in {Len(sel), MAX_PERSISTED_COMPARABLES} :
        \A y \in {Len(sel), MAX_PERSISTED_COMPARABLES} : x <= y
  BY <1>1
<1>3. k \in {Len(sel), MAX_PERSISTED_COMPARABLES} /\ k <= Len(sel) /\ k <= MAX_PERSISTED_COMPARABLES
  BY <1>2 DEF Min
<1>4. Trimmed(sel) = SubSeq(sel, 1, k)  BY DEF Trimmed
<1> HIDE DEF k
<1>5. k \in 0..Len(sel) /\ (k < MINIMUM_COMPARABLES => k = Len(sel))  BY <1>1, <1>3
<1>6. Trimmed(sel) \in Seq(EntryType) /\ Len(Trimmed(sel)) = k
      /\ \A n \in 1..k : Trimmed(sel)[n] = sel[n]
  BY <1>4, <1>5
<1> QED BY <1>3, <1>5, <1>6

\* Storing stores the best of the pool.
LEMMA StoringKeeps ==
  ASSUME SelInv, PersistComparables
  PROVE  SelInv'
<1> DEFINE P == accumulatedPool
           sel == Selected
<1>1. /\ persisted' = Trimmed(sel) /\ step' = "done"
      /\ UNCHANGED << kind, roundsRun, seenPoolIds, resolvedIds, accumulatedPool,
                      allConsideredPool, doubled >>
  BY DEF PersistComparables
<1>2. /\ P \in Seq(EntryType) /\ sel \in Seq(EntryType) /\ kind \in [Sales -> SaleKinds]
      /\ \A i \in DOMAIN P : HasRung(P[i])
  BY PoolSelected
<1>3. PICK places : Selects(P, sel, places)  BY PoolSelected
<1>4. PICK k \in 0..Len(sel) :
        /\ k <= MAX_PERSISTED_COMPARABLES
        /\ k < MINIMUM_COMPARABLES => k = Len(sel)
        /\ persisted' \in Seq(EntryType) /\ Len(persisted') = k
        /\ \A n \in 1..k : persisted'[n] = sel[n]
  BY <1>1, <1>2, TrimmedFront
<1>5. DOMAIN persisted' = 1..k /\ Len(sel) \in Nat /\ k \in Nat /\ 1..k \subseteq 1..Len(sel)
  BY <1>2, <1>4
<1> HIDE DEF sel
<1>6. \A n \in 1..k : /\ persisted'[n] = P[places[n]] /\ places[n] \in DOMAIN P
                      /\ n \in 1..Len(sel) /\ sel[n] = persisted'[n]
  BY <1>3, <1>4, <1>5 DEF Selects
<1>7. SelTyped'  BY <1>1, <1>4 DEF SelInv, SelTyped
<1>8. PoolInv'
  BY <1>1 DEF SelInv, PoolInv, Fits, Sound, Supports, HasRung
<1>9. RegularFirst'  BY <1>1 DEF SelInv, RegularFirst, Extrapolated
<1>10. NothingLeft'  BY <1>1 DEF SelInv, NothingLeft
<1>11. EachSaleOnce'
  <2> SUFFICES ASSUME NEW m \in 1..k, NEW n \in 1..k, persisted'[m].id = persisted'[n].id,
                      persisted'[m].id \notin doubled
               PROVE  m = n
    BY <1>1, <1>5 DEF EachSaleOnce
  <2>1. P[places[m]].id = P[places[n]].id /\ P[places[m]].id \notin doubled  BY <1>6
  <2>2. places[m] = places[n]  BY <2>1, <1>6 DEF SelInv, PoolInv
  <2> QED BY <2>2, <1>3, <1>6 DEF Selects
<1>12. ShortOnlyWhenExhausted'
  <2> SUFFICES ASSUME k < MINIMUM_COMPARABLES
               PROVE  /\ roundsRun = MAX_ROUNDS
                      /\ \A s \in allConsideredPool :
                           Sound(s) /\ Supports(s) => s \in Ids(persisted')
    BY <1>1, <1>4 DEF ShortOnlyWhenExhausted, Sound, Supports
  <2>1. k = Len(sel)  BY <1>4
  <2>2. Insufficient  BY <2>1 DEF Insufficient, sel
  <2>3. step = "persist"  BY <2>2 DEF PersistComparables
  <2>4. /\ roundsRun = MAX_ROUNDS
        /\ \A s \in allConsideredPool : Sound(s) /\ Supports(s) => s \in resolvedIds
    BY <2>2, <2>3 DEF SelInv, NothingLeft
  <2>5. ASSUME NEW s \in resolvedIds PROVE s \in Ids(persisted')
    <3>1. PICK i \in DOMAIN P : P[i].id = s  BY <2>5 DEF SelInv, PoolInv, Ids, ToSet
    <3>2. Len(sel) < TARGET_COMPARABLES  BY <1>5, <2>1, SelectionAssumption
    <3>3. PICK n \in 1..Len(sel) : places[n] = i  BY <1>3, <3>2 DEF Selects
    <3>4. n \in DOMAIN persisted' /\ persisted'[n].id = s  BY <1>5, <1>6, <2>1, <3>1, <3>3
    <3> QED BY <3>4 DEF Ids, ToSet
  <2> QED BY <2>4, <2>5
<1>13. BestStored'
  <2>1. ASSUME NEW m \in 1..k, NEW i \in DOMAIN P,
               \A n \in 1..k : persisted'[n] # P[i]
        PROVE  Rank(persisted'[m]) <= Rank(P[i])
    <3>1. CASE \E n \in 1..Len(sel) : places[n] = i
      <4>1. PICK n \in 1..Len(sel) : places[n] = i  BY <3>1
      <4>2. sel[n] = P[i]  BY <4>1, <1>3 DEF Selects
      <4>3. n \notin 1..k  BY <4>2, <2>1, <1>6
      <4>4. m < n  BY <4>3, <1>5
      <4>5. Rank(sel[m]) <= Rank(sel[n])  BY <4>4, <1>3, <1>6 DEF Selects
      <4> QED BY <4>2, <4>5, <1>6
    <3>2. CASE ~ \E n \in 1..Len(sel) : places[n] = i
      <4>1. Rank(sel[m]) <= Rank(P[i])  BY <3>2, <1>3, <1>6 DEF Selects
      <4> QED BY <4>1, <1>6
    <3> QED BY <3>1, <3>2
  <2>2. \A e : Rank(e)' = Rank(e)  BY <1>1, RankKept
  <2>3. ASSUME NEW e \in ToSet(persisted'), NEW f \in ToSet(P) \ ToSet(persisted')
        PROVE  Rank(e) <= Rank(f)
    <3>1. PICK m \in 1..k : persisted'[m] = e  BY <2>3, <1>5 DEF ToSet
    <3>2. PICK i \in DOMAIN P : P[i] = f  BY <2>3 DEF ToSet
    <3>3. \A n \in 1..k : persisted'[n] # f  BY <2>3, <1>5 DEF ToSet
    <3> QED BY <2>1, <3>1, <3>2, <3>3
  <2> QED BY <1>1, <2>2, <2>3 DEF BestStored
<1>14. StoredIsSupport'
  <2>1. ASSUME NEW e \in ToSet(persisted') PROVE Fits(e)
    <3>1. PICK n \in 1..k : persisted'[n] = e  BY <2>1, <1>5 DEF ToSet
    <3> QED BY <3>1, <1>6 DEF SelInv, PoolInv
  <2>2. ASSUME NEW e \in ToSet(persisted'), e.tier = "extrapolated"
        PROVE  Cardinality({n \in DOMAIN persisted' : persisted'[n].tier # "extrapolated"})
                 < MINIMUM_COMPARABLES
    <3> DEFINE A == {n \in DOMAIN persisted' : persisted'[n].tier # "extrapolated"}
               B == {i \in DOMAIN P : ~Extrapolated(i)}
               f == [n \in A |-> places[n]]
    <3>1. PICK n \in 1..k : persisted'[n] = e  BY <2>2, <1>5 DEF ToSet
    <3>2. Cardinality(B) < MINIMUM_COMPARABLES
      BY <3>1, <2>2, <1>6 DEF SelInv, RegularFirst, Extrapolated
    <3>3. f \in Injection(A, B)
      <4>1. f \in [A -> B]  BY <1>5, <1>6 DEF Extrapolated
      <4>2. ASSUME NEW m \in A, NEW j \in A, f[m] = f[j] PROVE m = j
        BY <4>2, <1>3, <1>5 DEF Selects
      <4> QED BY <4>1, <4>2 DEF Injection, IsInjective
    <3>4. IsFiniteSet(B) /\ Cardinality(B) \in Nat
      <4>1. B \subseteq 1..Len(P) /\ Len(P) \in Nat  BY <1>2
      <4>2. IsFiniteSet(B)  BY <4>1, CountUpTo, FS_Subset
      <4> QED BY <4>2, FS_CardinalityType
    <3> HIDE DEF A, B, f
    <3>5. Cardinality(A) <= Cardinality(B) /\ Cardinality(A) \in Nat
      BY <3>3, <3>4, FS_Injection, FS_CardinalityType
    <3>6. Cardinality(A) < MINIMUM_COMPARABLES  BY <3>2, <3>4, <3>5, SelectionAssumption
    <3> QED BY <3>6 DEF A
  <2> QED BY <1>1, <2>1, <2>2 DEF StoredIsSupport, Fits, Sound, Supports
<1>15. StoredAtEnd'  BY <1>1, <1>4, <1>11, <1>12, <1>13, <1>14 DEF StoredAtEnd
<1> QED BY <1>7, <1>8, <1>9, <1>10, <1>15 DEF SelInv

\* Every step keeps the invariant.
LEMMA SelInvNext == SelInv /\ [SelNext]_selVars => SelInv'
<1> SUFFICES ASSUME SelInv, [SelNext]_selVars PROVE SelInv'  OBVIOUS
<1>0. roundsRun \in 0..MAX_ROUNDS /\ MAX_ROUNDS \in Nat \ {0}
  BY SelectionAssumption DEF SelInv, SelTyped
<1>1. CASE RunRound
  <2>1. /\ step = "search" /\ roundsRun < MAX_ROUNDS /\ roundsRun' = roundsRun + 1
        /\ Search({s \in Sales : SameFamily(s)}, roundsRun + 1, FALSE)
        /\ UNCHANGED << kind, dealing, step, persisted >>
    BY <1>1 DEF RunRound
  <2>2. roundsRun + 1 \in Nat /\ roundsRun + 1 <= MAX_ROUNDS /\ roundsRun' \in 0..MAX_ROUNDS
    BY <1>0, <2>1
  <2>3. {s \in Sales : SameFamily(s)} \subseteq Sales  OBVIOUS
  <2> QED BY <2>1, <2>2, <2>3, SearchKeeps
<1>2. CASE ZoningLastResort
  <2>1. /\ RoundsOver /\ Insufficient /\ Search(Sales, MAX_ROUNDS, TRUE) /\ step' = "ranked"
        /\ UNCHANGED << kind, dealing, roundsRun, persisted >>
    BY <1>2 DEF ZoningLastResort
  <2>2. roundsRun = MAX_ROUNDS /\ step = "search"  BY <2>1, ShortAfterAllRounds
  <2>3. MAX_ROUNDS \in Nat /\ MAX_ROUNDS <= MAX_ROUNDS  BY <1>0
  <2> QED BY <1>0, <2>1, <2>2, <2>3, SearchKeeps
<1>3. CASE RankedLastResort  BY <1>3, RankingKeeps
<1>4. CASE PersistComparables  BY <1>4, StoringKeeps
<1>5. CASE AbortGeneration \/ UNCHANGED selVars
  <2>1. /\ step' \in {"aborted", step} /\ (step' # step => step \in {"search", "ranked", "persist"})
        /\ UNCHANGED << kind, roundsRun, seenPoolIds, resolvedIds, accumulatedPool,
                        allConsideredPool, persisted, doubled >>
    BY <1>5 DEF AbortGeneration, selVars
  <2>2. SelTyped'  BY <2>1 DEF SelInv, SelTyped
  <2>3. PoolInv'  BY <2>1 DEF SelInv, PoolInv, Fits, Sound, Supports, HasRung
  <2>4. RegularFirst'  BY <2>1 DEF SelInv, RegularFirst, Extrapolated
  <2>5. PICK pool : pool = accumulatedPool  OBVIOUS
  <2>6. Selected' = Selected  BY <2>1, <2>5, SelectionKept DEF Selected
  <2>7. NothingLeft'  BY <2>1, <2>6 DEF SelInv, NothingLeft, Insufficient, Sound, Supports
  <2>8. \A e : Rank(e)' = Rank(e)  BY <2>1, RankKept
  <2>9. EachSaleOnce' /\ ShortOnlyWhenExhausted' /\ StoredIsSupport'
    BY <2>1 DEF SelInv, StoredAtEnd, EachSaleOnce, ShortOnlyWhenExhausted, StoredIsSupport,
                Sound, Supports
  <2>10. BestStored'  BY <2>1, <2>8 DEF SelInv, StoredAtEnd, BestStored
  <2>11. StoredAtEnd'  BY <2>1, <2>9, <2>10 DEF SelInv, StoredAtEnd
  <2> QED BY <2>2, <2>3, <2>4, <2>7, <2>11 DEF SelInv
<1> QED BY <1>1, <1>2, <1>3, <1>4, <1>5 DEF SelNext

\* The invariant holds throughout every generation.
THEOREM SelectionInvariant == SelSpec => []SelInv
<1>1. SelInit => SelInv  BY SelInvInit
<1>2. SelInv /\ [SelNext]_selVars => SelInv'  BY SelInvNext
<1> QED BY <1>1, <1>2, PTL DEF SelSpec

\* No sale is stored twice, but for one an answer of the model named twice.
THEOREM SalesStoredOnce == SelSpec => []EachSaleOnce
<1>1. SelInv => EachSaleOnce  BY DEF SelInv, StoredAtEnd
<1> QED BY <1>1, SelectionInvariant, PTL

\* A case ends below the minimum only when nothing is left to try.
THEOREM ShortfallMeansExhausted == SelSpec => []ShortOnlyWhenExhausted
<1>1. SelInv => ShortOnlyWhenExhausted  BY DEF SelInv, StoredAtEnd
<1> QED BY <1>1, SelectionInvariant, PTL

\* Nothing is stored while something of a better rung is left out.
THEOREM BestAreStored == SelSpec => []BestStored
<1>1. SelInv => BestStored  BY DEF SelInv, StoredAtEnd
<1> QED BY <1>1, SelectionInvariant, PTL

\* Whatever is stored passed the gates on its own values, and what is beyond
\* the tolerances stands only beside fewer than the minimum that are within.
THEOREM StoredSalesSupport == SelSpec => []StoredIsSupport
<1>1. SelInv => StoredIsSupport  BY DEF SelInv, StoredAtEnd
<1> QED BY <1>1, SelectionInvariant, PTL

-----------------------------------------------------------------------------
(* The candidates *)

\* A row the queries returned.
ReturnedRow(r) ==
  /\ r.tier \in Tiers /\ r.vacant \in BOOLEAN /\ r.whole \in BOOLEAN /\ r.area \in Nat

\* They come as a list.
RowsReturned ==
  /\ DOMAIN returned = 1..Len(returned) /\ Len(returned) \in Nat
  /\ \A n \in DOMAIN returned : ReturnedRow(returned[n])

\* Every row has a place, that of the first of its dealing.
LEMMA PlaceTyped ==
  ASSUME RowsReturned, NEW n \in DOMAIN returned
  PROVE  PlaceOf(n) \in Nat
<1> DEFINE D == OfOneDealing(n)
<1>1. D \subseteq Nat /\ n \in D  BY DEF OfOneDealing, RowsReturned
<1> HIDE DEF D
<1>2. PICK k \in D : \A m \in D : k <= m  BY <1>1, LeastNumber
<1>3. Min(D) \in D  BY <1>2 DEF Min
<1> QED BY <1>1, <1>3 DEF PlaceOf, D

\* The round robin lists every row once.
LEMMA RoundRobinLists ==
  ASSUME RowsReturned, NEW rows, rows \subseteq DOMAIN returned
  PROVE  /\ IsFiniteSet(rows) /\ Cardinality(rows) \in Nat
         /\ RoundRobin(rows) \in [1..Cardinality(rows) -> rows]
         /\ \A i, j \in 1..Cardinality(rows) :
              RoundRobin(rows)[i] = RoundRobin(rows)[j] => i = j
<1> DEFINE OfBucket(n) == {m \in rows : returned[m].bucket = returned[n].bucket}
           Turn(n) == Cardinality({m \in OfBucket(n) : PlaceOf(m) <= PlaceOf(n)})
           Opens(n) == Min({PlaceOf(m) : m \in OfBucket(n)})
           key == [n \in rows |-> Turn(n) * (Len(returned) + 1) + Opens(n)]
<1>1. IsFiniteSet(rows) /\ rows \subseteq Nat
  <2>1. IsFiniteSet(DOMAIN returned)  BY CountUpTo DEF RowsReturned
  <2> QED BY <2>1, FS_Subset DEF RowsReturned
<1>2. ASSUME NEW n \in rows PROVE Turn(n) \in Nat /\ Opens(n) \in Nat
  <2>1. IsFiniteSet({m \in OfBucket(n) : PlaceOf(m) <= PlaceOf(n)})
    BY <1>1, FS_Subset
  <2>2. Turn(n) \in Nat  BY <2>1, FS_CardinalityType
  <2> DEFINE P == {PlaceOf(m) : m \in OfBucket(n)}
  <2>3. P \subseteq Nat /\ P # {}  BY PlaceTyped
  <2> HIDE DEF P
  <2>4. PICK k \in P : \A m \in P : k <= m  BY <2>3, LeastNumber
  <2>5. Min(P) \in P  BY <2>4 DEF Min
  <2>6. Opens(n) \in Nat  BY <2>3, <2>5 DEF P
  <2> QED BY <2>2, <2>6
<1>3. RoundRobin(rows) = ByKey(rows, key)  BY DEF RoundRobin
<1> HIDE DEF Turn, Opens
<1>4. \A n \in rows : key[n] \in Int
  <2> TAKE n \in rows
  <2>1. Len(returned) + 1 \in Nat  BY DEF RowsReturned
  <2>2. \A a, b \in Nat : a * b \in Nat  OBVIOUS
  <2>3. Turn(n) * (Len(returned) + 1) \in Nat  BY <1>2, <2>1, <2>2
  <2> QED BY <1>2, <2>3
<1> HIDE DEF key
<1> QED BY <1>1, <1>3, <1>4, ByKeyLists

\* Least is one of the two and exceeds neither.
LEMMA LeastOf ==
  ASSUME NEW m \in Int, NEW n \in Int
  PROVE  Least(m, n) \in {m, n} /\ Least(m, n) <= m /\ Least(m, n) <= n
BY DEF Least

\* selectTimeDiverseSubset takes as many rows as there are, up to the cap.
LEMMA DiverseSubset ==
  ASSUME RowsReturned, NEW rows, rows \subseteq DOMAIN returned, NEW cap \in Nat
  PROVE  /\ SelectTimeDiverseSubset(rows, cap) \subseteq rows
         /\ Cardinality(rows) \in Nat
         /\ Cardinality(SelectTimeDiverseSubset(rows, cap)) = Least(Cardinality(rows), cap)
<1> DEFINE l == RoundRobin(rows)
           size == Cardinality(rows)
           T == {l[n] : n \in 1..cap}
<1>1. /\ IsFiniteSet(rows) /\ size \in Nat
      /\ l \in [1..size -> rows]
      /\ \A i, j \in 1..size : l[i] = l[j] => i = j
  BY RoundRobinLists
<1> HIDE DEF l, size
<1>2. CASE size <= cap
  BY <1>1, <1>2 DEF SelectTimeDiverseSubset, Least, size
<1>3. CASE ~(size <= cap)
  <2>1. SelectTimeDiverseSubset(rows, cap) = T  BY <1>3 DEF SelectTimeDiverseSubset, l, size
  <2>2. \A n \in 1..cap : n \in 1..size  BY <1>1, <1>3
  <2>3. T \subseteq rows  BY <1>1, <2>2
  <2> DEFINE f == [n \in 1..cap |-> l[n]]
  <2>4. f \in Bijection(1..cap, T)
    <3>1. f \in [1..cap -> T]  OBVIOUS
    <3>2. \A i, j \in 1..cap : f[i] = f[j] => i = j  BY <1>1, <2>2
    <3>3. \A t \in T : \E n \in 1..cap : f[n] = t  OBVIOUS
    <3> QED BY <3>1, <3>2, <3>3 DEF Bijection, Injection, IsInjective, Surjection
  <2> HIDE DEF T, f
  <2>5. IsFiniteSet(1..cap) /\ Cardinality(1..cap) = cap  BY CountUpTo
  <2>6. Cardinality(T) = cap  BY <2>4, <2>5, FS_Bijection DEF ExistsBijection
  <2>7. Least(size, cap) = cap  BY <1>1, <1>3 DEF Least
  <2> QED BY <1>1, <2>1, <2>3, <2>6, <2>7 DEF size
<1> QED BY <1>2, <1>3

\* With a reserve it takes as many, and of the vacant as many as are reserved.
LEMMA FloorSubset ==
  ASSUME RowsReturned, NEW rows, rows \subseteq DOMAIN returned,
         NEW target \in Nat, NEW vacantFloor \in Nat, vacantFloor <= target
  PROVE  LET taken == SelectWithVacantFloor(rows, target, vacantFloor) IN
         /\ taken \subseteq rows
         /\ Cardinality(taken) = Least(Cardinality(rows), target)
         /\ Cardinality(Vacant(taken)) >= Least(vacantFloor, Cardinality(Vacant(rows)))
<1> DEFINE taken == SelectWithVacantFloor(rows, target, vacantFloor)
           V == Vacant(rows)
           R == SelectTimeDiverseSubset(V, Least(vacantFloor, target))
           Q == rows \ R
           E == SelectTimeDiverseSubset(Q, target - Cardinality(R))
<1>1. Least(vacantFloor, target) = vacantFloor  BY DEF Least
<1>2. V \subseteq rows /\ V \subseteq DOMAIN returned  BY DEF Vacant
<1>3. taken = IF Cardinality(rows) <= target THEN rows ELSE R \cup E
  BY DEF SelectWithVacantFloor
<1> HIDE DEF taken, R, V
<1>4. R \subseteq V /\ Cardinality(V) \in Nat /\ Cardinality(R) = Least(Cardinality(V), vacantFloor)
  BY <1>1, <1>2, DiverseSubset DEF R
<1>5. IsFiniteSet(rows) /\ Cardinality(rows) \in Nat  BY RoundRobinLists
<1>6. CASE Cardinality(rows) <= target
  <2>1. taken = rows  BY <1>3, <1>6
  <2>2. Cardinality(Vacant(taken)) = Cardinality(V)  BY <2>1 DEF V
  <2> QED BY <1>4, <1>5, <1>6, <2>1, <2>2 DEF Least, taken, V
<1>7. CASE ~(Cardinality(rows) <= target)
  <2>1. taken = R \cup E  BY <1>3, <1>7
  <2>2. IsFiniteSet(R) /\ Cardinality(R) \in Nat /\ Cardinality(R) <= target
    <3>1. IsFiniteSet(R)  BY <1>2, <1>4, <1>5, FS_Subset
    <3> QED BY <1>4, <3>1 DEF Least
  <2>3. Cardinality(Q) = Cardinality(rows) - Cardinality(R) /\ IsFiniteSet(Q)
    <3>1. rows \cap R = R  BY <1>2, <1>4
    <3>2. R \subseteq rows  BY <1>2, <1>4
    <3> QED BY <1>5, <2>2, <3>1, <3>2, FS_Difference
  <2>4. E \subseteq Q /\ Cardinality(E) = Least(Cardinality(Q), target - Cardinality(R))
    <3>1. Q \subseteq DOMAIN returned /\ target - Cardinality(R) \in Nat  BY <2>2
    <3> HIDE DEF Q
    <3> QED BY <3>1, DiverseSubset
  <2> HIDE DEF E
  <2>5. Cardinality(E) = target - Cardinality(R)  BY <1>5, <1>7, <2>2, <2>3, <2>4 DEF Least
  <2>6. IsFiniteSet(E) /\ E \cap R = {}  BY <2>3, <2>4, FS_Subset
  <2>7. Cardinality(taken) = target
    <3>1. Cardinality(R \cap E) = 0
      <4>1. R \cap E = {}  BY <2>6
      <4> QED BY <4>1, FS_EmptySet
    <3>2. Cardinality(R \cup E) = Cardinality(R) + Cardinality(E) - Cardinality(R \cap E)
      BY <2>2, <2>6, FS_Union
    <3> QED BY <2>1, <2>2, <2>5, <3>1, <3>2
  <2>8. taken \subseteq rows  BY <1>2, <1>4, <2>1, <2>4
  <2>9. R \subseteq Vacant(taken)
    <3>1. \A n \in R : n \in taken /\ returned[n].vacant  BY <1>4, <2>1 DEF V, Vacant
    <3> QED BY <3>1 DEF Vacant
  <2>10. IsFiniteSet(Vacant(taken))
    <3>1. Vacant(taken) \subseteq rows  BY <2>8 DEF Vacant
    <3> QED BY <1>5, <3>1, FS_Subset
  <2>11. Cardinality(Vacant(taken)) >= Cardinality(R) /\ Cardinality(Vacant(taken)) \in Nat
    BY <2>2, <2>9, <2>10, FS_Subset, FS_CardinalityType
  <2>12. Cardinality(Vacant(taken)) >= Least(vacantFloor, Cardinality(V))
    BY <1>4, <2>11 DEF Least
  <2>13. Least(Cardinality(rows), target) = target  BY <1>5, <1>7 DEF Least
  <2> QED BY <2>7, <2>8, <2>12, <2>13 DEF taken, V
<1> QED BY <1>6, <1>7

\* The rows each tier has to give.
LEMMA TiersDisjoint ==
  ASSUME RowsReturned
  PROVE  \A t \in Tiers :
           /\ TierRows(t) \subseteq DOMAIN returned
           /\ IsFiniteSet(TierRows(t)) /\ Cardinality(TierRows(t)) \in Nat
           /\ \A n \in TierRows(t) : returned[n].tier = t
<1> TAKE t \in Tiers
<1>1. TierRows(t) \subseteq DOMAIN returned  BY DEF TierRows, DedupeByDealingNumber
<1>2. IsFiniteSet(TierRows(t)) /\ Cardinality(TierRows(t)) \in Nat  BY <1>1, RoundRobinLists
<1> QED BY <1>1, <1>2 DEF TierRows

\* What a tier gives is its floor and, of the rest, as many rows as are left.
TierShare(t, floor, extra, left) ==
  /\ floor \subseteq TierRows(t)
  /\ Cardinality(floor) = Least(Cardinality(TierRows(t)), Floors[t])
  /\ Cardinality(Vacant(floor)) >= Least(VacantFloors[t], Cardinality(Vacant(TierRows(t))))
  /\ extra \subseteq TierRows(t) \ floor
  /\ Cardinality(extra) = Least(Cardinality(TierRows(t)) - Cardinality(floor), left)

\* Floor and extra are counted apart; an extra that takes all that is left
\* makes the share the whole tier.
LEMMA ShareCounts ==
  ASSUME RowsReturned, NEW t \in Tiers, NEW floor, NEW extra, NEW left \in Nat,
         TierShare(t, floor, extra, left)
  PROVE  /\ Cardinality(floor) \in Nat /\ Cardinality(extra) \in Nat
         /\ IsFiniteSet(floor \cup extra)
         /\ Cardinality(floor \cup extra) = Cardinality(floor) + Cardinality(extra)
         /\ Cardinality(extra) = Cardinality(TierRows(t)) - Cardinality(floor)
              => floor \cup extra = TierRows(t)
         /\ Cardinality(Vacant(floor \cup extra))
              >= Least(VacantFloors[t], Cardinality(Vacant(TierRows(t))))
<1> DEFINE S == TierRows(t)
           T == floor \cup extra
<1>1. S \subseteq DOMAIN returned /\ IsFiniteSet(S) /\ Cardinality(S) \in Nat  BY TiersDisjoint
<1>2. floor \subseteq S /\ extra \subseteq S /\ T \subseteq S /\ floor \cap extra = {}
  BY DEF TierShare
<1> HIDE DEF S
<1>3. IsFiniteSet(floor) /\ IsFiniteSet(extra) /\ IsFiniteSet(T)
  BY <1>1, <1>2, FS_Subset
<1>4. Cardinality(floor) \in Nat /\ Cardinality(extra) \in Nat  BY <1>3, FS_CardinalityType
<1>5. Cardinality(T) = Cardinality(floor) + Cardinality(extra)
  <2>1. Cardinality(floor \cap extra) = 0  BY <1>2, FS_EmptySet
  <2> QED BY <1>3, <1>4, <2>1, FS_Union
<1>6. Cardinality(extra) = Cardinality(S) - Cardinality(floor) => T = S
  <2> SUFFICES ASSUME Cardinality(extra) = Cardinality(S) - Cardinality(floor) PROVE T = S
    OBVIOUS
  <2>1. Cardinality(T) = Cardinality(S)  BY <1>1, <1>4, <1>5
  <2> HIDE DEF T
  <2> QED BY <1>1, <1>2, <2>1, FS_Subset
<1>7. Cardinality(Vacant(T)) >= Cardinality(Vacant(floor))
      /\ Cardinality(Vacant(T)) \in Nat /\ Cardinality(Vacant(floor)) \in Nat
  <2>1. Vacant(floor) \subseteq Vacant(T) /\ Vacant(T) \subseteq T  BY DEF Vacant
  <2>2. IsFiniteSet(Vacant(T)) /\ IsFiniteSet(Vacant(floor))  BY <1>3, <2>1, FS_Subset
  <2> QED BY <2>1, <2>2, FS_Subset, FS_CardinalityType
<1>8. Least(VacantFloors[t], Cardinality(Vacant(S))) \in Int
  <2>1. Vacant(S) \subseteq S  BY DEF Vacant
  <2>2. Cardinality(Vacant(S)) \in Nat  BY <1>1, <2>1, FS_Subset, FS_CardinalityType
  <2>3. VacantFloors[t] \in Nat  BY TiersAssumption
  <2> QED BY <2>2, <2>3, LeastOf
<1>9. Cardinality(Vacant(T)) >= Least(VacantFloors[t], Cardinality(Vacant(S)))
  <2>1. Cardinality(Vacant(floor)) >= Least(VacantFloors[t], Cardinality(Vacant(S)))
    BY DEF TierShare, S
  <2> QED BY <1>7, <1>8, <2>1
<1> QED BY <1>3, <1>4, <1>5, <1>6, <1>9 DEF S, T

\* The three tiers' shares, each taking its extra from what those before left.
Shares(floor, extra) ==
  LET left1 == MAX_CANDIDATE_SALES
        - (Cardinality(floor[1]) + Cardinality(floor[2]) + Cardinality(floor[3]))
      left2 == left1 - Cardinality(extra[1])
      left3 == left2 - Cardinality(extra[2]) IN
  /\ left1 \in Nat /\ left2 \in Nat /\ left3 \in Nat
  /\ TierShare(1, floor[1], extra[1], left1)
  /\ TierShare(2, floor[2], extra[2], left2)
  /\ TierShare(3, floor[3], extra[3], left3)

\* assembleTieredCandidates gives every tier its share.
LEMMA AssemblyShares ==
  ASSUME RowsReturned
  PROVE  \E floor, extra :
           /\ Shares(floor, extra)
           /\ AssembleTieredCandidates =
                floor[1] \cup extra[1] \cup floor[2] \cup extra[2] \cup floor[3] \cup extra[3]
<1> DEFINE floor == [t \in Tiers |->
                       SelectWithVacantFloor(TierRows(t), Floors[t], VacantFloors[t])]
           Extra(t, leftover) == SelectTimeDiverseSubset(TierRows(t) \ floor[t], leftover)
           left1 == MAX_CANDIDATE_SALES
             - (Cardinality(floor[1]) + Cardinality(floor[2]) + Cardinality(floor[3]))
           extra1 == Extra(1, left1)
           left2 == left1 - Cardinality(extra1)
           extra2 == Extra(2, left2)
           left3 == left2 - Cardinality(extra2)
           extra3 == Extra(3, left3)
<1>1. AssembleTieredCandidates =
        floor[1] \cup extra1 \cup floor[2] \cup extra2 \cup floor[3] \cup extra3
  BY DEF AssembleTieredCandidates
<1>2. ASSUME NEW t \in Tiers
      PROVE  /\ floor[t] \subseteq TierRows(t)
             /\ Cardinality(floor[t]) = Least(Cardinality(TierRows(t)), Floors[t])
             /\ Cardinality(Vacant(floor[t]))
                  >= Least(VacantFloors[t], Cardinality(Vacant(TierRows(t))))
  <2>1. TierRows(t) \subseteq DOMAIN returned  BY TiersDisjoint
  <2>2. Floors[t] \in Nat /\ VacantFloors[t] \in Nat /\ VacantFloors[t] <= Floors[t]
    BY TiersAssumption
  <2>3. floor[t] = SelectWithVacantFloor(TierRows(t), Floors[t], VacantFloors[t])  OBVIOUS
  <2> HIDE DEF floor
  <2> QED BY <2>1, <2>2, <2>3, FloorSubset
<1> HIDE DEF floor
<1>3. ASSUME NEW t \in Tiers, NEW left \in Nat
      PROVE  TierShare(t, floor[t], Extra(t, left), left) /\ Cardinality(Extra(t, left)) \in 0..left
  <2> DEFINE rest == TierRows(t) \ floor[t]
  <2>1. IsFiniteSet(TierRows(t)) /\ Cardinality(TierRows(t)) \in Nat /\ rest \subseteq DOMAIN returned
    BY TiersDisjoint
  <2>2. TierRows(t) \cap floor[t] = floor[t]  BY <1>2
  <2>3. Cardinality(rest) = Cardinality(TierRows(t)) - Cardinality(floor[t])
    BY <2>1, <2>2, FS_Difference
  <2> HIDE DEF rest
  <2>4. SelectTimeDiverseSubset(rest, left) \subseteq rest /\ Cardinality(rest) \in Nat
        /\ Cardinality(SelectTimeDiverseSubset(rest, left)) = Least(Cardinality(rest), left)
    BY <2>1, DiverseSubset
  <2>5. Extra(t, left) = SelectTimeDiverseSubset(rest, left)  BY DEF rest
  <2> HIDE DEF Extra
  <2>6. Extra(t, left) \subseteq TierRows(t) \ floor[t]  BY <2>4, <2>5 DEF rest
  <2>7. Cardinality(Extra(t, left)) = Least(Cardinality(TierRows(t)) - Cardinality(floor[t]), left)
    BY <2>3, <2>4, <2>5
  <2>8. Cardinality(Extra(t, left)) \in 0..left  BY <2>4, <2>5 DEF Least
  <2> QED BY <1>2, <2>6, <2>7, <2>8 DEF TierShare
<1> HIDE DEF Extra
<1>4. left1 \in Nat
  <2>1. \A t \in Tiers : Cardinality(floor[t]) \in Nat /\ Cardinality(floor[t]) <= Floors[t]
    <3> TAKE t \in Tiers
    <3>1. Floors[t] \in Nat /\ Cardinality(TierRows(t)) \in Nat  BY TiersAssumption, TiersDisjoint
    <3> QED BY <3>1, <1>2 DEF Least
  <2>2. 1 \in Tiers /\ 2 \in Tiers /\ 3 \in Tiers  BY DEF Tiers
  <2>3. /\ Cardinality(floor[1]) \in Nat /\ Cardinality(floor[1]) <= Floors[1]
        /\ Cardinality(floor[2]) \in Nat /\ Cardinality(floor[2]) <= Floors[2]
        /\ Cardinality(floor[3]) \in Nat /\ Cardinality(floor[3]) <= Floors[3]
    BY <2>1, <2>2
  <2>4. /\ Floors[1] \in Nat /\ Floors[2] \in Nat /\ Floors[3] \in Nat /\ MAX_CANDIDATE_SALES \in Nat
        /\ Floors[1] + Floors[2] + Floors[3] <= MAX_CANDIDATE_SALES
    BY <2>2, TiersAssumption
  <2> QED BY <2>3, <2>4
<1>5. 1 \in Tiers /\ 2 \in Tiers /\ 3 \in Tiers  BY DEF Tiers
<1> HIDE DEF left1
<1>6. TierShare(1, floor[1], extra1, left1) /\ Cardinality(extra1) \in 0..left1  BY <1>3, <1>4, <1>5
<1>7. left2 \in Nat  BY <1>4, <1>6
<1> HIDE DEF extra1, left2
<1>8. TierShare(2, floor[2], extra2, left2) /\ Cardinality(extra2) \in 0..left2  BY <1>3, <1>5, <1>7
<1>9. left3 \in Nat  BY <1>7, <1>8
<1> HIDE DEF extra2, left3
<1>10. TierShare(3, floor[3], extra3, left3)  BY <1>3, <1>5, <1>9
<1> HIDE DEF extra3
<1> DEFINE extra == << extra1, extra2, extra3 >>
<1>11. extra[1] = extra1 /\ extra[2] = extra2 /\ extra[3] = extra3  OBVIOUS
<1> HIDE DEF extra
<1>12. Shares(floor, extra)
  BY <1>4, <1>6, <1>7, <1>8, <1>9, <1>10, <1>11 DEF Shares, left1, left2, left3
<1> QED BY <1>1, <1>11, <1>12

\* Of each dealing one row stays.
LEMMA OneOfDealing ==
  ASSUME RowsReturned, NEW m \in DedupeByDealingNumber, NEW n \in DedupeByDealingNumber,
         returned[m].dealing = returned[n].dealing
  PROVE  m = n
<1> SUFFICES ASSUME m # n PROVE FALSE  OBVIOUS
<1>1. m \in DOMAIN returned /\ n \in DOMAIN returned  BY DEF DedupeByDealingNumber
<1>2. m \in OfOneDealing(n) \ {n} /\ n \in OfOneDealing(m) \ {m}  BY <1>1 DEF OfOneDealing
<1>3. \/ Better(returned[n], returned[m])
      \/ n < m /\ ~Better(returned[m], returned[n])
  BY <1>2 DEF DedupeByDealingNumber
<1>4. \/ Better(returned[m], returned[n])
      \/ m < n /\ ~Better(returned[n], returned[m])
  BY <1>2 DEF DedupeByDealingNumber
<1>5. ~(Better(returned[n], returned[m]) /\ Better(returned[m], returned[n]))
  <2>1. ReturnedRow(returned[m]) /\ ReturnedRow(returned[n])  BY <1>1 DEF RowsReturned
  <2>2. ~(returned[n].area > returned[m].area /\ returned[m].area > returned[n].area)
    BY <2>1 DEF ReturnedRow
  <2> QED BY <2>2 DEF Better
<1>6. m \in Nat /\ n \in Nat  BY <1>1 DEF RowsReturned
<1> QED BY <1>3, <1>4, <1>5, <1>6

\* The candidates are not known yet, or they are what the rows give.
TiersInv ==
  /\ RowsReturned
  /\ prefetched \in BOOLEAN
  /\ candidates = IF prefetched THEN AssembleTieredCandidates ELSE {}

\* Nothing is taken at the start.
LEMMA TiersInvInit == TiersInit => TiersInv
<1> SUFFICES ASSUME TiersInit PROVE TiersInv  OBVIOUS
<1>1. PICK one \in 0..Supply[1], two \in 0..Supply[2], three \in 0..Supply[3] :
        LET Places == 1..(one + two + three)
            TierAt(n) == IF n <= one THEN 1 ELSE IF n <= one + two THEN 2 ELSE 3
            Later(S) == {n \in S : \E m \in S : m < n} IN
        \E bucket \in [Places -> Buckets], vacant \in SUBSET Places,
           twins \in {{}} \cup kSubset(2, Places) :
        \E part \in SUBSET (IF Interests THEN twins ELSE {}),
           large \in {{}} \cup {{n} : n \in Later(twins)} :
          returned = [n \in Places |->
            [tier |-> TierAt(n), bucket |-> bucket[n], vacant |-> n \in vacant,
             dealing |-> IF n \in twins THEN Min(twins) ELSE n,
             whole |-> n \notin part, area |-> IF n \in large THEN 2 ELSE 1]]
  BY DEF TiersInit
<1> DEFINE Places == 1..(one + two + three)
           TierAt(n) == IF n <= one THEN 1 ELSE IF n <= one + two THEN 2 ELSE 3
<1> DEFINE Later(S) == {n \in S : \E m \in S : m < n}
<1>2a. PICK bucket \in [Places -> Buckets], vacant \in SUBSET Places,
             twins \in {{}} \cup kSubset(2, Places) :
        \E part \in SUBSET (IF Interests THEN twins ELSE {}),
           large \in {{}} \cup {{n} : n \in Later(twins)} :
          returned = [n \in Places |->
            [tier |-> TierAt(n), bucket |-> bucket[n], vacant |-> n \in vacant,
             dealing |-> IF n \in twins THEN Min(twins) ELSE n,
             whole |-> n \notin part, area |-> IF n \in large THEN 2 ELSE 1]]
  BY <1>1
<1>2. PICK part \in SUBSET (IF Interests THEN twins ELSE {}),
           large \in {{}} \cup {{n} : n \in Later(twins)} :
        returned = [n \in Places |->
          [tier |-> TierAt(n), bucket |-> bucket[n], vacant |-> n \in vacant,
           dealing |-> IF n \in twins THEN Min(twins) ELSE n,
           whole |-> n \notin part, area |-> IF n \in large THEN 2 ELSE 1]]
  BY <1>2a
<1>3. one + two + three \in Nat
  <2>1. Supply[1] \in Nat /\ Supply[2] \in Nat /\ Supply[3] \in Nat
    BY TiersAssumption DEF Tiers
  <2> QED BY <2>1
<1>4. DOMAIN returned = Places /\ Len(returned) = one + two + three
  <2>1. DOMAIN returned = Places  BY <1>2
  <2> QED BY <1>3, <2>1
<1>5. ASSUME NEW n \in Places PROVE ReturnedRow(returned[n])
  <2>1. /\ returned[n].tier = TierAt(n) /\ returned[n].vacant = (n \in vacant)
        /\ returned[n].whole = (n \notin part)
        /\ returned[n].area = IF n \in large THEN 2 ELSE 1
    BY <1>2
  <2>2. TierAt(n) \in Tiers  BY DEF Tiers
  <2> QED BY <2>1, <2>2 DEF ReturnedRow
<1>6. RowsReturned  BY <1>3, <1>4, <1>5 DEF RowsReturned
<1> QED BY <1>6 DEF TiersInv, TiersInit

\* The rows never change, so neither does what is taken of them.
LEMMA TiersInvNext == TiersInv /\ [PrefetchCandidateSales]_tierVars => TiersInv'
<1> SUFFICES ASSUME TiersInv, [PrefetchCandidateSales]_tierVars PROVE TiersInv'  OBVIOUS
<1>1. returned' = returned  BY DEF PrefetchCandidateSales, tierVars
<1>2. RowsReturned'  BY <1>1 DEF TiersInv, RowsReturned
<1>3. AssembleTieredCandidates' = AssembleTieredCandidates
  <2>1. \A t : TierRows(t)' = TierRows(t)
    BY <1>1 DEF TierRows, DedupeByDealingNumber, OfOneDealing
  <2>2. \A S : Vacant(S)' = Vacant(S)  BY <1>1 DEF Vacant
  <2>3. \A n : PlaceOf(n)' = PlaceOf(n)  BY <1>1 DEF PlaceOf, OfOneDealing
  <2>4. \A S : RoundRobin(S)' = RoundRobin(S)  BY <1>1, <2>3 DEF RoundRobin
  <2>5. \A S, cap : SelectTimeDiverseSubset(S, cap)' = SelectTimeDiverseSubset(S, cap)
    BY <2>4 DEF SelectTimeDiverseSubset
  <2>6. \A S, target, floor : SelectWithVacantFloor(S, target, floor)' = SelectWithVacantFloor(S, target, floor)
    BY <2>2, <2>5 DEF SelectWithVacantFloor
  <2> QED BY <2>1, <2>5, <2>6 DEF AssembleTieredCandidates
<1>4. CASE PrefetchCandidateSales  BY <1>2, <1>3, <1>4 DEF PrefetchCandidateSales, TiersInv
<1>5. CASE UNCHANGED tierVars  BY <1>2, <1>3, <1>5 DEF tierVars, TiersInv
<1> QED BY <1>4, <1>5

\* The shares add up to the budget and respect the floors and the order of
\* the tiers.
LEMMA TiersShareBudget == TiersInv => BudgetShared
<1> SUFFICES ASSUME TiersInv, prefetched PROVE BudgetShared  BY DEF BudgetShared
<1>1. RowsReturned /\ candidates = AssembleTieredCandidates  BY DEF TiersInv
<1>2. PICK floor, extra :
        /\ Shares(floor, extra)
        /\ AssembleTieredCandidates =
             floor[1] \cup extra[1] \cup floor[2] \cup extra[2] \cup floor[3] \cup extra[3]
  BY <1>1, AssemblyShares
<1> DEFINE left1 == MAX_CANDIDATE_SALES
             - (Cardinality(floor[1]) + Cardinality(floor[2]) + Cardinality(floor[3]))
           left2 == left1 - Cardinality(extra[1])
           left3 == left2 - Cardinality(extra[2])
           left(t) == IF t = 1 THEN left1 ELSE IF t = 2 THEN left2 ELSE left3
<1>3. /\ left1 \in Nat /\ left2 \in Nat /\ left3 \in Nat
      /\ TierShare(1, floor[1], extra[1], left1)
      /\ TierShare(2, floor[2], extra[2], left2)
      /\ TierShare(3, floor[3], extra[3], left3)
  BY <1>2 DEF Shares
<1>4. \A t \in Tiers : left(t) \in Nat /\ TierShare(t, floor[t], extra[t], left(t))
  <2> HIDE DEF left1, left2, left3
  <2> QED BY <1>3 DEF Tiers
<1>5. 1 \in Tiers /\ 2 \in Tiers /\ 3 \in Tiers /\ \A t \in Tiers : t = 1 \/ t = 2 \/ t = 3
  BY DEF Tiers
<1>6. \A t \in Tiers : floor[t] \subseteq TierRows(t) /\ extra[t] \subseteq TierRows(t)
  BY <1>4 DEF TierShare
<1>7. candidates = floor[1] \cup extra[1] \cup floor[2] \cup extra[2] \cup floor[3] \cup extra[3]
  BY <1>1, <1>2
<1>8. ASSUME NEW t \in Tiers PROVE Picked(t) = floor[t] \cup extra[t]
  <2>1. \A u \in Tiers : \A n \in floor[u] \cup extra[u] : returned[n].tier = u
    BY <1>1, <1>6, TiersDisjoint
  <2>2. \A n \in Picked(t) : n \in floor[t] \cup extra[t]
    BY <1>5, <1>7, <2>1 DEF Picked
  <2>3. \A n \in floor[t] \cup extra[t] : n \in candidates /\ returned[n].tier = t
    BY <1>5, <1>7, <2>1
  <2> QED BY <2>2, <2>3 DEF Picked
<1>9. \A t \in Tiers :
        /\ Cardinality(floor[t]) \in Nat /\ Cardinality(extra[t]) \in Nat
        /\ IsFiniteSet(Picked(t))
        /\ Cardinality(Picked(t)) = Cardinality(floor[t]) + Cardinality(extra[t])
        /\ Cardinality(extra[t]) = Cardinality(TierRows(t)) - Cardinality(floor[t])
             => Picked(t) = TierRows(t)
        /\ Cardinality(Vacant(Picked(t)))
             >= Least(VacantFloors[t], Cardinality(Vacant(TierRows(t))))
  <2> TAKE t \in Tiers
  <2>1. left(t) \in Nat /\ TierShare(t, floor[t], extra[t], left(t))  BY <1>4
  <2> DEFINE F == floor[t]
             X == extra[t]
             l == left(t)
  <2>2. l \in Nat /\ TierShare(t, F, X, l)  BY <2>1
  <2>3. Picked(t) = F \cup X  BY <1>8
  <2> HIDE DEF F, X, l
  <2>4. /\ Cardinality(F) \in Nat /\ Cardinality(X) \in Nat
        /\ IsFiniteSet(F \cup X)
        /\ Cardinality(F \cup X) = Cardinality(F) + Cardinality(X)
        /\ Cardinality(X) = Cardinality(TierRows(t)) - Cardinality(F) => F \cup X = TierRows(t)
        /\ Cardinality(Vacant(F \cup X)) >= Least(VacantFloors[t], Cardinality(Vacant(TierRows(t))))
    BY <1>1, <2>2, ShareCounts
  <2> QED BY <2>3, <2>4 DEF F, X
<1>10. \A t \in Tiers :
         /\ Cardinality(TierRows(t)) \in Nat /\ Floors[t] \in Nat
         /\ Cardinality(floor[t]) = Least(Cardinality(TierRows(t)), Floors[t])
         /\ Cardinality(extra[t]) = Least(Cardinality(TierRows(t)) - Cardinality(floor[t]), left(t))
  BY <1>1, <1>4, TiersAssumption, TiersDisjoint DEF TierShare
<1>11. candidates = Picked(1) \cup Picked(2) \cup Picked(3)  BY <1>5, <1>7, <1>8
<1>12. /\ Picked(1) \cap Picked(2) = {}
       /\ (Picked(1) \cup Picked(2)) \cap Picked(3) = {}
  BY DEF Picked
<1>13. Cardinality(candidates)
         = Cardinality(Picked(1)) + Cardinality(Picked(2)) + Cardinality(Picked(3))
  <2> DEFINE A == Picked(1)
             B == Picked(2)
             C == Picked(3)
  <2>1. IsFiniteSet(A) /\ IsFiniteSet(B) /\ IsFiniteSet(C)  BY <1>5, <1>9
  <2>2. Cardinality(A \cap B) = 0 /\ Cardinality((A \cup B) \cap C) = 0  BY <1>12, FS_EmptySet
  <2>3. candidates = (A \cup B) \cup C  BY <1>11
  <2> HIDE DEF A, B, C
  <2>4. IsFiniteSet(A \cup B) /\ Cardinality(A \cup B) = Cardinality(A) + Cardinality(B) - Cardinality(A \cap B)
    BY <2>1, FS_Union
  <2>5. Cardinality((A \cup B) \cup C)
          = Cardinality(A \cup B) + Cardinality(C) - Cardinality((A \cup B) \cap C)
    BY <2>1, <2>4, FS_Union
  <2>6. Cardinality(A) \in Nat /\ Cardinality(B) \in Nat /\ Cardinality(C) \in Nat
    BY <2>1, FS_CardinalityType
  <2> QED BY <2>2, <2>3, <2>4, <2>5, <2>6 DEF A, B, C
<1> DEFINE n(t) == Cardinality(TierRows(t))
           f(t) == Cardinality(floor[t])
           e(t) == Cardinality(extra[t])
<1>14. \A t \in Tiers : /\ n(t) \in Nat /\ Floors[t] \in Nat /\ f(t) \in Nat /\ e(t) \in Nat
                        /\ f(t) = Least(n(t), Floors[t])
                        /\ e(t) = Least(n(t) - f(t), left(t))
  BY <1>9, <1>10
<1>15. left(1) = MAX_CANDIDATE_SALES - (f(1) + f(2) + f(3)) /\ left(2) = left(1) - e(1)
       /\ left(3) = left(2) - e(2)
  OBVIOUS
<1>16. \A t \in Tiers : left(t) \in Nat  BY <1>4
<1> HIDE DEF n, f, e, left
<1>17. MAX_CANDIDATE_SALES \in Nat  BY TiersAssumption
<1>18. (f(1) + e(1)) + (f(2) + e(2)) + (f(3) + e(3)) = Least(MAX_CANDIDATE_SALES, n(1) + n(2) + n(3))
  <2>1. /\ n(1) \in Nat /\ f(1) \in Nat /\ e(1) \in Nat /\ left(1) \in Nat /\ f(1) <= n(1)
        /\ n(2) \in Nat /\ f(2) \in Nat /\ e(2) \in Nat /\ left(2) \in Nat /\ f(2) <= n(2)
        /\ n(3) \in Nat /\ f(3) \in Nat /\ e(3) \in Nat /\ left(3) \in Nat /\ f(3) <= n(3)
    BY <1>5, <1>14, <1>16 DEF Least
  <2>2. ASSUME NEW t \in Tiers
        PROVE  \/ e(t) = n(t) - f(t) /\ e(t) <= left(t)
               \/ e(t) = left(t) /\ e(t) < n(t) - f(t)
    <3>1. n(t) \in Nat /\ f(t) \in Nat /\ left(t) \in Nat /\ e(t) = Least(n(t) - f(t), left(t))
      BY <1>14, <1>16
    <3> QED BY <3>1 DEF Least
  <2>3. /\ (e(1) = n(1) - f(1) /\ e(1) <= left(1)) \/ (e(1) = left(1) /\ e(1) < n(1) - f(1))
        /\ (e(2) = n(2) - f(2) /\ e(2) <= left(2)) \/ (e(2) = left(2) /\ e(2) < n(2) - f(2))
        /\ (e(3) = n(3) - f(3) /\ e(3) <= left(3)) \/ (e(3) = left(3) /\ e(3) < n(3) - f(3))
    BY <1>5, <2>2
  <2> DEFINE n1 == n(1)  n2 == n(2)  n3 == n(3)
             f1 == f(1)  f2 == f(2)  f3 == f(3)
             e1 == e(1)  e2 == e(2)  e3 == e(3)
             l1 == left(1)  l2 == left(2)  l3 == left(3)
             taken == (f1 + e1) + (f2 + e2) + (f3 + e3)
             all == n1 + n2 + n3
  <2>4. /\ n1 \in Nat /\ f1 \in Nat /\ e1 \in Nat /\ l1 \in Nat /\ f1 <= n1
        /\ n2 \in Nat /\ f2 \in Nat /\ e2 \in Nat /\ l2 \in Nat /\ f2 <= n2
        /\ n3 \in Nat /\ f3 \in Nat /\ e3 \in Nat /\ l3 \in Nat /\ f3 <= n3
        /\ l1 = MAX_CANDIDATE_SALES - (f1 + f2 + f3) /\ l2 = l1 - e1 /\ l3 = l2 - e2
        /\ (e1 = n1 - f1 /\ e1 <= l1) \/ (e1 = l1 /\ e1 < n1 - f1)
        /\ (e2 = n2 - f2 /\ e2 <= l2) \/ (e2 = l2 /\ e2 < n2 - f2)
        /\ (e3 = n3 - f3 /\ e3 <= l3) \/ (e3 = l3 /\ e3 < n3 - f3)
    BY <1>15, <2>1, <2>3
  <2> HIDE DEF n1, n2, n3, f1, f2, f3, e1, e2, e3, l1, l2, l3
  <2>5. /\ taken \in Nat /\ all \in Nat /\ taken <= all /\ taken <= MAX_CANDIDATE_SALES
        /\ taken = all \/ taken = MAX_CANDIDATE_SALES
    BY <1>17, <2>4
  <2> HIDE DEF taken, all
  <2>6. taken = Least(MAX_CANDIDATE_SALES, all)  BY <1>17, <2>5 DEF Least
  <2> QED BY <2>6 DEF taken, all, n1, n2, n3, f1, f2, f3, e1, e2, e3
<1>19. Cardinality(candidates) = Least(MAX_CANDIDATE_SALES, n(1) + n(2) + n(3))
  BY <1>5, <1>9, <1>13, <1>18 DEF f, e
<1>20. \A k, m \in candidates : returned[k].dealing = returned[m].dealing => k = m
  <2>1. candidates \subseteq DedupeByDealingNumber  BY <1>5, <1>6, <1>7 DEF TierRows
  <2> QED BY <1>1, <2>1, OneOfDealing
<1>21. ASSUME NEW t \in Tiers
       PROVE  /\ Cardinality(Picked(t)) >= Least(Floors[t], n(t))
              /\ Cardinality(Picked(t)) > Floors[t] =>
                   \A u \in 1..(t - 1) : TierRows(u) = Picked(u)
  <2>1. Cardinality(Picked(t)) = f(t) + e(t)  BY <1>9 DEF f, e
  <2>2. f(t) + e(t) >= Least(Floors[t], n(t))  BY <1>14 DEF Least
  <2>3. ASSUME f(t) + e(t) > Floors[t], NEW u \in 1..(t - 1) PROVE e(u) = n(u) - f(u)
    <3>1. e(t) > 0 /\ left(t) > 0
      <4>1. n(t) \in Nat /\ Floors[t] \in Nat /\ f(t) = Least(n(t), Floors[t])
            /\ e(t) = Least(n(t) - f(t), left(t)) /\ left(t) \in Nat
        BY <1>14, <1>16
      <4> QED BY <4>1, <2>3 DEF Least
    <3>2. u \in Tiers  BY DEF Tiers
    <3>3. left(u) > e(u)
      <4>1. \A v \in Tiers : left(v) \in Nat /\ e(v) \in Nat  BY <1>14, <1>16
      <4>2. t = 1 \/ t = 2 \/ t = 3  BY <1>5
      <4>3. CASE t = 1  BY <4>3
      <4>4. CASE t = 2
        <5>1. u = 1  BY <4>4
        <5> QED BY <1>5, <1>15, <3>1, <4>1, <4>4, <5>1
      <4>5. CASE t = 3
        <5>1. u = 1 \/ u = 2  BY <4>5
        <5> QED BY <1>5, <1>15, <3>1, <4>1, <4>5, <5>1
      <4> QED BY <4>2, <4>3, <4>4, <4>5
    <3>4. e(u) = Least(n(u) - f(u), left(u)) /\ left(u) \in Nat /\ e(u) \in Nat
      BY <1>14, <1>16, <3>2
    <3> QED BY <3>3, <3>4 DEF Least
  <2>4. ASSUME Cardinality(Picked(t)) > Floors[t], NEW u \in 1..(t - 1)
        PROVE  TierRows(u) = Picked(u)
    <3>1. e(u) = n(u) - f(u)  BY <2>1, <2>3, <2>4
    <3>2. u \in Tiers  BY DEF Tiers
    <3> QED BY <1>9, <3>1, <3>2 DEF e, n, f
  <2> QED BY <2>1, <2>2, <2>4
<1> QED BY <1>9, <1>19, <1>20, <1>21 DEF BudgetShared, n

\* For any supply, any floors and any budget they fit in: the candidates are
\* as many as there can be, one of a dealing, every tier and its vacant land
\* have their floor, and what is over goes to the nearest tiers first.
THEOREM BudgetIsShared == TiersSpec => []BudgetShared
<1>1. TiersSpec => []TiersInv
  BY TiersInvInit, TiersInvNext, PTL DEF TiersSpec
<1> QED BY <1>1, TiersShareBudget, PTL

-----------------------------------------------------------------------------
(* The figure *)

\* The rows with a rate: what the figure is drawn from.
RatedRows(S) ==
  /\ S \subseteq Nat /\ IsFiniteSet(S)
  /\ \A n \in S : Rate(n) \in Nat

\* l lists S by rate.
RateList(S, l) ==
  /\ Cardinality(S) \in Nat
  /\ l \in [1..Cardinality(S) -> S]
  /\ \A i, j \in 1..Cardinality(S) : i <= j => Rate(l[i]) <= Rate(l[j])
  /\ \A i, j \in 1..Cardinality(S) : l[i] = l[j] => i = j
  /\ \A s \in S : \E i \in 1..Cardinality(S) : l[i] = s
  /\ Ascending(S) = [i \in 1..Cardinality(S) |-> Rate(l[i])]
  /\ Ascending(S) \in Seq(Nat) /\ Len(Ascending(S)) = Cardinality(S)

\* The sorted rates are those of such a list.
LEMMA AscendingLists ==
  ASSUME NEW S, RatedRows(S)
  PROVE  \E l : RateList(S, l)
<1> DEFINE key == [n \in S |-> Rate(n)]
           l == ByKey(S, key)
           size == Cardinality(S)
<1>1. \A n \in S : key[n] = Rate(n) /\ key[n] \in Int  BY DEF RatedRows
<1>2. Ascending(S) = [i \in DOMAIN l |-> Rate(l[i])]  BY DEF Ascending
<1> HIDE DEF key
<1>3. /\ size \in Nat /\ l \in [1..size -> S]
      /\ \A m, n \in 1..size : m <= n => key[l[m]] <= key[l[n]]
      /\ \A m, n \in 1..size : l[m] = l[n] => m = n
      /\ \A s \in S : \E n \in 1..size : l[n] = s
  BY <1>1, ByKeyLists DEF RatedRows
<1> HIDE DEF l, size
<1>4. \A i, j \in 1..size : i <= j => Rate(l[i]) <= Rate(l[j])
  <2> SUFFICES ASSUME NEW i \in 1..size, NEW j \in 1..size, i <= j
               PROVE  Rate(l[i]) <= Rate(l[j])
    OBVIOUS
  <2>1. l[i] \in S /\ l[j] \in S  BY <1>3
  <2> QED BY <2>1, <1>1, <1>3
<1>5. DOMAIN l = 1..size  BY <1>3
<1>6. Ascending(S) = [i \in 1..size |-> Rate(l[i])]  BY <1>2, <1>5
<1>7. Ascending(S) \in [1..size -> Nat]
  <2>1. \A i \in 1..size : l[i] \in S /\ Rate(l[i]) \in Nat  BY <1>3 DEF RatedRows
  <2> QED BY <2>1, <1>6
<1>8. Ascending(S) \in Seq(Nat) /\ Len(Ascending(S)) = size  BY <1>3, <1>7
<1>9. RateList(S, l)  BY <1>3, <1>4, <1>6, <1>8 DEF RateList, size
<1> QED BY <1>9

\* A number between the quartiles' neighbours is inside the fences: at most a
\* quarter of a list lies beyond the one or the other.
LEMMA FencesLeaveTheMiddle ==
  ASSUME NEW s \in Seq(Nat), Len(s) # 0,
         \A i, j \in 1..Len(s) : i <= j => s[i] <= s[j]
  PROVE  LET N == Len(s)
             q1 == Percentile(s, 1)
             q3 == Percentile(s, 3)
             out == N \div 4 IN
         /\ q1 \in Int /\ q3 \in Int
         /\ out \in Nat /\ out + 1 <= N - out
         /\ 2 * Scale * s[out + 1] >= 2 * q1 - 3 * (q3 - q1)
         /\ 2 * Scale * s[N - out] <= 2 * q3 + 3 * (q3 - q1)
<1> DEFINE N == Len(s)
           q1 == Percentile(s, 1)
           q3 == Percentile(s, 3)
           out == N \div 4
<1>1. N \in Nat \ {0}  OBVIOUS
<1>2. out \in Nat /\ N = 4 * out + (N % 4) /\ N % 4 \in 0..3  BY <1>1
<1>3. \A i \in 1..N : s[i] \in Nat  OBVIOUS
<1>4. q1 = 4 * s[(N - 1) \div 4 + 1]
             + ((N - 1) % 4) * (s[(N + 2) \div 4 + 1] - s[(N - 1) \div 4 + 1])
  <2>1. 1 * (N - 1) = N - 1 /\ (N - 1) + 3 = N + 2  BY <1>1
  <2> QED BY <2>1 DEF Percentile, Scale
<1>5. q3 = 4 * s[(3 * N - 3) \div 4 + 1]
             + ((3 * N - 3) % 4) * (s[(3 * N) \div 4 + 1] - s[(3 * N - 3) \div 4 + 1])
  <2>1. 3 * (N - 1) = 3 * N - 3 /\ (3 * N - 3) + 3 = 3 * N  BY <1>1
  <2> QED BY <2>1 DEF Percentile, Scale
<1> HIDE DEF q1, q3, out
<1>6. SUFFICES /\ q1 \in Int /\ q3 \in Int /\ out + 1 <= N - out
               /\ 8 * s[out + 1] >= 5 * q1 - 3 * q3
               /\ 8 * s[N - out] <= 5 * q3 - 3 * q1
  <2> SUFFICES ASSUME q1 \in Int, q3 \in Int, out + 1 <= N - out,
                      8 * s[out + 1] >= 5 * q1 - 3 * q3,
                      8 * s[N - out] <= 5 * q3 - 3 * q1
               PROVE  /\ 8 * s[out + 1] >= 2 * q1 - 3 * (q3 - q1)
                      /\ 8 * s[N - out] <= 2 * q3 + 3 * (q3 - q1)
    BY <1>2 DEF q1, q3, out, Scale
  <2>1. 2 * q1 - 3 * (q3 - q1) = 5 * q1 - 3 * q3  OBVIOUS
  <2>2. 2 * q3 + 3 * (q3 - q1) = 5 * q3 - 3 * q1  OBVIOUS
  <2> QED BY <2>1, <2>2
<1>7. CASE N % 4 = 0
  <2>1. N = 4 * out /\ out >= 1  BY <1>1, <1>2, <1>7
  <2>2. (N - 1) \div 4 = out - 1 /\ (N - 1) % 4 = 3 /\ (N + 2) \div 4 = out  BY <1>2, <2>1
  <2>3. (3 * N - 3) \div 4 = 3 * out - 1 /\ (3 * N - 3) % 4 = 1 /\ (3 * N) \div 4 = 3 * out
    BY <1>2, <2>1
  <2> DEFINE a == s[out]
             b == s[out + 1]
             c == s[3 * out]
             d == s[3 * out + 1]
  <2>4. q1 = 4 * a + 3 * (b - a)  BY <1>2, <1>4, <2>1, <2>2
  <2>5. q3 = 4 * c + 1 * (d - c)  BY <1>2, <1>5, <2>1, <2>3
  <2>6. a \in Nat /\ b \in Nat /\ c \in Nat /\ d \in Nat /\ a <= b /\ b <= c /\ c <= d
    BY <1>2, <1>3, <2>1
  <2>7. s[N - out] = c /\ out + 1 <= N - out  BY <1>2, <2>1
  <2> HIDE DEF a, b, c, d
  <2>8. /\ 8 * b >= 5 * (4 * a + 3 * (b - a)) - 3 * (4 * c + 1 * (d - c))
        /\ 8 * c <= 5 * (4 * c + 1 * (d - c)) - 3 * (4 * a + 3 * (b - a))
        /\ 4 * a + 3 * (b - a) \in Int /\ 4 * c + 1 * (d - c) \in Int
    BY <2>6
  <2>9. s[out + 1] = b  BY DEF b
  <2> QED BY <2>4, <2>5, <2>7, <2>8, <2>9
<1>8. CASE N % 4 = 1
  <2>1. N = 4 * out + 1  BY <1>1, <1>2, <1>8
  <2>2. (N - 1) \div 4 = out /\ (N - 1) % 4 = 0 /\ (N + 2) \div 4 = out  BY <1>2, <2>1
  <2>3. (3 * N - 3) \div 4 = 3 * out /\ (3 * N - 3) % 4 = 0 /\ (3 * N) \div 4 = 3 * out
    BY <1>2, <2>1
  <2> DEFINE b == s[out + 1]
             c == s[3 * out + 1]
  <2>4. q1 = 4 * b + 0 * (b - b)  BY <1>2, <1>4, <2>1, <2>2
  <2>5. q3 = 4 * c + 0 * (c - c)  BY <1>2, <1>5, <2>1, <2>3
  <2>6. b \in Nat /\ c \in Nat /\ b <= c  BY <1>2, <1>3, <2>1
  <2>7. s[N - out] = c /\ out + 1 <= N - out  BY <1>2, <2>1
  <2> HIDE DEF b, c
  <2>8. /\ 8 * b >= 5 * (4 * b + 0 * (b - b)) - 3 * (4 * c + 0 * (c - c))
        /\ 8 * c <= 5 * (4 * c + 0 * (c - c)) - 3 * (4 * b + 0 * (b - b))
        /\ 4 * b + 0 * (b - b) \in Int /\ 4 * c + 0 * (c - c) \in Int
    BY <2>6
  <2>9. s[out + 1] = b  BY DEF b
  <2> QED BY <2>4, <2>5, <2>7, <2>8, <2>9
<1>9. CASE N % 4 = 2
  <2>1. N = 4 * out + 2  BY <1>1, <1>2, <1>9
  <2>2. (N - 1) \div 4 = out /\ (N - 1) % 4 = 1 /\ (N + 2) \div 4 = out + 1  BY <1>2, <2>1
  <2>3. (3 * N - 3) \div 4 = 3 * out /\ (3 * N - 3) % 4 = 3 /\ (3 * N) \div 4 = 3 * out + 1
    BY <1>2, <2>1
  <2> DEFINE a == s[out + 1]
             b == s[out + 2]
             c == s[3 * out + 1]
             d == s[3 * out + 2]
  <2>4. q1 = 4 * a + 1 * (b - a)  BY <1>2, <1>4, <2>1, <2>2
  <2>5. q3 = 4 * c + 3 * (d - c)  BY <1>2, <1>5, <2>1, <2>3
  <2>6. a \in Nat /\ b \in Nat /\ c \in Nat /\ d \in Nat /\ a <= b /\ a <= c /\ b <= d /\ c <= d
    BY <1>2, <1>3, <2>1
  <2>7. s[N - out] = d /\ out + 1 <= N - out  BY <1>2, <2>1
  <2> HIDE DEF a, b, c, d
  <2>8. /\ 8 * a >= 5 * (4 * a + 1 * (b - a)) - 3 * (4 * c + 3 * (d - c))
        /\ 8 * d <= 5 * (4 * c + 3 * (d - c)) - 3 * (4 * a + 1 * (b - a))
        /\ 4 * a + 1 * (b - a) \in Int /\ 4 * c + 3 * (d - c) \in Int
    BY <2>6
  <2>9. s[out + 1] = a  BY DEF a
  <2> QED BY <2>4, <2>5, <2>7, <2>8, <2>9
<1>10. CASE N % 4 = 3
  <2>1. N = 4 * out + 3  BY <1>1, <1>2, <1>10
  <2>2. (N - 1) \div 4 = out /\ (N - 1) % 4 = 2 /\ (N + 2) \div 4 = out + 1  BY <1>2, <2>1
  <2>3. (3 * N - 3) \div 4 = 3 * out + 1 /\ (3 * N - 3) % 4 = 2 /\ (3 * N) \div 4 = 3 * out + 2
    BY <1>2, <2>1
  <2> DEFINE a == s[out + 1]
             b == s[out + 2]
             c == s[3 * out + 2]
             d == s[3 * out + 3]
  <2>4. q1 = 4 * a + 2 * (b - a)  BY <1>2, <1>4, <2>1, <2>2
  <2>5. q3 = 4 * c + 2 * (d - c)
    <3>1. (3 * out + 1) + 1 = 3 * out + 2 /\ (3 * out + 2) + 1 = 3 * out + 3  BY <1>2
    <3>2. q3 = 4 * s[(3 * out + 1) + 1] + 2 * (s[(3 * out + 2) + 1] - s[(3 * out + 1) + 1])
      BY <1>5, <2>3
    <3> QED BY <3>1, <3>2
  <2>6. a \in Nat /\ b \in Nat /\ c \in Nat /\ d \in Nat /\ a <= b /\ b <= c /\ c <= d
    BY <1>2, <1>3, <2>1
  <2>7. s[N - out] = d /\ out + 1 <= N - out  BY <1>2, <2>1
  <2> HIDE DEF a, b, c, d
  <2>8. /\ 8 * a >= 5 * (4 * a + 2 * (b - a)) - 3 * (4 * c + 2 * (d - c))
        /\ 8 * d <= 5 * (4 * c + 2 * (d - c)) - 3 * (4 * a + 2 * (b - a))
        /\ 4 * a + 2 * (b - a) \in Int /\ 4 * c + 2 * (d - c) \in Int
    BY <2>6
  <2>9. s[out + 1] = a  BY DEF a
  <2> QED BY <2>4, <2>5, <2>7, <2>8, <2>9
<1> QED BY <1>2, <1>7, <1>8, <1>9, <1>10

\* Trimming keeps at least half of the rows.
LEMMA HalfStays ==
  ASSUME NEW S, RatedRows(S), S # {}
  PROVE  /\ Eligible(S) \subseteq S
         /\ 2 * Cardinality(Eligible(S)) >= Cardinality(S)
<1> DEFINE N == Cardinality(S)
           s == Ascending(S)
           q1 == Percentile(s, 1)
           q3 == Percentile(s, 3)
           out == N \div 4
           E == Eligible(S)
<1>1. PICK l : RateList(S, l)  BY AscendingLists
<1>2. N \in Nat \ {0} /\ IsFiniteSet(S)
  BY FS_EmptySet, FS_CardinalityType DEF RatedRows
<1>3. s \in Seq(Nat) /\ Len(s) = N /\ \A i \in 1..N : s[i] = Rate(l[i])  BY <1>1 DEF RateList
<1>4. \A i, j \in 1..N : i <= j => s[i] <= s[j]  BY <1>1, <1>3 DEF RateList
<1>5. E = S \/ E = {n \in S : /\ 2 * Scale * Rate(n) >= 2 * q1 - 3 * (q3 - q1)
                              /\ 2 * Scale * Rate(n) <= 2 * q3 + 3 * (q3 - q1)}
  BY DEF Eligible
<1> HIDE DEF s, E
<1>6. /\ q1 \in Int /\ q3 \in Int
      /\ out \in Nat /\ out + 1 <= N - out
      /\ 2 * Scale * s[out + 1] >= 2 * q1 - 3 * (q3 - q1)
      /\ 2 * Scale * s[N - out] <= 2 * q3 + 3 * (q3 - q1)
  <2>1. Len(s) # 0 /\ \A i, j \in 1..Len(s) : i <= j => s[i] <= s[j]  BY <1>2, <1>3, <1>4
  <2>2. out = Len(s) \div 4 /\ N = Len(s)  BY <1>3
  <2> HIDE DEF out, N
  <2> QED BY <1>3, <2>1, <2>2, FencesLeaveTheMiddle
<1>7. 4 * out <= N  BY <1>2
<1> HIDE DEF q1, q3, out
<1>8. E \subseteq S  BY <1>5
<1>9. \A i \in (out + 1)..(N - out) : l[i] \in E
  <2> SUFFICES ASSUME NEW i \in (out + 1)..(N - out) PROVE l[i] \in E  OBVIOUS
  <2>1. i \in 1..N /\ out + 1 \in 1..N /\ N - out \in 1..N /\ out + 1 <= i /\ i <= N - out
    BY <1>2, <1>6
  <2>2. l[i] \in S /\ s[i] = Rate(l[i])  BY <1>1, <1>3, <2>1 DEF RateList
  <2>3. s[out + 1] <= s[i] /\ s[i] <= s[N - out]  BY <1>4, <2>1
  <2>4. s[i] \in Nat /\ s[out + 1] \in Nat /\ s[N - out] \in Nat  BY <1>3, <2>1
  <2> DEFINE a == s[out + 1]
             b == s[i]
             c == s[N - out]
             low == 2 * q1 - 3 * (q3 - q1)
             high == 2 * q3 + 3 * (q3 - q1)
  <2>5. low \in Int /\ high \in Int  BY <1>6
  <2>6. 8 * a >= low /\ 8 * c <= high  BY <1>6 DEF Scale
  <2>7. a \in Nat /\ b \in Nat /\ c \in Nat /\ a <= b /\ b <= c  BY <2>3, <2>4
  <2>8. 8 * b >= low /\ 8 * b <= high
    <3> HIDE DEF a, b, c, low, high
    <3> QED BY <2>5, <2>6, <2>7
  <2>9. 2 * Scale * Rate(l[i]) = 8 * b  BY <2>2, <2>7 DEF Scale
  <2> HIDE DEF a, b, c
  <2> QED BY <1>5, <2>2, <2>8, <2>9
<1>10. Cardinality(E) \in Nat /\ Cardinality(E) >= (N - out) - (out + 1) + 1
  <2>1. out + 1 \in 1..N /\ N - out \in 0..N /\ out + 1 <= (N - out) + 1  BY <1>2, <1>6
  <2>2. l \in [1..N -> S] /\ \A i, j \in 1..N : l[i] = l[j] => i = j  BY <1>1 DEF RateList
  <2> HIDE DEF N
  <2> QED BY <1>2, <1>8, <1>9, <2>1, <2>2, AtLeast
<1>11. 2 * Cardinality(E) >= N
  <2> DEFINE e == Cardinality(E)
  <2>1. e \in Nat /\ e >= (N - out) - (out + 1) + 1  BY <1>10
  <2> HIDE DEF e, N
  <2>2. 2 * e >= N  BY <2>1, <1>2, <1>6, <1>7
  <2> QED BY <2>2 DEF e
<1> QED BY <1>8, <1>11 DEF E

\* Half of the rows are no dearer than their median, and half no cheaper.
LEMMA MedianHalves ==
  ASSUME NEW S, RatedRows(S), S # {}
  PROVE  LET figure == Median(Ascending(S)) IN
         /\ figure \in Nat
         /\ 2 * Cardinality({n \in S : Scale * Rate(n) <= figure}) >= Cardinality(S)
         /\ 2 * Cardinality({n \in S : Scale * Rate(n) >= figure}) >= Cardinality(S)
<1> DEFINE N == Cardinality(S)
           s == Ascending(S)
           mid == N \div 2
           figure == Median(s)
           L == {n \in S : Scale * Rate(n) <= figure}
           H == {n \in S : Scale * Rate(n) >= figure}
<1>1. PICK l : RateList(S, l)  BY AscendingLists
<1>2. N \in Nat \ {0} /\ IsFiniteSet(S)
  BY FS_EmptySet, FS_CardinalityType DEF RatedRows
<1>3. s \in Seq(Nat) /\ Len(s) = N /\ \A i \in 1..N : s[i] = Rate(l[i])  BY <1>1 DEF RateList
<1>4. \A i, j \in 1..N : i <= j => s[i] <= s[j]  BY <1>1, <1>3 DEF RateList
<1>5. l \in [1..N -> S] /\ \A i, j \in 1..N : l[i] = l[j] => i = j  BY <1>1 DEF RateList
<1>6. mid \in Nat /\ N = 2 * mid + (N % 2) /\ N % 2 \in {0, 1}  BY <1>2
<1>7. figure = IF N % 2 = 1 THEN 4 * s[mid + 1] ELSE 2 * (s[mid] + s[mid + 1])
  <2>1. s # << >>  BY <1>2, <1>3
  <2> HIDE DEF s
  <2> QED BY <1>3, <2>1 DEF Median, Scale
<1> HIDE DEF s, figure
<1>8. \A i \in 1..N : l[i] \in S /\ Scale * Rate(l[i]) = 4 * s[i] /\ s[i] \in Nat
  BY <1>3, <1>5 DEF Scale
<1>9. CASE N % 2 = 1
  <2>1. mid + 1 \in 1..N /\ N = 2 * mid + 1  BY <1>6, <1>9
  <2> DEFINE m == s[mid + 1]
  <2>2. m \in Nat /\ figure = 4 * m  BY <1>7, <1>8, <1>9, <2>1
  <2>3. \A i \in 1..(mid + 1) : l[i] \in L
    <3> SUFFICES ASSUME NEW i \in 1..(mid + 1) PROVE l[i] \in L  OBVIOUS
    <3>1. i \in 1..N /\ i <= mid + 1  BY <1>6, <2>1
    <3>2. s[i] <= m /\ s[i] \in Nat /\ l[i] \in S /\ Scale * Rate(l[i]) = 4 * s[i]
      BY <1>4, <1>8, <2>1, <3>1
    <3> HIDE DEF m
    <3> QED BY <2>2, <3>2
  <2>4. \A i \in (mid + 1)..N : l[i] \in H
    <3> SUFFICES ASSUME NEW i \in (mid + 1)..N PROVE l[i] \in H  OBVIOUS
    <3>1. i \in 1..N /\ mid + 1 <= i  BY <1>2, <1>6, <2>1
    <3>2. m <= s[i] /\ s[i] \in Nat /\ l[i] \in S /\ Scale * Rate(l[i]) = 4 * s[i]
      BY <1>4, <1>8, <2>1, <3>1
    <3> HIDE DEF m
    <3> QED BY <2>2, <3>2
  <2> HIDE DEF m
  <2>5. L \subseteq S /\ H \subseteq S  OBVIOUS
  <2> HIDE DEF L, H, N, mid
  <2>6. Cardinality(L) \in Nat /\ Cardinality(L) >= (mid + 1) - 1 + 1
    <3>1. 1 \in 1..N /\ mid + 1 \in 0..N /\ 1 <= (mid + 1) + 1  BY <1>2, <1>6, <2>1
    <3> QED BY <1>2, <1>5, <2>3, <2>5, <3>1, AtLeast
  <2>7. Cardinality(H) \in Nat /\ Cardinality(H) >= N - (mid + 1) + 1
    <3>1. mid + 1 \in 1..N /\ N \in 0..N /\ mid + 1 <= N + 1  BY <1>2, <1>6, <2>1
    <3> QED BY <1>2, <1>5, <2>4, <2>5, <3>1, AtLeast
  <2>8. 2 * Cardinality(L) >= N /\ 2 * Cardinality(H) >= N  BY <1>6, <2>1, <2>6, <2>7
  <2> QED BY <2>2, <2>8 DEF L, H, N, figure, s
<1>10. CASE N % 2 = 0
  <2>1. mid \in 1..N /\ mid + 1 \in 1..N /\ N = 2 * mid  BY <1>2, <1>6, <1>10
  <2> DEFINE a == s[mid]
             b == s[mid + 1]
  <2>2. a \in Nat /\ b \in Nat /\ a <= b /\ figure = 2 * (a + b)  BY <1>4, <1>6, <1>7, <1>8, <1>10, <2>1
  <2>3. \A i \in 1..mid : l[i] \in L
    <3> SUFFICES ASSUME NEW i \in 1..mid PROVE l[i] \in L  OBVIOUS
    <3>1. i \in 1..N /\ i <= mid  BY <1>6, <2>1
    <3>2. s[i] <= a /\ s[i] \in Nat /\ l[i] \in S /\ Scale * Rate(l[i]) = 4 * s[i]
      BY <1>4, <1>8, <2>1, <3>1
    <3> HIDE DEF a, b
    <3> QED BY <2>2, <3>2
  <2>4. \A i \in (mid + 1)..N : l[i] \in H
    <3> SUFFICES ASSUME NEW i \in (mid + 1)..N PROVE l[i] \in H  OBVIOUS
    <3>1. i \in 1..N /\ mid + 1 <= i  BY <1>2, <1>6, <2>1
    <3>2. b <= s[i] /\ s[i] \in Nat /\ l[i] \in S /\ Scale * Rate(l[i]) = 4 * s[i]
      BY <1>4, <1>8, <2>1, <3>1
    <3> HIDE DEF a, b
    <3> QED BY <2>2, <3>2
  <2> HIDE DEF a, b
  <2>5. L \subseteq S /\ H \subseteq S  OBVIOUS
  <2> HIDE DEF L, H, N, mid
  <2>6. Cardinality(L) \in Nat /\ Cardinality(L) >= mid - 1 + 1
    <3>1. 1 \in 1..N /\ mid \in 0..N /\ 1 <= mid + 1  BY <1>2, <1>6, <2>1
    <3> QED BY <1>2, <1>5, <2>3, <2>5, <3>1, AtLeast
  <2>7. Cardinality(H) \in Nat /\ Cardinality(H) >= N - (mid + 1) + 1
    <3>1. mid + 1 \in 1..N /\ N \in 0..N /\ mid + 1 <= N + 1  BY <1>2, <1>6, <2>1
    <3> QED BY <1>2, <1>5, <2>4, <2>5, <3>1, AtLeast
  <2>8. 2 * Cardinality(L) >= N /\ 2 * Cardinality(H) >= N  BY <1>6, <2>1, <2>6, <2>7
  <2>9. figure \in Nat  BY <2>2
  <2> QED BY <2>8, <2>9 DEF L, H, N, figure, s
<1> QED BY <1>6, <1>9, <1>10

\* The figure is not there yet, or it is what the rows stored give.
FigureInv ==
  /\ comparables \in Seq(RowKinds)
  /\ \/ medianRate = << >>
     \/ medianRate = << Median(Ascending(Eligible(Rated))) >>

\* Whatever the case stores, the rated sales are a finite set with rates.
LEMMA RatedAreRows == ASSUME comparables \in Seq(RowKinds) PROVE RatedRows(Rated)
<1> DEFINE two == {Len(comparables), MaxTaken}
<1>1. Len(comparables) \in Nat /\ MaxTaken \in Nat  BY FigureAssumption
<1>2. Min(two) \in two /\ Min(two) <= Len(comparables)
  <2>1. two \subseteq Nat /\ two # {} /\ Len(comparables) \in two  BY <1>1
  <2> HIDE DEF two
  <2>2. PICK k \in two : \A m \in two : k <= m  BY <2>1, LeastNumber
  <2>3. Min(two) \in two /\ \A m \in two : Min(two) <= m  BY <2>2 DEF Min
  <2> QED BY <2>1, <2>3
<1>3. Min(two) \in Nat  BY <1>1, <1>2
<1>4. Taken = 1..Min(two)  BY DEF Taken
<1> HIDE DEF two
<1>5. IsFiniteSet(Taken) /\ Taken \subseteq Nat /\ Taken \subseteq DOMAIN comparables
  <2>1. IsFiniteSet(1..Min(two))  BY <1>3, CountUpTo
  <2>2. \A n \in 1..Min(two) : n \in Nat /\ n \in 1..Len(comparables)  BY <1>1, <1>2, <1>3
  <2> QED BY <1>4, <2>1, <2>2
<1>6. Rated \subseteq Taken  BY DEF Rated
<1>7. IsFiniteSet(Rated)  BY <1>5, <1>6, FS_Subset
<1>8. \A n \in Rated : Rate(n) \in Nat
  <2> TAKE n \in Rated
  <2>1. comparables[n] \in RowKinds /\ comparables[n].rate # NoRate  BY <1>5 DEF Rated
  <2> QED BY <2>1, FigureAssumption DEF Rate
<1> QED BY <1>5, <1>6, <1>7, <1>8 DEF RatedRows

\* The rows never change, so neither does what they give.
LEMMA FigureKept ==
  ASSUME comparables' = comparables
  PROVE  Median(Ascending(Eligible(Rated)))' = Median(Ascending(Eligible(Rated)))
<1>1. \A n : Rate(n)' = Rate(n)  BY DEF Rate
<1>2. Rated' = Rated  BY DEF Rated, Taken
<1>3. \A S : Ascending(S)' = Ascending(S)  BY <1>1 DEF Ascending
<1>4. \A S : Eligible(S)' = Eligible(S)  BY <1>1, <1>3 DEF Eligible
<1>5. Eligible(Rated)' = Eligible(Rated)  BY <1>2, <1>4
<1> QED BY <1>3, <1>5

\* Nothing is computed at the start.
LEMMA FigureInvInit == FigureInit => FigureInv
<1> SUFFICES ASSUME FigureInit PROVE FigureInv  OBVIOUS
<1>1. PICK n \in 0..RowCount : comparables \in [1..n -> RowKinds]  BY DEF FigureInit
<1>2. n \in Nat  BY FigureAssumption
<1>3. comparables \in Seq(RowKinds)  BY <1>1, <1>2
<1> QED BY <1>3 DEF FigureInv, FigureInit

\* The figure is computed once, from rows that stay as they are.
LEMMA FigureInvNext == FigureInv /\ [ComputeFigure]_figureVars => FigureInv'
<1> SUFFICES ASSUME FigureInv, [ComputeFigure]_figureVars PROVE FigureInv'  OBVIOUS
<1>1. comparables' = comparables  BY DEF ComputeFigure, figureVars
<1>2. Median(Ascending(Eligible(Rated)))' = Median(Ascending(Eligible(Rated)))  BY <1>1, FigureKept
<1>3. CASE ComputeFigure  BY <1>1, <1>2, <1>3 DEF FigureInv, ComputeFigure
<1>4. CASE UNCHANGED figureVars  BY <1>1, <1>2, <1>4 DEF FigureInv, figureVars
<1> QED BY <1>3, <1>4

\* What the rows give lies in their middle half: trimming leaves half of them,
\* and half of those lie on either side of the median.
LEMMA FigureInMiddle == FigureInv => HeadlineInMiddleHalf
<1> SUFFICES ASSUME FigureInv, medianRate # << >> PROVE HeadlineInMiddleHalf
  BY DEF HeadlineInMiddleHalf
<1> DEFINE E == Eligible(Rated)
           figure == Median(Ascending(E))
           L == {n \in Rated : Scale * Rate(n) <= figure}
           H == {n \in Rated : Scale * Rate(n) >= figure}
           EL == {n \in E : Scale * Rate(n) <= figure}
           EH == {n \in E : Scale * Rate(n) >= figure}
<1>1. medianRate[1] = figure  BY DEF FigureInv
<1>2. RatedRows(Rated)  BY RatedAreRows DEF FigureInv
<1>3. CASE Rated = {}
  <2>1. E = {}  BY <1>3 DEF Eligible
  <2>2. RatedRows({})  BY FS_EmptySet DEF RatedRows
  <2>3. PICK l : RateList({}, l)  BY <2>2, AscendingLists
  <2>4. Ascending({}) \in Seq(Nat) /\ Len(Ascending({})) = 0  BY <2>3, FS_EmptySet DEF RateList
  <2>5. Ascending({}) = << >>  BY <2>4
  <2>6. figure = NoRate  BY <2>1, <2>5 DEF Median
  <2> QED BY <1>1, <1>3, <2>6 DEF HeadlineInMiddleHalf
<1>4. CASE Rated # {}
  <2>1. E \subseteq Rated /\ 2 * Cardinality(E) >= Cardinality(Rated)  BY <1>2, <1>4, HalfStays
  <2>2. IsFiniteSet(Rated) /\ Cardinality(Rated) \in Nat \ {0}
    BY <1>2, <1>4, FS_EmptySet, FS_CardinalityType DEF RatedRows
  <2>3. IsFiniteSet(E) /\ Cardinality(E) \in Nat  BY <2>1, <2>2, FS_Subset, FS_CardinalityType
  <2> HIDE DEF E
  <2>4. E # {}
    <3>1. Cardinality(E) # 0  BY <2>1, <2>2, <2>3
    <3> QED BY <3>1, FS_EmptySet
  <2>5. RatedRows(E)  BY <1>2, <2>1, <2>3 DEF RatedRows
  <2>6. /\ figure \in Nat
        /\ 2 * Cardinality(EL) >= Cardinality(E)
        /\ 2 * Cardinality(EH) >= Cardinality(E)
    BY <2>4, <2>5, MedianHalves
  <2> HIDE DEF figure
  <2>7. EL \subseteq L /\ EH \subseteq H  BY <2>1
  <2>8. IsFiniteSet(L) /\ IsFiniteSet(H) /\ IsFiniteSet(EL) /\ IsFiniteSet(EH)
    <3>1. L \subseteq Rated /\ H \subseteq Rated /\ EL \subseteq E /\ EH \subseteq E  OBVIOUS
    <3> QED BY <2>2, <2>3, <3>1, FS_Subset
  <2> HIDE DEF L, H, EL, EH
  <2>9. /\ Cardinality(EL) <= Cardinality(L) /\ Cardinality(EH) <= Cardinality(H)
        /\ Cardinality(EL) \in Nat /\ Cardinality(EH) \in Nat
        /\ Cardinality(L) \in Nat /\ Cardinality(H) \in Nat
    BY <2>7, <2>8, FS_Subset, FS_CardinalityType
  <2>10. 4 * Cardinality(L) >= Cardinality(Rated) /\ 4 * Cardinality(H) >= Cardinality(Rated)
    BY <2>1, <2>2, <2>3, <2>6, <2>9
  <2>11. figure # NoRate  BY <2>6, FigureAssumption
  <2> QED BY <1>1, <1>4, <2>1, <2>10, <2>11 DEF HeadlineInMiddleHalf, L, H, E
<1> QED BY <1>3, <1>4

\* For any number of rows and any rates: whatever the fences leave out, the
\* headline figure stands on half of the rated sales and lies in the middle
\* half of them.
THEOREM FigureStaysInMiddle == FigureSpec => []HeadlineInMiddleHalf
<1>1. FigureSpec => []FigureInv
  BY FigureInvInit, FigureInvNext, PTL DEF FigureSpec
<1> QED BY <1>1, FigureInMiddle, PTL

-----------------------------------------------------------------------------
(* The report *)

Number == Nat \cup {None}

\* Stages in which a run has read its figure.
HeldStages == {"context", "remember", "figure", "writing", "answered"}

ReportRun ==
  {r \in [stage : ReportStages, at : Processes \cup {None}, given : Number,
          seen : Number, latest : Number, figure : Number,
          retried : BOOLEAN, echo : Number \cup {Other}] :
     /\ r.stage # "idle" => r.at \in Processes
     /\ r.stage = "saving" => r.given \in Nat
     /\ r.stage \in HeldStages => r.figure # None}

RunsTyped ==
  /\ report \in [Reports -> ReportRun]
  /\ evidence \in Nat /\ analyses \in Nat /\ saved \in Nat
  /\ mem \in [Processes -> Number] /\ redis \in Number
  /\ apart \subseteq Reasons

\* A run that has stored its figure.
Stored(g) == report[g].stage \in {"writing", "answered"}

\* Unless runs with different figures met, all that are held are one.  Unless a
\* person's figure or an older value came over it too, a figure a run has stored
\* is still the case's; and with no report outstanding the file states it.
Agreement ==
  /\ "mixed" \notin apart =>
       \A g, h \in Reports :
         report[g].figure # None /\ report[h].figure # None =>
           report[g].figure = report[h].figure
  /\ apart \subseteq {"unreported"} =>
       \A g \in Reports : Stored(g) => report[g].figure = internalValue
  /\ apart = {} => blob = None \/ blob = internalValue

AgreeInv == RunsTyped /\ Agreement

\* The empty run has its type.
LEMMA NoReportTyped ==
  NoReport \in ReportRun /\ NoReport.stage = "idle" /\ NoReport.figure = None
BY DEF NoReport, ReportRun, ReportStages, HeldStages, Number

\* Without a report, value and file agree.
LEMMA AgreeInvInitially == ReportInit => AgreeInv
BY NoReportTyped
DEF ReportInit, AgreeInv, RunsTyped, Agreement, Stored, Number

\* A run under way has its type and its process.
LEMMA BusyRun ==
  ASSUME AgreeInv, NEW g \in Reports, ~At(g, "idle")
  PROVE  report[g] \in ReportRun /\ report[g].at \in Processes
BY DEF AgreeInv, RunsTyped, ReportRun, At

\* A version gives a figure, if only that there is none.
LEMMA FigureOfVersion ==
  ASSUME NEW version \in Nat
  PROVE  ContendedValue(version) \in Nat /\ ContendedValue(version) # None
BY ReportAssumption DEF ContendedValue, NoFigure

\* Runs go on, or end, without changing what they left behind.
LEMMA QuietStep ==
  ASSUME AgreeInv, NEW g \in Reports, NEW r \in ReportRun,
         report' = [report EXCEPT ![g] = r],
         r.figure \in {None, report[g].figure},
         r.stage \in {"writing", "answered"} => Stored(g),
         UNCHANGED << internalValue, blob, apart >>
  PROVE  Agreement' /\ report' \in [Reports -> ReportRun]
<1>1. \A h \in Reports : report'[h] = IF h = g THEN r ELSE report[h]
  BY DEF AgreeInv, RunsTyped
<1>2. r.stage \in {"writing", "answered"} => r.figure = report[g].figure
  BY DEF ReportRun, HeldStages
<1> QED
  BY <1>1, <1>2 DEF AgreeInv, RunsTyped, Agreement, Stored

\* So does a run that begins.
LEMMA BeginStep ==
  ASSUME AgreeInv, NEW g \in Reports, NEW p \in Processes, NEW given \in Number,
         NEW stage \in {"saving", "asked"}, stage = "saving" => given \in Nat,
         Begin(g, stage, p, given), UNCHANGED << internalValue, blob, apart >>
  PROVE  Agreement' /\ report' \in [Reports -> ReportRun]
<1> DEFINE r == [NoReport EXCEPT !.stage = stage, !.at = p, !.given = given]
<1>1. r \in ReportRun /\ r.stage = stage /\ r.figure = None
  BY DEF NoReport, ReportRun, ReportStages, HeldStages, Number
<1>2. report' = [report EXCEPT ![g] = r]
  BY DEF Begin
<1> HIDE DEF r
<1> QED BY <1>1, <1>2, QuietStep

\* What goes on around the runs: the comparables change, a copy is lost.
LEMMA SurroundingsKeepAgreeInv ==
  ASSUME AgreeInv,
         \/ ChangeComparables \/ ExpireContext \/ ReadEntity
         \/ \E p \in Processes : EvictContext(p)
  PROVE  AgreeInv'
<1> USE DEF AgreeInv, RunsTyped, Agreement, Stored, Outcome, Cache, Number
<1>1. CASE ChangeComparables
  BY <1>1 DEF ChangeComparables
<1>2. CASE ExpireContext
  BY <1>2 DEF ExpireContext
<1>3. CASE ReadEntity
  BY <1>3 DEF ReadEntity
<1>4. ASSUME NEW p \in Processes, EvictContext(p) PROVE AgreeInv'
  BY <1>4 DEF EvictContext
<1> QED BY <1>1, <1>2, <1>3, <1>4

\* The others who write the value say so, unless they write what is there.
LEMMA OthersKeepAgreeInv ==
  ASSUME AgreeInv, AdvisoryClose \/ SaveEntity
  PROVE  AgreeInv'
<1>1. UNCHANGED << report, evidence, analyses, saved, mem, redis, blob >>
  BY DEF AdvisoryClose, SaveEntity, Cache
<1>2. ASSUME apart' = apart, internalValue' = internalValue PROVE AgreeInv'
  BY <1>1, <1>2 DEF AgreeInv, RunsTyped, Agreement, Stored
<1>3. ASSUME NEW reason \in {"typed", "restored"}, apart' = apart \cup {reason}
      PROVE  AgreeInv'
  <2>1. apart' # {} /\ ~(apart' \subseteq {"unreported"})
    BY <1>3
  <2>2. "mixed" \notin apart' => "mixed" \notin apart
    BY <1>3
  <2>3. apart' \subseteq Reasons
    BY <1>3 DEF AgreeInv, RunsTyped, Reasons
  <2>4. RunsTyped'
    BY <1>1, <2>3 DEF AgreeInv, RunsTyped
  <2>5. Agreement'
    BY <1>1, <2>1, <2>2 DEF AgreeInv, Agreement
  <2> QED BY <2>4, <2>5 DEF AgreeInv
<1> QED BY <1>2, <1>3 DEF AdvisoryClose, SaveEntity

\* A restart ends runs and starts none.
LEMMA RestartKeepsAgreeInv ==
  ASSUME AgreeInv, NEW p \in Processes, RestartProcess(p)
  PROVE  AgreeInv'
<1>1. RunsTyped'
  BY NoReportTyped DEF RestartProcess, AgreeInv, RunsTyped, Number, Outcome
<1>2. \A g \in Reports : report'[g] \in {NoReport, report[g]}
  BY DEF RestartProcess
<1>3. Agreement'
  BY <1>2, NoReportTyped
  DEF RestartProcess, AgreeInv, RunsTyped, Agreement, Stored, Outcome
<1> QED BY <1>1, <1>3 DEF AgreeInv

\* Runs that begin, and the save of an analysis.
LEMMA StartKeepsAgreeInv ==
  ASSUME AgreeInv, NEW g \in Reports,
         \/ \E p \in Processes : Analyse(g, p) \/ Regenerate(g, p)
         \/ SaveToRedis(g)
  PROVE  AgreeInv'
<1>1. ASSUME NEW p \in Processes, Analyse(g, p) PROVE AgreeInv'
  <2>1. analyses + 1 \in Nat /\ analyses + 1 \in Number
    BY DEF AgreeInv, RunsTyped, Number
  <2>2. Agreement' /\ report' \in [Reports -> ReportRun]
    BY <1>1, <2>1, BeginStep DEF Analyse, Outcome
  <2> QED BY <1>1, <2>1, <2>2
          DEF Analyse, SetMemory, AgreeInv, RunsTyped, Outcome
<1>2. ASSUME NEW p \in Processes, Regenerate(g, p) PROVE AgreeInv'
  <2>1. Agreement' /\ report' \in [Reports -> ReportRun]
    BY <1>2, BeginStep DEF Regenerate, Outcome, Number
  <2> QED BY <1>2, <2>1 DEF Regenerate, AgreeInv, RunsTyped, Cache, Outcome
<1>3. CASE SaveToRedis(g)
  <2> DEFINE r == [report[g] EXCEPT !.stage = "asked"]
  <2>1. report[g] \in ReportRun /\ report[g].given \in Nat
    BY <1>3 DEF SaveToRedis, At, AgreeInv, RunsTyped, ReportRun
  <2>2. r \in ReportRun /\ r.stage = "asked" /\ r.figure = report[g].figure
    BY <1>3, <2>1 DEF SaveToRedis, At, ReportRun, ReportStages, HeldStages
  <2>3. report' = [report EXCEPT ![g] = r]
    BY <1>3 DEF SaveToRedis, Goes
  <2>4. Agreement' /\ report' \in [Reports -> ReportRun]
    BY <1>3, <2>2, <2>3, QuietStep DEF SaveToRedis, Outcome
  <2>5. redis' \in Number /\ saved' \in Nat
    BY <1>3, <2>1 DEF SaveToRedis, AgreeInv, RunsTyped, Number
  <2> QED BY <1>3, <2>4, <2>5 DEF SaveToRedis, AgreeInv, RunsTyped, Outcome
<1> QED BY <1>1, <1>2, <1>3

\* Finding the context.
LEMMA LookingKeepsAgreeInv ==
  ASSUME AgreeInv, NEW g \in Reports, RestoreContext(g) \/ RememberContext(g)
  PROVE  AgreeInv'
<1> USE DEF AgreeInv, RunsTyped
<1>1. /\ report[g] \in ReportRun /\ report[g].at \in Processes
      /\ report[g].stage \in HeldStages
  BY BusyRun DEF RestoreContext, RememberContext, At, HeldStages
<1>2. CASE RestoreContext(g)
  <2>1. PICK c \in Number, stage \in {"figure", "remember"} :
          Uses(g, c, stage)
    <3>1. /\ report[g].given \in Number /\ mem[report[g].at] \in Number
          /\ redis \in Number /\ None \in Number
      BY <1>1, <1>2 DEF RestoreContext, ReportRun, Number, At
    <3> QED BY <1>2, <3>1 DEF RestoreContext
  <2> DEFINE r == [report[g] EXCEPT !.stage = stage, !.seen = c,
                                    !.latest = saved]
  <2>2. r \in ReportRun /\ r.stage = stage /\ r.figure = report[g].figure
    BY <1>1 DEF ReportRun, ReportStages, HeldStages, Number
  <2>3. report' = [report EXCEPT ![g] = r]
    BY <2>1 DEF Uses
  <2> HIDE DEF r
  <2> QED BY <1>2, <2>2, <2>3, QuietStep DEF RestoreContext, Cache, Outcome
<1>3. CASE RememberContext(g)
  <2> DEFINE r == [report[g] EXCEPT !.stage = "figure"]
  <2>1. r \in ReportRun /\ r.stage = "figure" /\ r.figure = report[g].figure
    BY <1>1 DEF ReportRun, ReportStages, HeldStages
  <2>2. report' = [report EXCEPT ![g] = r]
    BY <1>3 DEF RememberContext, Goes
  <2>3. mem' \in [Processes -> Number]
    BY <1>1, <1>3 DEF RememberContext, ReportRun
  <2> HIDE DEF r
  <2> QED BY <1>3, <2>1, <2>2, <2>3, QuietStep DEF RememberContext, Outcome
<1> QED BY <1>2, <1>3

\* The figure is read: where another run holds another, the two met.
LEMMA ReadingKeepsAgreeInv ==
  ASSUME AgreeInv, NEW g \in Reports, ReadCase(g)
  PROVE  AgreeInv'
<1> DEFINE figure == ContendedValue(evidence)
           r == [report[g] EXCEPT !.stage = "context", !.figure = figure]
<1>1. figure \in Nat /\ figure # None
  BY FigureOfVersion DEF AgreeInv, RunsTyped
<1> HIDE DEF figure
<1>2. report[g] \in ReportRun /\ report[g].at \in Processes
  BY BusyRun DEF ReadCase, At
<1>3. r \in ReportRun /\ r.stage = "context" /\ r.figure = figure
  BY <1>1, <1>2 DEF ReportRun, ReportStages, HeldStages, Number
<1>4. report' = [report EXCEPT ![g] = r]
  BY DEF ReadCase, figure
<1> HIDE DEF r
<1>5. \A h \in Reports : report'[h] = IF h = g THEN r ELSE report[h]
  BY <1>4 DEF AgreeInv, RunsTyped
<1>6. /\ apart' = IF OtherFigure(g, figure) THEN apart \cup {"mixed"} ELSE apart
      /\ UNCHANGED << evidence, analyses, saved, mem, redis, internalValue, blob >>
  BY DEF ReadCase, Cache, figure
<1>7. RunsTyped'
  BY <1>3, <1>4, <1>6 DEF AgreeInv, RunsTyped, Reasons
<1>8. CASE OtherFigure(g, figure)
  <2>1. "mixed" \in apart' /\ apart' # {} /\ ~(apart' \subseteq {"unreported"})
    BY <1>6, <1>8
  <2> QED BY <1>7, <2>1 DEF AgreeInv, Agreement
<1>9. CASE ~OtherFigure(g, figure)
  <2>1. \A h \in Reports : h # g => report[h].figure \in {None, figure}
    BY <1>9 DEF OtherFigure
  <2>2. Agreement'
    BY <1>3, <1>5, <1>6, <1>9, <2>1 DEF AgreeInv, Agreement, Stored
  <2> QED BY <1>7, <2>2 DEF AgreeInv
<1> QED BY <1>8, <1>9

\* The figure is stored: the run's own, and the file is behind it.
LEMMA FigureKeepsAgreeInv ==
  ASSUME AgreeInv, NEW g \in Reports, UpdateInternalAssessedValue(g)
  PROVE  AgreeInv'
<1> DEFINE r == [NoReport EXCEPT !.stage = "writing", !.at = report[g].at,
                                 !.figure = report[g].figure]
<1>0. /\ report[g] \in ReportRun /\ report[g].at \in Processes
      /\ report[g].figure # None
  BY BusyRun DEF UpdateInternalAssessedValue, At, ReportRun, HeldStages
<1>1. r \in ReportRun /\ r.stage = "writing" /\ r.figure = report[g].figure
  BY <1>0 DEF ReportRun, ReportStages, HeldStages, NoReport, Number
<1>2. report' = [report EXCEPT ![g] = r]
  BY DEF UpdateInternalAssessedValue
<1> HIDE DEF r
<1>3. \A h \in Reports : report'[h] = IF h = g THEN r ELSE report[h]
  BY <1>2 DEF AgreeInv, RunsTyped
<1>4. /\ internalValue' = report[g].figure
      /\ UNCHANGED << evidence, analyses, saved, mem, redis, blob >>
      /\ "unreported" \in apart' /\ apart' \subseteq {"unreported", "mixed"}
  BY DEF UpdateInternalAssessedValue, Cache
<1>5. RunsTyped'
  BY <1>1, <1>2, <1>4 DEF AgreeInv, RunsTyped, Reasons
<1>6. ASSUME "mixed" \notin apart'
      PROVE  \A h \in Reports : report[h].figure \in {None, report[g].figure}
  <2>1. CASE OtherFigure(g, report[g].figure)
    BY <1>0, <1>6, <2>1
    DEF UpdateInternalAssessedValue, OtherFigure, AgreeInv, Agreement
  <2>2. CASE ~OtherFigure(g, report[g].figure)
    BY <2>2 DEF OtherFigure
  <2> QED BY <2>1, <2>2
<1>7. \A h \in Reports : Stored(h) => report[h].figure # None
  BY DEF AgreeInv, RunsTyped, ReportRun, HeldStages, Stored
<1>8. ASSUME "mixed" \notin apart'
      PROVE  \A h \in Reports : Stored(h)' => report'[h].figure = internalValue'
  BY <1>1, <1>3, <1>4, <1>6, <1>7, <1>8 DEF Stored
<1>9. ASSUME "mixed" \notin apart'
      PROVE  \A h \in Reports : report'[h].figure \in {None, report[g].figure}
  BY <1>1, <1>3, <1>6, <1>9
<1>10. Agreement'
  BY <1>4, <1>8, <1>9 DEF Agreement
<1> QED BY <1>5, <1>10 DEF AgreeInv

\* The model answers, or fails.
LEMMA ModelKeepsAgreeInv ==
  ASSUME AgreeInv, NEW g \in Reports, CallClaude(g) \/ ClaudeFails(g)
  PROVE  AgreeInv'
<1> USE DEF AgreeInv, RunsTyped
<1>1. /\ Stored(g) /\ report[g].stage = "writing" /\ report[g] \in ReportRun
      /\ report[g].at \in Processes
  BY BusyRun DEF CallClaude, ClaudeFails, At, Stored
<1>2. CASE CallClaude(g)
  <2>1. PICK echo \in Number \cup {Other} :
          report' = [report EXCEPT ![g].stage = "answered", ![g].echo = echo,
                                   ![g].retried = FALSE]
    BY <1>1, <1>2 DEF CallClaude, ReportRun, Number
  <2> DEFINE r == [report[g] EXCEPT !.stage = "answered", !.echo = echo,
                                    !.retried = FALSE]
  <2>2. r \in ReportRun /\ r.figure = report[g].figure
    BY <1>1 DEF ReportRun, ReportStages, HeldStages
  <2>3. report' = [report EXCEPT ![g] = r]
    BY <2>1
  <2> QED BY <1>1, <1>2, <2>2, <2>3, QuietStep DEF CallClaude, Cache, Outcome
<1>3. CASE ClaudeFails(g)
  <2> DEFINE r == IF report[g].retried THEN NoReport
                  ELSE [report[g] EXCEPT !.retried = TRUE]
  <2>1. r \in ReportRun /\ r.figure \in {None, report[g].figure}
    BY <1>1, NoReportTyped DEF ReportRun
  <2>2. report' = [report EXCEPT ![g] = r]
    BY <1>3 DEF ClaudeFails
  <2> QED BY <1>1, <1>3, <2>1, <2>2, QuietStep DEF ClaudeFails, Cache, Outcome
<1> QED BY <1>2, <1>3

\* The file is written, with the figure the run has stored.
LEMMA UploadKeepsAgreeInv ==
  ASSUME AgreeInv, NEW g \in Reports, UploadReport(g)
  PROVE  AgreeInv'
<1> DEFINE r == [NoReport EXCEPT !.stage = "record", !.at = report[g].at]
<1>0. report[g] \in ReportRun /\ report[g].at \in Processes /\ Stored(g)
  BY BusyRun DEF UploadReport, At, Stored
<1>1. r \in ReportRun /\ r.stage = "record" /\ r.figure = None
  BY <1>0 DEF ReportRun, ReportStages, HeldStages, NoReport, Number
<1>2. /\ report' = [report EXCEPT ![g] = r] /\ blob' = report[g].figure
      /\ apart' = apart \ {"unreported"} /\ internalValue' = internalValue
      /\ UNCHANGED << evidence, analyses, saved, mem, redis >>
  BY DEF UploadReport, RenderData, Cache
<1> HIDE DEF r
<1>3. \A h \in Reports : report'[h] = IF h = g THEN r ELSE report[h]
  BY <1>2 DEF AgreeInv, RunsTyped
<1>4. RunsTyped'
  BY <1>1, <1>2 DEF AgreeInv, RunsTyped
<1>5. \A h \in Reports : Stored(h)' => Stored(h) /\ report'[h] = report[h]
  BY <1>1, <1>3 DEF Stored
<1>6. /\ apart' \subseteq {"unreported"} => apart \subseteq {"unreported"}
      /\ apart' = {} => apart \subseteq {"unreported"}
      /\ "mixed" \notin apart' => "mixed" \notin apart
  BY <1>2
<1>7. Agreement'
  BY <1>0, <1>1, <1>2, <1>3, <1>5, <1>6 DEF AgreeInv, Agreement
<1> QED BY <1>4, <1>7 DEF AgreeInv

\* The artifact record and the path, or a failure anywhere.
LEMMA EndKeepsAgreeInv ==
  ASSUME AgreeInv, NEW g \in Reports,
         \/ CreateArtifactRecord(g) \/ UpdateAnalysisReportPath(g)
         \/ FailReport(g)
  PROVE  AgreeInv'
<1> USE DEF AgreeInv, RunsTyped
<1>1. CASE CreateArtifactRecord(g)
  <2> DEFINE r == [report[g] EXCEPT !.stage = "path"]
  <2>1. report[g] \in ReportRun /\ report[g].at \in Processes
    BY <1>1, BusyRun DEF CreateArtifactRecord, At
  <2>2. r \in ReportRun /\ r.stage = "path" /\ r.figure = report[g].figure
    BY <2>1 DEF ReportRun, ReportStages, HeldStages
  <2>3. report' = [report EXCEPT ![g] = r]
    BY <1>1 DEF CreateArtifactRecord, Goes
  <2> HIDE DEF r
  <2> QED BY <1>1, <2>2, <2>3, QuietStep
          DEF CreateArtifactRecord, Cache, Outcome
<1>2. CASE UpdateAnalysisReportPath(g)
  BY <1>2, NoReportTyped, QuietStep DEF UpdateAnalysisReportPath, Cache
<1>3. CASE FailReport(g)
  BY <1>3, NoReportTyped, QuietStep DEF FailReport, Cache, Outcome
<1> QED BY <1>1, <1>2, <1>3

\* The invariant is inductive.
LEMMA StepKeepsAgreeInv == AgreeInv /\ [ReportNext]_reportVars => AgreeInv'
<1> SUFFICES ASSUME AgreeInv, [ReportNext]_reportVars PROVE AgreeInv'
  OBVIOUS
<1>1. CASE UNCHANGED reportVars
  BY <1>1 DEF reportVars, AgreeInv, RunsTyped, Agreement, Stored
<1>2. CASE ReportNext
  BY <1>2, SurroundingsKeepAgreeInv, OthersKeepAgreeInv, RestartKeepsAgreeInv,
     StartKeepsAgreeInv, LookingKeepsAgreeInv, ReadingKeepsAgreeInv,
     FigureKeepsAgreeInv, ModelKeepsAgreeInv, UploadKeepsAgreeInv,
     EndKeepsAgreeInv DEF ReportNext
<1> QED BY <1>1, <1>2

\* Whatever the model writes and however many runs follow or overtake one
\* another, the report on file states the value of the case, unless a run's
\* figure has no report yet or its report failed, runs with different figures
\* overlapped, a person typed a value, or a save put an older one back; and a
\* run that gets through with no other figure about ends each of these.
THEOREM ReportAgreesWithCase == ReportSpec => []ReportAgrees
<1>1. AgreeInv => ReportAgrees
  BY DEF AgreeInv, Agreement, ReportAgrees
<1> QED BY <1>1, AgreeInvInitially, StepKeepsAgreeInv, PTL DEF ReportSpec

-----------------------------------------------------------------------------
(* Where the versions come from *)

\* One of the first n versions, or none.
Versions(n) == {None} \cup 1..n

\* Whatever a run holds was there to be read.
Sourced(r) ==
  /\ r.given \in Versions(analyses) /\ r.seen \in Versions(analyses)
  /\ r.figure \in {None} \cup 0..evidence

\* No version is one there was not, and the bounds are kept.
Source ==
  /\ evidence \in 1..(MaxChanges + 1)
  /\ analyses \in 0..MaxAnalyses /\ saved \in 0..analyses
  /\ \A p \in Processes : mem[p] \in Versions(analyses)
  /\ redis \in Versions(analyses)
  /\ \A g \in Reports : Sourced(report[g])
  /\ internalValue \in {Other} \cup 0..evidence
  /\ readValue \in {None, Other} \cup 0..evidence
  /\ reportFaults \in 0..MaxReportFaults

\* The inductive invariant.
SourceInv == AgreeInv /\ Source

\* A new version only adds to those there are.
LEMMA VersionsGrow ==
  ASSUME NEW n \in Nat
  PROVE  /\ Versions(n) \subseteq Versions(n + 1) /\ n + 1 \in Versions(n + 1)
         /\ None \in Versions(n) /\ 0..n \subseteq 0..(n + 1)
BY DEF Versions

\* The empty run holds nothing.
LEMMA NoReportSourced == Sourced(NoReport)
BY DEF Sourced, NoReport, Versions

\* At the start there is the first evidence and no analysis.
LEMMA SourceInvInitially == ReportInit => SourceInv
<1> SUFFICES ASSUME ReportInit PROVE Source  BY AgreeInvInitially DEF SourceInv
<1>1. \A g \in Reports : report[g] = NoReport  BY DEF ReportInit
<1>2. 1 \in 1..(MaxChanges + 1) /\ 0 \in 0..MaxAnalyses /\ 0 \in 0..MaxReportFaults
  BY ReportAssumption
<1> QED BY <1>1, <1>2, NoReportSourced DEF Source, ReportInit, Versions, NoFigure

\* A fault is counted, up to its bound.
LEMMA FaultCounted ==
  ASSUME Source, ReportFault
  PROVE  reportFaults' \in 0..MaxReportFaults
BY ReportAssumption DEF Source, ReportFault

\* One run goes on with what was there to be read.
LEMMA RunSourced ==
  ASSUME SourceInv, NEW g \in Reports, NEW r,
         report' = [report EXCEPT ![g] = r], Sourced(r),
         UNCHANGED << evidence, analyses >>
  PROVE  \A h \in Reports : Sourced(report[h])'
<1> TAKE h \in Reports
<1>1. report'[h] = IF h = g THEN r ELSE report[h]  BY DEF SourceInv, AgreeInv, RunsTyped
<1>2. Sourced(report'[h])  BY <1>1 DEF SourceInv, Source
<1> QED BY <1>2 DEF Sourced, Versions

\* What goes on around the runs.
LEMMA SurroundingsSourced ==
  ASSUME SourceInv,
         \/ ChangeComparables \/ ExpireContext
         \/ AdvisoryClose \/ ReadEntity \/ SaveEntity
         \/ \E p \in Processes : EvictContext(p) \/ RestartProcess(p)
  PROVE  Source'
<1> USE DEF SourceInv, Source
<1>1. CASE ChangeComparables
  <2>1. evidence \in Nat /\ evidence' = evidence + 1 /\ evidence' \in 1..(MaxChanges + 1)
    BY <1>1, ReportAssumption DEF ChangeComparables
  <2>2. 0..evidence \subseteq 0..evidence'
    BY <2>1, VersionsGrow
  <2>3. UNCHANGED << analyses, saved, mem, redis, report, internalValue, readValue, reportFaults >>
    BY <1>1 DEF ChangeComparables, Cache, Outcome
  <2>4. \A g \in Reports : Sourced(report[g])'  BY <2>2, <2>3 DEF Sourced, Versions
  <2> QED BY <2>1, <2>2, <2>3, <2>4 DEF Versions
<1>2. CASE ExpireContext
  BY <1>2 DEF ExpireContext, Outcome, Versions, Sourced
<1>3. ASSUME NEW p \in Processes, EvictContext(p) PROVE Source'
  BY <1>3 DEF EvictContext, Outcome, Versions, Sourced, AgreeInv, RunsTyped
<1>4. ASSUME NEW p \in Processes, RestartProcess(p) PROVE Source'
  <2>1. \A g \in Reports : report'[g] \in {NoReport, report[g]}
    BY <1>4 DEF RestartProcess
  <2>2. UNCHANGED << evidence, analyses >>
    BY <1>4 DEF RestartProcess
  <2>3. \A g \in Reports : Sourced(report[g])'
    BY <2>1, <2>2, NoReportSourced DEF Sourced, Versions
  <2>4. reportFaults' \in 0..MaxReportFaults
    BY <1>4, FaultCounted DEF RestartProcess
  <2> QED BY <1>4, <2>3, <2>4 DEF RestartProcess, Outcome, Versions, AgreeInv, RunsTyped
<1>5. CASE AdvisoryClose
  BY <1>5 DEF AdvisoryClose, Cache, Versions, Sourced
<1>6. CASE ReadEntity
  BY <1>6 DEF ReadEntity, Cache, Versions, Sourced
<1>7. CASE SaveEntity
  BY <1>7 DEF SaveEntity, Cache, Versions, Sourced
<1> QED BY <1>1, <1>2, <1>3, <1>4, <1>5, <1>6, <1>7

\* Runs that begin, an analysis with a new version of the context.
LEMMA StartSourced ==
  ASSUME SourceInv, NEW g \in Reports, NEW p \in Processes,
         Analyse(g, p) \/ Regenerate(g, p)
  PROVE  Source'
<1> USE DEF SourceInv, Source
<1>1. CASE Analyse(g, p)
  <2> DEFINE a == analyses + 1
             r == [NoReport EXCEPT !.stage = "saving", !.at = p, !.given = a]
  <2>1. /\ analyses \in Nat /\ analyses' = a /\ a \in 0..MaxAnalyses
        /\ saved' = saved /\ saved \in 0..a
        /\ UNCHANGED << evidence, internalValue, readValue, redis, reportFaults >>
    BY <1>1, ReportAssumption DEF Analyse, Outcome
  <2>2. Versions(analyses) \subseteq Versions(a) /\ a \in Versions(a) /\ None \in Versions(a)
    BY <2>1, VersionsGrow DEF Versions
  <2>3. \A q \in Processes : mem'[q] = IF q = p THEN a ELSE mem[q]
    BY <1>1 DEF Analyse, SetMemory, AgreeInv, RunsTyped
  <2>4. /\ report' = [report EXCEPT ![g] = r]
        /\ r.given = a /\ r.seen = None /\ r.figure = None
    BY <1>1 DEF Analyse, Begin, NoReport
  <2> HIDE DEF r, a
  <2>5. \A h \in Reports : Sourced(report[h])'
    <3> TAKE h \in Reports
    <3>1. report'[h] = IF h = g THEN r ELSE report[h]  BY <2>4 DEF AgreeInv, RunsTyped
    <3>2. /\ report'[h].given \in Versions(a) /\ report'[h].seen \in Versions(a)
          /\ report'[h].figure \in {None} \cup 0..evidence
      BY <2>2, <2>4, <3>1 DEF Sourced, Versions
    <3> QED BY <2>1, <3>2 DEF Sourced, Versions
  <2> QED BY <2>1, <2>2, <2>3, <2>5 DEF Versions
<1>2. CASE Regenerate(g, p)
  <2> DEFINE r == [NoReport EXCEPT !.stage = "asked", !.at = p, !.given = None]
  <2>1. report' = [report EXCEPT ![g] = r] /\ Sourced(r)
    BY <1>2, NoReportSourced DEF Regenerate, Begin, NoReport, Sourced
  <2>2. UNCHANGED << evidence, analyses, saved, mem, redis, internalValue, readValue,
                     reportFaults >>
    BY <1>2 DEF Regenerate, Cache, Outcome
  <2> HIDE DEF r
  <2> QED BY <2>1, <2>2, RunSourced DEF Versions
<1> QED BY <1>1, <1>2

\* The save of an analysis brings its own version.
LEMMA SavedSourced ==
  ASSUME SourceInv, NEW g \in Reports, SaveToRedis(g)
  PROVE  Source'
<1> USE DEF SourceInv, Source
<1> DEFINE r == [report[g] EXCEPT !.stage = "asked"]
<1>1. /\ report[g] \in ReportRun /\ Sourced(report[g]) /\ report[g].given \in Nat
      /\ None \notin Nat
  BY ReportAssumption DEF SaveToRedis, At, AgreeInv, RunsTyped, ReportRun
<1>2. Sourced(r) /\ report' = [report EXCEPT ![g] = r]
  BY <1>1 DEF Sourced, ReportRun, SaveToRedis, Goes
<1>3. UNCHANGED << evidence, analyses, mem, internalValue, readValue >>
  BY DEF SaveToRedis, Outcome
<1>4. report[g].given \in 1..analyses
  BY <1>1 DEF Sourced, Versions
<1>5. redis' \in Versions(analyses) /\ saved' \in 0..analyses
  BY <1>4 DEF SaveToRedis, Versions
<1>6. reportFaults' \in 0..MaxReportFaults
  BY FaultCounted DEF SaveToRedis
<1> HIDE DEF r
<1>7. \A h \in Reports : Sourced(report[h])'
  BY <1>2, <1>3, RunSourced
<1> QED BY <1>3, <1>5, <1>6, <1>7 DEF Versions

\* A run that goes on reads what is there.
LEMMA RunsSourced ==
  ASSUME SourceInv, NEW g \in Reports,
         \/ ReadCase(g) \/ RestoreContext(g) \/ RememberContext(g)
         \/ UpdateInternalAssessedValue(g) \/ CallClaude(g) \/ ClaudeFails(g)
         \/ UploadReport(g) \/ CreateArtifactRecord(g)
         \/ UpdateAnalysisReportPath(g) \/ FailReport(g)
  PROVE  Source'
<1> USE DEF SourceInv
<1>0. /\ UNCHANGED << evidence, analyses, saved, redis, readValue >> /\ report[g] \in ReportRun
      /\ Sourced(report[g]) /\ evidence \in Nat /\ analyses \in Nat
  BY DEF ReadCase, RestoreContext, RememberContext, UpdateInternalAssessedValue, CallClaude,
         ClaudeFails, UploadReport, CreateArtifactRecord, UpdateAnalysisReportPath, FailReport,
         Cache, Outcome, Source, AgreeInv, RunsTyped
<1>1. reportFaults' \in 0..MaxReportFaults
  BY FaultCounted
  DEF ReadCase, RestoreContext, RememberContext, UpdateInternalAssessedValue, CallClaude,
      ClaudeFails, UploadReport, CreateArtifactRecord, UpdateAnalysisReportPath, FailReport, Source
<1>2. \A p \in Processes : mem'[p] \in Versions(analyses)
  <2>1. CASE RememberContext(g)
    BY <1>0, <2>1 DEF RememberContext, Source, Sourced, AgreeInv, RunsTyped
  <2>2. CASE ~RememberContext(g)
    BY <2>2 DEF ReadCase, RestoreContext, UpdateInternalAssessedValue, CallClaude,
         ClaudeFails, UploadReport, CreateArtifactRecord, UpdateAnalysisReportPath, FailReport,
         Cache, Source
  <2> QED BY <2>1, <2>2
<1>3. internalValue' \in {Other} \cup 0..evidence
  <2>1. CASE UpdateInternalAssessedValue(g)
    <3>1. report[g].figure # None
      BY <1>0, <2>1 DEF UpdateInternalAssessedValue, At, ReportRun, HeldStages
    <3> QED BY <1>0, <2>1, <3>1 DEF UpdateInternalAssessedValue, Sourced
  <2>2. CASE ~UpdateInternalAssessedValue(g)
    BY <2>2 DEF ReadCase, RestoreContext, RememberContext, CallClaude,
         ClaudeFails, UploadReport, CreateArtifactRecord, UpdateAnalysisReportPath, FailReport,
         Outcome, Source
  <2> QED BY <2>1, <2>2
<1>4. \E r : report' = [report EXCEPT ![g] = r] /\ Sourced(r)
  <2>1. CASE ReadCase(g)
    <3> DEFINE r == [report[g] EXCEPT !.stage = "context",
                                      !.figure = ContendedValue(evidence)]
    <3>1. ContendedValue(evidence) \in 0..evidence
      BY <1>0 DEF ContendedValue, NoFigure
    <3>2. Sourced(r)  BY <1>0, <3>1 DEF Sourced, ReportRun
    <3>3. report' = [report EXCEPT ![g] = r]  BY <2>1 DEF ReadCase
    <3> QED BY <3>2, <3>3
  <2>2. CASE RestoreContext(g)
    <3>1. PICK c \in Versions(analyses), stage \in {"figure", "remember"} : Uses(g, c, stage)
      <4>1. report[g].at \in Processes
        <5>1. ~At(g, "idle")  BY <2>2 DEF RestoreContext, At
        <5> QED BY <5>1, BusyRun
      <4>2. /\ report[g].given \in Versions(analyses) /\ mem[report[g].at] \in Versions(analyses)
            /\ redis \in Versions(analyses) /\ None \in Versions(analyses)
        BY <1>0, <4>1 DEF Sourced, Source, Versions
      <4> QED BY <2>2, <4>2 DEF RestoreContext
    <3> DEFINE r == [report[g] EXCEPT !.stage = stage, !.seen = c, !.latest = saved]
    <3>2. Sourced(r)  BY <1>0 DEF Sourced, ReportRun
    <3>3. report' = [report EXCEPT ![g] = r]  BY <3>1 DEF Uses
    <3> QED BY <3>2, <3>3
  <2>3. CASE RememberContext(g)
    <3> DEFINE r == [report[g] EXCEPT !.stage = "figure"]
    <3>1. Sourced(r)  BY <1>0 DEF Sourced, ReportRun
    <3>2. report' = [report EXCEPT ![g] = r]  BY <2>3 DEF RememberContext, Goes
    <3> QED BY <3>1, <3>2
  <2>4. CASE UpdateInternalAssessedValue(g)
    <3> DEFINE r == [NoReport EXCEPT !.stage = "writing", !.at = report[g].at,
                                     !.figure = report[g].figure]
    <3>1. Sourced(r)  BY <1>0, NoReportSourced DEF Sourced, NoReport
    <3>2. report' = [report EXCEPT ![g] = r]  BY <2>4 DEF UpdateInternalAssessedValue
    <3> QED BY <3>1, <3>2
  <2>5. CASE CallClaude(g)
    <3>1. PICK echo : report' = [report EXCEPT ![g].stage = "answered", ![g].echo = echo,
                                               ![g].retried = FALSE]
      BY <2>5 DEF CallClaude
    <3> DEFINE r == [report[g] EXCEPT !.stage = "answered", !.echo = echo, !.retried = FALSE]
    <3>2. Sourced(r)  BY <1>0 DEF Sourced, ReportRun
    <3>3. report' = [report EXCEPT ![g] = r]  BY <3>1
    <3> QED BY <3>2, <3>3
  <2>6. CASE ClaudeFails(g)
    <3> DEFINE r == IF report[g].retried THEN NoReport ELSE [report[g] EXCEPT !.retried = TRUE]
    <3>1. Sourced(r)  BY <1>0, NoReportSourced DEF Sourced, ReportRun
    <3>2. report' = [report EXCEPT ![g] = r]  BY <2>6 DEF ClaudeFails
    <3> QED BY <3>1, <3>2
  <2>7. CASE UploadReport(g)
    <3> DEFINE r == [NoReport EXCEPT !.stage = "record", !.at = report[g].at]
    <3>1. Sourced(r)  BY NoReportSourced DEF Sourced, NoReport
    <3>2. report' = [report EXCEPT ![g] = r]  BY <2>7 DEF UploadReport
    <3> QED BY <3>1, <3>2
  <2>8. CASE CreateArtifactRecord(g)
    <3> DEFINE r == [report[g] EXCEPT !.stage = "path"]
    <3>1. Sourced(r)  BY <1>0 DEF Sourced, ReportRun
    <3>2. report' = [report EXCEPT ![g] = r]  BY <2>8 DEF CreateArtifactRecord, Goes
    <3> QED BY <3>1, <3>2
  <2>9. CASE UpdateAnalysisReportPath(g) \/ FailReport(g)
    BY <2>9, NoReportSourced DEF UpdateAnalysisReportPath, FailReport
  <2> QED BY <2>1, <2>2, <2>3, <2>4, <2>5, <2>6, <2>7, <2>8, <2>9
<1>5. \A h \in Reports : Sourced(report[h])'  BY <1>0, <1>4, RunSourced
<1> QED BY <1>0, <1>1, <1>2, <1>3, <1>5 DEF Source, Versions

\* The invariant is inductive.
LEMMA StepKeepsSourceInv == SourceInv /\ [ReportNext]_reportVars => SourceInv'
<1> SUFFICES ASSUME SourceInv, [ReportNext]_reportVars PROVE Source'
  BY StepKeepsAgreeInv DEF SourceInv
<1>1. CASE UNCHANGED reportVars
  BY <1>1 DEF reportVars, SourceInv, Source, Sourced, Versions
<1>2. CASE ReportNext
  BY <1>2, SurroundingsSourced, StartSourced, SavedSourced, RunsSourced DEF ReportNext
<1> QED BY <1>1, <1>2

\* So everything has its type.
LEMMA SourcedIsTyped == SourceInv => ReportTypeOK
BY DEF SourceInv, Source, Versions, AgreeInv, RunsTyped, ReportRun, ReportTypeOK

-----------------------------------------------------------------------------
(* The planning context *)

\* A copy at least as late as the last save.
Latest(c) == c = None \/ c >= saved

\* A run about to remember what it found in Redis has found the latest; what a
\* run that looked for a context found was no older than the latest then.
Fresh(r) ==
  /\ r.stage = "remember" => r.seen \in Nat /\ r.seen >= saved
  /\ r.given = None /\ r.seen # None => r.seen >= r.latest

\* An analysis on its way to Redis has left its context, or a later one, in the
\* memory of its process.
Covered(r) ==
  r.stage = "saving" => mem[r.at] = None \/ mem[r.at] >= r.given

\* While no save left an older copy, there is none.
CopiesFresh ==
  ~crossed =>
    /\ Latest(redis)
    /\ \A p \in Processes : Latest(mem[p])
    /\ \A g \in Reports : Fresh(report[g]) /\ Covered(report[g])

ContextInv == SourceInv /\ CopiesFresh

\* A process without a run has no old context in hand.
LEMMA NoReportFresh ==
  /\ Fresh(NoReport) /\ Covered(NoReport) /\ Fresh(NoReport)' /\ Covered(NoReport)'
  /\ NoReport.given = None /\ NoReport.seen = None /\ NoReport.stage = "idle"
BY DEF NoReport, Fresh, Covered

\* At the start there is no analysis and no copy.
LEMMA ContextInvInitially == ReportInit => ContextInv
BY SourceInvInitially, NoReportFresh DEF ReportInit, ContextInv, CopiesFresh, Latest

\* A run that goes on as it should, while the copies stay.
LEMMA QuietCopies ==
  ASSUME ContextInv, NEW g \in Reports, NEW r,
         report' = [report EXCEPT ![g] = r],
         Fresh(report[g]) => Fresh(r), r.stage # "saving",
         UNCHANGED << saved, redis, mem, crossed >>
  PROVE  CopiesFresh'
<1>1. \A h \in Reports : report'[h] = IF h = g THEN r ELSE report[h]
  BY DEF ContextInv, SourceInv, AgreeInv, RunsTyped
<1>2. CopiesFresh => \A h \in Reports : crossed \/ (Fresh(report'[h]) /\ Covered(report'[h]))
  BY <1>1 DEF CopiesFresh, Covered
<1> QED BY <1>2 DEF ContextInv, CopiesFresh, Latest, Fresh, Covered

\* A copy that is lost leaves the others, and what is done to the value them all.
LEMMA LostCopies ==
  ASSUME ContextInv,
         \/ ChangeComparables \/ ExpireContext
         \/ AdvisoryClose \/ ReadEntity \/ SaveEntity
         \/ \E p \in Processes : EvictContext(p)
  PROVE  CopiesFresh'
<1>1. /\ UNCHANGED << report, saved, crossed >>
      /\ redis' \in {redis, None}
      /\ \A p \in Processes : mem'[p] \in {mem[p], None}
  BY DEF ChangeComparables, ExpireContext, AdvisoryClose, ReadEntity, SaveEntity, EvictContext,
         Cache, ContextInv, SourceInv, AgreeInv, RunsTyped
<1>2. \A g \in Reports : Covered(report[g]) => Covered(report[g])'
  <2> SUFFICES ASSUME NEW g \in Reports, Covered(report[g]), report[g].stage = "saving"
               PROVE  mem'[report[g].at] = None \/ mem'[report[g].at] >= report[g].given
    BY <1>1 DEF Covered
  <2>1. report[g].at \in Processes
    BY DEF ContextInv, SourceInv, AgreeInv, RunsTyped, ReportRun
  <2> QED BY <1>1, <2>1 DEF Covered
<1> QED BY <1>1, <1>2 DEF ContextInv, CopiesFresh, Latest, Fresh

\* A process that restarts takes its copy and its runs along.
LEMMA RestartCopies ==
  ASSUME ContextInv, NEW p \in Processes, RestartProcess(p)
  PROVE  CopiesFresh'
<1>1. /\ UNCHANGED << saved, redis, crossed >>
      /\ \A q \in Processes : mem'[q] \in {mem[q], None} /\ (q # p => mem'[q] = mem[q])
      /\ \A g \in Reports : report'[g] \in {NoReport, report[g]}
      /\ \A g \in Reports : report[g].at = p => report'[g] = NoReport
  BY DEF RestartProcess, ContextInv, SourceInv, AgreeInv, RunsTyped
<1>2. \A g \in Reports : Covered(report[g]) => Covered(report[g])'
  <2> SUFFICES ASSUME NEW g \in Reports, Covered(report[g]), report'[g].stage = "saving"
               PROVE  \/ mem'[report'[g].at] = None
                      \/ mem'[report'[g].at] >= report'[g].given
    BY DEF Covered
  <2>1. report'[g] = report[g] /\ report[g].at # p
    BY <1>1, NoReportFresh
  <2>2. report[g].at \in Processes
    BY <2>1 DEF ContextInv, SourceInv, AgreeInv, RunsTyped, ReportRun
  <2> QED BY <1>1, <2>1, <2>2 DEF Covered
<1>3. \A g \in Reports : Fresh(report[g]) => Fresh(report[g])'
  BY <1>1, NoReportFresh DEF Fresh
<1> QED
  BY <1>1, <1>2, <1>3 DEF ContextInv, CopiesFresh, Latest

\* An analysis puts a context in memory that is later than all there are.
LEMMA AnalyseCopies ==
  ASSUME ContextInv, NEW g \in Reports, NEW p \in Processes, Analyse(g, p)
  PROVE  CopiesFresh'
<1> SUFFICES ASSUME ~crossed' PROVE CopiesFresh'
  BY DEF CopiesFresh
<1> DEFINE c == analyses + 1
           run == [NoReport EXCEPT !.stage = "saving", !.at = p, !.given = c]
<1>1. /\ UNCHANGED << saved, redis, crossed >>
      /\ \A q \in Processes : mem'[q] = IF q = p THEN c ELSE mem[q]
      /\ \A h \in Reports : report'[h] = IF h = g THEN run ELSE report[h]
  BY DEF ContextInv, SourceInv, AgreeInv, RunsTyped, Analyse, SetMemory, Begin
<1>2. /\ analyses \in Nat /\ saved \in 0..analyses /\ c \in Nat /\ c > analyses /\ c # None
  BY ReportAssumption DEF ContextInv, SourceInv, Source
<1>3. run.given = c /\ run.seen = None /\ run.stage = "saving" /\ run.at = p
  BY DEF NoReport
<1> HIDE DEF run
<1>4. \A q \in Processes : Latest(mem[q])'
  BY <1>1, <1>2 DEF ContextInv, CopiesFresh, Latest
<1>5. \A h \in Reports : Fresh(report[h])'
  BY <1>1, <1>2, <1>3 DEF ContextInv, CopiesFresh, Fresh
<1>6. \A h \in Reports : Covered(report[h])'
  <2> SUFFICES ASSUME NEW h \in Reports, report'[h].stage = "saving"
               PROVE  \/ mem'[report'[h].at] = None
                      \/ mem'[report'[h].at] >= report'[h].given
    BY DEF Covered
  <2>1. CASE h = g
    BY <1>1, <1>2, <1>3, <2>1
  <2>2. CASE h # g
    <3>1. /\ report'[h] = report[h] /\ report[h].at \in Processes
          /\ report[h].given \in 1..analyses
      BY <1>1, <2>2, ReportAssumption
      DEF ContextInv, SourceInv, AgreeInv, RunsTyped, ReportRun, Source, Sourced, Versions
    <3>2. Covered(report[h])
      BY <1>1 DEF ContextInv, CopiesFresh
    <3> QED BY <1>1, <1>2, <3>1, <3>2 DEF Covered
  <2> QED BY <2>1, <2>2
<1> QED
  BY <1>1, <1>4, <1>5, <1>6 DEF ContextInv, CopiesFresh, Latest

\* Its save is over: where that is not counted as leaving an older copy, there
\* is none.
LEMMA SavedCopies ==
  ASSUME ContextInv, NEW g \in Reports, SaveToRedis(g)
  PROVE  CopiesFresh'
<1> SUFFICES ASSUME ~crossed' PROVE CopiesFresh'
  BY DEF CopiesFresh
<1> DEFINE given == report[g].given
           run == [report[g] EXCEPT !.stage = "asked"]
<1>1. /\ report[g] \in ReportRun /\ report[g].at \in Processes /\ report[g].stage = "saving"
      /\ given \in Nat /\ saved \in Nat /\ given # None
      /\ saved' = IF given > saved THEN given ELSE saved
      /\ mem' = mem /\ mem \in [Processes -> Number] /\ redis \in Number
      /\ redis' \in {given, redis}
      /\ \A h \in Reports : report'[h] = IF h = g THEN run ELSE report[h]
  BY ReportAssumption
  DEF SaveToRedis, At, Goes, ContextInv, SourceInv, AgreeInv, RunsTyped, ReportRun
<1>2. run.given = given /\ run.seen = report[g].seen /\ run.stage = "asked"
  BY <1>1 DEF ReportRun
<1> HIDE DEF run
<1>3. /\ ~crossed /\ ~Older(redis')
      /\ \A q \in Processes \ {report[g].at} : ~Older(mem[q])
      /\ \A h \in Reports : At(h, "remember") => ~Older(report[h].seen)
  BY DEF SaveToRedis
<1>4. /\ \A q \in Processes : Latest(mem[q])
      /\ \A h \in Reports : Fresh(report[h]) /\ Covered(report[h])
  BY <1>3 DEF ContextInv, CopiesFresh
<1>5. Latest(redis)'
  BY <1>1, <1>3 DEF Older, Latest, Number
<1>6. \A q \in Processes : Latest(mem[q])'
  <2> TAKE q \in Processes
  <2>1. mem[q] \in Number
    BY <1>1
  <2>2. CASE q = report[g].at
    BY <1>1, <1>4, <2>1, <2>2 DEF Latest, Covered, Number
  <2>3. CASE q # report[g].at
    BY <1>1, <1>3, <2>1, <2>3 DEF Older, Latest, Number
  <2> QED BY <2>2, <2>3
<1>7. \A h \in Reports : Fresh(report[h])' /\ Covered(report[h])'
  <2> TAKE h \in Reports
  <2>1. CASE h = g
    BY <1>1, <1>2, <2>1 DEF Fresh, Covered
  <2>2. CASE h # g
    <3>1. report'[h] = report[h] /\ mem' = mem
      BY <1>1, <2>2
    <3>2. Covered(report[h])'
      BY <1>4, <3>1 DEF Covered
    <3>3. Fresh(report[h])'
      <4>1. report[h].stage = "remember" => report[h].seen \in Nat /\ report[h].seen >= saved'
        <5> SUFFICES ASSUME report[h].stage = "remember"
                     PROVE  report[h].seen \in Nat /\ report[h].seen >= saved'
          OBVIOUS
        <5>1. report[h].seen \in Nat /\ report[h].seen # None
          BY <1>4, ReportAssumption DEF Fresh
        <5>2. ~Older(report[h].seen)
          BY <1>3 DEF At
        <5> QED BY <1>1, <5>1, <5>2 DEF Older
      <4> QED BY <1>4, <3>1, <4>1 DEF Fresh
    <3> QED BY <3>2, <3>3
  <2> QED BY <2>1, <2>2
<1> QED BY <1>5, <1>6, <1>7 DEF CopiesFresh

\* A run looks for its context and remembers what Redis had.
LEMMA LookingCopies ==
  ASSUME ContextInv, NEW g \in Reports, RestoreContext(g) \/ RememberContext(g)
  PROVE  CopiesFresh'
<1>1. /\ report \in [Reports -> ReportRun] /\ mem \in [Processes -> Number]
      /\ redis \in Number /\ saved \in Nat
      /\ report[g] \in ReportRun /\ report[g].at \in Processes
  BY BusyRun DEF RestoreContext, RememberContext, At, ContextInv, SourceInv, AgreeInv, RunsTyped
<1>2. CASE RestoreContext(g)
  <2>1. UNCHANGED << saved, redis, mem, crossed >>
    BY <1>2 DEF RestoreContext, Cache
  <2>2. SUFFICES ASSUME ~crossed PROVE CopiesFresh'
    BY <2>1 DEF CopiesFresh
  <2>3. PICK c \in Number, stage \in {"figure", "remember"} :
          /\ Uses(g, c, stage)
          /\ stage = "remember" => c = redis /\ redis # None
          /\ report[g].given = None => c \in {mem[report[g].at], redis, None}
    <3>1. /\ report[g].given \in Number /\ mem[report[g].at] \in Number
          /\ redis \in Number /\ None \in Number
      BY <1>1 DEF ReportRun, Number
    <3>2. CASE report[g].given # None /\ Uses(g, report[g].given, "figure")
      BY <3>1, <3>2
    <3>3. CASE report[g].given = None /\ mem[report[g].at] # None
                 /\ Uses(g, mem[report[g].at], "figure")
      BY <3>1, <3>3
    <3>4. CASE report[g].given = None /\ redis # None /\ Uses(g, redis, "remember")
      BY <3>1, <3>4
    <3>5. CASE report[g].given = None /\ Uses(g, None, "figure")
      BY <3>1, <3>5
    <3> QED
      BY <1>2, <3>2, <3>3, <3>4, <3>5 DEF RestoreContext
  <2> DEFINE r == [report[g] EXCEPT !.stage = stage, !.seen = c, !.latest = saved]
  <2>4. report' = [report EXCEPT ![g] = r]
    BY <1>1, <2>3 DEF Uses
  <2>5. /\ r.stage = stage /\ r.seen = c /\ r.latest = saved
        /\ r.given = report[g].given
    BY <1>1 DEF ReportRun
  <2>6. Latest(redis) /\ Latest(mem[report[g].at])
    BY <1>1, <2>2 DEF ContextInv, CopiesFresh
  <2> HIDE DEF r
  <2>7. Fresh(r)
    BY <1>1, <2>3, <2>5, <2>6 DEF Fresh, Latest, Number
  <2> QED
    BY <2>1, <2>4, <2>5, <2>7, QuietCopies
<1>3. CASE RememberContext(g)
  <2> SUFFICES ASSUME ~crossed' PROVE CopiesFresh'
    BY DEF CopiesFresh
  <2> DEFINE seen == report[g].seen
             run == [report[g] EXCEPT !.stage = "figure"]
  <2>1. /\ UNCHANGED << saved, redis >> /\ report[g].stage = "remember"
        /\ ~crossed /\ ~(seen < analyses) /\ analyses \in Nat
        /\ \A q \in Processes : mem'[q] = IF q = report[g].at THEN seen ELSE mem[q]
        /\ \A h \in Reports : report'[h] = IF h = g THEN run ELSE report[h]
    BY <1>1, <1>3
    DEF RememberContext, Goes, At, ContextInv, SourceInv, AgreeInv, RunsTyped
  <2>2. run.given = report[g].given /\ run.seen = seen /\ run.stage = "figure"
        /\ run.latest = report[g].latest
    BY <1>1 DEF ReportRun
  <2> HIDE DEF run
  <2>3. \A h \in Reports : Fresh(report[h]) /\ Covered(report[h])
    BY <2>1 DEF ContextInv, CopiesFresh
  <2>4. seen \in Nat /\ seen >= saved /\ seen >= analyses
    BY <2>1, <2>3 DEF Fresh
  <2>5. \A q \in Processes : Latest(mem[q])'
    BY <2>1, <2>4 DEF ContextInv, CopiesFresh, Latest
  <2>6. \A h \in Reports : Fresh(report[h])'
    BY <2>1, <2>2, <2>3 DEF Fresh
  <2>7. \A h \in Reports : Covered(report[h])'
    <3> SUFFICES ASSUME NEW h \in Reports, report'[h].stage = "saving"
                 PROVE  \/ mem'[report'[h].at] = None
                        \/ mem'[report'[h].at] >= report'[h].given
      BY DEF Covered
    <3>1. report'[h] = report[h]
      BY <2>1, <2>2
    <3>2. report[h].at \in Processes /\ report[h].given \in 1..analyses
      BY <1>1, <3>1, ReportAssumption
      DEF ContextInv, SourceInv, ReportRun, Source, Sourced, Versions
    <3>3. Covered(report[h])
      BY <2>3
    <3> QED BY <2>1, <2>4, <3>1, <3>2, <3>3 DEF Covered
  <2> QED
    BY <2>1, <2>5, <2>6, <2>7 DEF ContextInv, CopiesFresh, Latest
<1> QED
  BY <1>2, <1>3

\* Everything else a run does leaves the copies and what it has seen alone, or
\* forgets what it has seen.
LEMMA RunCopies ==
  ASSUME ContextInv, NEW g \in Reports,
         \/ \E p \in Processes : Regenerate(g, p)
         \/ ReadCase(g) \/ UpdateInternalAssessedValue(g) \/ CallClaude(g)
         \/ ClaudeFails(g) \/ UploadReport(g) \/ CreateArtifactRecord(g)
         \/ UpdateAnalysisReportPath(g) \/ FailReport(g)
  PROVE  CopiesFresh'
<1>1. /\ report \in [Reports -> ReportRun] /\ report[g] \in ReportRun
      /\ UNCHANGED << saved, redis, mem, crossed >>
  BY DEF ContextInv, SourceInv, AgreeInv, RunsTyped, Regenerate, ReadCase,
         UpdateInternalAssessedValue, CallClaude, ClaudeFails, UploadReport,
         CreateArtifactRecord, UpdateAnalysisReportPath, FailReport, Cache
<1>2. \E r : /\ report' = [report EXCEPT ![g] = r]
             /\ \/ r.given = None /\ r.seen = None /\ r.stage \notin {"remember", "saving"}
                \/ /\ r.given = report[g].given /\ r.seen = report[g].seen
                   /\ r.latest = report[g].latest /\ r.stage \notin {"remember", "saving"}
  <2>1. CASE \E p \in Processes : Regenerate(g, p)
    <3>1. PICK p \in Processes : Regenerate(g, p)
      BY <2>1
    <3> DEFINE r == [NoReport EXCEPT !.stage = "asked", !.at = p, !.given = None]
    <3>2. report' = [report EXCEPT ![g] = r]
      BY <3>1 DEF Regenerate, Begin
    <3>3. r.given = None /\ r.seen = None /\ r.stage \notin {"remember", "saving"}
      BY DEF NoReport
    <3> QED
      BY <3>2, <3>3
  <2>2. CASE ReadCase(g)
    <3> DEFINE r == [report[g] EXCEPT !.stage = "context", !.figure = ContendedValue(evidence)]
    <3>1. report' = [report EXCEPT ![g] = r]
      BY <1>1, <2>2 DEF ReadCase
    <3>2. /\ r.given = report[g].given /\ r.seen = report[g].seen
          /\ r.latest = report[g].latest /\ r.stage \notin {"remember", "saving"}
      BY <1>1 DEF ReportRun
    <3> QED
      BY <3>1, <3>2
  <2>3. CASE UpdateInternalAssessedValue(g)
    <3> DEFINE r == [NoReport EXCEPT !.stage = "writing", !.at = report[g].at,
                                     !.figure = report[g].figure]
    <3>1. report' = [report EXCEPT ![g] = r]
      BY <2>3 DEF UpdateInternalAssessedValue
    <3>2. r.given = None /\ r.seen = None /\ r.stage \notin {"remember", "saving"}
      BY DEF NoReport
    <3> QED
      BY <3>1, <3>2
  <2>4. CASE CallClaude(g)
    <3>1. PICK echo : report' = [report EXCEPT ![g].stage = "answered", ![g].echo = echo,
                                               ![g].retried = FALSE]
      BY <2>4 DEF CallClaude
    <3> DEFINE r == [report[g] EXCEPT !.stage = "answered", !.echo = echo,
                                      !.retried = FALSE]
    <3>2. report' = [report EXCEPT ![g] = r]
      BY <1>1, <3>1
    <3>3. /\ r.given = report[g].given /\ r.seen = report[g].seen
          /\ r.latest = report[g].latest /\ r.stage \notin {"remember", "saving"}
      BY <1>1 DEF ReportRun
    <3> QED
      BY <3>2, <3>3
  <2>5. CASE ClaudeFails(g)
    <3> DEFINE r == IF report[g].retried THEN NoReport
                    ELSE [report[g] EXCEPT !.retried = TRUE]
    <3>1. report' = [report EXCEPT ![g] = r] /\ report[g].stage = "writing"
      BY <2>5 DEF ClaudeFails, At
    <3>2. CASE report[g].retried
      BY <3>1, <3>2, NoReportFresh
    <3>3. CASE ~report[g].retried
      <4>1. /\ r.given = report[g].given /\ r.seen = report[g].seen
            /\ r.latest = report[g].latest /\ r.stage \notin {"remember", "saving"}
        BY <1>1, <3>1, <3>3 DEF ReportRun
      <4> QED
        BY <3>1, <4>1
    <3> QED
      BY <3>2, <3>3
  <2>6. CASE UploadReport(g)
    <3> DEFINE r == [NoReport EXCEPT !.stage = "record", !.at = report[g].at]
    <3>1. report' = [report EXCEPT ![g] = r]
      BY <2>6 DEF UploadReport
    <3>2. r.given = None /\ r.seen = None /\ r.stage \notin {"remember", "saving"}
      BY DEF NoReport
    <3> QED
      BY <3>1, <3>2
  <2>7. CASE CreateArtifactRecord(g)
    <3> DEFINE r == [report[g] EXCEPT !.stage = "path"]
    <3>1. report' = [report EXCEPT ![g] = r]
      BY <1>1, <2>7 DEF CreateArtifactRecord, Goes
    <3>2. /\ r.given = report[g].given /\ r.seen = report[g].seen
          /\ r.latest = report[g].latest /\ r.stage \notin {"remember", "saving"}
      BY <1>1 DEF ReportRun
    <3> QED
      BY <3>1, <3>2
  <2>8. CASE UpdateAnalysisReportPath(g) \/ FailReport(g)
    BY <2>8, NoReportFresh DEF UpdateAnalysisReportPath, FailReport
  <2> QED
    BY <2>1, <2>2, <2>3, <2>4, <2>5, <2>6, <2>7, <2>8
<1>3. PICK r : /\ report' = [report EXCEPT ![g] = r]
               /\ (Fresh(report[g]) => Fresh(r)) /\ r.stage # "saving"
  BY <1>2 DEF Fresh
<1> QED
  BY <1>1, <1>3, QuietCopies

\* The invariant of the copies is inductive.
LEMMA StepKeepsContextInv ==
  ContextInv /\ [ReportNext]_reportVars => ContextInv'
<1> SUFFICES ASSUME ContextInv, [ReportNext]_reportVars PROVE CopiesFresh'
  BY StepKeepsSourceInv DEF ContextInv
<1>1. CASE UNCHANGED reportVars
  BY <1>1 DEF reportVars, ContextInv, CopiesFresh, Fresh, Covered, Latest
<1>2. CASE ReportNext
  BY <1>2, LostCopies, RestartCopies, AnalyseCopies, SavedCopies, LookingCopies, RunCopies
  DEF ReportNext
<1> QED
  BY <1>1, <1>2

\* No restart, eviction, expiry or failed run makes a report of its own rest on
\* a context older than the last one saved when it looked: only a save that
\* Redis missed or another overtook, one that found a copy in another process,
\* or a lookup that an analysis overtook leaves an older copy behind.
THEOREM RegeneratedFromLatest == ReportSpec => []RegeneratesFromLatest
<1>1. ContextInv => RegeneratesFromLatest
  BY DEF ContextInv, CopiesFresh, Fresh, RegeneratesFromLatest
<1> QED
  BY <1>1, ContextInvInitially, StepKeepsContextInv, PTL DEF ReportSpec

-----------------------------------------------------------------------------
(* The whole evidence of a case *)

\* The four parts together, whichever of them moves.
EvidenceInv ==
  /\ focus \in {"tiers", "selection", "figure", "value", "context"}
  /\ TiersInv /\ SelInv /\ FigureInv /\ SourceInv

\* A part that does not move starts as if it had nothing to do.
LEMMA EvidenceInvInit == Init => EvidenceInv
<1> SUFFICES ASSUME Init PROVE EvidenceInv  OBVIOUS
<1>1. TiersInv
  <2>1. CASE focus = "tiers"  BY <2>1, TiersInvInit DEF Init
  <2>2. CASE focus # "tiers"
    <3>1. returned = << >> /\ candidates = {} /\ prefetched = FALSE  BY <2>2 DEF Init
    <3>2. DOMAIN returned = 1..Len(returned) /\ Len(returned) \in Nat /\ DOMAIN returned = {}
      BY <3>1
    <3>3. RowsReturned  BY <3>2 DEF RowsReturned
    <3> QED BY <3>1, <3>3 DEF TiersInv
  <2> QED BY <2>1, <2>2
<1>2. SelInv  BY SelInvInit DEF Init
<1>3. FigureInv
  <2>1. CASE focus = "figure"  BY <2>1, FigureInvInit DEF Init
  <2>2. CASE focus # "figure"  BY <2>2 DEF Init, FigureInv
  <2> QED BY <2>1, <2>2
<1>4. SourceInv  BY SourceInvInitially DEF Init
<1> QED BY <1>1, <1>2, <1>3, <1>4 DEF EvidenceInv, Init

\* One part moves, the others stay.
LEMMA EvidenceInvNext == EvidenceInv /\ [Next]_vars => EvidenceInv'
<1> SUFFICES ASSUME EvidenceInv, [Next]_vars PROVE EvidenceInv'  OBVIOUS
<1>1. /\ focus' = focus
      /\ [PrefetchCandidateSales]_tierVars /\ [SelNext]_selVars
      /\ [ComputeFigure]_figureVars /\ [ReportNext]_reportVars
  BY DEF Next, vars
<1>2. TiersInv'  BY <1>1, TiersInvNext DEF EvidenceInv
<1>3. SelInv'  BY <1>1, SelInvNext DEF EvidenceInv
<1>4. FigureInv'  BY <1>1, FigureInvNext DEF EvidenceInv
<1>5. SourceInv'  BY <1>1, StepKeepsSourceInv DEF EvidenceInv
<1> QED BY <1>1, <1>2, <1>3, <1>4, <1>5 DEF EvidenceInv

\* What the selection gathers and stores has its type.
LEMMA SelectionIsTyped == SelInv => SelTypeOK
<1> SUFFICES ASSUME SelInv PROVE SelTypeOK  OBVIOUS
<1>1. accumulatedPool \in Seq(EntryType)  BY DEF SelInv, SelTyped
<1>2. \A e \in ToSet(accumulatedPool) : e.tier \in {"preferred", "widened", "extrapolated"}
  <2>1. \A i \in DOMAIN accumulatedPool : accumulatedPool[i] \in EntryType  BY <1>1
  <2>2. \A e \in ToSet(accumulatedPool) : e \in EntryType  BY <2>1 DEF ToSet
  <2> QED BY <2>2 DEF EntryType
<1>3. Ids(accumulatedPool) \subseteq resolvedIds  BY DEF SelInv, PoolInv
<1>4. Len(persisted) <= MAX_PERSISTED_COMPARABLES  BY DEF SelInv, StoredAtEnd
<1> QED BY <1>2, <1>3, <1>4 DEF SelInv, SelTyped, SelTypeOK

\* Only rows that were returned are taken.
LEMMA CandidatesReturned == TiersInv => candidates \subseteq DOMAIN returned
<1> SUFFICES ASSUME TiersInv, prefetched PROVE candidates \subseteq DOMAIN returned
  BY DEF TiersInv
<1>1. RowsReturned /\ candidates = AssembleTieredCandidates  BY DEF TiersInv
<1>2. PICK floor, extra :
        /\ Shares(floor, extra)
        /\ AssembleTieredCandidates =
             floor[1] \cup extra[1] \cup floor[2] \cup extra[2] \cup floor[3] \cup extra[3]
  BY <1>1, AssemblyShares
<1>3. \A t \in Tiers : floor[t] \subseteq TierRows(t) /\ extra[t] \subseteq TierRows(t)
  BY <1>2 DEF Shares, TierShare, Tiers
<1>4. \A t \in Tiers : floor[t] \cup extra[t] \subseteq DOMAIN returned
  BY <1>1, <1>3, TiersDisjoint
<1> QED BY <1>1, <1>2, <1>4 DEF Tiers

\* The figure is computed at most once.
LEMMA OneFigure == FigureInv => Len(medianRate) <= 1
<1> SUFFICES ASSUME FigureInv PROVE Len(medianRate) <= 1  OBVIOUS
<1>1. CASE medianRate = << >>  BY <1>1
<1>2. CASE medianRate = << Median(Ascending(Eligible(Rated))) >>
  <2>1. PICK figure : medianRate = << figure >>  BY <1>2
  <2> QED BY <2>1
<1> QED BY <1>1, <1>2 DEF FigureInv

\* From the search to the report everything has its type: what is taken was
\* returned, what is gathered was seen, no more is stored than may be, and a
\* report's figure and context are ones there were.
THEOREM EvidenceTyped == Spec => []EvidenceTypeOK
<1>1. EvidenceInv => EvidenceTypeOK
  BY SelectionIsTyped, CandidatesReturned, OneFigure, SourcedIsTyped
  DEF EvidenceInv, EvidenceTypeOK
<1> QED BY <1>1, EvidenceInvInit, EvidenceInvNext, PTL DEF Spec

\* A part that does not move has a start of its own all the same: no row was
\* returned, no comparable is stored.
LEMMA EvidencePartsStart == Init => TiersInit /\ SelInit /\ FigureInit /\ ReportInit
<1> SUFFICES ASSUME Init PROVE TiersInit /\ FigureInit  BY DEF Init
<1>1. TiersInit
  <2> SUFFICES ASSUME focus # "tiers" PROVE TiersInit  BY DEF Init
  <2> DEFINE Gives(one, two, three, bucket, vacant, twins, part, large) ==
        returned = [n \in 1..(one + two + three) |->
          [tier |-> IF n <= one THEN 1 ELSE IF n <= one + two THEN 2 ELSE 3,
           bucket |-> bucket[n], vacant |-> n \in vacant,
           dealing |-> IF n \in twins THEN Min(twins) ELSE n,
           whole |-> n \notin part, area |-> IF n \in large THEN 2 ELSE 1]]
        Start(one, two, three) ==
        \E bucket \in [1..(one + two + three) -> Buckets],
           vacant \in SUBSET (1..(one + two + three)),
           twins \in {{}} \cup kSubset(2, 1..(one + two + three)) :
        \E part \in SUBSET (IF Interests THEN twins ELSE {}),
           large \in {{}} \cup {{n} : n \in {n \in twins : \E m \in twins : m < n}} :
          Gives(one, two, three, bucket, vacant, twins, part, large)
  <2>1. returned = << >> /\ candidates = {} /\ prefetched = FALSE  BY DEF Init
  <2>2. 0 \in 0..Supply[1] /\ 0 \in 0..Supply[2] /\ 0 \in 0..Supply[3]
    BY TiersAssumption DEF Tiers
  <2>3. 1..(0 + 0 + 0) = {}  OBVIOUS
  <2>4. PICK b : b \in [1..(0 + 0 + 0) -> Buckets]
    <3>1. [n \in 1..(0 + 0 + 0) |-> n] \in [1..(0 + 0 + 0) -> Buckets]  BY <2>3
    <3> QED BY <3>1
  <2>5. Gives(0, 0, 0, b, {}, {}, {}, {})  BY <2>1, <2>3
  <2>6. Start(0, 0, 0)
    <3> HIDE DEF Gives
    <3>1. {} \in SUBSET (1..(0 + 0 + 0)) /\ {} \in {{}} \cup kSubset(2, 1..(0 + 0 + 0))
      OBVIOUS
    <3>2. {} \in SUBSET (IF Interests THEN {} ELSE {})  OBVIOUS
    <3>3. {} \in {{}} \cup {{n} : n \in {n \in {} : \E m \in {} : m < n}}  OBVIOUS
    <3>4. \E part \in SUBSET (IF Interests THEN {} ELSE {}),
             large \in {{}} \cup {{n} : n \in {n \in {} : \E m \in {} : m < n}} :
            Gives(0, 0, 0, b, {}, {}, part, large)
      BY <2>5, <3>2, <3>3, Zenon
    <3> QED BY <2>4, <3>1, <3>4, Zenon
  <2> HIDE DEF Start
  <2>7. \E one \in 0..Supply[1], two \in 0..Supply[2], three \in 0..Supply[3] :
          Start(one, two, three)
    BY <2>2, <2>6
  <2> QED BY <2>1, <2>7 DEF TiersInit, Start
<1>2. FigureInit
  <2> SUFFICES ASSUME focus # "figure" PROVE FigureInit  BY DEF Init
  <2>1. comparables = << >> /\ medianRate = << >>  BY DEF Init
  <2>2. 0 \in 0..RowCount /\ << >> \in [1..0 -> RowKinds]  BY FigureAssumption
  <2> QED BY <2>1, <2>2 DEF FigureInit
<1> QED BY <1>1, <1>2

\* The four take their steps as they do on their own, so that what is proved of
\* each holds of them together.
THEOREM EvidencePartsRun == Spec => TiersSpec /\ SelSpec /\ FigureSpec /\ ReportSpec
<1>1. [Next]_vars => /\ [PrefetchCandidateSales]_tierVars /\ [SelNext]_selVars
                     /\ [ComputeFigure]_figureVars /\ [ReportNext]_reportVars
  BY DEF Next, vars
<1> QED BY <1>1, EvidencePartsStart, PTL
        DEF Spec, TiersSpec, SelSpec, FigureSpec, ReportSpec
=============================================================================
