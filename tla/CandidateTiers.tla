--------------------------- MODULE CandidateTiers ---------------------------
(***************************************************************************)
(* How the candidates of a first round are put together: three queries,    *)
(* same suburb, same postcode, same corridor of postcodes, whose rows are  *)
(* merged by id, reduced to one row a dealing, and shared out between the  *)
(* tiers, each round-robin over its time buckets, with a reserve for       *)
(* vacant land.                                                            *)
(*                                                                         *)
(* A wider query returns the rows of the narrower one again, so a row is   *)
(* tagged with the narrowest tier that returns it, and is known by its     *)
(* place in the merged list.                                               *)
(***************************************************************************)
EXTENDS Naturals, Sequences, FiniteSetsExt, Listing

CONSTANTS
  MAX_CANDIDATE_SALES,
  Floors,       \* of each tier: TIER1_TARGET, TIER2_FLOOR, TIER3_FLOOR
  VacantFloors, \* of each tier, carved out of the floor
  Supply,       \* bound: rows that are new in each tier's query
  Buckets, Interests  \* what a row may be

Tiers == 1..3

ASSUME TiersAssumption ==
  /\ MAX_CANDIDATE_SALES \in Nat
  /\ \A t \in Tiers : Floors[t] \in Nat /\ VacantFloors[t] \in Nat /\ Supply[t] \in Nat
  /\ \A t \in Tiers : VacantFloors[t] <= Floors[t]
  /\ Floors[1] + Floors[2] + Floors[3] <= MAX_CANDIDATE_SALES

VARIABLES
  returned,   \* the rows of the three queries, merged by id
  candidates, \* the places of those that are taken
  prefetched  \* whether they are known

tierVars == << returned, candidates, prefetched >>

\* At most two rows are of one dealing.
TiersInit ==
  /\ \E one \in 0..Supply[1], two \in 0..Supply[2], three \in 0..Supply[3] :
     LET Places == 1..(one + two + three)
         TierAt(n) == IF n <= one THEN 1 ELSE IF n <= one + two THEN 2 ELSE 3
         Later(S) == {n \in S : \E m \in S : m < n} IN
     \E bucket \in [Places -> Buckets], vacant \in SUBSET Places,
        twins \in {{}} \cup kSubset(2, Places) :
     \E part \in SUBSET (IF Interests THEN twins ELSE {}),
        large \in {{}} \cup {{n} : n \in Later(twins)} :
       returned = [n \in Places |->
         [tier |-> TierAt(n), bucket |-> bucket[n], vacant |-> n \in vacant,
          dealing |-> IF n \in twins THEN Min(twins) ELSE n,
          whole |-> n \notin part, area |-> IF n \in large THEN 2 ELSE 1]]
  /\ candidates = {} /\ prefetched = FALSE

-----------------------------------------------------------------------------

Least(m, n) == IF m <= n THEN m ELSE n

Vacant(rows) == {n \in rows : returned[n].vacant}

OfOneDealing(n) == {m \in DOMAIN returned : returned[m].dealing = returned[n].dealing}

\* A whole interest before a part of one, then vacant before improved land,
\* then the larger area.
Better(new, old) ==
  \/ new.whole /\ ~old.whole
  \/ /\ new.whole = old.whole
     /\ \/ new.vacant /\ ~old.vacant
        \/ new.vacant = old.vacant /\ new.area > old.area

\* Of each dealing one row stays, the first of the best,
DedupeByDealingNumber ==
  {n \in DOMAIN returned : \A m \in OfOneDealing(n) \ {n} :
     \/ Better(returned[n], returned[m])
     \/ n < m /\ ~Better(returned[m], returned[n])}

\* and keeps the place of the first of them all.
PlaceOf(n) == Min(OfOneDealing(n))

TierRows(t) == {n \in DedupeByDealingNumber : returned[n].tier = t}

\* The n-th row of every bucket before the next one of any, the buckets in
\* the order they appear in.
RoundRobin(rows) ==
  LET OfBucket(n) == {m \in rows : returned[m].bucket = returned[n].bucket}
      Turn(n) == Cardinality({m \in OfBucket(n) : PlaceOf(m) <= PlaceOf(n)})
      Opens(n) == Min({PlaceOf(m) : m \in OfBucket(n)}) IN
  ByKey(rows, [n \in rows |-> Turn(n) * (Len(returned) + 1) + Opens(n)])

SelectTimeDiverseSubset(rows, cap) ==
  IF Cardinality(rows) <= cap THEN rows ELSE {RoundRobin(rows)[n] : n \in 1..cap}

\* Mutant: the reserve is added on top of the target.
VacantOnTop(rows, target, vacantFloor) ==
  LET reserved == SelectTimeDiverseSubset(Vacant(rows),
                                          Least(vacantFloor, target)) IN
  IF Cardinality(rows) <= target THEN rows
  ELSE reserved \cup SelectTimeDiverseSubset(rows \ reserved, target)

SelectWithVacantFloor(rows, target, vacantFloor) ==
  LET reserved == SelectTimeDiverseSubset(Vacant(rows),
                                          Least(vacantFloor, target)) IN
  IF Cardinality(rows) <= target THEN rows
  ELSE reserved \cup SelectTimeDiverseSubset(rows \ reserved,
                                             target - Cardinality(reserved))

\* What the floors leave goes to the tiers in their order.
AssembleTieredCandidates ==
  LET floor == [t \in Tiers |->
        SelectWithVacantFloor(TierRows(t), Floors[t], VacantFloors[t])]
      Extra(t, leftover) ==
        SelectTimeDiverseSubset(TierRows(t) \ floor[t], leftover)
      left1 == MAX_CANDIDATE_SALES
        - (Cardinality(floor[1]) + Cardinality(floor[2]) + Cardinality(floor[3]))
      extra1 == Extra(1, left1)
      left2 == left1 - Cardinality(extra1)
      extra2 == Extra(2, left2)
      extra3 == Extra(3, left2 - Cardinality(extra2)) IN
  floor[1] \cup extra1 \cup floor[2] \cup extra2 \cup floor[3] \cup extra3

PrefetchCandidateSales ==
  /\ ~prefetched
  /\ prefetched' = TRUE
  /\ candidates' = AssembleTieredCandidates
  /\ UNCHANGED returned

TiersSpec == TiersInit /\ [][PrefetchCandidateSales]_tierVars

-----------------------------------------------------------------------------

Picked(t) == {n \in candidates : returned[n].tier = t}

\* The candidates are as many as there can be and no row or dealing comes
\* twice; every tier and its vacant land have their floor as far as there is
\* supply; and a tier gets more than its floor only when the tiers before it
\* are used up (assembleTieredCandidates' promise, whatever the supply).
BudgetShared ==
  prefetched =>
    /\ Cardinality(candidates) = Least(MAX_CANDIDATE_SALES,
         Cardinality(TierRows(1)) + Cardinality(TierRows(2))
           + Cardinality(TierRows(3)))
    /\ \A m, n \in candidates :
         returned[m].dealing = returned[n].dealing => m = n
    /\ \A t \in Tiers :
         LET picked == Cardinality(Picked(t)) IN
         /\ picked >= Least(Floors[t], Cardinality(TierRows(t)))
         /\ Cardinality(Vacant(Picked(t)))
              >= Least(VacantFloors[t], Cardinality(Vacant(TierRows(t))))
         /\ picked > Floors[t] =>
              \A u \in 1..(t - 1) : TierRows(u) = Picked(u)
=============================================================================
