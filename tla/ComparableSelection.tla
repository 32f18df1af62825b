------------------------ MODULE ComparableSelection ------------------------
(***************************************************************************)
(* One generateComparableSales: rounds of ever wider searches, each giving *)
(* the sales that qualify by rule and those a language model proposes and  *)
(* the gates let through; then a search across zoning classes, then the    *)
(* best of everything seen; and in the end one selection over all that was *)
(* gathered, trimmed and stored.                                           *)
(*                                                                         *)
(* A sale is its id.  What the searches and gates look at is its kind: the *)
(* time band and size tier the adjustment gives it, its zoning against the *)
(* subject's, the first round whose radius reaches it, whether its         *)
(* adjusted rate is no higher than the assessed one (supports), and        *)
(* whether it is a whole interest sold before the valuation date (sound).  *)
(* The subject has an area, a zoning, an assessed value and a known place. *)
(***************************************************************************)
EXTENDS Naturals, Sequences, SequencesExt, FiniteSetsExt, Listing

CONSTANTS
  SaleCount,                 \* rows of property_sales_raw in reach
  SaleKinds,                 \* the kinds a row may be of
  TARGET_COMPARABLES, MINIMUM_COMPARABLES, MAX_PERSISTED_COMPARABLES,
  MAX_ROUNDS,
  MaxPicks                   \* bound: sales the model proposes in an answer

Sales == 1..SaleCount

ASSUME SelectionAssumption ==
  /\ SaleCount \in Nat /\ MaxPicks \in Nat
  /\ MINIMUM_COMPARABLES \in Nat \ {0}
  /\ TARGET_COMPARABLES \in Nat
  /\ MAX_PERSISTED_COMPARABLES \in Nat
  /\ MINIMUM_COMPARABLES <= TARGET_COMPARABLES
  /\ TARGET_COMPARABLES <= MAX_PERSISTED_COMPARABLES
  /\ MAX_ROUNDS \in Nat \ {0}

\* What a row's kind may say of it (time_band, size_tier, zoning_confidence).
ASSUME KindsAssumption ==
  \A k \in SaleKinds :
    /\ k.band \in {"fresh", "recent", "adjusted", "last_resort"}
    /\ k.size \in {"preferred", "widened", "outside"}
    /\ k.zoning \in {"exact", "family", "other", "blank"}
    /\ k.reach \in Nat \ {0}
    /\ k.supports \in BOOLEAN /\ k.sound \in BOOLEAN

VARIABLES
  kind, dealing,      \* of each sale; never change
  step,               \* what comes next
  roundsRun,
  seenPoolIds, seenDealingNumbers, resolvedIds,
  accumulatedPool,    \* gathered, in the order of gathering
  allConsideredPool,
  persisted,          \* the rows stored for the case
  doubled             \* history: sales one answer listed twice

selVars == << kind, dealing, step, roundsRun, seenPoolIds, seenDealingNumbers,
              resolvedIds, accumulatedPool, allConsideredPool, persisted,
              doubled >>

-----------------------------------------------------------------------------
\* Rungs and confidence

\* << time band, size tier >>, best first.  A stale sale outside the standard
\* size band has no rung.
SELECTION_RUNGS ==
  << << "fresh", "preferred" >>, << "recent", "preferred" >>, << "adjusted", "preferred" >>,
     << "fresh", "widened" >>, << "recent", "widened" >>, << "adjusted", "widened" >>,
     << "last_resort", "preferred" >>,
     << "fresh", "extrapolated" >>, << "recent", "extrapolated" >>,
     << "adjusted", "extrapolated" >>, << "last_resort", "extrapolated" >> >>

\* A gathered sale: its id and the size tier it is tagged with.
Entry(s, tier) == [id |-> s, tier |-> tier]
RungOf(e) == << kind[e.id].band, e.tier >>

\* The rung an entry stands on, the best first; 0 without one.
Rank(e) == SelectInSeq(SELECTION_RUNGS, LAMBDA rung : rung = RungOf(e))

Ids(entries) == {e.id : e \in ToSet(entries)}

\* Mutant: the pool's own order, up to the target.
SelectInOrder(pool) ==
  SubSeq(pool, 1, IF Len(pool) > MAX_PERSISTED_COMPARABLES
                  THEN MAX_PERSISTED_COMPARABLES ELSE Len(pool))

\* Whole rungs, best first, until the target is reached: a rung is walked when
\* fewer than the target stand on the rungs before it.
Walked(pool) ==
  {i \in DOMAIN pool :
     /\ Rank(pool[i]) # 0
     /\ Cardinality({j \in DOMAIN pool : Rank(pool[j]) \in 1..Rank(pool[i]) - 1})
          < TARGET_COMPARABLES}

\* By rung, and within one in the order of gathering.
SelectByTimeBandPreference(pool) ==
  LET places == ByKey(Walked(pool), [i \in DOMAIN pool |-> Rank(pool[i])])
  IN [n \in DOMAIN places |-> pool[places[n]]]

SameFamily(s) == kind[s].zoning \in {"exact", "family"}

Ideal(e) ==
  /\ kind[e.id].band \in {"fresh", "recent"}
  /\ SameFamily(e.id)
  /\ e.tier # "extrapolated"

\* IDEAL_EVIDENCE_RATIO_THRESHOLD is four in five.
Strong(selected) ==
  /\ Len(selected) >= TARGET_COMPARABLES
  /\ 5 * Len(SelectSeq(selected, Ideal)) >= 4 * Len(selected)

Selected == SelectByTimeBandPreference(accumulatedPool)
Insufficient == Len(Selected) < MINIMUM_COMPARABLES

-----------------------------------------------------------------------------
\* Gates

Sound(s) == kind[s].sound
Supports(s) == kind[s].supports

AutoIncludable(s) ==
  /\ Sound(s) /\ Supports(s)
  /\ kind[s].zoning = "exact"
  /\ kind[s].size \in {"preferred", "widened"}
  /\ ~(kind[s].size = "widened" /\ kind[s].band = "last_resort")

\* Mutant: a proposal is believed on the model's own word.
BelievesAnswer(s, justified, lastResort) == Supports(s)

\* runComparableRound's gates.  A blank zoning never passes, another class
\* only in the last resort, another zoning only with a justification.
PassesGates(s, justified, lastResort) ==
  /\ Sound(s)
  /\ kind[s].size = "preferred"
  /\ lastResort \/ SameFamily(s)
  /\ kind[s].zoning # "blank"
  /\ kind[s].zoning = "exact" \/ justified
  /\ Supports(s)

-----------------------------------------------------------------------------

SelInit ==
  /\ kind \in [Sales -> SaleKinds]
  /\ dealing \in [Sales -> Sales]
  /\ \A s \in Sales : dealing[s] <= s
  /\ step = "search" /\ roundsRun = 0
  /\ seenPoolIds = {} /\ seenDealingNumbers = {} /\ resolvedIds = {}
  /\ accumulatedPool = << >> /\ allConsideredPool = {}
  /\ persisted = << >> /\ doubled = {}

\* One row of each dealing, of those the query returns.
OnePerDealing(S) == \A s, t \in S : dealing[s] = dealing[t] => s = t

\* The rows of a query that are new by id and by dealing, within the radius.
Deduped(fetched) ==
  {s \in fetched : dealing[s] \notin seenDealingNumbers}
Within(S, radius) == {s \in S : kind[s].reach <= radius}

\* Mutant: what an earlier round resolved is not looked up.
AnySale(S) == S

Unresolved(S) == S \ resolvedIds

\* gatherRoundCandidates.  The answer may name rows of the prompt, rows found
\* with the search tool, which are read again, each once, and must be within
\* the radius, and one row of the prompt twice.  Without candidates the model
\* is not asked.
GatherRoundCandidates(geo, radius, lastResort) ==
  LET auto == Unresolved({s \in geo : AutoIncludable(s)})
      llmPool == Unresolved(geo) \ auto IN
  \E answer \in SUBSET Sales, justified \in BOOLEAN :
    /\ Cardinality(answer) <= (IF llmPool = {} THEN 0 ELSE MaxPicks)
    /\ \E twice \in {{}} \cup {{s} : s \in answer \cap llmPool} :
         LET supporting == {s \in Unresolved(answer) \ auto :
               /\ s \in llmPool \/ kind[s].reach <= radius
               /\ PassesGates(s, justified, lastResort)}
             listed == InOrder(supporting) \o InOrder(supporting \cap twice) IN
         /\ accumulatedPool' = accumulatedPool
              \o [n \in 1..Cardinality(auto) |->
                    Entry(InOrder(auto)[n], kind[InOrder(auto)[n]].size)]
              \o [n \in 1..Len(listed) |-> Entry(listed[n], "preferred")]
         /\ resolvedIds' = resolvedIds \cup auto \cup supporting
         /\ doubled' = doubled \cup (supporting \cap twice)

Search(fetchable, radius, lastResort) ==
  \E fetched \in SUBSET (fetchable \ seenPoolIds) :
    LET geo == Within(Deduped(fetched), radius) IN
    /\ OnePerDealing(fetched)
    /\ seenPoolIds' = seenPoolIds \cup fetched
    /\ seenDealingNumbers' =
         seenDealingNumbers \cup {dealing[s] : s \in fetched}
    /\ allConsideredPool' = allConsideredPool \cup geo
    /\ GatherRoundCandidates(geo, radius, lastResort)

\* Rounds 1 to MAX_ROUNDS, all within the subject's zoning family.
RunRound ==
  /\ step = "search"
  /\ roundsRun < MAX_ROUNDS
  /\ roundsRun = 0 \/ ~Strong(Selected)
  /\ Search({s \in Sales : SameFamily(s)}, roundsRun + 1, FALSE)
  /\ roundsRun' = roundsRun + 1
  /\ UNCHANGED << kind, dealing, step, persisted >>

RoundsOver ==
  step = "search" /\ roundsRun > 0
                  /\ (roundsRun = MAX_ROUNDS \/ Strong(Selected))

ZoningLastResort ==
  /\ RoundsOver /\ Insufficient
  /\ Search(Sales, MAX_ROUNDS, TRUE)
  /\ step' = "ranked"
  /\ UNCHANGED << kind, dealing, roundsRun, persisted >>

\* Mutant: only rows within the wider size band are ranked.
RankableInBand ==
  {s \in Unresolved(allConsideredPool) :
     Sound(s) /\ Supports(s) /\ kind[s].size # "outside"}

Rankable == {s \in Unresolved(allConsideredPool) : Sound(s) /\ Supports(s)}

\* selectRankedLastResortCandidates: as many as are missing, the closest by a
\* weighted score.
RankedLastResort ==
  /\ step = "ranked" /\ Insufficient
  /\ LET needed == MINIMUM_COMPARABLES - Len(Selected)
         count == IF Cardinality(Rankable) < needed
                  THEN Cardinality(Rankable) ELSE needed IN
     \E closest \in kSubset(count, Rankable) :
       /\ accumulatedPool' = accumulatedPool \o
            [n \in 1..count |-> Entry(InOrder(closest)[n], "extrapolated")]
       /\ resolvedIds' = resolvedIds \cup closest
  /\ step' = "persist"
  /\ UNCHANGED << kind, dealing, roundsRun, seenPoolIds, seenDealingNumbers,
                  allConsideredPool, persisted, doubled >>

\* Mutant: not trimmed.
Untrimmed(selected) == selected

Trimmed(selected) ==
  SubSeq(selected, 1, Min({Len(selected), MAX_PERSISTED_COMPARABLES}))

PersistComparables ==
  /\ \/ step = "persist"
     \/ step = "ranked" /\ ~Insufficient
     \/ RoundsOver /\ ~Insufficient
  /\ persisted' = Trimmed(Selected)
  /\ step' = "done"
  /\ UNCHANGED << kind, dealing, roundsRun, seenPoolIds, seenDealingNumbers,
                  resolvedIds, accumulatedPool, allConsideredPool, doubled >>

\* The model's service fails, its answer cannot be read, or the one save of
\* all rows fails: nothing is stored.
AbortGeneration ==
  /\ step \in {"search", "ranked", "persist"}
  /\ step' = "aborted"
  /\ UNCHANGED << kind, dealing, roundsRun, seenPoolIds, seenDealingNumbers,
                  resolvedIds, accumulatedPool, allConsideredPool, persisted,
                  doubled >>

SelNext ==
  \/ RunRound \/ ZoningLastResort \/ RankedLastResort \/ PersistComparables
  \/ AbortGeneration

SelSpec == SelInit /\ [][SelNext]_selVars

-----------------------------------------------------------------------------

SelTypeOK ==
  /\ step \in {"search", "ranked", "persist", "done", "aborted"}
  /\ roundsRun \in 0..MAX_ROUNDS
  /\ seenPoolIds \subseteq Sales
  /\ allConsideredPool \subseteq seenPoolIds
  /\ Ids(accumulatedPool) \subseteq resolvedIds
  /\ resolvedIds \subseteq Sales
  /\ \A e \in ToSet(accumulatedPool) :
       e.tier \in {"preferred", "widened", "extrapolated"}
  /\ Len(persisted) <= MAX_PERSISTED_COMPARABLES

\* A sale is stored once, whichever of the rounds, the rule, the model and the
\* ranking came upon it and in whatever order, unless one answer of the model
\* named it twice (gatherRoundCandidates: resolvedIds).
EachSaleOnce ==
  \A m, n \in DOMAIN persisted :
    persisted[m].id = persisted[n].id => m = n \/ persisted[m].id \in doubled

\* A case ends below the minimum only when nothing is left to try: every round
\* was run, and every sale that was seen, is sound and supports the objection
\* is stored, whatever its size or zoning (the ranked last resort).
ShortOnlyWhenExhausted ==
  step = "done" /\ Len(persisted) < MINIMUM_COMPARABLES =>
    /\ roundsRun = MAX_ROUNDS
    /\ \A s \in allConsideredPool :
         Sound(s) /\ Supports(s) => s \in Ids(persisted)

\* Nothing is stored while something of a better rung, from whichever round,
\* is left out (selection over the whole pool, then the trim).
BestStored ==
  step = "done" =>
    \A e \in ToSet(persisted), f \in ToSet(accumulatedPool) \ ToSet(persisted) :
      Rank(e) <= Rank(f)

\* Whatever a case rests on passed the gates, the row's own values deciding and
\* not the answer that named it; and what is beyond the tolerances stands only
\* where the regular evidence fell short of the minimum.
StoredIsSupport ==
  /\ \A e \in ToSet(persisted) :
       /\ Sound(e.id) /\ Supports(e.id)
       /\ kind[e.id].reach <= MAX_ROUNDS
       /\ e.tier = "extrapolated" \/ kind[e.id].size = e.tier
  /\ (\E e \in ToSet(persisted) : e.tier = "extrapolated") =>
       Cardinality({n \in DOMAIN persisted : persisted[n].tier # "extrapolated"})
         < MINIMUM_COMPARABLES

=============================================================================
