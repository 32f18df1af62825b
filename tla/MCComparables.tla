--------------------------- MODULE MCComparables ---------------------------
(***************************************************************************)
(* The evidence of a case, from the candidates of a search to the report,  *)
(* for one run of TLC: the candidates' tiers, the selection, the figure    *)
(* and the report.  Each gives the next its input, which the next takes    *)
(* from every input there can be, so that each is explored on its own:     *)
(* focus says which one moves, the others stay as they start.  The report  *)
(* is explored twice: its value, whatever else writes to it, with no       *)
(* analysis; and its context, with nothing else writing the value.         *)
(***************************************************************************)
EXTENDS ComparableSelection, CandidateTiers, HeadlineFigure, ValuationReport, TLC

Kind(band, size, zoning, reach, supports, sound) ==
  [band |-> band, size |-> size, zoning |-> zoning, reach |-> reach,
   supports |-> supports, sound |-> sound]

\* One for every rung and every reason to be left out.
MCSaleKinds ==
  { Kind("fresh", "preferred", "exact", 1, TRUE, TRUE),
    Kind("last_resort", "preferred", "exact", 2, TRUE, TRUE),
    Kind("recent", "widened", "exact", 1, TRUE, TRUE),
    Kind("adjusted", "outside", "exact", 1, TRUE, TRUE),
    Kind("recent", "preferred", "family", 2, TRUE, TRUE),
    Kind("adjusted", "preferred", "other", 1, TRUE, TRUE),
    Kind("fresh", "preferred", "exact", 1, TRUE, FALSE) }

MCFloors == << 0, 2, 1 >>
MCVacantFloors == << 0, 1, 1 >>
MCSupply == << 1, 3, 1 >>

\* Rates near each other and one far away, of two and of three digits.
MCRowKinds ==
  {[rate |-> r, whole |-> TRUE] : r \in {10, 12, 15, 100}}
    \cup {[rate |-> 100, whole |-> FALSE]}

VARIABLE focus

vars == << focus, tierVars, selVars, figureVars, reportVars >>

Init ==
  /\ focus \in {"tiers", "selection", "figure", "value", "context"}
  /\ IF focus = "tiers" THEN TiersInit
     ELSE returned = << >> /\ candidates = {} /\ prefetched = FALSE
  /\ focus # "selection" =>
       /\ dealing = [s \in Sales |-> s]
       /\ kind = [s \in Sales |-> CHOOSE k \in SaleKinds : TRUE]
  /\ SelInit
  /\ IF focus = "figure" THEN FigureInit
     ELSE comparables = << >> /\ medianRate = << >>
  /\ ReportInit

Next ==
  \/ /\ focus = "tiers" /\ PrefetchCandidateSales
     /\ UNCHANGED << focus, selVars, figureVars, reportVars >>
  \/ /\ focus = "selection" /\ SelNext
     /\ UNCHANGED << focus, tierVars, figureVars, reportVars >>
  \/ /\ focus = "figure" /\ ComputeFigure
     /\ UNCHANGED << focus, tierVars, selVars, reportVars >>
  \/ /\ focus = "value" /\ UNCHANGED << analyses, mem, redis >>
     /\ ReportNext
     /\ UNCHANGED << focus, tierVars, selVars, figureVars >>
  \/ /\ focus = "context" /\ UNCHANGED << evidence, readValue >>
     /\ ReportNext /\ internalValue' # Other
     /\ UNCHANGED << focus, tierVars, selVars, figureVars >>

Spec == Init /\ [][Next]_vars

\* Which run or process is which makes no difference.
Alike == Permutations(Reports) \cup Permutations(Processes)

EvidenceTypeOK ==
  /\ focus \in {"tiers", "selection", "figure", "value", "context"}
  /\ SelTypeOK
  /\ candidates \subseteq DOMAIN returned
  /\ Len(medianRate) <= 1
  /\ ReportTypeOK
=============================================================================
