--------------------------- MODULE HeadlineFigure ---------------------------
(***************************************************************************)
(* The firm's own rate for the land: of the newest comparable sales stored *)
(* for a case, sales of a part interest are left out, outliers are left    *)
(* out by Tukey's fences, and the median of what remains is the figure     *)
(* that is multiplied by the site area.                                    *)
(*                                                                         *)
(* A sale is its place in the order of contract dates, newest first; sales *)
(* of one day are in the order the database gives them.  Rates are whole   *)
(* dollars; a quartile is a multiple of a quarter and a median of a half,  *)
(* so both are scaled by Scale, and the fences by twice that.              *)
(***************************************************************************)
EXTENDS Integers, Sequences, FiniteSetsExt, Listing

CONSTANTS
  RowCount,    \* bound: comparables stored for the case
  RowKinds,    \* what a comparable may be
  MaxTaken,        \* rows getComparables takes
  MIN_SAMPLE_FOR_IQR_TRIM,
  NoRate

ASSUME FigureAssumption ==
  /\ RowCount \in Nat /\ MaxTaken \in Nat \ {0}
  /\ MIN_SAMPLE_FOR_IQR_TRIM \in Nat \ {0}
  /\ NoRate \notin Nat
  /\ \A k \in RowKinds : k.rate \in Nat \cup {NoRate} /\ k.whole \in BOOLEAN

VARIABLES
  comparables, \* the rows stored for the case, newest first; never changes
  medianRate   \* computed once; << >> before, << NoRate >> without sales

figureVars == << comparables, medianRate >>

Scale == 4

-----------------------------------------------------------------------------

FigureInit ==
  /\ \E n \in 0..RowCount : comparables \in [1..n -> RowKinds]
  /\ medianRate = << >>

\* getComparables
Taken == 1..Min({Len(comparables), MaxTaken})

\* A percentage that is negative or no number counts as a part, too.
Rated == {n \in Taken : comparables[n].whole /\ comparables[n].rate # NoRate}

Rate(n) == comparables[n].rate

\* Mutant: sorted as text, as sort does without a comparison.
AscendingAsText(rows) ==
  LET Text(r) == IF r < 100 THEN 10 * r ELSE r
      order == ByKey(rows, [n \in rows |-> Text(Rate(n))]) IN
  [i \in DOMAIN order |-> Rate(order[i])]

Ascending(rows) ==
  LET order == ByKey(rows, [n \in rows |-> Rate(n)]) IN
  [i \in DOMAIN order |-> Rate(order[i])]

\* percentile of the sorted rates at p quarters, by linear interpolation.
Percentile(sorted, p) ==
  LET rank == p * (Len(sorted) - 1)
      lo == rank \div 4
      hi == (rank + 3) \div 4 IN
  Scale * sorted[lo + 1]
    + (rank % 4) * (sorted[hi + 1] - sorted[lo + 1])

\* The sales that are no outliers; too few, or too much alike, all are kept.
Eligible(rows) ==
  LET sorted == Ascending(rows)
      q1 == Percentile(sorted, 1)
      q3 == Percentile(sorted, 3)
      iqr == q3 - q1 IN
  IF Cardinality(rows) < MIN_SAMPLE_FOR_IQR_TRIM \/ iqr = 0 THEN rows
  ELSE {n \in rows : /\ 2 * Scale * Rate(n) >= 2 * q1 - 3 * iqr
                     /\ 2 * Scale * Rate(n) <= 2 * q3 + 3 * iqr}

\* computeMedian
Median(sorted) ==
  LET mid == Len(sorted) \div 2 IN
  IF sorted = << >> THEN NoRate
  ELSE IF Len(sorted) % 2 = 1 THEN Scale * sorted[mid + 1]
  ELSE (Scale \div 2) * (sorted[mid] + sorted[mid + 1])

ComputeFigure ==
  /\ medianRate = << >>
  /\ medianRate' = << Median(Ascending(Eligible(Rated))) >>
  /\ UNCHANGED comparables

FigureSpec == FigureInit /\ [][ComputeFigure]_figureVars

-----------------------------------------------------------------------------

\* Trimming never empties the evidence and never carries the figure out of
\* the middle of it: with any rated whole interest among the rows taken there
\* is a figure, at least half of them stand behind it, and at least a quarter
\* of them are no dearer and a quarter no cheaper than it is, whatever the
\* outliers (classifyComparablesForMedian, computeMedian).
HeadlineInMiddleHalf ==
  medianRate # << >> =>
    LET figure == medianRate[1]
        NoDearer == {n \in Rated : Scale * Rate(n) <= figure}
        NoCheaper == {n \in Rated : Scale * Rate(n) >= figure} IN
    IF Rated = {} THEN figure = NoRate
    ELSE /\ figure # NoRate
         /\ 2 * Cardinality(Eligible(Rated)) >= Cardinality(Rated)
         /\ 4 * Cardinality(NoDearer) >= Cardinality(Rated)
         /\ 4 * Cardinality(NoCheaper) >= Cardinality(Rated)
=============================================================================
