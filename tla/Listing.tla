------------------------------ MODULE Listing ------------------------------
(***************************************************************************)
(* Finite sets as lists.  A member's place is the number of those that     *)
(* stand before it, so that what a list holds is known without following   *)
(* the sort that made it.                                                  *)
(***************************************************************************)
EXTENDS Naturals, FiniteSets

\* S as a list in the strict order before.
Listed(S, before) ==
  [n \in 1..Cardinality(S) |->
     CHOOSE s \in S : Cardinality({t \in S : << t, s >> \in before}) = n - 1]

\* Numbers by their keys; those with one key stay in their own order, as a
\* stable sort leaves them.
KeyOrder(S, key) ==
  {p \in S \X S : \/ key[p[1]] < key[p[2]]
                  \/ key[p[1]] = key[p[2]] /\ p[1] < p[2]}

ByKey(S, key) == Listed(S, KeyOrder(S, key))

InOrder(S) == ByKey(S, [s \in S |-> s])
=============================================================================
