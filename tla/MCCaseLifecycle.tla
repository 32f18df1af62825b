-------------------------- MODULE MCCaseLifecycle --------------------------
(* References only differ from one another: any permutation is a symmetry.  *)
EXTENDS CaseLifecycle, TLC

ReferenceSymmetry == Permutations(References)
=============================================================================
