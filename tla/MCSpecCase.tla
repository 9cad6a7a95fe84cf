----------------------------- MODULE MCSpecCase -----------------------------
(* The symmetry of the tasks of SpecCase: their identity is nowhere used.   *)
EXTENDS SpecCase, TLC

TaskSymmetry == Permutations(Tasks)
=============================================================================
