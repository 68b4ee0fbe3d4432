------------------------------ MODULE MCAnalysis ------------------------------
(* Model values and symmetry for the model checking of Analysis. *)
EXTENDS Analysis, TLC

LockSymmetry == Permutations(Locks)
=============================================================================
