---------------------------- MODULE MCRunCleanup ----------------------------
(* Model-checking instance of RunCleanup: interchangeable runs.            *)
EXTENDS RunCleanup, TLC

Symmetry == Permutations(Runs)
=============================================================================
