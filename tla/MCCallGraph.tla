----------------------------- MODULE MCCallGraph -----------------------------
(* Model checking of CallGraph. *)
EXTENDS CallGraph, TLC

\* Functions are told apart by the order of their declaration only.
Symmetry == Permutations(Funcs) \cup Permutations(Vars)
=============================================================================
