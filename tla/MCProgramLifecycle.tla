------------------------- MODULE MCProgramLifecycle -------------------------
(* Model checking of ProgramLifecycle: two builders and two programs. *)
EXTENDS ProgramLifecycle, TLC

\* The slots of a kind are alike, and so are the units.
Symmetry == Permutations(Builders) \cup Permutations(Programs) \cup Permutations(Units)
=============================================================================
