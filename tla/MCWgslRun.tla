----------------------------- MODULE MCWgslRun -----------------------------
(* The bounds for TLC: every kind of header in functions of five blocks, and *)
(* if-selections only in functions of six.                                   *)
EXTENDS WgslRun

AllSorts(k)    == IF k < 6 THEN {"if", "switch", "loop"} ELSE {"if"}
FewCases(k)    == IF k < 5 THEN 2 ELSE 1
OnlyIfs(k)     == {"if"}
OnlySwitches(k) == {"switch"}
TwoCases(k)    == 2
=============================================================================
