--------------------------- MODULE MCRbeFindings ---------------------------
(* Three findings: one more than the largest count any rule distinguishes.  *)
EXTENDS RbeFindings, TLC

Symmetry == Permutations(Finding)
============================================================================
