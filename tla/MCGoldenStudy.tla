---------------------------- MODULE MCGoldenStudy ----------------------------
(***************************************************************************)
(* Two sessions and two sources of evidence: every shared row has a rival, *)
(* a finding needs both sources.                                           *)
(***************************************************************************)
EXTENDS GoldenStudy, TLC

Symmetry == Permutations(Session) \cup Permutations(Source)
Verdicts == {"Approve Opportunity", "Needs More Evidence"}
=============================================================================
