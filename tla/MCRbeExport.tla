----------------------------- MODULE MCRbeExport -----------------------------
(* Two exporters, three exports: one may crash half way, another overlap.   *)
EXTENDS RbeExport, TLC

Symmetry == Permutations(Exporter)
=============================================================================
