----------------------------- MODULE MCSvEngine -----------------------------
(* The repository's five cases, two edits each, and an evaluation at any     *)
(* point; scenarios at, below and above the tolerance and the limit.         *)
EXTENDS SvEngine

MCCases == {build_prototype_case, validate_further_case, do_not_build_no_buyer_case,
            do_not_build_operability_case, borderline_case}
MCAdjustments == {-76, -30, 30}
=============================================================================
