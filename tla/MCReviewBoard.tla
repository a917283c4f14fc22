--------------------------- MODULE MCReviewBoard ---------------------------
EXTENDS ReviewBoard, TLC

CONSTANTS s1, s2

Says(sufficiency, severity) == [sufficiency |-> sufficiency, severity |-> severity]

MCReportOf ==
    [s \in Seat |->
        CASE s = s1 -> {Says("SUFFICIENT", "SEV-2")}
          [] s = s2 -> {Says("SUFFICIENT", NoFinding), Says("INSUFFICIENT", NoFinding)}
          [] s = "SR" -> {Says("NOT_APPLICABLE", NoFinding), Says("NOT_APPLICABLE", "SEV-1")}
          [] s = "MA" -> {Says("NOT_APPLICABLE", NoFinding)}]

EvidenceSymmetry == Permutations(Ref)
============================================================================
