--------------------------- MODULE MCStudyEvidence ---------------------------
(* All phrases, three of them the gate needs and one or two that disturb it; *)
(* findings below, at and above the audit's thresholds (5 events, 8 sources). *)
EXTENDS StudyEvidence
=============================================================================
