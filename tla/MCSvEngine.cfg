SPECIFICATION Spec
CONSTANTS
    None = None
    Cases <- MCCases
    Credits = {60, 95}
    Adjustments <- MCAdjustments
    Costs = {60, 70}
    Ids = {"EV10", "EV11"}
    MaxEdits = 2
    MaxRuns = 1
INVARIANTS
    VerdictGrounded
PROPERTIES
    DoubtNeverHelps
    EvidenceNeverHurts
CHECK_DEADLOCK FALSE
