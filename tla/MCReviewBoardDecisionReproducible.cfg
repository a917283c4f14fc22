SPECIFICATION Spec
CONSTANTS
    s1 = s1
    s2 = s2
    Specialist = {s1, s2}
    Ref = {e1, e2}
    ReportOf <- MCReportOf
    PlanStatus = {"ACCEPTED"}
    MaxInFlight = 2
    MaxPackages = 2
    MaxCandidates = 2
CHECK_DEADLOCK FALSE
INVARIANT
    DecisionReproducible
