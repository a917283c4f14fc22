SPECIFICATION Spec
CONSTANTS
    Session = {s1, s2}
    Source = {a, b}
    Verdict <- Verdicts
    MinSignals = 2
    MinSources = 2
    MaxCalls = 3
SYMMETRY Symmetry
INVARIANTS NoDemoInProduction RealOpportunity OppsPerAudit ActiveRunsNearOne
CHECK_DEADLOCK FALSE
