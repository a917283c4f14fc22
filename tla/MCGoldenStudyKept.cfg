SPECIFICATION Spec
CONSTANTS
    Session = {s1, s2}
    Source = {a, b}
    Verdict <- Verdicts
    MinSignals = 2
    MinSources = 2
    MaxCalls = 3
PROPERTIES ProductionKept
CHECK_DEADLOCK FALSE
