CONSTANTS
    u1 = u1
    u2 = u2
    Session = {u1, u2}
    MaxRetries = 1
    MaxCalls = 3
    MaxRuns = 2
    Decision = {"approved", "rejected"}
    Offered = {"none"}
    Typed = {1}
SPECIFICATION Spec
SYMMETRY Sessions
INVARIANTS
    NothingLeftRunning
    RetriesNearBudget
    Lineage
    StatusBacked
CHECK_DEADLOCK FALSE
