SPECIFICATION Spec
CONSTANTS
    State <- MCState
    Initial <- MCInitial
    Terminal <- MCTerminal
    Transition <- MCTransition
    Client = {c1, c2, c3, c4}
    Key = {c1, c2, c3, c4}
    Ref = {e1}
    Stamp = {0, 1}
    Absent = Absent
    Wanted = {"SUBMITTED", "INTAKE_VALIDATION", "RETURNED"}
    MaxTries = 2
    MaxClock = 1
    MaxAudit = 5
SYMMETRY Symmetry
CHECK_DEADLOCK FALSE
INVARIANTS
    AtMostOnce
    AnswersTrue
