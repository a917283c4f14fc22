SPECIFICATION FairSpec
CONSTANTS
    State <- MCState
    Initial = "DRAFT"
    Terminal = {"ARCHIVED"}
    Transition <- MCTransition
    Key = {k1, k2}
    Ref = {e1}
    Stamp = {t1}
    Absent = Absent
    Process = {p1, p2}
    None = None
    MaxAudit = 4
INVARIANTS
    TypeOK
    Serial
    AuditLinked
    AuditReplays
    AppliedOnce
    AnswerIsDurable
PROPERTIES
    RefusalOnlyAudits
    AppendOnly
    ImplementsLedger
    LockReleased
