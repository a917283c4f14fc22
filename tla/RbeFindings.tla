---------------------------- MODULE RbeFindings ----------------------------
(***************************************************************************)
(* The record a review decides on, as it accumulates: findings and         *)
(* remediation plans are appended and never changed or deleted (the        *)
(* findings and remediation_plans triggers of repository.py).  What would  *)
(* the engine decide at each point?                                        *)
(***************************************************************************)
EXTENDS RbeDecision

CONSTANT Finding          \* finding identities

VARIABLES findings,       \* the findings filed so far
          remediated,     \* the ids that have an accepted plan
          sufficient      \* the specialists' assessment of the evidence

recordVars == <<findings, remediated, sufficient>>

FindingRecord == [id : Finding, severity : Severity, status : FindingStatus]

RecordTypeOK ==
    /\ findings \subseteq FindingRecord
    /\ IsFiniteSet(findings)
    /\ remediated \subseteq Finding
    /\ sufficient \in BOOLEAN

RecordInit == findings = {} /\ remediated = {} /\ sufficient \in BOOLEAN

\* A report files a finding under an id of its own.
File(f) ==
    /\ \A g \in findings : g.id # f.id
    /\ findings' = findings \cup {f}
    /\ UNCHANGED <<remediated, sufficient>>

\* The Methodology Auditor accepts a plan for a finding on record.
Accept(f) ==
    /\ f \in findings
    /\ remediated' = remediated \cup {f.id}
    /\ UNCHANGED <<findings, sufficient>>

RecordNext == \E f \in FindingRecord : File(f) \/ Accept(f)

RecordSpec == RecordInit /\ [][RecordNext]_recordVars
---------------------------------------------------------------------------
Current == SnapshotOf(findings, remediated, sufficient)

\* The engine always has a rule to apply, on every snapshot a review can
\* reach and not only on those _validate_total_coverage tries at start-up.
RulesAreTotal == \E rule \in Rule : Matches(rule, Current)

\* The outcome the engine signs is the one publish_decision will accept: the
\* profile's ordered rules and evaluate_outcome decide alike.
EngineAgreesWithPackage == Evaluate(Current) = EvaluateOutcome(Current)

\* How favourable an outcome is.
Rank(outcome) == CASE outcome = "FAIL" -> 0
                   [] outcome = "INSUFFICIENT_EVIDENCE" -> 1
                   [] outcome = "PASS_WITH_FINDINGS" -> 2
                   [] outcome = "PASS" -> 3

\* No finding, whatever its severity and status and whatever plans exist,
\* makes the outcome more favourable.
FindingsNeverHelp ==
    [][findings' # findings =>
          Rank(Evaluate(Current')) <= Rank(Evaluate(Current))]_recordVars

\* No accepted remediation plan makes the outcome less favourable.
PlansNeverHurt ==
    [][remediated' # remediated =>
          Rank(Evaluate(Current')) >= Rank(Evaluate(Current))]_recordVars
============================================================================
