---------------------------- MODULE RbeDecision ----------------------------
(***************************************************************************)
(* How a review's outcome is decided, twice: by the rules of the           *)
(* methodology profile, which DecisionEngine takes in order of priority    *)
(* (rbe_runtime/decision.py, docs/review-board/PROFILE.json), and by       *)
(* evaluate_outcome (controlled_authority/rbm_package.py), which the       *)
(* publication is checked against.                                         *)
(*                                                                         *)
(* A snapshot is what both look at: the numbers of unresolved findings of  *)
(* severity 1 and 2, how many of the latter have an accepted remediation   *)
(* plan, and whether the evidence is sufficient.                           *)
(***************************************************************************)
EXTENDS Naturals, FiniteSets

Severity == {"SEV-1", "SEV-2", "SEV-3", "SEV-4"}

\* profile.unresolved_finding_statuses.
UnresolvedStatus == {"OPEN", "CONTESTED", "UNDER_REVIEW"}

FindingStatus == UnresolvedStatus \cup {"CLOSED", "WITHDRAWN", "WAIVED"}

Outcome == {"PASS", "PASS_WITH_FINDINGS", "FAIL", "INSUFFICIENT_EVIDENCE"}

Snapshot == {c \in [sev1 : Nat, sev2 : Nat, accepted : Nat, sufficient : BOOLEAN] :
                c.accepted <= c.sev2}

\* The counts of evaluate: findings are records with an id, a severity and a
\* status, remediated is the set of ids with an accepted plan.
Unresolved(findings, severity) ==
    {f \in findings : f.status \in UnresolvedStatus /\ f.severity = severity}

Remediated(findings, remediated) ==
    {f \in Unresolved(findings, "SEV-2") : f.id \in remediated}

SnapshotOf(findings, remediated, sufficient) ==
    [sev1       |-> Cardinality(Unresolved(findings, "SEV-1")),
     sev2       |-> Cardinality(Unresolved(findings, "SEV-2")),
     accepted   |-> Cardinality(Remediated(findings, remediated)),
     sufficient |-> sufficient]
---------------------------------------------------------------------------
\* The rules, numbered by priority.
Rule == 1 .. 6

MatchesGap(rule, c) ==           \* a mutant: rule 2 starts at three
    CASE rule = 1 -> c.sev1 >= 1
      [] rule = 2 -> c.sev2 > 2
      [] rule = 3 -> c.sev2 = 1 /\ c.accepted = 0
      [] rule = 4 -> ~c.sufficient
      [] rule = 5 -> c.sev2 = 1 /\ c.accepted = 1
      [] rule = 6 -> c.sev1 = 0 /\ c.sev2 = 0 /\ c.sufficient

MatchesSwapped(rule, c) ==       \* a mutant: a plan counts against the review
    CASE rule = 1 -> c.sev1 >= 1
      [] rule = 2 -> c.sev2 >= 2
      [] rule = 3 -> c.sev2 = 1 /\ c.accepted = 1
      [] rule = 4 -> ~c.sufficient
      [] rule = 5 -> c.sev2 = 1 /\ c.accepted = 0
      [] rule = 6 -> c.sev1 = 0 /\ c.sev2 = 0 /\ c.sufficient

Matches(rule, c) ==
    CASE rule = 1 -> c.sev1 >= 1
      [] rule = 2 -> c.sev2 >= 2
      [] rule = 3 -> c.sev2 = 1 /\ c.accepted = 0
      [] rule = 4 -> ~c.sufficient
      [] rule = 5 -> c.sev2 = 1 /\ c.accepted = 1
      [] rule = 6 -> c.sev1 = 0 /\ c.sev2 = 0 /\ c.sufficient

RuleOutcomeLenient(rule) ==      \* a mutant: two SEV-2 findings pass
    CASE rule \in {1, 3} -> "FAIL"
      [] rule = 4 -> "INSUFFICIENT_EVIDENCE"
      [] rule \in {2, 5} -> "PASS_WITH_FINDINGS"
      [] rule = 6 -> "PASS"

RuleOutcome(rule) ==
    CASE rule \in {1, 2, 3} -> "FAIL"
      [] rule = 4 -> "INSUFFICIENT_EVIDENCE"
      [] rule = 5 -> "PASS_WITH_FINDINGS"
      [] rule = 6 -> "PASS"

\* The first rule that matches, in order of priority.
Selects(rule, c) == Matches(rule, c) /\ \A r \in Rule : Matches(r, c) => rule <= r

Evaluate(c) == RuleOutcome(CHOOSE rule \in Rule : Selects(rule, c))

EvaluateOutcomeEarly(c) ==       \* a mutant: the evidence is looked at first
    IF ~c.sufficient THEN "INSUFFICIENT_EVIDENCE"
    ELSE IF c.sev1 >= 1 \/ c.sev2 >= 2 \/ (c.sev2 = 1 /\ c.accepted = 0) THEN "FAIL"
    ELSE IF c.sev2 = 1 THEN "PASS_WITH_FINDINGS"
    ELSE "PASS"

\* evaluate_outcome, for a READY process.
EvaluateOutcome(c) ==
    IF c.sev1 >= 1 \/ c.sev2 >= 2 \/ (c.sev2 = 1 /\ c.accepted = 0) THEN "FAIL"
    ELSE IF ~c.sufficient THEN "INSUFFICIENT_EVIDENCE"
    ELSE IF c.sev2 = 1 THEN "PASS_WITH_FINDINGS"
    ELSE "PASS"
============================================================================
