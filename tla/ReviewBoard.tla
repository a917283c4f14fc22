---------------------------- MODULE ReviewBoard ----------------------------
(***************************************************************************)
(* One review session, driven by several clients at once through           *)
(* RBERuntime (rbe_runtime/service.py).                                    *)
(*                                                                         *)
(* Every service method first reads the session and its records, decides   *)
(* whether it may go on, and only then calls a repository command, which   *)
(* checks again what it checks and commits in one transaction.  Between    *)
(* the two, other clients commit.  A request that has passed its checks    *)
(* and not yet committed is a member of inflight; the repository's         *)
(* transaction, its audit row and its idempotency row are RbeStore's       *)
(* subject and one step here.                                              *)
(***************************************************************************)
EXTENDS RbeRegister, RbeDecision, Sequences

CONSTANTS Specialist,     \* the specialist seats of the review
          Ref,            \* evidence that may be registered
          ReportOf,       \* the reports each seat may file
          PlanStatus,     \* the decisions the auditor may put on a plan
          MaxInFlight,    \* bound: requests between check and commit
          MaxPackages,    \* bound: versions of the review package
          MaxCandidates   \* bound: decision candidates

Seat == Specialist \cup {"SR", "MA"}

NoFinding == "none"

Report == [sufficiency : {"SUFFICIENT", "INSUFFICIENT", "NOT_APPLICABLE"},
           severity : Severity \cup {NoFinding}]

ASSUME SpecialistAssumption ==
    /\ Specialist # {} /\ IsFiniteSet(Specialist)
    /\ {"SR", "MA"} \cap Specialist = {}
ASSUME ReportAssumption == ReportOf \in [Seat -> SUBSET Report]
ASSUME PlanAssumption == PlanStatus \subseteq {"ACCEPTED", "REJECTED"}
ASSUME BoundAssumption == {MaxInFlight, MaxPackages, MaxCandidates} \subseteq Nat \ {0}

VARIABLES status,         \* review_sessions.status
          packages,       \* input_process_status of each review package
          evidence,       \* evidence_references
          assignment,     \* review_assignments.status of each seat
          report,         \* the report each seat has filed
          plans,          \* remediation_plans
          candidates,     \* decision_candidates
          decision,       \* the candidate the board decision ratifies, or 0
          publication,    \* the published indicator
          inflight        \* checked requests that have not committed

records == <<status, packages, evidence, assignment, report, plans,
             candidates, decision, publication>>
vars == <<records, inflight>>

NoReport == [sufficiency |-> "NOT_APPLICABLE", severity |-> "unfiled"]
NoPublication == [outcome |-> "none"]
---------------------------------------------------------------------------
(* What the records say.                                                   *)

Last(s) == s[Len(s)]

Package == Last(packages)

Completed(seats) == \A s \in seats : assignment[s] = "COMPLETED"

Findings == {[id |-> s, severity |-> report[s].severity, status |-> "OPEN"] :
                s \in {x \in Seat : report[x].severity \in Severity}}

AcceptedPlans == {p.finding : p \in {q \in plans : q.status = "ACCEPTED"}}

\* substantive_evidence_sufficient of assess_readiness.
Sufficient ==
    LET said == {report[s].sufficiency : s \in {x \in Specialist : report[x] # NoReport}}
    IN  "SUFFICIENT" \in said /\ "INSUFFICIENT" \notin said

Blockers(added) == added \/ \E s \in Seat : assignment[s] = "DECLINED"

Unmet == Package # "READY" \/ ~Completed(Seat) \/ \E s \in Seat : report[s] = NoReport

\* process_status of assess_readiness.
Readiness(added) ==
    IF status = "VOID" THEN "VOID"
    ELSE IF Blockers(added) THEN "BLOCKED"
    ELSE IF Unmet THEN "PROCEDURALLY_INCOMPLETE"
    ELSE "READY"
---------------------------------------------------------------------------
(* The requests: what a client has read and is about to commit.            *)

Idle == Cardinality(inflight) < MaxInFlight

Ask(request) == Idle /\ inflight' = inflight \cup {request} /\ UNCHANGED records

Taken(request) == inflight' = inflight \ {request}

\* initiate_review has committed.
Init ==
    /\ status = InitialState
    /\ packages \in {<<"READY">>, <<"PROCEDURALLY_INCOMPLETE">>}
    /\ evidence = {}
    /\ assignment = [s \in Seat |-> "PLANNED"]
    /\ report = [s \in Seat |-> NoReport]
    /\ plans = {}
    /\ candidates = <<>>
    /\ decision = 0
    /\ publication = NoPublication
    /\ inflight = {}

\* register_evidence.
RegisterEvidence(ref) ==
    /\ status \in {"DRAFT", "SUBMITTED", "INTAKE_VALIDATION", "RETURNED", "ACCEPTED"}
    /\ Ask([op |-> "evidence", ref |-> ref])

CommitEvidence(r) ==
    /\ r.op = "evidence"
    /\ r.ref \notin evidence
    /\ evidence' = evidence \cup {r.ref}
    /\ Taken(r)
    /\ UNCHANGED <<status, packages, assignment, report, plans, candidates,
                   decision, publication>>

\* resubmit_review_package; append_review_package checks the state again.
Resubmit(quality) ==
    /\ status = "RETURNED"
    /\ Len(packages) < MaxPackages
    /\ Ask([op |-> "package", quality |-> quality])

CommitPackageLate(r) ==          \* a mutant: the state is not checked again
    /\ r.op = "package"
    /\ Len(packages) < MaxPackages
    /\ packages' = Append(packages, r.quality)
    /\ Taken(r)
    /\ UNCHANGED <<status, evidence, assignment, report, plans, candidates,
                   decision, publication>>

CommitPackage(r) ==
    /\ r.op = "package"
    /\ status = "RETURNED"
    /\ Len(packages) < MaxPackages
    /\ packages' = Append(packages, r.quality)
    /\ Taken(r)
    /\ UNCHANGED <<status, evidence, assignment, report, plans, candidates,
                   decision, publication>>

\* respond_to_assignment.
Respond(seat, conflict) ==
    /\ status = "ASSIGNMENT"
    /\ Ask([op |-> "respond", seat |-> seat, conflict |-> conflict])

CommitResponse(r) ==
    /\ r.op = "respond"
    /\ assignment[r.seat] = "PLANNED"
    /\ assignment' = [assignment EXCEPT
                        ![r.seat] = IF r.conflict THEN "DECLINED" ELSE "ACCEPTED"]
    /\ Taken(r)
    /\ UNCHANGED <<status, packages, evidence, report, plans, candidates,
                   decision, publication>>

InPhaseEarly(seat) ==            \* a mutant: the auditor does not await SR
    CASE seat \in Specialist -> status = "INDEPENDENT_REVIEW"
      [] OTHER -> status = "CHALLENGE" /\ Completed(Specialist)

\* submit_report: the phase and the order of the reports (_require_report_
\* phase) are checked by the service, the assignment by both.
InPhase(seat) ==
    CASE seat \in Specialist -> status = "INDEPENDENT_REVIEW"
      [] seat = "SR" -> status = "CHALLENGE" /\ Completed(Specialist)
      [] seat = "MA" -> status = "CHALLENGE" /\ Completed(Seat \ {"MA"})

SubmitReport(seat, content) ==
    /\ InPhase(seat)
    /\ assignment[seat] = "ACCEPTED"
    /\ Ask([op |-> "report", seat |-> seat, content |-> content])

CommitReportAgain(r) ==          \* a mutant: a second report replaces the first
    /\ r.op = "report"
    /\ report' = [report EXCEPT ![r.seat] = r.content]
    /\ assignment' = [assignment EXCEPT ![r.seat] = "COMPLETED"]
    /\ Taken(r)
    /\ UNCHANGED <<status, packages, evidence, plans, candidates, decision,
                   publication>>

CommitReport(r) ==
    /\ r.op = "report"
    /\ assignment[r.seat] = "ACCEPTED"
    /\ report' = [report EXCEPT ![r.seat] = r.content]
    /\ assignment' = [assignment EXCEPT ![r.seat] = "COMPLETED"]
    /\ Taken(r)
    /\ UNCHANGED <<status, packages, evidence, plans, candidates, decision,
                   publication>>

\* submit_remediation_plan, one finding per document.
SubmitPlan(finding, verdict) ==
    /\ candidates = <<>>
    /\ status \in {"CHALLENGE", "CONSOLIDATION"}
    /\ finding \in Findings
    /\ Ask([op |-> "plan", plan |-> [finding |-> finding.id, status |-> verdict]])

CommitPlan(r) ==
    /\ r.op = "plan"
    /\ plans' = plans \cup {r.plan}
    /\ Taken(r)
    /\ UNCHANGED <<status, packages, evidence, assignment, report, candidates,
                   decision, publication>>
---------------------------------------------------------------------------
(* prepare_decision_candidate, whose reads fall into three groups: the     *)
(* state and the previous candidate; the readiness, the findings and the   *)
(* plans that are evaluated; and the records listed in the manifest.       *)

Prepare(blocked, resolved) ==
    /\ status \in {"CONSOLIDATION", "BLOCKED"}
    /\ ~(/\ status = "BLOCKED"
         /\ candidates # <<>>
         /\ Last(candidates).process = "BLOCKED"
         /\ ~blocked
         /\ ~resolved)
    /\ Ask([op |-> "prepare", blocked |-> blocked, resolved |-> resolved])

AssessAndEvaluate(r) ==
    /\ r.op = "prepare"
    /\ Readiness(r.blocked) # "PROCEDURALLY_INCOMPLETE"
    /\ LET process == Readiness(r.blocked)
           counts == SnapshotOf(Findings, AcceptedPlans, Sufficient)
           evaluated == [op         |-> "candidate",
                         process    |-> process,
                         outcome    |-> IF process = "READY" THEN Evaluate(counts)
                                                             ELSE "none",
                         accepted   |-> AcceptedPlans,
                         sufficient |-> Sufficient,
                         resolved   |-> r.resolved]
       IN  inflight' = (inflight \ {r}) \cup {evaluated}
    /\ UNCHANGED records

\* The manifest is read and the candidate saved.  Its primary key is a digest
\* of what it holds, the counter evidence included, which is not modelled:
\* two candidates may be alike in everything that is.
CommitCandidate(r) ==
    /\ r.op = "candidate"
    /\ Len(candidates) < MaxCandidates
    /\ candidates' = Append(candidates,
           [process |-> r.process, outcome |-> r.outcome, accepted |-> r.accepted,
            sufficient |-> r.sufficient, resolved |-> r.resolved, listed |-> plans])
    /\ Taken(r)
    /\ UNCHANGED <<status, packages, evidence, assignment, report, plans,
                   decision, publication>>

RatifyNext ==                    \* a mutant: the version the next one will have
    /\ status = "GOVERNANCE_VALIDATION"
    /\ candidates # <<>>
    /\ Last(candidates).process = "READY"
    /\ Ask([op |-> "ratify", candidate |-> Len(candidates) + 1])

RatifyAny ==                     \* a mutant: a BLOCKED candidate is ratified
    /\ status = "GOVERNANCE_VALIDATION"
    /\ candidates # <<>>
    /\ Ask([op |-> "ratify", candidate |-> Len(candidates)])

\* ratify_decision.
Ratify ==
    /\ status = "GOVERNANCE_VALIDATION"
    /\ candidates # <<>>
    /\ Last(candidates).process = "READY"
    /\ Ask([op |-> "ratify", candidate |-> Len(candidates)])

CommitDecision(r) ==
    /\ r.op = "ratify"
    /\ decision = 0
    /\ decision' = r.candidate
    /\ Taken(r)
    /\ UNCHANGED <<status, packages, evidence, assignment, report, plans,
                   candidates, publication>>

\* publish_decision: the outcome is recomputed from the present findings and
\* plans and must be the one that was signed (validate_decision_bundle).
BundleValid ==
    candidates[decision].outcome =
        EvaluateOutcome(SnapshotOf(Findings, AcceptedPlans, Last(candidates).sufficient))

Publisher == {"BC", "MA", "registrar"}

Publish(by) ==
    /\ status = "DECIDED"
    /\ decision # 0
    /\ BundleValid
    /\ by \notin {"BC", "MA"}
    /\ Ask([op |-> "publish", outcome |-> candidates[decision].outcome, by |-> by])

CommitPublication(r) ==
    /\ r.op = "publish"
    /\ r.by \notin {"BC", "MA"}
    /\ publication = NoPublication
    /\ publication' = [outcome |-> r.outcome, by |-> r.by]
    /\ Taken(r)
    /\ UNCHANGED <<status, packages, evidence, assignment, report, plans,
                   candidates, decision>>
---------------------------------------------------------------------------
(* advance.  The transitions that ask for metadata ask the caller, who can *)
(* always supply it.                                                       *)

PrerequisiteLax(source, target) ==   \* a mutant: the checks stop at the specialists
    CASE source = "INTAKE_VALIDATION" /\ target = "ACCEPTED" -> Package = "READY"
      [] source = "INTAKE_VALIDATION" /\ target = "RETURNED" -> Package # "READY"
      [] source = "RETURNED" /\ target = "SUBMITTED" -> Len(packages) > 1
      [] target = "EVIDENCE_LOCKED" -> evidence # {}
      [] target = "INDEPENDENT_REVIEW" /\ source = "ASSIGNMENT" ->
            \A s \in Specialist : assignment[s] = "ACCEPTED"
      [] OTHER -> TRUE

Prerequisite(source, target) ==
    CASE source = "INTAKE_VALIDATION" /\ target = "ACCEPTED" -> Package = "READY"
      [] source = "INTAKE_VALIDATION" /\ target = "RETURNED" -> Package # "READY"
      [] source = "RETURNED" /\ target = "SUBMITTED" -> Len(packages) > 1
      [] target = "EVIDENCE_LOCKED" -> evidence # {}
      [] target = "INDEPENDENT_REVIEW" /\ source = "ASSIGNMENT" ->
            \A s \in Seat : assignment[s] = "ACCEPTED"
      [] source = "INDEPENDENT_REVIEW" -> Completed(Specialist)
      [] target = "CONSOLIDATION" -> Completed(Seat)
      [] source = "CONSOLIDATION" -> candidates # <<>>
      [] target = "BLOCKED" -> candidates # <<>> /\ Last(candidates).process = "BLOCKED"
      [] source = "BLOCKED" /\ target = "GOVERNANCE_VALIDATION" ->
            candidates # <<>> /\ Last(candidates).process = "READY"
      [] target = "DECIDED" -> decision # 0
      [] target = "PUBLISHED" -> publication # NoPublication
      [] OTHER -> TRUE

Advance(target) ==
    /\ status \notin TerminalStates
    /\ <<status, target>> \in Transitions
    /\ Prerequisite(status, target)
    /\ Ask([op |-> "advance", target |-> target, current |-> TRUE])

\* repository.transition compares aggregate_version with the version that was
\* read.  Every transition raises it (RbeStore), so a request is current
\* until the next transition commits.
CommitTransition(r) ==
    /\ r.op = "advance"
    /\ r.current
    /\ status' = r.target
    /\ inflight' = {IF q.op = "advance" THEN [q EXCEPT !.current = FALSE] ELSE q :
                       q \in inflight \ {r}}
    /\ UNCHANGED <<packages, evidence, assignment, report, plans, candidates,
                   decision, publication>>

\* The commit is refused, or the client dies before it.  Only the audit log
\* could tell.
Drop(r) == Taken(r) /\ UNCHANGED records
---------------------------------------------------------------------------
Request ==
    \/ \E ref \in Ref : RegisterEvidence(ref)
    \/ \E quality \in {"READY", "PROCEDURALLY_INCOMPLETE"} : Resubmit(quality)
    \/ \E seat \in Seat, conflict \in BOOLEAN : Respond(seat, conflict)
    \/ \E seat \in Seat : \E content \in ReportOf[seat] : SubmitReport(seat, content)
    \/ \E finding \in Findings, verdict \in PlanStatus : SubmitPlan(finding, verdict)
    \/ \E blocked, resolved \in BOOLEAN : Prepare(blocked, resolved)
    \/ Ratify
    \/ \E by \in Publisher : Publish(by)
    \/ \E target \in States : Advance(target)

Proceed(r) ==
    \/ CommitEvidence(r)
    \/ CommitPackage(r)
    \/ CommitResponse(r)
    \/ CommitReport(r)
    \/ CommitPlan(r)
    \/ AssessAndEvaluate(r)
    \/ CommitCandidate(r)
    \/ CommitDecision(r)
    \/ CommitPublication(r)
    \/ CommitTransition(r)
    \/ Drop(r)

Next == Request \/ \E r \in inflight : Proceed(r)

Spec == Init /\ [][Next]_vars

---------------------------------------------------------------------------
Candidate == [process    : {"READY", "BLOCKED", "VOID"},
              outcome    : Outcome \cup {"none"},
              accepted   : SUBSET Seat,
              sufficient : BOOLEAN,
              resolved   : BOOLEAN,
              listed     : SUBSET [finding : Seat, status : PlanStatus]]

Inflight ==
    [op : {"evidence"}, ref : Ref]
    \cup [op : {"package"}, quality : {"READY", "PROCEDURALLY_INCOMPLETE"}]
    \cup [op : {"respond"}, seat : Seat, conflict : BOOLEAN]
    \cup [op : {"report"}, seat : Seat, content : Report]
    \cup [op : {"plan"}, plan : [finding : Seat, status : PlanStatus]]
    \cup [op : {"prepare"}, blocked : BOOLEAN, resolved : BOOLEAN]
    \cup [op : {"candidate"}, process : {"READY", "BLOCKED", "VOID"},
          outcome : Outcome \cup {"none"}, accepted : SUBSET Seat,
          sufficient : BOOLEAN, resolved : BOOLEAN]
    \cup [op : {"ratify"}, candidate : Nat \ {0}]
    \cup [op : {"publish"}, outcome : Outcome, by : Publisher]
    \cup [op : {"advance"}, target : States, current : BOOLEAN]

TypeOK ==
    /\ status \in States
    /\ packages \in Seq({"READY", "PROCEDURALLY_INCOMPLETE"}) \ {<<>>}
    /\ evidence \subseteq Ref
    /\ assignment \in [Seat -> {"PLANNED", "ACCEPTED", "DECLINED", "COMPLETED"}]
    /\ report \in [Seat -> Report \cup {NoReport}]
    /\ plans \subseteq [finding : Seat, status : PlanStatus]
    /\ candidates \in Seq(Candidate)
    /\ decision \in 0 .. Len(candidates)
    /\ publication \in [outcome : Outcome, by : Publisher] \cup {NoPublication}
    /\ inflight \subseteq Inflight

\* The phases of a review, each the states from which its records are due.
AfterDecision == {"PUBLISHED", "APPEALED", "APPEAL_REVIEW", "UPHELD",
                  "SUPERSEDED", "REMANDED", "FINAL", "ARCHIVED"}
FromDecided       == AfterDecision \cup {"DECIDED"}
FromGovernance    == FromDecided \cup {"GOVERNANCE_VALIDATION", "BLOCKED", "VOID"}
FromConsolidation == FromGovernance \cup {"CONSOLIDATION"}
FromChallenge     == FromConsolidation \cup {"CHALLENGE", "CLARIFICATION"}
FromReview        == FromChallenge \cup {"INDEPENDENT_REVIEW"}
FromLock          == FromReview \cup {"EVIDENCE_LOCKED", "ASSIGNMENT"}
FromAccepted      == FromLock \cup {"ACCEPTED"}

\* advance checks a prerequisite, loses the processor, and moves the session
\* later.  The session is nevertheless never in a state whose prerequisites
\* do not hold now: no phase opens before the one before it is complete.
PhasesEarned ==
    /\ status \in FromAccepted => Package = "READY"
    /\ status \in FromLock => evidence # {}
    /\ status \in FromReview => \A s \in Seat : assignment[s] \in {"ACCEPTED", "COMPLETED"}
    /\ status \in FromChallenge => Completed(Specialist)
    /\ status \in FromConsolidation => Completed(Seat)
    /\ status \in FromGovernance => candidates # <<>>
    /\ status \in FromDecided => decision # 0
    /\ status \in AfterDecision => publication # NoPublication

\* A seat has completed its assignment exactly when its report is on record;
\* the Sceptical Reviewer reports after every specialist and the Methodology
\* Auditor after everybody, although both orders are checked before the
\* commit and by the service only.
ReportsInOrder ==
    /\ \A s \in Seat : assignment[s] = "COMPLETED" <=> report[s] # NoReport
    /\ assignment["SR"] = "COMPLETED" => Completed(Specialist)
    /\ assignment["MA"] = "COMPLETED" => Completed(Seat)

\* Every READY candidate was decided by the profile's rules over all the
\* findings of the session as they are now: none was filed after the
\* evaluation read them.
CandidatesSound ==
    \A i \in DOMAIN candidates :
        LET c == candidates[i]
        IN  IF c.process = "READY"
            THEN c.outcome = Evaluate(SnapshotOf(Findings, c.accepted, c.sufficient))
            ELSE c.outcome = "none"

\* Only a READY candidate is ratified, what is published is the outcome that
\* was signed, and neither the Board Chair nor the Methodology Auditor
\* publishes it.
PublishedAsSigned ==
    /\ decision # 0 => candidates[decision].process = "READY"
    /\ publication # NoPublication =>
          /\ decision # 0
          /\ publication.outcome = candidates[decision].outcome
          /\ publication.by \notin {"BC", "MA"}

\* A specialist's report commits only in INDEPENDENT_REVIEW, an answer to an
\* assignment only in ASSIGNMENT, and a package only in RETURNED, however
\* long the request was in flight.
CommitsInPhase ==
    [][/\ \A s \in Specialist :
             report'[s] # report[s] => status = "INDEPENDENT_REVIEW"
       /\ \A s \in Seat :
             assignment[s] = "PLANNED" /\ assignment'[s] # "PLANNED"
                => status = "ASSIGNMENT"
       /\ packages' # packages => status = "RETURNED"]_vars

\* Records are only added: reports, packages and candidates are never
\* replaced, evidence and plans never withdrawn, and the board decides and
\* publishes once, whatever requests were in flight together.
RecordsAppendOnly ==
    [][/\ \A s \in Seat : report[s] # NoReport => report'[s] = report[s]
       /\ SubSeq(packages', 1, Len(packages)) = packages
       /\ SubSeq(candidates', 1, Len(candidates)) = candidates
       /\ evidence \subseteq evidence' /\ plans \subseteq plans'
       /\ decision # 0 => decision' = decision
       /\ publication # NoPublication => publication' = publication]_vars
---------------------------------------------------------------------------
(* What the documents say and the code does not keep.                      *)

\* "Same pinned inputs and rule version reproduce the decision": a decision
\* that was ratified can be published.
DecisionReproducible == (status = "DECIDED" /\ decision # 0) => BundleValid

\* "Closed the REMANDED lifecycle dead end through governed successor
\* assignment": a session in ASSIGNMENT waits for some seat, or may go on.
RemandReopens ==
    status = "ASSIGNMENT" =>
        \/ \E s \in Seat : assignment[s] \in {"PLANNED", "DECLINED"}
        \/ Prerequisite("ASSIGNMENT", "INDEPENDENT_REVIEW")
============================================================================
