------------------------ MODULE ReviewBoard_proofs ------------------------
(***************************************************************************)
(* A request commits long after the checks that let it through.  What its  *)
(* commit relies on is either checked again or can no longer be undone;    *)
(* Backed says which, request by request, and it is what the invariants of *)
(* ReviewBoard rest on.  The last section is about the outcome itself: the *)
(* record of findings and plans it is decided on, as RbeFindings has it.   *)
(***************************************************************************)
EXTENDS ReviewBoard, RbeFindings, FiniteSetTheorems, SequenceTheorems, TLAPS

\* What PhasesEarned says of the present state, said of any state.
Earned(phase) ==
    /\ phase \in FromAccepted => Package = "READY"
    /\ phase \in FromLock => evidence # {}
    /\ phase \in FromReview => \A s \in Seat : assignment[s] \in {"ACCEPTED", "COMPLETED"}
    /\ phase \in FromChallenge => Completed(Specialist)
    /\ phase \in FromConsolidation => Completed(Seat)
    /\ phase \in FromGovernance => candidates # <<>>
    /\ phase \in FromDecided => decision # 0
    /\ phase \in AfterDecision => publication # NoPublication

\* The states a session can be in once seats have been asked to respond.
UnderWay == FromReview \cup {"ASSIGNMENT"}

BackedReport(r) ==
    /\ assignment[r.seat] \in {"ACCEPTED", "COMPLETED"}
    /\ r.seat \in Specialist /\ assignment[r.seat] = "ACCEPTED"
          => status = "INDEPENDENT_REVIEW"
    /\ r.seat = "SR" => Completed(Specialist)
    /\ r.seat = "MA" => Completed(Seat \ {"MA"})

\* A candidate, evaluated or saved: once it is READY every report is filed,
\* so that the findings it was decided over are the findings for ever.
Decided(c) ==
    IF c.process = "READY"
    THEN /\ Completed(Seat)
         /\ c.outcome = Evaluate(SnapshotOf(Findings, c.accepted, c.sufficient))
    ELSE c.outcome = "none"

Backed(r) ==
    /\ r.op = "respond" => status \in UnderWay
    /\ r.op = "report" => BackedReport(r)
    /\ r.op = "candidate" => Decided(r)
    /\ r.op = "ratify" => /\ r.candidate \in 1 .. Len(candidates)
                          /\ candidates[r.candidate].process = "READY"
    /\ r.op = "publish" => /\ decision # 0
                           /\ r.outcome = candidates[decision].outcome
                           /\ r.by \notin {"BC", "MA"}
    /\ r.op = "advance" /\ r.current => /\ <<status, r.target>> \in Transitions
                                        /\ Earned(r.target)

RequestsBacked == \A r \in inflight : Backed(r)

CandidatesDecided == \A i \in 1 .. Len(candidates) : Decided(candidates[i])

Inv == /\ TypeOK
       /\ PhasesEarned
       /\ ReportsInOrder
       /\ CandidatesDecided
       /\ PublishedAsSigned
       /\ RequestsBacked
---------------------------------------------------------------------------
(* The types of requests.                                                  *)

EvidenceRequest    == [op : {"evidence"}, ref : Ref]
PackageRequest     == [op : {"package"}, quality : {"READY", "PROCEDURALLY_INCOMPLETE"}]
RespondRequest     == [op : {"respond"}, seat : Seat, conflict : BOOLEAN]
ReportRequest      == [op : {"report"}, seat : Seat, content : Report]
PlanRequest        == [op : {"plan"}, plan : [finding : Seat, status : PlanStatus]]
PrepareRequest     == [op : {"prepare"}, blocked : BOOLEAN, resolved : BOOLEAN]
CandidateRequest   == [op : {"candidate"}, process : {"READY", "BLOCKED", "VOID"},
                       outcome : Outcome \cup {"none"}, accepted : SUBSET Seat,
                       sufficient : BOOLEAN, resolved : BOOLEAN]
RatifyRequest      == [op : {"ratify"}, candidate : Nat \ {0}]
PublishRequest     == [op : {"publish"}, outcome : Outcome, by : Publisher]
AdvanceRequest     == [op : {"advance"}, target : States, current : BOOLEAN]

LEMMA InflightUnion ==
    Inflight = EvidenceRequest \cup PackageRequest \cup RespondRequest
               \cup ReportRequest \cup PlanRequest \cup PrepareRequest
               \cup CandidateRequest \cup RatifyRequest \cup PublishRequest
               \cup AdvanceRequest
BY Zenon DEF Inflight, EvidenceRequest, PackageRequest, RespondRequest, ReportRequest,
      PlanRequest, PrepareRequest, CandidateRequest, RatifyRequest,
      PublishRequest, AdvanceRequest

\* The operation of a request says which fields it has.
LEMMA RequestKinds ==
    ASSUME NEW r \in Inflight
    PROVE  /\ r.op = "evidence"  => r \in EvidenceRequest
           /\ r.op = "package"   => r \in PackageRequest
           /\ r.op = "respond"   => r \in RespondRequest
           /\ r.op = "report"    => r \in ReportRequest
           /\ r.op = "plan"      => r \in PlanRequest
           /\ r.op = "prepare"   => r \in PrepareRequest
           /\ r.op = "candidate" => r \in CandidateRequest
           /\ r.op = "ratify"    => r \in RatifyRequest
           /\ r.op = "publish"   => r \in PublishRequest
           /\ r.op = "advance"   => r \in AdvanceRequest
<1>1. /\ r \in EvidenceRequest  => r.op = "evidence"
      /\ r \in PackageRequest   => r.op = "package"
      /\ r \in RespondRequest   => r.op = "respond"
      /\ r \in ReportRequest    => r.op = "report"
      /\ r \in PlanRequest      => r.op = "plan"
  BY DEF EvidenceRequest, PackageRequest, RespondRequest, ReportRequest, PlanRequest
<1>2. /\ r \in PrepareRequest   => r.op = "prepare"
      /\ r \in CandidateRequest => r.op = "candidate"
      /\ r \in RatifyRequest    => r.op = "ratify"
      /\ r \in PublishRequest   => r.op = "publish"
      /\ r \in AdvanceRequest   => r.op = "advance"
  BY DEF PrepareRequest, CandidateRequest, RatifyRequest, PublishRequest, AdvanceRequest
<1>3. QED
  BY <1>1, <1>2, InflightUnion

\* A transition makes every other request to advance out of date.
LEMMA OutdatedType ==
    ASSUME NEW r \in Inflight, r.op = "advance"
    PROVE  /\ [r EXCEPT !.current = FALSE] \in Inflight
           /\ [r EXCEPT !.current = FALSE].op = "advance"
           /\ [r EXCEPT !.current = FALSE].current = FALSE
<1>1. r \in AdvanceRequest
  BY RequestKinds
<1>2. /\ [r EXCEPT !.current = FALSE] \in AdvanceRequest
      /\ [r EXCEPT !.current = FALSE].op = "advance"
      /\ [r EXCEPT !.current = FALSE].current = FALSE
  BY <1>1 DEF AdvanceRequest
<1>3. QED
  BY <1>2, InflightUnion
---------------------------------------------------------------------------
(* The seats, the findings and the outcome.                                *)

LEMMA SeatFacts ==
    /\ Specialist \subseteq Seat /\ "SR" \in Seat /\ "MA" \in Seat
    /\ "SR" \notin Specialist /\ "MA" \notin Specialist
    /\ IsFiniteSet(Seat)
<1>1. Seat = (Specialist \cup {"SR"}) \cup {"MA"}
  BY DEF Seat
<1>2. IsFiniteSet(Specialist \cup {"SR"})
  BY SpecialistAssumption, FS_AddElement
<1>3. IsFiniteSet(Seat)
  BY <1>1, <1>2, FS_AddElement
<1>4. QED
  BY <1>3, SpecialistAssumption DEF Seat

\* The counts of a finite set of findings are numbers.
LEMMA CountsLemma ==
    ASSUME NEW S, IsFiniteSet(S), NEW R, NEW b \in BOOLEAN
    PROVE  SnapshotOf(S, R, b) \in Snapshot
<1>1. \A s : IsFiniteSet(Unresolved(S, s)) /\ Cardinality(Unresolved(S, s)) \in Nat
  BY FS_Subset, FS_CardinalityType DEF Unresolved
<1>2. Remediated(S, R) \subseteq Unresolved(S, "SEV-2")
  BY DEF Remediated
<1>3. /\ Cardinality(Remediated(S, R)) \in Nat
      /\ Cardinality(Remediated(S, R)) <= Cardinality(Unresolved(S, "SEV-2"))
  BY <1>1, <1>2, FS_Subset, FS_CardinalityType
<1>4. QED
  BY <1>1, <1>3 DEF SnapshotOf, Snapshot

\* Some rule is the first that matches, and it has an outcome.
LEMMA EvaluateType ==
    ASSUME NEW c \in Snapshot
    PROVE  Evaluate(c) \in Outcome
<1>1. Rule = {1, 2, 3, 4, 5, 6}
  BY DEF Rule
<1>2. \E rule \in Rule : Selects(rule, c)
  <2>1. c.sev1 \in Nat /\ c.sev2 \in Nat /\ c.accepted \in Nat
        /\ c.sufficient \in BOOLEAN /\ c.accepted <= c.sev2
    BY DEF Snapshot
  <2>2. CASE c.sev1 >= 1
    <3>1. Selects(1, c)
      BY <1>1, <2>2 DEF Selects, Matches
    <3>2. QED
      BY <1>1, <3>1
  <2>3. CASE ~(c.sev1 >= 1) /\ c.sev2 >= 2
    <3>1. Selects(2, c)
      BY <1>1, <2>1, <2>3 DEF Selects, Matches
    <3>2. QED
      BY <1>1, <3>1
  <2>4. CASE ~(c.sev1 >= 1) /\ c.sev2 = 1 /\ c.accepted = 0
    <3>1. Selects(3, c)
      BY <1>1, <2>1, <2>4 DEF Selects, Matches
    <3>2. QED
      BY <1>1, <3>1
  <2> DEFINE open == ~(c.sev1 >= 1) /\ ~(c.sev2 >= 2) /\ ~(c.sev2 = 1 /\ c.accepted = 0)
  <2>5. CASE open /\ ~c.sufficient
    <3>1. Selects(4, c)
      BY <1>1, <2>1, <2>5 DEF Selects, Matches
    <3>2. QED
      BY <1>1, <3>1
  <2>6. CASE open /\ c.sufficient /\ c.sev2 = 1
    <3>1. Selects(5, c)
      BY <1>1, <2>1, <2>6 DEF Selects, Matches
    <3>2. QED
      BY <1>1, <3>1
  <2>7. CASE open /\ c.sufficient /\ c.sev2 # 1
    <3>1. c.sev1 = 0 /\ c.sev2 = 0
      BY <2>1, <2>7
    <3>2. Selects(6, c)
      BY <1>1, <2>1, <2>7, <3>1 DEF Selects, Matches
    <3>3. QED
      BY <1>1, <3>2
  <2>8. QED
    BY <2>1, <2>2, <2>3, <2>4, <2>5, <2>6, <2>7
<1>3. (CHOOSE rule \in Rule : Selects(rule, c)) \in Rule
  BY <1>2
<1>4. \A rule \in Rule : RuleOutcome(rule) \in Outcome
  BY <1>1 DEF RuleOutcome, Outcome
<1>5. QED
  BY <1>3, <1>4 DEF Evaluate

LEMMA FindingsFinite == IsFiniteSet(Findings)
<1> DEFINE filed == {x \in Seat : report[x].severity \in Severity}
           finding(s) == [id |-> s, severity |-> report[s].severity, status |-> "OPEN"]
           opened == [s \in filed |-> finding(s)]
<1>1. IsFiniteSet(filed)
  BY SeatFacts, FS_Subset
<1>2. Findings = {finding(s) : s \in filed}
  BY DEF Findings
<1>3. opened \in Surjection(filed, Findings)
  <2> HIDE DEF filed, finding
  <2>1. opened \in [filed -> Findings]
    BY <1>2
  <2>2. \A f \in Findings : \E s \in filed : opened[s] = f
    BY <1>2
  <2>3. QED
    BY <2>1, <2>2 DEF Surjection
<1>4. QED
  BY <1>1, <1>3, FS_Surjection

\* Whatever is evaluated over the findings of a session has an outcome.
LEMMA OutcomeLemma ==
    ASSUME NEW R, NEW b \in BOOLEAN
    PROVE  Evaluate(SnapshotOf(Findings, R, b)) \in Outcome
BY FindingsFinite, CountsLemma, EvaluateType
---------------------------------------------------------------------------
(* The lifecycle.                                                          *)

LEMMA StatesLemma ==
    ASSUME NEW s, NEW t, <<s, t>> \in Transitions
    PROVE  s \in States /\ t \in States
BY DEF States

\* A session in which seats have been asked to respond stays one.
LEMMA UnderWayLemma ==
    ASSUME NEW s \in UnderWay, NEW t, <<s, t>> \in Transitions
    PROVE  t \in UnderWay
BY DEF Transitions, UnderWay, FromReview, FromChallenge, FromConsolidation,
       FromGovernance, FromDecided, AfterDecision

\* A returned package is replaced before the review is accepted.
LEMMA ReturnedLemma ==
    /\ "RETURNED" \notin FromAccepted
    /\ \A t : <<"RETURNED", t>> \in Transitions => t \notin FromAccepted
BY DEF Transitions, FromAccepted, FromLock, FromReview, FromChallenge,
       FromConsolidation, FromGovernance, FromDecided, AfterDecision

\* The transition by which each phase is entered.
LEMMA EntranceLemma ==
    ASSUME NEW s, NEW t, <<s, t>> \in Transitions
    PROVE  /\ t \in FromAccepted => s \in FromAccepted
                                    \/ (s = "INTAKE_VALIDATION" /\ t = "ACCEPTED")
           /\ t \in FromLock => s \in FromLock \/ (s = "ACCEPTED" /\ t = "EVIDENCE_LOCKED")
           /\ t \in FromReview => s \in FromReview
                                  \/ (s = "ASSIGNMENT" /\ t = "INDEPENDENT_REVIEW")
           /\ t \in FromChallenge => s \in FromChallenge
                                     \/ (s = "INDEPENDENT_REVIEW" /\ t = "CHALLENGE")
           /\ t \in FromConsolidation => s \in FromConsolidation
                                         \/ (s = "CHALLENGE" /\ t = "CONSOLIDATION")
           /\ t \in FromGovernance => s \in FromGovernance
                                      \/ (s = "CONSOLIDATION" /\ t = "GOVERNANCE_VALIDATION")
           /\ t \in FromDecided => s \in FromDecided
                                   \/ (s = "GOVERNANCE_VALIDATION" /\ t = "DECIDED")
           /\ t \in AfterDecision => s \in AfterDecision
                                     \/ (s = "DECIDED" /\ t = "PUBLISHED")
BY DEF Transitions, FromAccepted, FromLock, FromReview, FromChallenge,
       FromConsolidation, FromGovernance, FromDecided, AfterDecision

\* The checks of advance and what the present phase has earned are together
\* what the next phase needs.
LEMMA EarnedNext ==
    ASSUME PhasesEarned, NEW t, <<status, t>> \in Transitions, Prerequisite(status, t)
    PROVE  Earned(t)
<1>1. t \in FromAccepted => Package = "READY"
  BY EntranceLemma DEF PhasesEarned, Prerequisite
<1>2. t \in FromLock => evidence # {}
  BY EntranceLemma DEF PhasesEarned, Prerequisite
<1>3. t \in FromReview => \A s \in Seat : assignment[s] \in {"ACCEPTED", "COMPLETED"}
  BY EntranceLemma DEF PhasesEarned, Prerequisite
<1>4. t \in FromChallenge => Completed(Specialist)
  BY EntranceLemma DEF PhasesEarned, Prerequisite
<1>5. t \in FromConsolidation => Completed(Seat)
  BY EntranceLemma DEF PhasesEarned, Prerequisite
<1>6. t \in FromGovernance => candidates # <<>>
  BY EntranceLemma DEF PhasesEarned, Prerequisite
<1>7. t \in FromDecided => decision # 0
  BY EntranceLemma DEF PhasesEarned, Prerequisite
<1>8. t \in AfterDecision => publication # NoPublication
  BY EntranceLemma DEF PhasesEarned, Prerequisite
<1>9. QED
  BY <1>1, <1>2, <1>3, <1>4, <1>5, <1>6, <1>7, <1>8 DEF Earned
---------------------------------------------------------------------------
(* What a commit leaves of the records.                                    *)

\* The records of a later state of the same phase.
Kept ==
    /\ status' = status
    /\ packages' = packages \/ status = "RETURNED"
    /\ evidence \subseteq evidence'
    /\ \A s \in Seat :
          /\ assignment[s] = "COMPLETED" => assignment'[s] = "COMPLETED"
          /\ assignment[s] = "ACCEPTED" => assignment'[s] \in {"ACCEPTED", "COMPLETED"}
    /\ Completed(Seat) => report' = report
    /\ Len(candidates) <= Len(candidates')
    /\ \A i \in 1 .. Len(candidates) : candidates'[i] = candidates[i]
    /\ decision # 0 => decision' = decision
    /\ publication # NoPublication => publication' = publication

\* What a phase has earned it keeps, the quality of a returned package
\* excepted.
LEMMA EarnedKept ==
    ASSUME TypeOK, Kept, NEW t, status = "RETURNED" => t \notin FromAccepted, Earned(t)
    PROVE  Earned(t)'
<1>1. t \in FromAccepted => Package' = "READY"
  BY DEF Earned, Kept, Package, Last
<1>2. t \in FromLock => evidence' # {}
  BY DEF Earned, Kept
<1>3. t \in FromReview => \A s \in Seat : assignment'[s] \in {"ACCEPTED", "COMPLETED"}
  BY DEF Earned, Kept
<1>4. t \in FromChallenge => Completed(Specialist)'
  BY SeatFacts DEF Earned, Kept, Completed
<1>5. t \in FromConsolidation => Completed(Seat)'
  BY DEF Earned, Kept, Completed
<1>6. t \in FromGovernance => candidates' # <<>>
  <2>1. ASSUME candidates # <<>>
        PROVE  Len(candidates) > 0
    BY <2>1, EmptySeq, LenProperties DEF TypeOK
  <2>2. Len(<<>>) = 0
    BY EmptySeq
  <2>3. Len(candidates) \in Nat
    BY LenProperties DEF TypeOK
  <2>4. QED
    BY <2>1, <2>2, <2>3 DEF Earned, Kept
<1>7. t \in FromDecided => decision' # 0
  BY DEF Earned, Kept
<1>8. t \in AfterDecision => publication' # NoPublication
  BY DEF Earned, Kept
<1>9. QED
  BY <1>1, <1>2, <1>3, <1>4, <1>5, <1>6, <1>7, <1>8 DEF Earned

LEMMA DecidedKept ==
    ASSUME Kept, NEW c, Decided(c)
    PROVE  Decided(c)'
<1>1. Completed(Seat) => Findings' = Findings /\ Completed(Seat)'
  <2>1. Completed(Seat) => report' = report
    BY DEF Kept
  <2>2. report' = report => Findings' = Findings
    BY DEF Findings
  <2>3. Completed(Seat) => Completed(Seat)'
    BY DEF Kept, Completed
  <2>4. QED
    BY <2>1, <2>2, <2>3
<1>2. QED
  BY <1>1 DEF Decided

LEMMA BackedKept ==
    ASSUME Inv, Kept, NEW r \in inflight
    PROVE  Backed(r)'
<1>1. r.op = "respond" => status' \in UnderWay
  BY DEF Inv, RequestsBacked, Backed, Kept
<1>2. ASSUME r.op = "report"
      PROVE  BackedReport(r)'
  <2>1. BackedReport(r) /\ r.seat \in Seat
    BY <1>2, RequestKinds DEF Inv, TypeOK, RequestsBacked, Backed, ReportRequest
  <2>2. /\ assignment'[r.seat] \in {"ACCEPTED", "COMPLETED"}
        /\ assignment'[r.seat] = "ACCEPTED" => assignment[r.seat] = "ACCEPTED"
    BY <2>1 DEF BackedReport, Kept
  <2>3. /\ Completed(Specialist) => Completed(Specialist)'
        /\ Completed(Seat \ {"MA"}) => Completed(Seat \ {"MA"})'
    BY SeatFacts DEF Kept, Completed
  <2>4. QED
    BY <2>1, <2>2, <2>3 DEF BackedReport, Kept
<1>3. r.op = "candidate" => Decided(r)'
  BY DecidedKept DEF Inv, RequestsBacked, Backed
<1>4. ASSUME r.op = "ratify"
      PROVE  r.candidate \in 1 .. Len(candidates')
             /\ candidates'[r.candidate].process = "READY"
  <2>1. r.candidate \in 1 .. Len(candidates) /\ candidates[r.candidate].process = "READY"
    BY <1>4 DEF Inv, RequestsBacked, Backed
  <2>2. candidates'[r.candidate] = candidates[r.candidate]
    BY <2>1 DEF Kept
  <2>3. QED
    BY <2>1, <2>2, LenProperties DEF Kept, Inv, TypeOK
<1>5. ASSUME r.op = "publish"
      PROVE  /\ decision' # 0
             /\ r.outcome = candidates'[decision'].outcome
             /\ r.by \notin {"BC", "MA"}
  <2>1. decision # 0 /\ r.outcome = candidates[decision].outcome /\ r.by \notin {"BC", "MA"}
    BY <1>5 DEF Inv, RequestsBacked, Backed
  <2>2. decision' = decision /\ decision \in 1 .. Len(candidates)
    BY <2>1 DEF Kept, Inv, TypeOK
  <2>3. QED
    BY <2>1, <2>2 DEF Kept
<1>6. ASSUME r.op = "advance", r.current
      PROVE  <<status', r.target>> \in Transitions /\ Earned(r.target)'
  <2>1. <<status, r.target>> \in Transitions /\ Earned(r.target)
    BY <1>6 DEF Inv, RequestsBacked, Backed
  <2>2. Earned(r.target)'
    BY <2>1, EarnedKept, ReturnedLemma DEF Inv
  <2>3. QED
    BY <2>1, <2>2 DEF Kept
<1>7. QED
  BY <1>1, <1>2, <1>3, <1>4, <1>5, <1>6 DEF Backed

\* What remains to be shown of a commit that keeps the records.
LEMMA CommitLemma ==
    ASSUME Inv, Kept, TypeOK', inflight' \subseteq inflight, ReportsInOrder',
           CandidatesDecided', PublishedAsSigned'
    PROVE  Inv'
<1>1. PhasesEarned'
  <2>1. PICK phase : phase = status
    OBVIOUS
  <2>2. Earned(phase)
    BY <2>1 DEF Inv, PhasesEarned, Earned
  <2>3. Earned(phase)'
    BY <2>1, <2>2, EarnedKept, ReturnedLemma DEF Inv
  <2>4. QED
    BY <2>1, <2>3 DEF PhasesEarned, Earned, Kept
<1>2. RequestsBacked'
  BY BackedKept DEF RequestsBacked
<1>3. QED
  BY <1>1, <1>2 DEF Inv

\* Where the records stay as they are, only the requests matter.
LEMMA RequestLemma ==
    ASSUME Inv, UNCHANGED records, inflight' \subseteq Inflight,
           \A r \in inflight' : Backed(r)
    PROVE  Inv'
<1>1. TypeOK'
  BY DEF Inv, TypeOK, records
<1>2. PhasesEarned'
  BY DEF Inv, PhasesEarned, records, Package, Last, Completed
<1>3. ReportsInOrder'
  BY DEF Inv, ReportsInOrder, records, Completed
<1>4. Findings' = Findings
  BY DEF Findings, records
<1>5. \A c : Decided(c)' <=> Decided(c)
  BY <1>4 DEF Decided, records, Completed
<1>6. CandidatesDecided'
  BY <1>5 DEF Inv, CandidatesDecided, records
<1>7. PublishedAsSigned'
  BY DEF Inv, PublishedAsSigned, records
<1>8. ASSUME NEW r \in inflight'
      PROVE  Backed(r)'
  <2>1. BackedReport(r)' <=> BackedReport(r)
    BY DEF BackedReport, records, Completed
  <2>2. Earned(r.target)' <=> Earned(r.target)
    BY DEF Earned, records, Package, Last, Completed
  <2>3. Backed(r)
    OBVIOUS
  <2>4. QED
    BY <1>5, <2>1, <2>2, <2>3 DEF Backed, records
<1>9. QED
  BY <1>1, <1>2, <1>3, <1>6, <1>7, <1>8 DEF Inv, RequestsBacked

\* A request that is asked for is one of its type, backed by the checks that
\* let it through.
LEMMA AskLemma ==
    ASSUME Inv, NEW q \in Inflight, Backed(q), Ask(q)
    PROVE  Inv'
<1>1. inflight' \subseteq Inflight
  BY DEF Ask, Inv, TypeOK
<1>2. \A r \in inflight' : Backed(r)
  BY DEF Ask, Inv, RequestsBacked
<1>3. QED
  BY <1>1, <1>2, RequestLemma DEF Ask

LEMMA RequestInv ==
    ASSUME Inv, Request
    PROVE  Inv'
<1>1. ASSUME NEW ref \in Ref, RegisterEvidence(ref)
      PROVE  Inv'
  <2> DEFINE q == [op |-> "evidence", ref |-> ref]
  <2>1. q \in EvidenceRequest /\ q.op = "evidence"
    BY DEF EvidenceRequest
  <2>2. q \in Inflight
    BY <2>1, InflightUnion
  <2>3. Backed(q)
    BY <2>1 DEF Backed
  <2>4. QED
    BY <1>1, <2>2, <2>3, AskLemma DEF RegisterEvidence
<1>2. ASSUME NEW quality \in {"READY", "PROCEDURALLY_INCOMPLETE"}, Resubmit(quality)
      PROVE  Inv'
  <2> DEFINE q == [op |-> "package", quality |-> quality]
  <2>1. q \in PackageRequest /\ q.op = "package"
    BY DEF PackageRequest
  <2>2. q \in Inflight
    BY <2>1, InflightUnion
  <2>3. Backed(q)
    BY <2>1 DEF Backed
  <2>4. QED
    BY <1>2, <2>2, <2>3, AskLemma DEF Resubmit
<1>3. ASSUME NEW seat \in Seat, NEW conflict \in BOOLEAN, Respond(seat, conflict)
      PROVE  Inv'
  <2> DEFINE q == [op |-> "respond", seat |-> seat, conflict |-> conflict]
  <2>1. q \in RespondRequest /\ q.op = "respond"
    BY DEF RespondRequest
  <2>2. q \in Inflight
    BY <2>1, InflightUnion
  <2>3. Backed(q)
    BY <1>3, <2>1 DEF Backed, UnderWay, Respond
  <2>4. QED
    BY <1>3, <2>2, <2>3, AskLemma DEF Respond
<1>4. ASSUME NEW seat \in Seat, NEW content \in ReportOf[seat], SubmitReport(seat, content)
      PROVE  Inv'
  <2> DEFINE q == [op |-> "report", seat |-> seat, content |-> content]
  <2>1. q \in ReportRequest /\ q.op = "report" /\ q.seat = seat
    BY ReportAssumption DEF ReportRequest
  <2>2. q \in Inflight
    BY <2>1, InflightUnion
  <2>3. BackedReport(q)
    BY <1>4, <2>1, SeatFacts DEF BackedReport, SubmitReport, InPhase
  <2>4. Backed(q)
    BY <2>1, <2>3 DEF Backed
  <2>5. QED
    BY <1>4, <2>2, <2>4, AskLemma DEF SubmitReport
<1>5. ASSUME NEW finding \in Findings, NEW verdict \in PlanStatus, SubmitPlan(finding, verdict)
      PROVE  Inv'
  <2> DEFINE q == [op |-> "plan", plan |-> [finding |-> finding.id, status |-> verdict]]
  <2>1. finding.id \in Seat
    BY DEF Findings
  <2>2. q \in PlanRequest /\ q.op = "plan"
    BY <2>1 DEF PlanRequest
  <2>3. q \in Inflight
    BY <2>2, InflightUnion
  <2>4. Backed(q)
    BY <2>2 DEF Backed
  <2>5. QED
    BY <1>5, <2>3, <2>4, AskLemma DEF SubmitPlan
<1>6. ASSUME NEW blocked \in BOOLEAN, NEW resolved \in BOOLEAN, Prepare(blocked, resolved)
      PROVE  Inv'
  <2> DEFINE q == [op |-> "prepare", blocked |-> blocked, resolved |-> resolved]
  <2>1. q \in PrepareRequest /\ q.op = "prepare"
    BY DEF PrepareRequest
  <2>2. q \in Inflight
    BY <2>1, InflightUnion
  <2>3. Backed(q)
    BY <2>1 DEF Backed
  <2>4. QED
    BY <1>6, <2>2, <2>3, AskLemma DEF Prepare
<1>7. ASSUME Ratify
      PROVE  Inv'
  <2> DEFINE q == [op |-> "ratify", candidate |-> Len(candidates)]
  <2>1. Len(candidates) \in Nat \ {0}
    BY <1>7, EmptySeq, LenProperties DEF Ratify, Inv, TypeOK
  <2>2. q \in RatifyRequest /\ q.op = "ratify" /\ q.candidate = Len(candidates)
    BY <2>1 DEF RatifyRequest
  <2>3. q \in Inflight
    BY <2>2, InflightUnion
  <2>4. Len(candidates) \in 1 .. Len(candidates)
    BY <2>1
  <2>5. Backed(q)
    BY <1>7, <2>2, <2>4 DEF Backed, Ratify, Last
  <2>6. QED
    BY <1>7, <2>3, <2>5, AskLemma DEF Ratify
<1>8. ASSUME NEW by \in Publisher, Publish(by)
      PROVE  Inv'
  <2> DEFINE q == [op |-> "publish", outcome |-> candidates[decision].outcome, by |-> by]
  <2>1. candidates[decision].outcome \in Outcome
    BY <1>8 DEF Publish, BundleValid, EvaluateOutcome, Outcome
  <2>2. q \in PublishRequest /\ q.op = "publish"
    BY <2>1 DEF PublishRequest
  <2>3. q \in Inflight
    BY <2>2, InflightUnion
  <2>4. Backed(q)
    BY <1>8, <2>2 DEF Backed, Publish
  <2>5. QED
    BY <1>8, <2>3, <2>4, AskLemma DEF Publish
<1>9. ASSUME NEW target \in States, Advance(target)
      PROVE  Inv'
  <2> DEFINE q == [op |-> "advance", target |-> target, current |-> TRUE]
  <2>1. q \in AdvanceRequest /\ q.op = "advance" /\ q.target = target
    BY DEF AdvanceRequest
  <2>2. q \in Inflight
    BY <2>1, InflightUnion
  <2>3. <<status, target>> \in Transitions /\ Earned(target)
    BY <1>9, EarnedNext DEF Advance, Inv
  <2>4. Backed(q)
    BY <2>1, <2>3 DEF Backed
  <2>5. QED
    BY <1>9, <2>2, <2>4, AskLemma DEF Advance
<1>10. QED
  BY <1>1, <1>2, <1>3, <1>4, <1>5, <1>6, <1>7, <1>8, <1>9 DEF Request
---------------------------------------------------------------------------
(* The commits, one by one.                                                *)

LEMMA TakenLemma ==
    ASSUME Inv, NEW r, Taken(r)
    PROVE  inflight' \subseteq inflight /\ inflight' \subseteq Inflight
BY DEF Taken, Inv, TypeOK

\* Where neither the reports nor the candidates nor what came of them is
\* touched, what the invariant says of them stands.
LEMMA UntouchedLemma ==
    ASSUME Inv, Kept, UNCHANGED <<assignment, report, candidates, decision, publication>>
    PROVE  ReportsInOrder' /\ CandidatesDecided' /\ PublishedAsSigned'
<1>1. ReportsInOrder'
  BY DEF Inv, ReportsInOrder, Completed
<1>2. CandidatesDecided'
  BY DecidedKept DEF Inv, CandidatesDecided
<1>3. PublishedAsSigned'
  BY DEF Inv, PublishedAsSigned
<1>4. QED
  BY <1>1, <1>2, <1>3

LEMMA EvidenceInv ==
    ASSUME Inv, NEW r \in inflight, CommitEvidence(r)
    PROVE  Inv'
<1>1. Kept
  BY DEF Kept, CommitEvidence, Inv, TypeOK
<1>2. r.ref \in Ref
  BY RequestKinds DEF Inv, TypeOK, CommitEvidence, EvidenceRequest
<1>3. TypeOK'
  BY <1>2, TakenLemma DEF Inv, TypeOK, CommitEvidence
<1>4. QED
  BY <1>1, <1>3, TakenLemma, UntouchedLemma, CommitLemma DEF CommitEvidence

LEMMA PackageInv ==
    ASSUME Inv, NEW r \in inflight, CommitPackage(r)
    PROVE  Inv'
<1>1. Kept
  BY DEF Kept, CommitPackage, Inv, TypeOK
<1>2. r.quality \in {"READY", "PROCEDURALLY_INCOMPLETE"}
  BY RequestKinds DEF Inv, TypeOK, CommitPackage, PackageRequest
<1>3. packages' \in Seq({"READY", "PROCEDURALLY_INCOMPLETE"}) \ {<<>>}
  <2>1. packages \in Seq({"READY", "PROCEDURALLY_INCOMPLETE"})
    BY DEF Inv, TypeOK
  <2>2. QED
    BY <1>2, <2>1, AppendProperties DEF CommitPackage
<1>4. TypeOK'
  BY <1>3, TakenLemma DEF Inv, TypeOK, CommitPackage
<1>5. QED
  BY <1>1, <1>4, TakenLemma, UntouchedLemma, CommitLemma DEF CommitPackage

LEMMA PlanInv ==
    ASSUME Inv, NEW r \in inflight, CommitPlan(r)
    PROVE  Inv'
<1>1. Kept
  BY DEF Kept, CommitPlan, Inv, TypeOK
<1>2. r.plan \in [finding : Seat, status : PlanStatus]
  BY RequestKinds DEF Inv, TypeOK, CommitPlan, PlanRequest
<1>3. TypeOK'
  BY <1>2, TakenLemma DEF Inv, TypeOK, CommitPlan
<1>4. QED
  BY <1>1, <1>3, TakenLemma, UntouchedLemma, CommitLemma DEF CommitPlan

\* A seat responds while it is still planned, which it is in ASSIGNMENT only.
LEMMA ResponseLemma ==
    ASSUME Inv, NEW r \in inflight, CommitResponse(r)
    PROVE  /\ r.seat \in Seat /\ r.conflict \in BOOLEAN
           /\ status = "ASSIGNMENT"
<1>1. r.seat \in Seat /\ r.conflict \in BOOLEAN
  BY RequestKinds DEF Inv, TypeOK, CommitResponse, RespondRequest
<1>2. status \in UnderWay
  BY DEF Inv, RequestsBacked, Backed, CommitResponse
<1>3. status \notin FromReview
  BY <1>1 DEF Inv, PhasesEarned, CommitResponse
<1>4. QED
  BY <1>1, <1>2, <1>3 DEF UnderWay

LEMMA ResponseInv ==
    ASSUME Inv, NEW r \in inflight, CommitResponse(r)
    PROVE  Inv'
<1> DEFINE answer == IF r.conflict THEN "DECLINED" ELSE "ACCEPTED"
<1>1. /\ r.seat \in Seat
      /\ answer \in {"ACCEPTED", "DECLINED"}
      /\ assignment[r.seat] = "PLANNED"
      /\ assignment' = [assignment EXCEPT ![r.seat] = answer]
  BY ResponseLemma DEF CommitResponse
<1> HIDE DEF answer
<1>2. assignment \in [Seat -> {"PLANNED", "ACCEPTED", "DECLINED", "COMPLETED"}]
  BY DEF Inv, TypeOK
<1>3. /\ assignment' \in [Seat -> {"PLANNED", "ACCEPTED", "DECLINED", "COMPLETED"}]
      /\ \A s \in Seat : assignment'[s] = IF s = r.seat THEN answer ELSE assignment[s]
  BY <1>1, <1>2
<1>4. \A s \in Seat : assignment'[s] = "COMPLETED" <=> assignment[s] = "COMPLETED"
  BY <1>1, <1>3
<1>5. Kept
  BY <1>1, <1>3 DEF Kept, CommitResponse, Inv, TypeOK
<1>6. TypeOK'
  BY <1>3, TakenLemma DEF Inv, TypeOK, CommitResponse
<1>7. ReportsInOrder'
  BY <1>4, SeatFacts DEF Inv, ReportsInOrder, Completed, CommitResponse
<1>8. CandidatesDecided' /\ PublishedAsSigned'
  BY <1>5, DecidedKept DEF Inv, CandidatesDecided, PublishedAsSigned, CommitResponse
<1>9. QED
  BY <1>5, <1>6, <1>7, <1>8, TakenLemma, CommitLemma DEF CommitResponse

\* What the commit of a report may rely on.
LEMMA ReportLemma ==
    ASSUME Inv, NEW r \in inflight, CommitReport(r)
    PROVE  /\ r.seat \in Seat /\ r.content \in Report
           /\ r.content # NoReport
           /\ BackedReport(r)
<1>1. r.seat \in Seat /\ r.content \in Report
  BY RequestKinds DEF Inv, TypeOK, CommitReport, ReportRequest
<1>2. r.content # NoReport
  <2>1. r.content.severity # "unfiled"
    BY <1>1 DEF Report, Severity, NoFinding
  <2>2. QED
    BY <2>1 DEF NoReport
<1>3. BackedReport(r)
  BY DEF Inv, RequestsBacked, Backed, CommitReport
<1>4. QED
  BY <1>1, <1>2, <1>3

LEMMA ReportInv ==
    ASSUME Inv, NEW r \in inflight, CommitReport(r)
    PROVE  Inv'
<1>1. /\ r.seat \in Seat /\ r.content \in Report /\ r.content # NoReport
      /\ assignment[r.seat] = "ACCEPTED"
      /\ assignment' = [assignment EXCEPT ![r.seat] = "COMPLETED"]
      /\ report' = [report EXCEPT ![r.seat] = r.content]
  BY ReportLemma DEF CommitReport
<1>2. /\ assignment \in [Seat -> {"PLANNED", "ACCEPTED", "DECLINED", "COMPLETED"}]
      /\ report \in [Seat -> Report \cup {NoReport}]
  BY DEF Inv, TypeOK
<1>3. /\ assignment' \in [Seat -> {"PLANNED", "ACCEPTED", "DECLINED", "COMPLETED"}]
      /\ report' \in [Seat -> Report \cup {NoReport}]
      /\ \A s \in Seat :
            /\ assignment'[s] = IF s = r.seat THEN "COMPLETED" ELSE assignment[s]
            /\ report'[s] = IF s = r.seat THEN r.content ELSE report[s]
  BY <1>1, <1>2
<1>4. ~Completed(Seat)
  BY <1>1 DEF Completed
<1>5. Kept
  BY <1>1, <1>3, <1>4 DEF Kept, CommitReport, Inv, TypeOK
<1>6. TypeOK'
  BY <1>3, TakenLemma DEF Inv, TypeOK, CommitReport
<1>7. ReportsInOrder'
  <2>1. \A s \in Seat : assignment'[s] = "COMPLETED" <=> report'[s] # NoReport
    BY <1>1, <1>3 DEF Inv, ReportsInOrder
  <2>2. assignment'["SR"] = "COMPLETED" => Completed(Specialist)'
    BY <1>3, ReportLemma, SeatFacts DEF Inv, ReportsInOrder, Completed, BackedReport
  <2>3. assignment'["MA"] = "COMPLETED" => Completed(Seat)'
    BY <1>1, <1>3, ReportLemma, SeatFacts DEF Inv, ReportsInOrder, Completed, BackedReport
  <2>4. QED
    BY <2>1, <2>2, <2>3 DEF ReportsInOrder
<1>8. CandidatesDecided' /\ PublishedAsSigned'
  BY <1>5, DecidedKept DEF Inv, CandidatesDecided, PublishedAsSigned, CommitReport
<1>9. QED
  BY <1>5, <1>6, <1>7, <1>8, TakenLemma, CommitLemma DEF CommitReport

\* The evaluation reads the findings once every report is in.
LEMMA EvaluationInv ==
    ASSUME Inv, NEW r \in inflight, AssessAndEvaluate(r)
    PROVE  Inv'
<1> DEFINE process == Readiness(r.blocked)
           outcome == IF process = "READY"
                      THEN Evaluate(SnapshotOf(Findings, AcceptedPlans, Sufficient))
                      ELSE "none"
           q == [op |-> "candidate", process |-> process, outcome |-> outcome,
                 accepted |-> AcceptedPlans, sufficient |-> Sufficient,
                 resolved |-> r.resolved]
<1>1. inflight' = (inflight \ {r}) \cup {q} /\ UNCHANGED records
  BY DEF AssessAndEvaluate
<1>2. process \in {"READY", "BLOCKED", "VOID"}
  BY DEF AssessAndEvaluate, Readiness
<1>3. process = "READY" => Completed(Seat)
  BY DEF Readiness, Unmet
<1>4. Sufficient \in BOOLEAN
  BY DEF Sufficient
<1>5. outcome \in Outcome \cup {"none"}
  BY <1>4, OutcomeLemma
<1>6. AcceptedPlans \in SUBSET Seat
  BY DEF AcceptedPlans, Inv, TypeOK
<1>7. r.resolved \in BOOLEAN
  BY RequestKinds DEF Inv, TypeOK, AssessAndEvaluate, PrepareRequest
<1>8. Decided(q)
  BY <1>3 DEF Decided
<1>9. q.op = "candidate"
  OBVIOUS
<1> HIDE DEF process, outcome
<1>10. q \in CandidateRequest
  BY <1>2, <1>4, <1>5, <1>6, <1>7 DEF CandidateRequest
<1> HIDE DEF q
<1>11. q \in Inflight
  BY <1>10, InflightUnion
<1>12. Backed(q)
  BY <1>8, <1>9 DEF Backed
<1>13. inflight' \subseteq Inflight
  BY <1>1, <1>11 DEF Inv, TypeOK
<1>14. \A x \in inflight' : Backed(x)
  BY <1>1, <1>12 DEF Inv, RequestsBacked
<1>15. QED
  BY <1>1, <1>13, <1>14, RequestLemma

LEMMA CandidateInv ==
    ASSUME Inv, NEW r \in inflight, CommitCandidate(r)
    PROVE  Inv'
<1> DEFINE c == [process |-> r.process, outcome |-> r.outcome, accepted |-> r.accepted,
                 sufficient |-> r.sufficient, resolved |-> r.resolved, listed |-> plans]
<1>1. r \in CandidateRequest
  BY RequestKinds DEF Inv, TypeOK, CommitCandidate
<1>2. c \in Candidate
  BY <1>1 DEF Candidate, CandidateRequest, Inv, TypeOK
<1>3. Decided(c)
  <2>1. Decided(r)
    BY DEF Inv, RequestsBacked, Backed, CommitCandidate
  <2>2. QED
    BY <2>1 DEF Decided
<1>4. candidates' = Append(candidates, c)
  BY DEF CommitCandidate
<1>5. candidates \in Seq(Candidate) /\ Len(candidates) \in Nat
  BY LenProperties DEF Inv, TypeOK
<1> HIDE DEF c
<1>6. /\ candidates' \in Seq(Candidate)
      /\ Len(candidates') = Len(candidates) + 1
      /\ \A i \in 1 .. Len(candidates) : candidates'[i] = candidates[i]
      /\ candidates'[Len(candidates) + 1] = c
  BY <1>2, <1>4, <1>5, AppendProperties
<1>7. Kept
  BY <1>5, <1>6 DEF Kept, CommitCandidate, Inv, TypeOK
<1>8. TypeOK'
  <2>1. decision' \in 0 .. Len(candidates')
    BY <1>5, <1>6 DEF Inv, TypeOK, CommitCandidate
  <2>2. QED
    BY <1>6, <2>1, TakenLemma DEF Inv, TypeOK, CommitCandidate
<1>9. ReportsInOrder'
  BY DEF Inv, ReportsInOrder, Completed, CommitCandidate
<1>10. CandidatesDecided'
  <2>1. ASSUME NEW i \in 1 .. Len(candidates')
        PROVE  Decided(candidates'[i])
    <3>1. CASE i \in 1 .. Len(candidates)
      BY <1>6, <3>1 DEF Inv, CandidatesDecided
    <3>2. CASE i = Len(candidates) + 1
      BY <1>3, <1>6, <3>2
    <3>3. QED
      BY <1>5, <1>6, <3>1, <3>2
  <2>2. ASSUME NEW i \in 1 .. Len(candidates')
        PROVE  Decided(candidates[i])'
    <3>1. PICK x : x = candidates'[i]
      OBVIOUS
    <3>2. Decided(x)'
      BY <1>7, <2>1, <3>1, DecidedKept
    <3>3. QED
      BY <3>1, <3>2
  <2>3. QED
    BY <2>2 DEF CandidatesDecided
<1>11. PublishedAsSigned'
  BY <1>6 DEF Inv, TypeOK, PublishedAsSigned, CommitCandidate
<1>12. QED
  BY <1>7, <1>8, <1>9, <1>10, <1>11, TakenLemma, CommitLemma DEF CommitCandidate

LEMMA DecisionInv ==
    ASSUME Inv, NEW r \in inflight, CommitDecision(r)
    PROVE  Inv'
<1>1. r.candidate \in 1 .. Len(candidates) /\ candidates[r.candidate].process = "READY"
  BY DEF Inv, RequestsBacked, Backed, CommitDecision
<1>2. Kept
  BY DEF Kept, CommitDecision, Inv, TypeOK
<1>3. TypeOK'
  BY <1>1, TakenLemma DEF Inv, TypeOK, CommitDecision
<1>4. ReportsInOrder' /\ CandidatesDecided'
  BY <1>2, DecidedKept DEF Inv, ReportsInOrder, Completed, CandidatesDecided, CommitDecision
<1>5. PublishedAsSigned'
  BY <1>1 DEF Inv, PublishedAsSigned, CommitDecision
<1>6. QED
  BY <1>2, <1>3, <1>4, <1>5, TakenLemma, CommitLemma DEF CommitDecision

LEMMA PublicationInv ==
    ASSUME Inv, NEW r \in inflight, CommitPublication(r)
    PROVE  Inv'
<1> DEFINE p == [outcome |-> r.outcome, by |-> r.by]
<1>1. /\ decision # 0
      /\ r.outcome = candidates[decision].outcome
  BY DEF Inv, RequestsBacked, Backed, CommitPublication
<1>2. p \in [outcome : Outcome, by : Publisher]
  BY RequestKinds DEF Inv, TypeOK, CommitPublication, PublishRequest
<1>3. publication' = p /\ p.outcome = r.outcome /\ p.by \notin {"BC", "MA"}
  BY DEF CommitPublication
<1> HIDE DEF p
<1>4. Kept
  BY DEF Kept, CommitPublication, Inv, TypeOK
<1>5. TypeOK'
  BY <1>2, <1>3, TakenLemma DEF Inv, TypeOK, CommitPublication
<1>6. ReportsInOrder' /\ CandidatesDecided'
  BY <1>4, DecidedKept DEF Inv, ReportsInOrder, Completed, CandidatesDecided,
                           CommitPublication
<1>7. PublishedAsSigned'
  BY <1>1, <1>3 DEF Inv, PublishedAsSigned, CommitPublication
<1>8. QED
  BY <1>4, <1>5, <1>6, <1>7, TakenLemma, CommitLemma DEF CommitPublication

\* A transition of the version that was read: what the next phase needs is
\* still there, every other request to advance is out of date, and what else
\* is in flight does not mind.
LEMMA TransitionInv ==
    ASSUME Inv, NEW r \in inflight, CommitTransition(r)
    PROVE  Inv'
<1>1. /\ <<status, r.target>> \in Transitions
      /\ Earned(r.target)
      /\ status' = r.target
  BY DEF Inv, RequestsBacked, Backed, CommitTransition
<1>2. UNCHANGED <<packages, evidence, assignment, report, plans, candidates,
                  decision, publication>>
  BY DEF CommitTransition
<1>3. \A q \in inflight' :
         \E p \in inflight : IF p.op = "advance" THEN q = [p EXCEPT !.current = FALSE]
                                                 ELSE q = p
  BY DEF CommitTransition
<1>4. inflight' \subseteq Inflight
  BY <1>3, OutdatedType DEF Inv, TypeOK
<1>5. TypeOK'
  BY <1>1, <1>2, <1>4, StatesLemma DEF Inv, TypeOK
<1>6. PhasesEarned'
  BY <1>1, <1>2 DEF PhasesEarned, Earned, Package, Last, Completed
<1>7. ReportsInOrder'
  BY <1>2 DEF Inv, ReportsInOrder, Completed
<1>8. \A c : Decided(c)' <=> Decided(c)
  BY <1>2 DEF Decided, Findings, Completed
<1>9. CandidatesDecided'
  BY <1>2, <1>8 DEF Inv, CandidatesDecided
<1>10. PublishedAsSigned'
  BY <1>2 DEF Inv, PublishedAsSigned
<1>11. ASSUME NEW q \in inflight'
       PROVE  Backed(q)'
  <2>1. PICK p \in inflight : IF p.op = "advance" THEN q = [p EXCEPT !.current = FALSE]
                                                  ELSE q = p
    BY <1>3
  <2>2. CASE p.op = "advance"
    <3>1. q.op = "advance" /\ q.current = FALSE
      BY <2>1, <2>2, OutdatedType DEF Inv, TypeOK
    <3>2. QED
      BY <3>1 DEF Backed
  <2>3. CASE p.op # "advance"
    <3>1. q = p /\ Backed(p)
      BY <2>1, <2>3 DEF Inv, RequestsBacked
    <3>2. q.op = "respond" => status' \in UnderWay
      BY <1>1, <3>1, UnderWayLemma DEF Backed
    <3>3. q.op = "report" => BackedReport(q)'
      <4>1. SUFFICES ASSUME q.op = "report"
                     PROVE  BackedReport(q)'
        OBVIOUS
      <4>2. BackedReport(q)
        BY <3>1, <4>1 DEF Backed
      <4>3. q.seat \in Specialist => assignment[q.seat] # "ACCEPTED"
        <5>1. SUFFICES ASSUME q.seat \in Specialist, assignment[q.seat] = "ACCEPTED"
                       PROVE  FALSE
          OBVIOUS
        <5>2. status = "INDEPENDENT_REVIEW"
          BY <4>2, <5>1 DEF BackedReport
        <5>3. r.target \in FromChallenge
          BY <1>1, <5>2 DEF Transitions, FromChallenge
        <5>4. QED
          BY <1>1, <5>1, <5>3 DEF Earned, Completed
      <4>4. QED
        BY <1>2, <4>2, <4>3 DEF BackedReport, Completed
    <3>4. QED
      BY <1>2, <1>8, <2>3, <3>1, <3>2, <3>3 DEF Backed
  <2>4. QED
    BY <2>2, <2>3
<1>12. QED
  BY <1>5, <1>6, <1>7, <1>9, <1>10, <1>11 DEF Inv, RequestsBacked

LEMMA DropInv ==
    ASSUME Inv, NEW r \in inflight, Drop(r)
    PROVE  Inv'
BY TakenLemma, RequestLemma DEF Drop, Taken, Inv, RequestsBacked
---------------------------------------------------------------------------
LEMMA InitInv == Init => Inv
<1> SUFFICES ASSUME Init
             PROVE  Inv
  OBVIOUS
<1> DEFINE Quality == {"READY", "PROCEDURALLY_INCOMPLETE"}
<1>1. packages \in Seq(Quality) \ {<<>>}
  <2>1. PICK quality \in Quality : packages = <<quality>>
    BY DEF Init
  <2>2. packages = Append(<<>>, quality)
    BY <2>1
  <2>3. <<>> \in Seq(Quality) /\ Len(<<>>) = 0
    BY EmptySeq
  <2> HIDE DEF Quality
  <2>4. packages \in Seq(Quality) /\ Len(packages) = 1
    BY <2>2, <2>3, AppendProperties
  <2>5. QED
    BY <2>3, <2>4
<1>2. candidates \in Seq(Candidate) /\ Len(candidates) = 0
  BY EmptySeq DEF Init
<1>3. status \in States
  BY DEF Init, InitialState, States, Transitions
<1>4. TypeOK
  BY <1>1, <1>2, <1>3 DEF Init, TypeOK
<1>5. PhasesEarned
  BY DEF Init, InitialState, PhasesEarned, FromAccepted, FromLock, FromReview,
         FromChallenge, FromConsolidation, FromGovernance, FromDecided, AfterDecision
<1>6. ReportsInOrder
  BY SeatFacts DEF Init, ReportsInOrder
<1>7. CandidatesDecided
  BY <1>2 DEF CandidatesDecided
<1>8. PublishedAsSigned /\ RequestsBacked
  BY DEF Init, PublishedAsSigned, RequestsBacked
<1>9. QED
  BY <1>4, <1>5, <1>6, <1>7, <1>8 DEF Inv

LEMMA NextInv == Inv /\ [Next]_vars => Inv'
<1> SUFFICES ASSUME Inv, [Next]_vars
             PROVE  Inv'
  OBVIOUS
<1>1. CASE Request
  BY <1>1, RequestInv
<1>2. ASSUME NEW r \in inflight, Proceed(r)
      PROVE  Inv'
  BY <1>2, EvidenceInv, PackageInv, ResponseInv, ReportInv, PlanInv, EvaluationInv,
     CandidateInv, DecisionInv, PublicationInv, TransitionInv, DropInv DEF Proceed
<1>3. CASE UNCHANGED vars
  BY <1>3, RequestLemma DEF vars, Inv, TypeOK, RequestsBacked
<1>4. QED
  BY <1>1, <1>2, <1>3 DEF Next

LEMMA Invariance == Spec => []Inv
BY InitInv, NextInv, PTL DEF Spec
---------------------------------------------------------------------------
\* Every record and every request in flight has its type.
THEOREM TypeCorrect == Spec => []TypeOK
<1>1. Inv => TypeOK
  BY DEF Inv
<1>2. QED
  BY <1>1, Invariance, PTL

\* No phase of a review is entered, or stays entered, without what advance
\* demands of it, however many clients and requests there are.
THEOREM PhasesAreEarned == Spec => []PhasesEarned
<1>1. Inv => PhasesEarned
  BY DEF Inv
<1>2. QED
  BY <1>1, Invariance, PTL

\* Reports are filed by those assigned, the Sceptical Reviewer after every
\* specialist and the Methodology Auditor last.
THEOREM ReportsKeepOrder == Spec => []ReportsInOrder
<1>1. Inv => ReportsInOrder
  BY DEF Inv
<1>2. QED
  BY <1>1, Invariance, PTL

\* A READY candidate was decided over all the findings there will ever be.
THEOREM CandidatesAreSound == Spec => []CandidatesSound
<1>1. Inv => CandidatesSound
  <2> SUFFICES ASSUME Inv, NEW i \in DOMAIN candidates
               PROVE  Decided(candidates[i])
    BY DEF CandidatesSound, Decided
  <2>1. DOMAIN candidates = 1 .. Len(candidates)
    BY LenProperties DEF Inv, TypeOK
  <2>2. QED
    BY <2>1 DEF Inv, CandidatesDecided
<1>2. QED
  BY <1>1, Invariance, PTL

\* What is published is what was signed, a READY candidate's outcome.
THEOREM PublicationsAsSigned == Spec => []PublishedAsSigned
<1>1. Inv => PublishedAsSigned
  BY DEF Inv
<1>2. QED
  BY <1>1, Invariance, PTL
---------------------------------------------------------------------------
(* What a step may never do.                                               *)

\* Everything but a commit leaves the records as they are.
LEMMA RecordsStay ==
    ASSUME [Next]_vars, ~ \E r \in inflight :
               \/ CommitEvidence(r) \/ CommitPackage(r) \/ CommitResponse(r)
               \/ CommitReport(r) \/ CommitPlan(r) \/ CommitCandidate(r)
               \/ CommitDecision(r) \/ CommitPublication(r) \/ CommitTransition(r)
    PROVE  UNCHANGED records
<1>1. CASE Request
  BY <1>1 DEF Request, RegisterEvidence, Resubmit, Respond, SubmitReport, SubmitPlan,
              Prepare, Ratify, Publish, Advance, Ask
<1>2. CASE \E r \in inflight : AssessAndEvaluate(r) \/ Drop(r)
  BY <1>2 DEF AssessAndEvaluate, Drop
<1>3. CASE UNCHANGED vars
  BY <1>3 DEF vars
<1>4. QED
  BY <1>1, <1>2, <1>3 DEF Next, Proceed

\* Requests commit late but never out of phase: reports of specialists in
\* INDEPENDENT_REVIEW, answers in ASSIGNMENT, packages in RETURNED.
THEOREM CommitsKeepPhase == Spec => CommitsInPhase
<1> DEFINE Reports == \A s \in Specialist :
                          report'[s] # report[s] => status = "INDEPENDENT_REVIEW"
           Answers == \A s \in Seat :
                          assignment[s] = "PLANNED" /\ assignment'[s] # "PLANNED"
                             => status = "ASSIGNMENT"
           Packages == packages' # packages => status = "RETURNED"
<1>1. ASSUME Inv, [Next]_vars
      PROVE  [Reports /\ Answers /\ Packages]_vars
  <2>1. ASSUME NEW r \in inflight, CommitResponse(r)
        PROVE  Reports /\ Answers /\ Packages
    BY <1>1, <2>1, ResponseLemma DEF CommitResponse
  <2>2. ASSUME NEW r \in inflight, CommitReport(r)
        PROVE  Reports /\ Answers /\ Packages
    <3>1. BackedReport(r) /\ assignment[r.seat] = "ACCEPTED"
      BY <1>1, <2>2, ReportLemma DEF CommitReport
    <3>2. \A s \in Seat : s # r.seat => report'[s] = report[s]
                                        /\ assignment'[s] = assignment[s]
      BY <1>1, <2>2 DEF CommitReport, Inv, TypeOK
    <3>3. QED
      BY <2>2, <3>1, <3>2, SeatFacts DEF BackedReport, CommitReport
  <2>3. ASSUME NEW r \in inflight,
               \/ CommitEvidence(r) \/ CommitPackage(r) \/ CommitPlan(r)
               \/ CommitCandidate(r) \/ CommitDecision(r) \/ CommitPublication(r)
               \/ CommitTransition(r)
        PROVE  Reports /\ Answers /\ Packages
    BY <2>3 DEF CommitEvidence, CommitPackage, CommitPlan, CommitCandidate,
                CommitDecision, CommitPublication, CommitTransition
  <2>4. CASE UNCHANGED records
    BY <2>4 DEF records
  <2>5. QED
    BY <1>1, <2>1, <2>2, <2>3, <2>4, RecordsStay
<1>2. QED
  BY <1>1, Invariance, PTL DEF Spec, CommitsInPhase

LEMMA AppendKeeps ==
    ASSUME NEW S, NEW s \in Seq(S), NEW e \in S
    PROVE  SubSeq(Append(s, e), 1, Len(s)) = s
BY AppendProperties, SubSeqProperties, SeqEqual, LenProperties

\* Reports, packages and candidates are never replaced, evidence and plans
\* never withdrawn, and the board decides and publishes once.
THEOREM RecordsAreKept == Spec => RecordsAppendOnly
<1> DEFINE Added == /\ \A s \in Seat : report[s] # NoReport => report'[s] = report[s]
                    /\ SubSeq(packages', 1, Len(packages)) = packages
                    /\ SubSeq(candidates', 1, Len(candidates)) = candidates
                    /\ evidence \subseteq evidence' /\ plans \subseteq plans'
                    /\ decision # 0 => decision' = decision
                    /\ publication # NoPublication => publication' = publication
<1>1. ASSUME Inv, [Next]_vars
      PROVE  [Added]_vars
  <2>1. /\ packages \in Seq({"READY", "PROCEDURALLY_INCOMPLETE"})
        /\ candidates \in Seq(Candidate)
    BY <1>1 DEF Inv, TypeOK
  <2>2. /\ SubSeq(packages, 1, Len(packages)) = packages
        /\ SubSeq(candidates, 1, Len(candidates)) = candidates
    BY <2>1, SubSeqFull
  <2>3. ASSUME NEW r \in inflight, CommitPackage(r)
        PROVE  Added
    <3>1. r.quality \in {"READY", "PROCEDURALLY_INCOMPLETE"}
      BY <1>1, <2>3, RequestKinds DEF Inv, TypeOK, CommitPackage, PackageRequest
    <3>2. SubSeq(packages', 1, Len(packages)) = packages
      BY <2>1, <2>3, <3>1, AppendKeeps DEF CommitPackage
    <3>3. QED
      BY <2>2, <2>3, <3>2 DEF CommitPackage
  <2>4. ASSUME NEW r \in inflight, CommitCandidate(r)
        PROVE  Added
    <3> DEFINE c == [process |-> r.process, outcome |-> r.outcome,
                     accepted |-> r.accepted, sufficient |-> r.sufficient,
                     resolved |-> r.resolved, listed |-> plans]
    <3>1. r \in CandidateRequest
      BY <1>1, <2>4, RequestKinds DEF Inv, TypeOK, CommitCandidate
    <3>2. c \in Candidate
      BY <1>1, <3>1 DEF Candidate, CandidateRequest, Inv, TypeOK
    <3>3. candidates' = Append(candidates, c)
      BY <2>4 DEF CommitCandidate
    <3> HIDE DEF c
    <3>4. SubSeq(candidates', 1, Len(candidates)) = candidates
      BY <2>1, <3>2, <3>3, AppendKeeps
    <3>5. QED
      BY <2>2, <2>4, <3>4 DEF CommitCandidate
  <2>5. ASSUME NEW r \in inflight, CommitReport(r)
        PROVE  Added
    <3>1. \A s \in Seat : report[s] # NoReport => report'[s] = report[s]
      BY <1>1, <2>5 DEF Inv, TypeOK, ReportsInOrder, CommitReport
    <3>2. QED
      BY <2>2, <2>5, <3>1 DEF CommitReport
  <2>6. ASSUME NEW r \in inflight,
               \/ CommitEvidence(r) \/ CommitResponse(r) \/ CommitPlan(r)
               \/ CommitDecision(r) \/ CommitPublication(r) \/ CommitTransition(r)
        PROVE  Added
    BY <2>2, <2>6 DEF CommitEvidence, CommitResponse, CommitPlan, CommitDecision,
                      CommitPublication, CommitTransition
  <2>7. CASE UNCHANGED records
    BY <2>2, <2>7 DEF records
  <2>8. QED
    BY <1>1, <2>3, <2>4, <2>5, <2>6, <2>7, RecordsStay
<1>2. QED
  BY <1>1, Invariance, PTL DEF Spec, RecordsAppendOnly
---------------------------------------------------------------------------
(* The profile's rules and evaluate_outcome agree on every snapshot, not   *)
(* only on the boundary values tried at start-up, and the outcome moves    *)
(* the right way as findings and plans accumulate.                         *)

\* A rule that is selected is the one CHOOSE finds.
LEMMA SelectionLemma ==
    ASSUME NEW c, NEW rule \in Rule, Selects(rule, c)
    PROVE  Evaluate(c) = RuleOutcome(rule)
<1>1. \A r \in Rule : Selects(r, c) => r = rule
  BY DEF Selects, Rule
<1>2. (CHOOSE r \in Rule : Selects(r, c)) = rule
  BY <1>1
<1>3. QED
  BY <1>2 DEF Evaluate

\* On every snapshot some rule matches, and the first one that does decides
\* what evaluate_outcome decides.
LEMMA DecisionLemma ==
    ASSUME NEW c \in Snapshot
    PROVE  /\ \E rule \in Rule : Matches(rule, c)
           /\ Evaluate(c) = EvaluateOutcome(c)
<1>1. c.sev1 \in Nat /\ c.sev2 \in Nat /\ c.accepted \in Nat
      /\ c.sufficient \in BOOLEAN /\ c.accepted <= c.sev2
  BY DEF Snapshot
<1>2. Rule = {1, 2, 3, 4, 5, 6}
  BY DEF Rule
<1>3. CASE c.sev1 >= 1
  <2>1. Selects(1, c)
    BY <1>2, <1>3 DEF Selects, Matches
  <2>2. QED
    BY <1>2, <1>3, <2>1, SelectionLemma DEF RuleOutcome, EvaluateOutcome, Selects
<1>4. CASE ~(c.sev1 >= 1) /\ c.sev2 >= 2
  <2>1. Selects(2, c)
    BY <1>1, <1>2, <1>4 DEF Selects, Matches
  <2>2. QED
    BY <1>2, <1>4, <2>1, SelectionLemma DEF RuleOutcome, EvaluateOutcome, Selects
<1>5. CASE ~(c.sev1 >= 1) /\ c.sev2 = 1 /\ c.accepted = 0
  <2>1. Selects(3, c)
    BY <1>1, <1>2, <1>5 DEF Selects, Matches
  <2>2. QED
    BY <1>2, <1>5, <2>1, SelectionLemma DEF RuleOutcome, EvaluateOutcome, Selects
<1> DEFINE open == ~(c.sev1 >= 1) /\ ~(c.sev2 >= 2) /\ ~(c.sev2 = 1 /\ c.accepted = 0)
<1>6. CASE open /\ ~c.sufficient
  <2>1. Selects(4, c)
    BY <1>1, <1>2, <1>6 DEF Selects, Matches
  <2>2. QED
    BY <1>2, <1>6, <2>1, SelectionLemma DEF RuleOutcome, EvaluateOutcome, Selects
<1>7. CASE open /\ c.sufficient /\ c.sev2 = 1
  <2>1. Selects(5, c)
    BY <1>1, <1>2, <1>7 DEF Selects, Matches
  <2>2. QED
    BY <1>2, <1>7, <2>1, SelectionLemma DEF RuleOutcome, EvaluateOutcome, Selects
<1>8. CASE open /\ c.sufficient /\ c.sev2 # 1
  <2>1. c.sev1 = 0 /\ c.sev2 = 0
    BY <1>1, <1>8
  <2>2. Selects(6, c)
    BY <1>1, <1>2, <1>8, <2>1 DEF Selects, Matches
  <2>3. QED
    BY <1>2, <1>8, <2>2, SelectionLemma DEF RuleOutcome, EvaluateOutcome, Selects
<1>9. QED
  BY <1>1, <1>3, <1>4, <1>5, <1>6, <1>7, <1>8

\* The counts of a finite set of findings form a snapshot.
LEMMA CountLemma ==
    ASSUME NEW S, IsFiniteSet(S), NEW R, NEW b \in BOOLEAN
    PROVE  SnapshotOf(S, R, b) \in Snapshot
<1>1. \A s : IsFiniteSet(Unresolved(S, s)) /\ Cardinality(Unresolved(S, s)) \in Nat
  BY FS_Subset, FS_CardinalityType DEF Unresolved
<1>2. Remediated(S, R) \subseteq Unresolved(S, "SEV-2")
  BY DEF Remediated
<1>3. /\ Cardinality(Remediated(S, R)) \in Nat
      /\ Cardinality(Remediated(S, R)) <= Cardinality(Unresolved(S, "SEV-2"))
  BY <1>1, <1>2, FS_Subset, FS_CardinalityType
<1>4. QED
  BY <1>1, <1>3 DEF SnapshotOf, Snapshot

\* More unresolved findings never improve the outcome.
LEMMA WorseLemma ==
    ASSUME NEW c \in Snapshot, NEW d \in Snapshot,
           d.sufficient = c.sufficient, d.sev1 >= c.sev1, d.sev2 >= c.sev2,
           d.sev2 = c.sev2 => d.accepted = c.accepted
    PROVE  Rank(EvaluateOutcome(d)) <= Rank(EvaluateOutcome(c))
BY DEF Snapshot, EvaluateOutcome, Rank

\* With the same findings, more accepted plans never worsen it.
LEMMA BetterLemma ==
    ASSUME NEW c \in Snapshot, NEW d \in Snapshot,
           d.sufficient = c.sufficient, d.sev1 = c.sev1, d.sev2 = c.sev2,
           d.accepted >= c.accepted
    PROVE  Rank(EvaluateOutcome(d)) >= Rank(EvaluateOutcome(c))
BY DEF Snapshot, EvaluateOutcome, Rank

LEMMA CurrentLemma ==
    RecordTypeOK => Current \in Snapshot
BY CountLemma DEF RecordTypeOK, Current
---------------------------------------------------------------------------
LEMMA RecordInitType == RecordInit => RecordTypeOK
BY FS_EmptySet DEF RecordInit, RecordTypeOK

LEMMA RecordNextType == RecordTypeOK /\ [RecordNext]_recordVars => RecordTypeOK'
<1> SUFFICES ASSUME RecordTypeOK, [RecordNext]_recordVars
             PROVE  RecordTypeOK'
  OBVIOUS
<1>1. ASSUME NEW f \in FindingRecord, File(f)
      PROVE  RecordTypeOK'
  BY <1>1, FS_AddElement DEF File, RecordTypeOK
<1>2. ASSUME NEW f \in FindingRecord, Accept(f)
      PROVE  RecordTypeOK'
  BY <1>2 DEF Accept, RecordTypeOK, FindingRecord
<1>3. CASE UNCHANGED recordVars
  BY <1>3 DEF recordVars, RecordTypeOK
<1>4. QED
  BY <1>1, <1>2, <1>3 DEF RecordNext

\* Every variable has its type, in every reachable state.
THEOREM RecordTypeCorrect == RecordSpec => []RecordTypeOK
BY RecordInitType, RecordNextType, PTL DEF RecordSpec

\* Some rule matches whatever findings and plans have accumulated.
THEOREM AlwaysTotal == RecordSpec => []RulesAreTotal
<1>1. RecordTypeOK => RulesAreTotal
  BY CurrentLemma, DecisionLemma DEF RulesAreTotal
<1>2. QED
  BY <1>1, RecordTypeCorrect, PTL

\* The profile's ordered rules decide what evaluate_outcome decides, for any
\* number of findings and plans.
THEOREM AlwaysAgrees == RecordSpec => []EngineAgreesWithPackage
<1>1. RecordTypeOK => EngineAgreesWithPackage
  BY CurrentLemma, DecisionLemma DEF EngineAgreesWithPackage
<1>2. QED
  BY <1>1, RecordTypeCorrect, PTL
---------------------------------------------------------------------------
\* A filed finding adds at most one to each count, and leaves the count of
\* accepted plans alone unless it is one of the findings plans are for.
LEMMA FileLemma ==
    ASSUME RecordTypeOK, NEW f \in FindingRecord, File(f)
    PROVE  /\ Current'.sufficient = Current.sufficient
           /\ Current'.sev1 >= Current.sev1
           /\ Current'.sev2 >= Current.sev2
           /\ Current'.sev2 = Current.sev2 => Current'.accepted = Current.accepted
<1> DEFINE S == findings
           T == findings \cup {f}
<1>1. findings' = T /\ remediated' = remediated /\ sufficient' = sufficient
  BY DEF File
<1>2. IsFiniteSet(S) /\ IsFiniteSet(T)
  BY FS_AddElement DEF RecordTypeOK
<1>3. f \notin S
  BY DEF File
<1>4. \A s : /\ IsFiniteSet(Unresolved(T, s))
             /\ Unresolved(S, s) \subseteq Unresolved(T, s)
             /\ Cardinality(Unresolved(S, s)) <= Cardinality(Unresolved(T, s))
  <2>1. \A s : Unresolved(T, s) \subseteq T /\ Unresolved(S, s) \subseteq Unresolved(T, s)
    BY DEF Unresolved
  <2>2. QED
    BY <1>2, <2>1, FS_Subset
<1>5. ASSUME Cardinality(Unresolved(T, "SEV-2")) = Cardinality(Unresolved(S, "SEV-2"))
      PROVE  Remediated(T, remediated) = Remediated(S, remediated)
  <2>1. Unresolved(S, "SEV-2") = Unresolved(T, "SEV-2")
    BY <1>4, <1>5, FS_Subset
  <2>2. QED
    BY <2>1 DEF Remediated
<1>6. \A s : Cardinality(Unresolved(S, s)) \in Nat /\ Cardinality(Unresolved(T, s)) \in Nat
  BY <1>4, FS_Subset, FS_CardinalityType
<1>7. /\ Current' = SnapshotOf(T, remediated, sufficient)
      /\ Current = SnapshotOf(S, remediated, sufficient)
  BY <1>1 DEF Current
<1> HIDE DEF S, T
<1>8. QED
  BY <1>4, <1>5, <1>6, <1>7 DEF SnapshotOf

\* A finding never makes the outcome more favourable.
THEOREM NoFindingHelps == RecordSpec => FindingsNeverHelp
<1>1. RecordTypeOK /\ RecordTypeOK' /\ [RecordNext]_recordVars =>
        [findings' # findings =>
           Rank(Evaluate(Current')) <= Rank(Evaluate(Current))]_recordVars
  <2> SUFFICES ASSUME RecordTypeOK, RecordTypeOK', [RecordNext]_recordVars, findings' # findings
               PROVE  Rank(Evaluate(Current')) <= Rank(Evaluate(Current))
    OBVIOUS
  <2>1. PICK f \in FindingRecord : File(f)
    BY DEF RecordNext, Accept, recordVars
  <2>2. Current \in Snapshot /\ Current' \in Snapshot
    BY CountLemma DEF RecordTypeOK, Current
  <2>3. Rank(EvaluateOutcome(Current')) <= Rank(EvaluateOutcome(Current))
    BY <2>1, <2>2, FileLemma, WorseLemma
  <2>4. QED
    BY <2>2, <2>3, DecisionLemma
<1>2. QED
  BY <1>1, RecordTypeCorrect, PTL DEF RecordSpec, FindingsNeverHelp

\* A plan never makes it less favourable.
THEOREM NoPlanHurts == RecordSpec => PlansNeverHurt
<1>1. RecordTypeOK /\ RecordTypeOK' /\ [RecordNext]_recordVars =>
        [remediated' # remediated =>
           Rank(Evaluate(Current')) >= Rank(Evaluate(Current))]_recordVars
  <2> SUFFICES ASSUME RecordTypeOK, RecordTypeOK', [RecordNext]_recordVars, remediated' # remediated
               PROVE  Rank(Evaluate(Current')) >= Rank(Evaluate(Current))
    OBVIOUS
  <2>1. PICK f \in FindingRecord : Accept(f)
    BY DEF RecordNext, File, recordVars
  <2>2. Current \in Snapshot /\ Current' \in Snapshot
    BY CountLemma DEF RecordTypeOK, Current
  <2>3. /\ findings' = findings /\ sufficient' = sufficient
        /\ remediated \subseteq remediated'
    BY <2>1 DEF Accept
  <2>4. /\ IsFiniteSet(Unresolved(findings, "SEV-2"))
        /\ Remediated(findings, remediated) \subseteq Remediated(findings, remediated')
        /\ Remediated(findings, remediated') \subseteq Unresolved(findings, "SEV-2")
    BY <2>3, FS_Subset DEF RecordTypeOK, Unresolved, Remediated
  <2>5. Cardinality(Remediated(findings, remediated))
          <= Cardinality(Remediated(findings, remediated'))
    BY <2>4, FS_Subset
  <2>6. /\ Current'.sufficient = Current.sufficient
        /\ Current'.sev1 = Current.sev1 /\ Current'.sev2 = Current.sev2
        /\ Current'.accepted >= Current.accepted
    BY <2>2, <2>3, <2>5 DEF Current, SnapshotOf, Snapshot
  <2>7. Rank(EvaluateOutcome(Current')) >= Rank(EvaluateOutcome(Current))
    BY <2>2, <2>6, BetterLemma
  <2>8. QED
    BY <2>2, <2>7, DecisionLemma
<1>2. QED
  BY <1>1, RecordTypeCorrect, PTL DEF RecordSpec, PlansNeverHurt
===========================================================================
