------------------------------ MODULE SvRules ------------------------------
(***************************************************************************)
(* The verdict of the Solution Validation engine (sv_engine/services): a   *)
(* handoff h is a record of evidence, claims, two workflows, the economics *)
(* and three scenarios; the rule set SV-RULES-1.1 decides whether to build *)
(* a prototype.                                                            *)
(*                                                                         *)
(* Arithmetic is exact.  A confidence of a handoff and an adjustment count *)
(* hundredths; a category's confidence and the scores, which the code      *)
(* rounds to four digits, count units of 10^-4; money counts thousands,    *)
(* months, margins and customers count hundredths.                         *)
(***************************************************************************)
EXTENDS Integers, FiniteSets, FiniteSetsExt

CONSTANT None      \* a value the handoff leaves out

ASSUME NoneAssumption == None \notin {"true", "false", "zero"}

Categories == {"C1", "C2", "C3", "C4", "C5", "C6", "C7", "C8", "C9", "C10", "C11", "C12"}
Gates      == {"G1", "G2", "G3", "G4", "G5", "G6", "G7", "G8"}
Scenarios  == {"downside", "base", "upside"}

BUILD_PROTOTYPE  == "BUILD PROTOTYPE"
VALIDATE_FURTHER == "VALIDATE FURTHER"
DO_NOT_BUILD     == "DO NOT BUILD"

\* The rule set: weights in hundredths, what a prototype needs, which claims.
Weight == [c \in Categories |->
    CASE c = "C1" -> 12 [] c \in {"C8", "C9"} -> 8 [] c = "C10" -> 5
      [] c = "C11" -> 4 [] c = "C12" -> 3 [] OTHER -> 10]

MinimumBuildScore == [c \in Categories |-> IF c \in {"C8", "C10", "C11", "C12"} THEN 2 ELSE 3]

RequiredClaims == [c \in Categories |->
    CASE c = "C1"  -> {"problem_solution_linkage"}
      [] c = "C2"  -> {"baseline_documented"}
      [] c = "C3"  -> {"improvement_measurable"}
      [] c = "C4"  -> {"technical_plausible"}
      [] c = "C5"  -> {"internal_operability_acceptable"}
      [] c = "C6"  -> {"buyer_identified", "budget_path_identified"}
      [] c = "C7"  -> {"customer_value_positive", "value_traceable"}
      [] c = "C8"  -> {"competitive_wedge"}
      [] c = "C9"  -> {"provena_economics_positive"}
      [] c = "C10" -> {"adoption_risk_acceptable"}
      [] c = "C11" -> {"solution_reusable"}
      [] c = "C12" -> {"strategic_fit"}]

RequiredTrueClaims == [g \in Gates |->
    CASE g = "G1" -> {"problem_solution_linkage"}
      [] g = "G2" -> {"baseline_documented"}
      [] g = "G3" -> {"technical_plausible"}
      [] g = "G4" -> {"buyer_identified", "budget_path_identified"}
      [] g = "G5" -> {"improvement_measurable", "value_traceable", "customer_value_positive"}
      [] g = "G6" -> {"internal_operability_acceptable", "provena_economics_positive"}
      [] g = "G7" -> {"competitive_wedge"}
      [] g = "G8" -> {"ethical_legal_regulatory_acceptable"}]

GlobalBuildClaim == "prototype_cost_proportionate"

DirectClasses == {"E1", "E2", "E3", "E4", "E7"}
EstimateCap   == 35
BuildScore        == 27500
BuildConfidence   == 5500
BorderlineTolerance == 30
MaximumAdjustment   == 75
---------------------------------------------------------------------------
(* References: a handoff whose links do not hold is refused.               *)

\* What the sections of a handoff cite must be linked to their category.
SectionCategory ==
    [current |-> "C2", proposed |-> "C3", buyer |-> "C6", customer |-> "C7",
     provena |-> "C9", operability |-> "C5", competitors |-> "C8"]

WellReferenced(h) ==
    LET known == DOMAIN h.evidence
    IN  /\ \A i, j \in known : h.evidence[i].content = h.evidence[j].content => i = j
        /\ \A c \in DOMAIN h.claims : h.claims[c].evidence \subseteq known
        /\ \A s \in DOMAIN SectionCategory : \A i \in h.sources[s] :
               i \in known /\ SectionCategory[s] \in h.evidence[i].categories

WithinLimits(h) ==
    \A s \in Scenarios : h.scenarios[s].adjustment \in -MaximumAdjustment..MaximumAdjustment
---------------------------------------------------------------------------
(* Claims and the evidence under them.                                     *)

Denied(claim) == claim.kind = "CONTRADICTION" \/ claim.value = "false"

\* A rule that forgets the gate an item must be linked to.
ApprovedForAnyGate(h, claim, g) ==
    {i \in claim.evidence \cap DOMAIN h.evidence :
        /\ h.evidence[i].review = "APPROVED"
        /\ Denied(claim) \/ ~h.evidence[i].flagged
        /\ claim.category \in h.evidence[i].categories}

\* A rule that leaves flagged items out even where a claim denies.
ApprovedUnflagged(h, claim, g) ==
    {i \in claim.evidence \cap DOMAIN h.evidence :
        /\ h.evidence[i].review = "APPROVED" /\ ~h.evidence[i].flagged
        /\ claim.category \in h.evidence[i].categories
        /\ g # None => g \in h.evidence[i].gates}

\* The approved evidence of a claim; g is a gate, or None where no gate asks.
ApprovedEvidence(h, claim, g) ==
    {i \in claim.evidence \cap DOMAIN h.evidence :
        /\ h.evidence[i].review = "APPROVED"
        /\ Denied(claim) \/ ~h.evidence[i].flagged
        /\ claim.category \in h.evidence[i].categories
        /\ g # None => g \in h.evidence[i].gates}

SupportState(h, c, g) ==
    IF c \notin DOMAIN h.claims THEN "UNKNOWN"
    ELSE LET claim  == h.claims[c]
             linked == ApprovedEvidence(h, claim, g)
         IN  CASE claim.value = None \/ claim.kind = "UNKNOWN" -> "UNKNOWN"
               [] OTHER ->
                    IF Denied(claim)
                    THEN IF linked # {} THEN "NEGATIVE" ELSE "UNSUPPORTED_NEGATIVE"
                    ELSE IF claim.value = "true" /\ linked # {} THEN "SUPPORTED"
                         ELSE "UNSUPPORTED_POSITIVE"

Contradicted(h) ==
    \/ \E i \in DOMAIN h.evidence : h.evidence[i].flagged
    \/ \E c \in DOMAIN h.claims : h.claims[c].kind = "CONTRADICTION"
---------------------------------------------------------------------------
(* Categories: a score of evidence and claims, weighed by confidence.      *)

CategoryEvidence(h, k) ==
    {i \in DOMAIN h.evidence : /\ k \in h.evidence[i].categories
                               /\ h.evidence[i].review = "APPROVED"
                               /\ ~h.evidence[i].flagged}

ClaimsIn(h, k, state) ==
    {c \in DOMAIN h.claims : h.claims[c].category = k /\ SupportState(h, c, None) = state}

RawScore(h, k) ==
    LET linked    == CategoryEvidence(h, k)
        supported == ClaimsIn(h, k, "SUPPORTED")
        classes   == {h.evidence[i].class : i \in linked}
        point(condition) == IF condition THEN 1 ELSE 0
        earned == IF linked = {} \/ supported = {} THEN 0
                  ELSE 1 + point(Cardinality(linked) >= 2)
                         + point(Cardinality(classes) >= 2)
                         + point(classes \cap DirectClasses # {})
                         + point(Cardinality(linked) >= 4 /\ Cardinality(supported) >= 2)
    IN  Max({0, earned - Min({2, Cardinality(ClaimsIn(h, k, "NEGATIVE"))})})

Credit(item) == IF item.class = "E6" THEN Min({item.confidence, EstimateCap}) ELSE item.confidence

\* The mean credit of a category's evidence, rounded to four digits.
Confidence(h, k) ==
    LET linked == CategoryEvidence(h, k)
        total  == MapThenSumSet(LAMBDA i : Credit(h.evidence[i]), linked)
        n      == Cardinality(linked)
    IN  IF n = 0 THEN 0 ELSE (200 * total + n) \div (2 * n)

Rounded(hundredths) == (hundredths + 50) \div 100

WeightedAdjustedScore(h) ==
    Rounded(MapThenSumSet(LAMBDA k : RawScore(h, k) * Confidence(h, k) * Weight[k], Categories))

OverallConfidence(h) == Rounded(MapThenSumSet(LAMBDA k : Confidence(h, k) * Weight[k], Categories))

WeakCategories(h) ==
    {k \in Categories : RawScore(h, k) < MinimumBuildScore[k] \/ Confidence(h, k) < 5000}
---------------------------------------------------------------------------
(* The checks of the workflows and the economics.                          *)

Magnitude(x) == IF x < 0 THEN -x ELSE x

\* math.isclose: relative tolerance in percent, absolute one in the units of x.
IsClose(x, y, percent, absolute) ==
    LET gap == Magnitude(x - y)
    IN  gap <= absolute \/ 100 * gap <= percent * Max({Magnitude(x), Magnitude(y)})

\* Lower is better in every measure; a metric counts when both workflows have it.
Shared(h) ==
    {m \in DOMAIN h.current.measures \cap DOMAIN h.proposed.measures :
        h.current.measures[m] # None /\ h.proposed.measures[m] # None}
Improves(h) == \E m \in Shared(h) : h.proposed.measures[m] < h.current.measures[m]
Regresses(h) == \E m \in Shared(h) : h.proposed.measures[m] > h.current.measures[m]
Measurable(h) == h.current.steps > 0 /\ h.proposed.steps > 0

CustomerFails(m) ==
    /\ m.annual_value # None /\ m.price # None
    /\ \/ m.annual_value <= 0
       \/ m.price <= 0
       \/ m.price > m.annual_value
       \/ m.payback # None /\
            \/ m.payback <= 0
            \/ ~IsClose(m.payback * m.annual_value, 1200 * m.price, 5, 10 * m.annual_value)

CustomerOpen(m) ==
    m.annual_value = None \/ m.price = None \/ m.payback = None \/ ~m.documented

ProvenaFails(m) ==
    LET given == {x \in {m.development, m.implementation, m.service, m.price, m.margin,
                         m.break_even} : x # None}
        yearly == m.price - m.service
        first  == yearly - m.implementation
    IN  \/ \E x \in given : x < 0
        \/ /\ m.price # None /\ m.service # None
           /\ \/ m.price <= 0
              \/ m.price <= m.service
              \/ m.margin # None
                 /\ ~IsClose(m.margin * m.price, 10000 * yearly, 1, 10 * m.price)
        \/ /\ m.price # None /\ m.service # None /\ m.implementation # None
           /\ \/ first <= 0
              \/ /\ m.development # None /\ m.break_even # None
                 /\ ~IsClose(m.break_even * first, 100 * m.development, 2, 2 * first)

ProvenaOpen(m) ==
    \/ None \in {m.development, m.implementation, m.service, m.price, m.margin, m.break_even}
    \/ ~m.documented

OperabilityFails(m) ==
    \/ m.rating \in {"HIGH", "UNACCEPTABLE"}
    \/ m.effort # None /\ m.effort \notin 0..160
    \/ m.support # None /\ m.support \notin 0..40
    \/ m.key_person
---------------------------------------------------------------------------
(* Gates: a failure fails it, a missing condition leaves it unresolved.    *)

GateEvidence(h, g) ==
    UNION {ApprovedEvidence(h, h.claims[c], g) :
               c \in {c \in RequiredTrueClaims[g] :
                          SupportState(h, c, g) \in {"SUPPORTED", "NEGATIVE"}}}

GateFails(h, g) ==
    \/ \E c \in RequiredTrueClaims[g] : SupportState(h, c, g) = "NEGATIVE"
    \/ g = "G5" /\ (Regresses(h) \/ CustomerFails(h.customer))
    \/ g = "G6" /\ (OperabilityFails(h.operability) \/ ProvenaFails(h.provena))

\* A rule that wants every cited item of the buyer gate to be a buyer's own.
GateOpenStrict(h, g) ==
    \/ \E c \in RequiredTrueClaims[g] : SupportState(h, c, g) \notin {"SUPPORTED", "NEGATIVE"}
    \/ g = "G4" /\ (~h.buyer_explicit \/ \E i \in GateEvidence(h, g) : h.evidence[i].class # "E2")
    \/ g = "G6" /\ (h.operability.confidence < 50 \/ ProvenaOpen(h.provena))

GateOpen(h, g) ==
    \/ \E c \in RequiredTrueClaims[g] : SupportState(h, c, g) \notin {"SUPPORTED", "NEGATIVE"}
    \/ g = "G1" /\ (h.problem.families < 2 \/ h.problem.confidence < 50)
    \/ g = "G2" /\ (h.current.steps = 0 \/ ~h.current.measured)
    \/ g = "G4" /\ (~h.buyer_explicit \/ \A i \in GateEvidence(h, g) : h.evidence[i].class # "E2")
    \/ g = "G5" /\ (~Measurable(h) \/ ~Improves(h) \/ CustomerOpen(h.customer))
    \/ g = "G6" /\ (h.operability.confidence < 50 \/ ProvenaOpen(h.provena))
    \/ g = "G7" /\ h.competitors = 0
    \/ g = "G8" /\ (\/ "ethical_legal_regulatory_acceptable" \notin DOMAIN h.claims
                    \/ \A i \in ApprovedEvidence(h, h.claims["ethical_legal_regulatory_acceptable"], g) :
                           h.evidence[i].class # "E4" \/ h.evidence[i].flagged)

GateStatus(h, g) ==
    IF GateFails(h, g) THEN "FAIL" ELSE IF GateOpen(h, g) THEN "UNRESOLVED" ELSE "PASS"

\* The claims build_missing_evidence lists; it does not ask for a gate's link.
build_missing_evidence(h) ==
    {c \in UNION {RequiredClaims[k] : k \in Categories}
             \cup UNION {RequiredTrueClaims[g] : g \in Gates} \cup {GlobalBuildClaim} :
        SupportState(h, c, None) \notin {"SUPPORTED", "NEGATIVE"}}
---------------------------------------------------------------------------
(* The verdict of one score, of the scenarios, and of the handoff.         *)

Verdict(value, reasons, blockers) ==
    [value |-> value, reasons |-> reasons, blockers |-> blockers]

\* What the verdicts of a handoff are drawn from.
Assessment(h) ==
    [failed |-> {g \in Gates : GateStatus(h, g) = "FAIL"},
     open   |-> {g \in Gates : GateStatus(h, g) = "UNRESOLVED"}
                    \cup (IF Contradicted(h) THEN {"CONTRADICTION"} ELSE {}),
     global |-> SupportState(h, GlobalBuildClaim, None),
     weak   |-> WeakCategories(h)
                    \cup (IF OverallConfidence(h) < BuildConfidence THEN {"CONFIDENCE"} ELSE {}),
     score  |-> WeightedAdjustedScore(h)]

\* A reason or blocker is named by the gate, category or condition it is about.
DetermineVerdict(h, a, score) ==
    LET when(condition, name) == IF condition THEN {name} ELSE {}
        unmet == a.open \cup when(a.global # "SUPPORTED", "COST")
        scope == when(~h.solution.scope, "SCOPE") \cup when(~h.solution.measurable, "CLAIMS")
        weak  == a.weak \cup when(score < BuildScore, "SCORE")
    IN  IF a.failed # {} THEN Verdict(DO_NOT_BUILD, a.failed, {})
        ELSE IF a.global = "NEGATIVE" THEN Verdict(DO_NOT_BUILD, {"COST"}, a.open)
        ELSE IF unmet # {} THEN Verdict(VALIDATE_FURTHER, {}, unmet)
        ELSE IF scope # {} THEN Verdict(VALIDATE_FURTHER, {}, scope)
        ELSE IF weak # {} THEN Verdict(VALIDATE_FURTHER, {}, weak)
        ELSE Verdict(BUILD_PROTOTYPE, {}, {})

ScenarioVerdict(h, a, s) ==
    LET m     == h.scenarios[s]
        value == DetermineVerdict(h, a, a.score + 100 * m.adjustment).value
    IN  IF m.cost = None \/ m.learning = None
        THEN IF value = BUILD_PROTOTYPE THEN VALIDATE_FURTHER ELSE value
        ELSE IF m.cost <= 0 \/ m.learning <= 0 \/ m.cost > m.learning THEN DO_NOT_BUILD
        ELSE value

Reconcile(v, verdicts) ==
    CASE v.value = DO_NOT_BUILD -> v
      [] v.value # DO_NOT_BUILD /\ verdicts["base"] = DO_NOT_BUILD ->
            Verdict(DO_NOT_BUILD, v.reasons \cup {"BASE"}, v.blockers)
      [] v.value # DO_NOT_BUILD /\ verdicts["base"] = VALIDATE_FURTHER ->
            Verdict(VALIDATE_FURTHER, v.reasons, v.blockers \cup {"BASE"})
      [] OTHER ->
            IF v.value = BUILD_PROTOTYPE
               /\ {s \in Scenarios : verdicts[s] = BUILD_PROTOTYPE} = {"upside"}
            THEN Verdict(VALIDATE_FURTHER, v.reasons, v.blockers \cup {"UPSIDE"})
            ELSE v

\* A scenario tells another verdict, and one of them is close to the base.
Material(h, verdicts) ==
    LET shift(s) == Magnitude(h.scenarios[s].adjustment - h.scenarios["base"].adjustment)
    IN  /\ verdicts["downside"] # verdicts["base"] \/ verdicts["upside"] # verdicts["base"]
        /\ Min({shift("downside"), shift("upside")}) <= BorderlineTolerance

\* The record of an evaluation, as far as the decision goes.
evaluate(h) ==
    LET a          == Assessment(h)
        verdicts   == [s \in Scenarios |-> ScenarioVerdict(h, a, s)]
        v          == Reconcile(DetermineVerdict(h, a, a.score), verdicts)
        borderline == Material(h, verdicts)
        downgraded == v.value = BUILD_PROTOTYPE /\ borderline
    IN  [value      |-> IF downgraded THEN VALIDATE_FURTHER ELSE v.value,
         reasons    |-> v.reasons,
         blockers   |-> v.blockers \cup (IF downgraded THEN {"BORDERLINE"} ELSE {}),
         borderline |-> borderline,
         score      |-> a.score,
         actions    |-> build_missing_evidence(h) \cup (IF borderline THEN {"SENSITIVITY"} ELSE {})]
=============================================================================
