----------------------------- MODULE StudyRules -----------------------------
(***************************************************************************)
(* What evidence is worth to the Golden Study (golden_study.py): the gate  *)
(* that reads a text, the cluster that becomes a finding, and the audit    *)
(* that approves an opportunity.                                           *)
(*                                                                         *)
(* A text (pasted, with no URL, title or query beside it) is the set of    *)
(* the phrases of Phrase found in it; each keyword list of the code is the *)
(* set of the phrases that contain one of its words.  Averages are exact   *)
(* fractions, rounded as round() does, halves to even.                     *)
(***************************************************************************)
EXTENDS Integers, Sequences, FiniteSets, FiniteSetsExt

Phrase == {"complaint", "delayed", "workflow", "maintenance", "tenant", "communication",
           "work order", "ombudsman", "consumer affairs", "court", "news", "reddit", "forum",
           "research", "guide", "procurement", "market size", "pricing", "top 10"}

Has(text, words) == text \cap words # {}

\* The keyword lists, as far as Phrase tells them apart.
PAIN_KEYWORDS                              == {"complaint", "delayed"}
PROPERTY_MAINTENANCE_CONTEXT_KEYWORDS      == {"tenant", "maintenance", "work order"}
GS001_REQUIRED_MAINTENANCE_CONTEXT_KEYWORDS == {"maintenance", "work order"}
GS001_OPERATIONAL_RELEVANCE_KEYWORDS       == {"work order"}
GS001_CONTEXT_ONLY_PATTERNS                == {"procurement"}
GS001_ADVICE_PAGE_PATTERNS                 == {"guide"}
MARKETING_CONTENT_PATTERNS                 == {"top 10"}
VENDOR_LANGUAGE_MARKERS                    == {"pricing"}
TRUSTED_NON_VENDOR_MARKERS                 == {"consumer affairs", "ombudsman", "court"}
WorkflowWords                              == {"workflow", "work order"}
---------------------------------------------------------------------------
(* The gate: who speaks, how far it bears on the study, what it is.        *)

SourceRules == <<
    [words |-> {"court"},            type |-> "court"],
    [words |-> {"ombudsman"},        type |-> "ombudsman"],
    [words |-> {"consumer affairs"}, type |-> "consumer_review"],
    [words |-> {"reddit"},           type |-> "social_media"],
    [words |-> {"forum"},            type |-> "forum"],
    [words |-> {"research"},         type |-> "research"],
    [words |-> {"news"},             type |-> "news"],
    [words |-> VENDOR_LANGUAGE_MARKERS, type |-> "vendor"] >>

detect_source_type(text) ==
    LET hits == {i \in DOMAIN SourceRules : Has(text, SourceRules[i].words)}
    IN  IF Has(text, GS001_ADVICE_PAGE_PATTERNS) /\ "complaint" \notin text THEN "article"
        ELSE IF hits = {} THEN "unknown" ELSE SourceRules[Min(hits)].type

SOURCE_TRUST_SCORES ==
    [court |-> 98, ombudsman |-> 98, consumer_review |-> 95, news |-> 85, research |-> 80,
     forum |-> 70, article |-> 70, social_media |-> 60, vendor |-> 20, marketing |-> 10,
     unknown |-> 0]

source_trust_score(text) ==
    IF "consumer affairs" \in text THEN 95 ELSE SOURCE_TRUST_SCORES[detect_source_type(text)]

\* A gate that forgets the floor of the score.
RelevanceUnfloored(text) ==
    LET points(n, condition) == IF condition THEN n ELSE 0
    IN  points(20, "tenant" \in text)
        + points(20, Has(text, GS001_REQUIRED_MAINTENANCE_CONTEXT_KEYWORDS))
        - points(45, Has(text, GS001_CONTEXT_ONLY_PATTERNS))

operational_relevance_score(text) ==
    LET points(n, condition) == IF condition THEN n ELSE 0
    IN  Max({0, Min({100,
            points(20, "tenant" \in text)
            + points(20, Has(text, GS001_REQUIRED_MAINTENANCE_CONTEXT_KEYWORDS))
            + points(35, Has(text, GS001_OPERATIONAL_RELEVANCE_KEYWORDS))
            + points(25, {"maintenance", "communication"} \subseteq text)
            + points(20, Has(text, PAIN_KEYWORDS))
            - points(45, Has(text, GS001_CONTEXT_ONLY_PATTERNS))
            - points(20, Has(text, GS001_ADVICE_PAGE_PATTERNS))})})

StrongComplaint(text) ==
    Has(text, PAIN_KEYWORDS) /\ Has(text, PROPERTY_MAINTENANCE_CONTEXT_KEYWORDS)

VendorDetected(text) ==
    Has(text, VENDOR_LANGUAGE_MARKERS) /\ ~Has(text, TRUSTED_NON_VENDOR_MARKERS)

\* The chain of the profile: the first rule that holds names the class.
ClassRules(text) ==
    LET type == detect_source_type(text)
    IN  << [if |-> Has(text, MARKETING_CONTENT_PATTERNS),          class |-> "marketing_content"],
           [if |-> VendorDetected(text) \/ type = "vendor",        class |-> "vendor_content"],
           [if |-> type = "social_media",                          class |-> "community_signal"],
           [if |-> Has(text, GS001_CONTEXT_ONLY_PATTERNS),         class |-> "market_context"],
           [if |-> Has(text, GS001_ADVICE_PAGE_PATTERNS),          class |-> "market_context"],
           [if |-> "market size" \in text,                         class |-> "market_context"],
           [if |-> type = "research",                              class |-> "research_report"],
           [if |-> type = "news" /\ ~StrongComplaint(text),        class |-> "news_report"],
           [if |-> "complaint" \in text,
            class |-> IF type \in {"consumer_review", "court", "ombudsman", "news"}
                      THEN "verified_complaint" ELSE "operational_pain"],
           [if |-> "delayed" \in text,                             class |-> "operational_pain"],
           [if |-> Has(text, WorkflowWords),                       class |-> "workflow_inefficiency"],
           [if |-> TRUE,                                           class |-> "unknown"] >>

Classification(text) ==
    LET rules == ClassRules(text)
    IN  rules[Min({i \in DOMAIN rules : rules[i].if})].class

PRODUCTION_ELIGIBLE_CLASSIFICATIONS ==
    {"verified_complaint", "operational_pain", "workflow_inefficiency"}

MIN_PRODUCTION_AUTHORITY_SCORE == 70

\* The profile lowers the trust of marketing and vendor texts.
TrustScore(text) ==
    CASE Classification(text) = "marketing_content" -> 40
      [] Classification(text) = "vendor_content"    -> 20
      [] OTHER                                      -> source_trust_score(text)

\* A gate that goes by the scores and forgets what the text is.
EligibleByScores(text) ==
    /\ StrongComplaint(text)
    /\ TrustScore(text) >= MIN_PRODUCTION_AUTHORITY_SCORE
    /\ operational_relevance_score(text) >= 70

Eligible(text) ==
    /\ Classification(text) \in PRODUCTION_ELIGIBLE_CLASSIFICATIONS
    /\ StrongComplaint(text)
    /\ Has(text, GS001_REQUIRED_MAINTENANCE_CONTEXT_KEYWORDS)
    /\ TrustScore(text) >= MIN_PRODUCTION_AUTHORITY_SCORE
    /\ operational_relevance_score(text) >= 70
    /\ ~Has(text, GS001_CONTEXT_ONLY_PATTERNS)
    /\ ~Has(text, GS001_ADVICE_PAGE_PATTERNS)

evidence_tier_label(text) ==
    LET class     == Classification(text)
        authority == TrustScore(text)
        relevance == operational_relevance_score(text)
    IN  IF Eligible(text) THEN "A"
        ELSE IF class \in {"market_context", "news_report", "research_report"} THEN "C"
        ELSE IF class \in {"vendor_content", "marketing_content", "unknown"} THEN "D"
        ELSE IF \/ authority >= 55 /\ relevance >= 45
                \/ relevance >= 70 /\ authority < MIN_PRODUCTION_AUTHORITY_SCORE THEN "B"
        ELSE "D"
---------------------------------------------------------------------------
(* The evidence of a finding: a sequence of signals the gate has accepted, *)
(* each with a source to go back to (create_signal refuses the others).    *)

Distinct(evidence, field(_)) == Cardinality({field(evidence[i]) : i \in DOMAIN evidence})
domains(evidence)       == LET f(s) == s.domain       IN Distinct(evidence, f)
events(evidence)        == LET f(s) == s.event        IN Distinct(evidence, f)
organisations(evidence) == LET f(s) == s.organisation IN Distinct(evidence, f)
countries(evidence)     == LET f(s) == s.country      IN Distinct(evidence, f)
stakeholders(evidence)  == LET f(s) == s.stakeholder  IN Distinct(evidence, f)

Total(evidence, field(_)) == MapThenSumSet(LAMBDA i : field(evidence[i]), DOMAIN evidence)
TotalTrust(evidence)    == LET f(s) == s.trust    IN Total(evidence, f)
TotalStrength(evidence) == LET f(s) == s.strength IN Total(evidence, f)

\* round(n / d)
Round(n, d) ==
    LET q == n \div d
        r == 2 * (n % d)
    IN  IF r > d \/ (r = d /\ q % 2 = 1) THEN q + 1 ELSE q

\* round(sum / len, 1), in tenths
AverageTrust(evidence) ==
    IF evidence = <<>> THEN 0 ELSE Round(10 * TotalTrust(evidence), Len(evidence))

\* cluster_finding_status and, computed again by upsert_finding, "sufficient"
Sufficient(evidence) ==
    /\ Len(evidence) >= 3
    /\ domains(evidence) >= 2
    /\ organisations(evidence) >= 2 \/ events(evidence) >= 2
    /\ AverageTrust(evidence) >= 10 * MIN_PRODUCTION_AUTHORITY_SCORE

\* A cap meant for one single event, applied to every repeated one.
ConfidenceCapped(evidence) ==
    IF events(evidence) < Len(evidence) THEN 65
    ELSE Min({100, Round(TotalStrength(evidence) + 36 * Len(evidence), Len(evidence))})

\* research_confidence of upsert_finding
Confidence(evidence) ==
    LET bonus == Min({events(evidence) * 8, 24}) + Min({domains(evidence) * 3, 12})
        score == Min({100, Round(TotalStrength(evidence) + bonus * Len(evidence), Len(evidence))})
    IN  IF events(evidence) <= 1 THEN Min({score, 65}) ELSE score

CanonicalCategory == {"Maintenance Communication Failure", "Complaint Handling Failure"}
---------------------------------------------------------------------------
(* The audit of a finding.                                                 *)

\* score_finding as narrowed by audit_finding; competition_gap_score is 80
\* and traceability_score 100.
Scores(evidence, category) ==
    LET strongest == Max({evidence[i].strength : i \in DOMAIN evidence})
    IN  [evidence  |-> Min({Confidence(evidence), AverageTrust(evidence) \div 10}),
         frequency |-> Min({100, events(evidence) * 20}),
         market    |-> Min({100, 40 + countries(evidence) * 15 + domains(evidence) * 4}),
         pain      |-> Min({IF category = "Maintenance Communication Failure" THEN 90 ELSE 75,
                            strongest + 10})]

calculate_oci(scores) ==
    Round(25 * scores.evidence + 15 * scores.frequency + 15 * scores.market
          + 15 * scores.pain + 10 * 80 + 20 * 100, 100)

\* Thresholds taken as exceeded instead of reached.
RequirementsExceeded(evidence, category) ==
    LET scores == Scores(evidence, category)
    IN  /\ domains(evidence) > 8
        /\ events(evidence) > 5
        /\ scores.evidence >= 90
        /\ scores.pain >= 85
        /\ calculate_oci(scores) >= 90

RequirementsMet(evidence, category) ==
    LET scores == Scores(evidence, category)
    IN  /\ domains(evidence) >= 8
        /\ events(evidence) >= 5
        /\ scores.evidence >= 90
        /\ scores.pain >= 85
        /\ calculate_oci(scores) >= 90
        /\ countries(evidence) >= 3
        /\ stakeholders(evidence) >= 2
        /\ organisations(evidence) >= 4
        /\ AverageTrust(evidence) >= 10 * MIN_PRODUCTION_AUTHORITY_SCORE

Decision(evidence, category) ==
    LET oci == calculate_oci(Scores(evidence, category))
        met == RequirementsMet(evidence, category)
    IN  IF oci >= 80 /\ met THEN "Approve Opportunity"
        ELSE IF oci >= 60 \/ ~met THEN "Needs More Evidence" ELSE "Reject"

\* missing_evidence_warnings: what the audit tells the reader is missing.
Warnings(evidence, category) ==
    LET scores     == Scores(evidence, category)
        short      == [sources       |-> domains(evidence) < 8,
                       events        |-> events(evidence) < 5,
                       evidence      |-> scores.evidence < 90,
                       pain          |-> scores.pain < 85,
                       confidence    |-> calculate_oci(scores) < 90,
                       geography     |-> countries(evidence) < 3,
                       stakeholders  |-> stakeholders(evidence) < 2,
                       organisations |-> organisations(evidence) < 4,
                       signals       |-> Len(evidence) < 3,
                       authority     |-> AverageTrust(evidence) < 10 * MIN_PRODUCTION_AUTHORITY_SCORE,
                       coverage      |-> countries(evidence) < 2]
    IN  {w \in DOMAIN short : short[w]}
=============================================================================
