---------------------------- MODULE StudyEvidence ----------------------------
(***************************************************************************)
(* The rules of StudyRules at work: a text is read phrase by phrase; one   *)
(* the gate accepts becomes the kind of signal a finding starts from; more *)
(* signals, of other trust and strength, corroborate it.                   *)
(***************************************************************************)
EXTENDS StudyRules

CONSTANTS
    Phrases,     \* the phrases a text is made of
    MaxPhrases,  \* bound: phrases in a text
    Sizes,       \* numbers of signals a finding starts from
    MaxAdded,    \* bound: signals that corroborate it
    Trusts,      \* trust scores of corroborating signals
    Strengths    \* evidence_strength() of a signal

ASSUME PhrasesAssumption == Phrases \subseteq Phrase
ASSUME SignalsAssumption ==
    /\ Trusts \subseteq MIN_PRODUCTION_AUTHORITY_SCORE .. 100
    /\ Strengths \subseteq 35 .. 100
    /\ Sizes \subseteq Nat \ {0}

VARIABLES
    text,      \* the phrases read so far
    evidence,  \* the supporting signals of the finding
    category,  \* its canonical category
    added      \* signals that came after the first ones

vars == <<text, evidence, category, added>>

Init ==
    /\ text = {}
    /\ evidence = <<>>
    /\ category \in CanonicalCategory
    /\ added = 0

\* A longer text.
Read(phrase) ==
    /\ evidence = <<>>
    /\ Cardinality(text) < MaxPhrases
    /\ text' = text \cup {phrase}
    /\ UNCHANGED <<evidence, category, added>>

\* The signals of a finding: independent of each other, of three countries
\* and two kinds of stakeholder, each as good as the text.
Collect(n, strength) ==
    /\ evidence = <<>>
    /\ Eligible(text)
    /\ evidence' = [i \in 1 .. n |->
                      [domain |-> i, event |-> i, organisation |-> i,
                       country |-> i % 3, stakeholder |-> i % 2,
                       trust |-> TrustScore(text), strength |-> strength]]
    /\ text' = {}
    /\ UNCHANGED <<category, added>>

\* One more: of a new source or one already there, of a new event or not, ...
Corroborate(domain, event, country, stakeholder, trust, strength) ==
    /\ evidence # <<>>
    /\ added < MaxAdded
    /\ evidence' = Append(evidence,
                      [domain |-> domain, event |-> event, organisation |-> domain,
                       country |-> country, stakeholder |-> stakeholder,
                       trust |-> trust, strength |-> strength])
    /\ added' = added + 1
    /\ UNCHANGED <<text, category>>

Next ==
    \/ \E phrase \in Phrases : Read(phrase)
    \/ \E n \in Sizes, strength \in Strengths : Collect(n, strength)
    \/ \E domain, event \in {1, Len(evidence) + 1}, country \in {0, 3}, stakeholder \in {0, 2},
          trust \in Trusts, strength \in Strengths :
          Corroborate(domain, event, country, stakeholder, trust, strength)

Spec == Init /\ [][Next]_vars
-----------------------------------------------------------------------------
(* Properties.                                                              *)

\* The scores stay on their scales, and the audit never says "Reject": a
\* confidence under 60 always comes with an unmet requirement.
TypeOK ==
    /\ text \subseteq Phrase
    /\ operational_relevance_score(text) \in 0 .. 100
    /\ TrustScore(text) \in 0 .. 100
    /\ evidence_tier_label(text) \in {"A", "B", "C", "D"}
    /\ evidence # <<>> =>
          LET scores == Scores(evidence, category)
          IN  /\ \A s \in DOMAIN scores : scores[s] \in 0 .. 100
              /\ calculate_oci(scores) \in 0 .. 100
              /\ Decision(evidence, category) \in {"Approve Opportunity", "Needs More Evidence"}

\* What a text admits against itself (promotion, market talk, advice, a
\* community page, research) never turns a refused text into production
\* evidence, whatever it does to the detected source and its trust.
SelfServing == GS001_CONTEXT_ONLY_PATTERNS \cup GS001_ADVICE_PAGE_PATTERNS
                  \cup MARKETING_CONTENT_PATTERNS \cup VENDOR_LANGUAGE_MARKERS
                  \cup {"market size", "reddit", "research"}

NoLaundering ==
    [][\A phrase \in SelfServing :
          (text' = text \cup {phrase} /\ Eligible(text')) => Eligible(text)]_vars

\* A reader who is refused is told why, and one who is told of nothing
\* missing is not refused; what is approved was ready to be a finding.
RefusalExplained ==
    evidence # <<>> =>
        /\ Decision(evidence, category) = "Approve Opportunity" <=> Warnings(evidence, category) = {}
        /\ Decision(evidence, category) = "Approve Opportunity" => Sufficient(evidence)

\* One more signal, at least as trusted and as strong as the average of
\* those there are, never costs a finding its audit or an audit its approval.
AtLeastAverage(signal) ==
    /\ signal.trust * Len(evidence) >= TotalTrust(evidence)
    /\ signal.strength * Len(evidence) >= TotalStrength(evidence)

CorroborationHelps ==
    [][added' = added + 1 /\ AtLeastAverage(evidence'[Len(evidence')]) =>
          /\ Sufficient(evidence) => Sufficient(evidence')
          /\ Decision(evidence, category) = "Approve Opportunity"
                => Decision(evidence', category) = "Approve Opportunity"]_vars
=============================================================================
