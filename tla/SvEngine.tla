------------------------------ MODULE SvEngine ------------------------------
(***************************************************************************)
(* An author edits a handoff and has it evaluated (sv_engine/cli.py): the  *)
(* engine refuses it or stores an execution, and stored executions stay.   *)
(*                                                                         *)
(* The edits are those the handoff's types admit (domain/models.py), one   *)
(* field of one part at a time.  MaxEdits and MaxRuns bound a behaviour: it *)
(* ends with its last evaluation.                                          *)
(***************************************************************************)
EXTENDS SvCases, Sequences

CONSTANTS Cases,         \* the handoffs an author starts from
          Credits,       \* confidences of an added item, in hundredths
          Adjustments,   \* of a scenario, in hundredths
          Costs,         \* of a scenario's prototype, in thousands
          Ids,           \* of the items an author adds
          MaxEdits, MaxRuns

ASSUME BoundsAssumption == MaxEdits \in Nat /\ MaxRuns \in Nat
ASSUME InputAssumption ==
    /\ Credits \subseteq 0..100
    /\ Adjustments \subseteq Int /\ Costs \subseteq Int
    /\ Ids \subseteq STRING

VARIABLES handoff, edits, runs
vars == <<handoff, edits, runs>>
---------------------------------------------------------------------------
(* What from_dict admits.                                                  *)

ReviewStates == {"APPROVED", "PENDING_REVIEW", "REJECTED"}
ValueKinds   == {"OBSERVED", "CALCULATED", "BOUNDED_ESTIMATE", "ESTIMATE", "ASSUMPTION", "UNKNOWN",
                 "CONTRADICTION"}

EvidenceItem == [class : {"E1", "E2", "E3", "E4", "E5", "E6", "E7"}, categories : SUBSET Categories,
                 gates : SUBSET Gates, confidence : 0..100, flagged : BOOLEAN,
                 review : ReviewStates, content : STRING]

ValidationClaim == [category : Categories, evidence : SUBSET STRING,
                    value : {"true", "false", "zero", None}, kind : ValueKinds]

Scenario == [adjustment : Int, cost : Int \cup {None}, learning : Int \cup {None}]

Sections == {"problem", "solution", "evidence", "claims", "current", "proposed", "buyer_explicit",
             "competitors", "customer", "provena", "operability", "sources", "scenarios"}

\* A handoff, typed in what the author's edits and the decision read by kind.
IsHandoff(h) ==
    /\ DOMAIN h = Sections
    /\ IsFiniteSet(DOMAIN h.evidence)
    /\ \A i \in DOMAIN h.evidence : h.evidence[i] \in EvidenceItem
    /\ IsFiniteSet(DOMAIN h.claims)
    /\ \A c \in DOMAIN h.claims : h.claims[c] \in ValidationClaim
    /\ h.scenarios \in [Scenarios -> Scenario]

ASSUME CasesAssumption == \A h \in Cases : IsHandoff(h)

TypeOK ==
    /\ IsHandoff(handoff)
    /\ edits \in 0..MaxEdits
    /\ runs \in Seq({runs[n] : n \in DOMAIN runs}) /\ Len(runs) <= MaxRuns
    /\ \A n \in DOMAIN runs : IsHandoff(runs[n].handoff)
---------------------------------------------------------------------------
(* The author.                                                             *)

Init == handoff \in Cases /\ edits = 0 /\ runs = <<>>

Edited(h) ==
    /\ edits < MaxEdits /\ Len(runs) < MaxRuns
    /\ h # handoff
    /\ handoff' = h
    /\ edits' = edits + 1
    /\ UNCHANGED runs

\* A reviewer marks an item as speaking against the solution, or clears it.
FlagEvidence(i) == Edited([handoff EXCEPT !.evidence[i].flagged = ~@])

ReviewEvidence(i, state) == Edited([handoff EXCEPT !.evidence[i].review = state])

\* A new item beside item i, linked as i is, and cited where i is.
ItemsWith(h, i, class, credit, new) ==
    LET item == [h.evidence[i] EXCEPT !.class = class, !.confidence = credit, !.flagged = FALSE,
                                      !.review = "APPROVED", !.content = new]
    IN  [j \in DOMAIN h.evidence \cup {new} |-> IF j = new THEN item ELSE h.evidence[j]]

ClaimsWith(h, i, new) ==
    [c \in DOMAIN h.claims |->
        IF i \in h.claims[c].evidence THEN [h.claims[c] EXCEPT !.evidence = @ \cup {new}]
        ELSE h.claims[c]]

AddEvidence(i, class, credit) ==
    LET h    == handoff
        free == Ids \ DOMAIN h.evidence
        new  == CHOOSE id \in free : TRUE
    IN  /\ free # {}
        /\ Edited([h EXCEPT !.evidence = ItemsWith(h, i, class, credit, new),
                            !.claims = ClaimsWith(h, i, new)])

\* Two items are found to be the same document.
SameContent(i, j) == Edited([handoff EXCEPT !.evidence[i].content = handoff.evidence[j].content])

UnlinkGate(i, g) == Edited([handoff EXCEPT !.evidence[i].gates = @ \ {g}])

DenyClaim(c, kind) ==
    Edited([handoff EXCEPT !.claims[c].value = "false", !.claims[c].kind = kind])

ForgetClaim(c) == Edited([handoff EXCEPT !.claims[c].value = None])

Rescore(s, adjustment) == Edited([handoff EXCEPT !.scenarios[s].adjustment = adjustment])

Recost(s, cost) == Edited([handoff EXCEPT !.scenarios[s].cost = cost])

\* The price of the customer's case and of Provena's, out of step with the rest.
Reprice(price) == Edited([handoff EXCEPT !.customer.price = price, !.provena.price = price])

Unscope == Edited([handoff EXCEPT !.solution.scope = FALSE])

DropMetrics == Edited([handoff EXCEPT !.current.measured = FALSE, !.sources.current = {}])
---------------------------------------------------------------------------
(* The engine.                                                             *)

Accepted(h) == WellReferenced(h) /\ WithinLimits(h)

\* evaluate_dict and save: one row set per execution, in one transaction.
Evaluate ==
    /\ Len(runs) < MaxRuns
    /\ Accepted(handoff)
    /\ runs' = Append(runs, [handoff |-> handoff, result |-> evaluate(handoff)])
    /\ UNCHANGED <<handoff, edits>>

Next ==
    \/ \E i \in DOMAIN handoff.evidence :
          \/ FlagEvidence(i)
          \/ \E state \in ReviewStates : ReviewEvidence(i, state)
          \/ \E class \in {"E5", handoff.evidence[i].class}, credit \in Credits :
                AddEvidence(i, class, credit)
          \/ \E j \in DOMAIN handoff.evidence : SameContent(i, j)
          \/ \E g \in Gates : UnlinkGate(i, g)
    \/ \E c \in DOMAIN handoff.claims :
          \/ \E kind \in {"OBSERVED", "CONTRADICTION"} : DenyClaim(c, kind)
          \/ ForgetClaim(c)
    \/ \E s \in Scenarios :
          \/ \E adjustment \in Adjustments : Rescore(s, adjustment)
          \/ \E cost \in Costs \cup {None} : Recost(s, cost)
    \/ \E price \in Costs : Reprice(price)
    \/ Unscope
    \/ DropMetrics
    \/ Evaluate

Spec == Init /\ [][Next]_vars
---------------------------------------------------------------------------
(* Properties.                                                             *)

\* A stored BUILD_PROTOTYPE rests on evidence, seen without the gates' help:
\* every claim a gate, a category or the build requires is affirmed and cites
\* an approved item that nobody flagged, linked to the claim's category and to
\* the gate; nothing in the handoff is contradicted; every scenario within the
\* tolerance of the base pays for itself, whatever the aggregate score
\* (_determine_verdict, _reconcile_scenario_verdicts, _sensitivity_results).
Backed(h, c, g) ==
    \E i \in h.claims[c].evidence :
        /\ h.evidence[i].review = "APPROVED" /\ ~h.evidence[i].flagged
        /\ h.claims[c].category \in h.evidence[i].categories
        /\ g # None => g \in h.evidence[i].gates

VerdictGrounded ==
    \A n \in DOMAIN runs : runs[n].result.value = BUILD_PROTOTYPE =>
        LET h == runs[n].handoff
        IN  /\ \A g \in Gates : \A c \in RequiredTrueClaims[g] : Backed(h, c, g)
            /\ Backed(h, GlobalBuildClaim, None)
            /\ ~ \E i \in DOMAIN h.evidence : h.evidence[i].flagged
            /\ ~ \E c \in DOMAIN h.claims : h.claims[c].kind = "CONTRADICTION"
            /\ \A s \in Scenarios :
                   Magnitude(h.scenarios[s].adjustment - h.scenarios["base"].adjustment)
                       <= BorderlineTolerance
                   => /\ h.scenarios[s].cost # None
                      /\ h.scenarios[s].cost \in 1..h.scenarios[s].learning
                      /\ runs[n].result.score + 100 * h.scenarios[s].adjustment >= BuildScore

Rank(h) == CASE evaluate(h).value = BUILD_PROTOTYPE -> 2
             [] evaluate(h).value = VALIDATE_FURTHER -> 1
             [] OTHER -> 0

\* Doubt never helps: an item flagged or a claim denied may only lower the
\* verdict, although a flagged item also leaves the averages of its categories,
\* which may rise, and still weighs for the claims that deny
\* (claim_support_state's include_contradictions).
Doubted(h, new) ==
    \/ \E i \in DOMAIN h.evidence :
          ~h.evidence[i].flagged /\ new = [h EXCEPT !.evidence[i].flagged = TRUE]
    \/ \E c \in DOMAIN h.claims : \E kind \in {h.claims[c].kind, "CONTRADICTION"} :
          new = [h EXCEPT !.claims[c].value = "false", !.claims[c].kind = kind]

DoubtNeverHelps ==
    [][(Doubted(handoff, handoff') /\ Accepted(handoff) /\ Accepted(handoff'))
           => Rank(handoff') <= Rank(handoff)]_vars

\* Evidence never hurts: an item that becomes approved, or is added and cited,
\* unflagged, cited by no claim that denies, and credited at least what each of
\* its categories had, may only raise the verdict: neither a class, a count nor
\* a gate's condition on its evidence is lost by it (assess_categories,
\* assess_gates).
Corroborates(h, new) ==
    \E i \in DOMAIN new.evidence :
        /\ i \in DOMAIN h.evidence => h.evidence[i].review # "APPROVED"
        /\ new.evidence[i].review = "APPROVED" /\ ~new.evidence[i].flagged
        /\ DOMAIN new.evidence = DOMAIN h.evidence \cup {i}
        /\ \A c \in DOMAIN h.claims : new.claims[c].evidence \ {i} = h.claims[c].evidence \ {i}
        /\ \A c \in DOMAIN h.claims : i \in new.claims[c].evidence => ~Denied(h.claims[c])
        /\ \A k \in new.evidence[i].categories : 100 * Credit(new.evidence[i]) >= Confidence(h, k)

EvidenceNeverHurts ==
    [][(Corroborates(handoff, handoff') /\ Accepted(handoff) /\ Accepted(handoff'))
           => Rank(handoff') >= Rank(handoff)]_vars
=============================================================================
