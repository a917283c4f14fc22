------------------------------ MODULE SvCases ------------------------------
(* The repository's own handoffs (sv_engine/fixtures/cases.py): the states  *)
(* from which an author starts to edit.                                     *)
EXTENDS SvRules, TLC

Item(id, class, categories, gates, confidence, flagged) ==
    id :> [class |-> class, categories |-> categories, gates |-> gates, confidence |-> confidence,
           flagged |-> flagged, review |-> "APPROVED", content |-> id]

Claim(c, category, evidence) ==
    c :> [category |-> category, evidence |-> evidence, value |-> "true", kind |-> "OBSERVED"]

Denial(claim, kind, evidence) ==
    [claim EXCEPT !.value = "false", !.kind = kind, !.evidence = evidence]

FixtureEvidence ==
    Item("EV1", "E1", {"C1", "C2", "C3", "C10", "C11"}, {"G1", "G2", "G5"}, 90, FALSE)
    @@ Item("EV2", "E2", {"C6", "C7", "C10"}, {"G4", "G5"}, 88, FALSE)
    @@ Item("EV3", "E3", {"C2", "C3", "C10", "C11"}, {"G2", "G5"}, 86, FALSE)
    @@ Item("EV4", "E4", {"C1", "C4", "C8", "C12"}, {"G1", "G3", "G8"}, 82, FALSE)
    @@ Item("EV5", "E5", {"C8", "C11", "C12"}, {"G7"}, 78, FALSE)
    @@ Item("EV6", "E6", {"C4", "C5", "C9"}, {"G3", "G6"}, 70, FALSE)
    @@ Item("EV7", "E7", {"C3", "C4", "C5", "C7", "C9", "C10", "C11"}, {"G3", "G5", "G6"}, 90, FALSE)
    @@ Item("EV8", "E2", {"C6", "C7", "C9", "C12"}, {"G4", "G5"}, 92, FALSE)

FixtureClaims ==
    Claim("problem_solution_linkage", "C1", {"EV1", "EV4"})
    @@ Claim("baseline_documented", "C2", {"EV1", "EV3"})
    @@ Claim("improvement_measurable", "C3", {"EV1", "EV3", "EV7"})
    @@ Claim("technical_plausible", "C4", {"EV4", "EV7"})
    @@ Claim("internal_operability_acceptable", "C5", {"EV6", "EV7"})
    @@ Claim("buyer_identified", "C6", {"EV2", "EV8"})
    @@ Claim("budget_path_identified", "C6", {"EV8"})
    @@ Claim("customer_value_positive", "C7", {"EV2", "EV7"})
    @@ Claim("value_traceable", "C7", {"EV1", "EV2"})
    @@ Claim("competitive_wedge", "C8", {"EV5"})
    @@ Claim("provena_economics_positive", "C9", {"EV6", "EV7", "EV8"})
    @@ Claim("adoption_risk_acceptable", "C10", {"EV3", "EV7"})
    @@ Claim("solution_reusable", "C11", {"EV1", "EV7"})
    @@ Claim("strategic_fit", "C12", {"EV4", "EV5"})
    @@ Claim("ethical_legal_regulatory_acceptable", "C4", {"EV4"})
    @@ Claim("prototype_cost_proportionate", "C9", {"EV6", "EV7"})

build_prototype_case ==
    [problem  |-> [families |-> 2, confidence |-> 85],
     solution |-> [scope |-> TRUE, measurable |-> TRUE],
     evidence |-> FixtureEvidence,
     claims   |-> FixtureClaims,
     current  |-> [steps |-> 2, measured |-> TRUE,
                   measures |-> [handoffs |-> 3, manual |-> 3, duplicated |-> 2, errors |-> 2,
                                 rework |-> 2, time |-> 42]],
     proposed |-> [steps |-> 1, measured |-> TRUE,
                   measures |-> [handoffs |-> 1, manual |-> 1, duplicated |-> 0, errors |-> 0,
                                 rework |-> 0, time |-> 25]],
     buyer_explicit |-> TRUE,
     competitors |-> 1,
     customer    |-> [annual_value |-> 180, price |-> 48, payback |-> 320, documented |-> TRUE],
     provena     |-> [development |-> 25, implementation |-> 8, service |-> 9, price |-> 48,
                      margin |-> 8125, break_even |-> 81, documented |-> TRUE],
     operability |-> [effort |-> 24, support |-> 4, rating |-> "MEDIUM", confidence |-> 72,
                      key_person |-> FALSE],
     sources     |-> [current |-> {"EV1"}, proposed |-> {"EV7"}, buyer |-> {"EV2", "EV8"},
                      customer |-> {"EV2", "EV7"}, provena |-> {"EV6", "EV7", "EV8"},
                      operability |-> {"EV6", "EV7"}, competitors |-> {"EV5"}],
     scenarios   |-> [downside |-> [adjustment |-> -10, cost |-> 30, learning |-> 60],
                      base     |-> [adjustment |-> 0,   cost |-> 25, learning |-> 60],
                      upside   |-> [adjustment |-> 10,  cost |-> 22, learning |-> 65]]]

\* No buyer: both items of the budget owner are gone, and what rested on them.
validate_further_case ==
    LET removed == {"EV2", "EV8"}
        h       == build_prototype_case
        kept    == {c \in DOMAIN h.claims :
                       /\ c \notin {"buyer_identified", "budget_path_identified",
                                    "customer_value_positive"}
                       /\ h.claims[c].evidence \cap removed = {}}
    IN  [h EXCEPT !.evidence = [i \in DOMAIN h.evidence \ removed |-> h.evidence[i]],
                  !.claims   = [c \in kept |-> h.claims[c]],
                  !.buyer_explicit = FALSE,
                  !.sources  = [s \in DOMAIN h.sources |-> h.sources[s] \ removed]]

do_not_build_no_buyer_case ==
    LET h == build_prototype_case
        refusal(claim) == Denial(claim, "CONTRADICTION", {"EV9"})
    IN  [h EXCEPT !.evidence = @ @@ Item("EV9", "E2", {"C6", "C7"}, {"G4", "G5"}, 90, TRUE),
                  !.claims["buyer_identified"] = refusal(@),
                  !.claims["budget_path_identified"] = refusal(@)]

do_not_build_operability_case ==
    LET h == build_prototype_case
    IN  [h EXCEPT !.operability = [@ EXCEPT !.effort = 240, !.support = 60, !.rating = "HIGH",
                                            !.key_person = TRUE],
                  !.claims["internal_operability_acceptable"] = Denial(@, "CALCULATED", {"EV6"})]

borderline_case ==
    LET h == build_prototype_case
    IN  [h EXCEPT !.evidence = [i \in DOMAIN @ |->
                      [@[i] EXCEPT !.confidence = IF h.evidence[i].class = "E6" THEN @ ELSE 80]],
                  !.scenarios = [downside |-> [@["downside"] EXCEPT !.adjustment = -25],
                                 base     |-> @["base"],
                                 upside   |-> [@["upside"] EXCEPT !.adjustment = 20]]]
=============================================================================
