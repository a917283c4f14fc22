---------------------------- MODULE RbeRegister ----------------------------
(***************************************************************************)
(* The canonical lifecycle of a review: the controlled register that       *)
(* CanonicalStateMachine loads, docs/rbe-001/v1.1.0/registers/             *)
(* state_machine.json.                                                     *)
(***************************************************************************)

InitialState == "DRAFT"

TerminalStates == {"ARCHIVED", "VOID", "WITHDRAWN"}

Transitions ==
    {<<"DRAFT", "SUBMITTED">>,
     <<"SUBMITTED", "INTAKE_VALIDATION">>,
     <<"INTAKE_VALIDATION", "ACCEPTED">>, <<"INTAKE_VALIDATION", "RETURNED">>,
     <<"RETURNED", "SUBMITTED">>, <<"RETURNED", "WITHDRAWN">>,
     <<"ACCEPTED", "EVIDENCE_LOCKED">>,
     <<"EVIDENCE_LOCKED", "ASSIGNMENT">>,
     <<"ASSIGNMENT", "INDEPENDENT_REVIEW">>,
     <<"INDEPENDENT_REVIEW", "CHALLENGE">>,
     <<"CHALLENGE", "CLARIFICATION">>, <<"CHALLENGE", "CONSOLIDATION">>,
     <<"CLARIFICATION", "INDEPENDENT_REVIEW">>, <<"CLARIFICATION", "CHALLENGE">>,
     <<"CONSOLIDATION", "GOVERNANCE_VALIDATION">>,
     <<"GOVERNANCE_VALIDATION", "BLOCKED">>, <<"GOVERNANCE_VALIDATION", "DECIDED">>,
     <<"BLOCKED", "GOVERNANCE_VALIDATION">>, <<"BLOCKED", "VOID">>,
     <<"DECIDED", "PUBLISHED">>,
     <<"PUBLISHED", "APPEALED">>, <<"PUBLISHED", "FINAL">>,
     <<"APPEALED", "APPEAL_REVIEW">>,
     <<"APPEAL_REVIEW", "UPHELD">>, <<"APPEAL_REVIEW", "SUPERSEDED">>,
     <<"APPEAL_REVIEW", "REMANDED">>,
     <<"REMANDED", "ASSIGNMENT">>,
     <<"UPHELD", "FINAL">>, <<"SUPERSEDED", "FINAL">>,
     <<"FINAL", "ARCHIVED">>}

States == {edge[1] : edge \in Transitions} \cup {edge[2] : edge \in Transitions}
============================================================================
