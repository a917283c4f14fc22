---------------------------- MODULE MCRbeClient ----------------------------
(* The canonical register, and callers who take the review round the cycle *)
(* SUBMITTED, INTAKE_VALIDATION, RETURNED, SUBMITTED while one registers    *)
(* evidence.                                                               *)
EXTENDS RbeClient, TLC

Register == INSTANCE RbeRegister

MCState == Register!States
MCInitial == Register!InitialState
MCTerminal == Register!TerminalStates
MCTransition == Register!Transitions

Symmetry == Permutations(Client)
============================================================================
