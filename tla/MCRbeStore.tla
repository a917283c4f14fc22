---------------------------- MODULE MCRbeStore ----------------------------
(* A register of three states with a cycle and a terminal state.           *)
EXTENDS RbeStore

MCState == {"DRAFT", "SUBMITTED", "ARCHIVED"}

MCTransition == {<<"DRAFT", "SUBMITTED">>, <<"SUBMITTED", "DRAFT">>,
                 <<"SUBMITTED", "ARCHIVED">>}
===========================================================================
