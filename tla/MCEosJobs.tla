----------------------------- MODULE MCEosJobs -----------------------------
(* Two browser sessions on the job engine. *)
EXTENDS EosJobs, TLC

CONSTANTS u1, u2

Sessions == Permutations(Session)
============================================================================
