---------------------------- MODULE RbeLedger -----------------------------
(***************************************************************************)
(* What the repository promises its callers: a session record on which     *)
(* every command takes effect in one step.  There are no connections,      *)
(* transactions or processes here; RbeStore is shown to implement it.      *)
(***************************************************************************)
EXTENDS RbeCommand

VARIABLE db

Init == db = EmptyDatabase

Do(cmd, k) == db' = Perform(db, cmd, k)

Next == \E cmd \in Readable(db), k \in Key : Do(cmd, k)

Spec == Init /\ [][Next]_db
---------------------------------------------------------------------------
(* The properties of the record.  Each is a predicate on a database value, *)
(* so that RbeStore can state it of its own.                               *)

Transitions(a) ==
    {i \in DOMAIN a : a[i].body.event \in {"SESSION_CREATED", "STATE_TRANSITIONED"}}

Announced(a) ==
    {a[i].body.ref : i \in {j \in DOMAIN a : a[j].body.event = "EVIDENCE_REGISTERED"}}

\* verify_audit succeeds on the log: numbered without gaps, each row holding
\* the digest of the one before it.
Linked(a) ==
    \A i \in DOMAIN a :
        /\ a[i].body.sequence = i
        /\ a[i].prev = IF i = 1 THEN <<>> ELSE EntryHash(a[i - 1])

\* The log alone determines the session: its last lifecycle row holds the
\* status and the version of the session row, there is one iff there is a
\* session, and the evidence rows are those it announces.
Replays(d) ==
    /\ SessionExists(d) <=> Transitions(d.audit) # {}
    /\ \A i \in Transitions(d.audit) :
          (\A j \in Transitions(d.audit) : j <= i) =>
              /\ d.audit[i].body.target = d.status
              /\ d.audit[i].body.version = d.version
    /\ d.evidence = Announced(d.audit)

\* Consecutive lifecycle rows form a path of the register, one version each.
LegalPath(a) ==
    \A i, j \in Transitions(a) :
        /\ i < j
        /\ \A m \in Transitions(a) : m <= i \/ m >= j
        => /\ a[j].body.event = "STATE_TRANSITIONED"
           /\ CanTransition(a[j].body.source, a[j].body.target)
           /\ a[j].body.source = a[i].body.target
           /\ a[j].body.version = a[i].body.version + 1

\* One row per command name and key.
OneRowPerKey(d) ==
    \A r, s \in d.idem : (r.key = s.key /\ r.payload.name = s.payload.name) => r = s
===========================================================================
