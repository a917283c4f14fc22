---------------------------- MODULE RbeCommand ----------------------------
(***************************************************************************)
(* The durable record of one review session and what one repository        *)
(* command does to it: rbe_runtime/repository.py, SQLiteRepository.        *)
(*                                                                         *)
(* A database value d is a record                                          *)
(*   d.status    the status column of the session's row, or Absent         *)
(*   d.version   its aggregate_version                                     *)
(*   d.evidence  the primary keys of its evidence_references rows          *)
(*   d.idem      its idempotency_keys rows                                 *)
(*   d.audit     its audit_log rows, ordered by sequence                   *)
(*                                                                         *)
(* Three commands stand for the three kinds the repository has: the one    *)
(* that creates the session, the versioned state transition, and an        *)
(* append-only record (register_evidence; submit_review, submit_           *)
(* remediation_plans, save_decision_candidate, save_decision and           *)
(* save_publication differ only in the rows they insert and are modelled   *)
(* in ReviewBoard).  The lifecycle register is a parameter, as it is in    *)
(* the code, where it is loaded from the controlled package.               *)
(***************************************************************************)
EXTENDS Naturals, Sequences

CONSTANTS State, Initial, Terminal, Transition,  \* the lifecycle register
          Key,                                   \* idempotency keys
          Ref,                                   \* evidence identities
          Stamp,                                 \* readings of the clock
          Absent                                 \* no session row

\* CanonicalStateMachine.validate_register.
ASSUME RegisterAssumption ==
    /\ Initial \in State
    /\ Terminal \subseteq State
    /\ Transition \subseteq State \X State
    /\ \A s \in State \ Terminal : \E t \in State : <<s, t>> \in Transition

ASSUME AbsentAssumption == Absent \notin State
---------------------------------------------------------------------------
Create             == [name : {"create_review"}]
TransitionCommand  == [name : {"transition"}, target : State, expected : Nat]
EvidenceCommand    == [name : {"register_evidence"}, ref : Ref, intact : BOOLEAN,
                       at : Stamp]

\* A command is its payload: two calls carry the same payload hash exactly
\* when they are the same command.  A reference carries the time at which the
\* service built it, registered_at.
Command == Create \cup TransitionCommand \cup EvidenceCommand

\* The commands a caller can build: a transition names a version the session
\* has had, because the caller has read it.
Readable(d) == Create \cup EvidenceCommand
               \cup [name : {"transition"}, target : State, expected : 0 .. d.version]

CommandName == {"create_review", "transition", "register_evidence"}

\* What a command returns, stored in idempotency_keys.result_json.
Result == [status : State, version : Nat] \cup [ref : Ref]

IdemRow == [key : Key, payload : Command, result : Result]

\* The part of an audit row that is its content.
Body == [sequence : Nat, event : {"SESSION_CREATED"}, target : State, version : Nat]
        \cup [sequence : Nat, event : {"STATE_TRANSITIONED"}, source : State,
              target : State, version : Nat]
        \cup [sequence : Nat, event : {"EVIDENCE_REGISTERED"}, ref : Ref]
        \cup [sequence : Nat,
              event : {"COMMAND_REJECTED", "IDEMPOTENCY_CONFLICT"},
              command : CommandName]

\* An audit row.  canonical_hash is modelled as an injection: the digest of
\* a row is the chain of contents it commits to, and the digest a first row
\* points to (None in the code) is the empty chain.
Entry == [body : Body, prev : Seq(Body)]

EntryHash(e) == Append(e.prev, e.body)

Database == [status   : State \cup {Absent},
             version  : Nat,
             evidence : SUBSET Ref,
             idem     : SUBSET IdemRow,
             audit    : Seq(Entry)]

EmptyDatabase == [status |-> Absent, version |-> 0, evidence |-> {},
                  idem |-> {}, audit |-> <<>>]
---------------------------------------------------------------------------
SessionExists(d) == d.status # Absent

\* The body an event gets when it is appended to d's log.
NextSequence(d) == IF d.audit = <<>> THEN 1
                   ELSE d.audit[Len(d.audit)].body.sequence + 1

PreviousHashStale(d) ==          \* a mutant: the last row's own link again
    IF d.audit = <<>> THEN <<>> ELSE d.audit[Len(d.audit)].prev

PreviousHash(d) == IF d.audit = <<>> THEN <<>>
                   ELSE EntryHash(d.audit[Len(d.audit)])

AppendAudit(d, body) ==
    [d EXCEPT !.audit = Append(@, [body |-> body, prev |-> PreviousHash(d)])]

\* CanonicalStateMachine.require_transition raises nothing.
CanTransition(source, target) ==
    /\ source \in State /\ target \in State
    /\ source \notin Terminal
    /\ <<source, target>> \in Transition
---------------------------------------------------------------------------
\* A mutant: the payload is made part of the primary key.
ExistingPayload(d, cmd, k) == {r \in d.idem : r.key = k /\ r.payload = cmd}

\* The idempotency row a call finds: the primary key is the session, the
\* command name and the key.
Existing(d, cmd, k) == {r \in d.idem : r.key = k /\ r.payload.name = cmd.name}

\* A mutant: no optimistic check of the version.
AcceptsStale(d, cmd) ==
    CASE cmd.name = "create_review" -> ~SessionExists(d)
      [] cmd.name = "transition" -> SessionExists(d) /\ CanTransition(d.status, cmd.target)
      [] cmd.name = "register_evidence" -> /\ cmd.intact
                                           /\ SessionExists(d)
                                           /\ cmd.ref \notin d.evidence

\* The operation of cmd raises neither RBEError nor IntegrityError on d.
Accepts(d, cmd) ==
    CASE cmd.name = "create_review" -> ~SessionExists(d)
      [] cmd.name = "transition" -> /\ SessionExists(d)
                                    /\ CanTransition(d.status, cmd.target)
                                    /\ d.version = cmd.expected
      [] cmd.name = "register_evidence" -> /\ cmd.intact
                                           /\ SessionExists(d)
                                           /\ cmd.ref \notin d.evidence

\* The session row is inserted or updated.
SetSession(d, status, version) ==
    [d EXCEPT !.status = status, !.version = version]

\* The rows an accepted operation writes, its audit row included.
Apply(d, cmd) ==
    CASE cmd.name = "create_review" ->
           AppendAudit(SetSession(d, Initial, 0),
                       [sequence |-> NextSequence(d), event |-> "SESSION_CREATED",
                        target |-> Initial, version |-> 0])
      [] cmd.name = "transition" ->
           AppendAudit(SetSession(d, cmd.target, cmd.expected + 1),
                       [sequence |-> NextSequence(d), event |-> "STATE_TRANSITIONED",
                        source |-> d.status, target |-> cmd.target,
                        version |-> cmd.expected + 1])
      [] cmd.name = "register_evidence" ->
           AppendAudit([d EXCEPT !.evidence = @ \cup {cmd.ref}],
                       [sequence |-> NextSequence(d), event |-> "EVIDENCE_REGISTERED",
                        ref |-> cmd.ref])

\* What the operation returns, read from the rows it has just written.
ResultOf(d, cmd) ==
    IF cmd.name = "register_evidence" THEN [ref |-> cmd.ref]
    ELSE [status |-> d.status, version |-> d.version]

\* The idempotency row of an accepted call.
Remember(d, cmd, k) ==
    [d EXCEPT !.idem = @ \cup {[key |-> k, payload |-> cmd,
                                result |-> ResultOf(d, cmd)]}]

Refusal(d, cmd, event) ==
    AppendAudit(d, [sequence |-> NextSequence(d), event |-> event,
                    command |-> cmd.name])

\* A mutant: no savepoint is rolled back.
RejectKeeping(d, cmd) ==
    IF SessionExists(d) THEN Refusal(Apply(d, cmd), cmd, "COMMAND_REJECTED") ELSE d

\* The operation raised: its savepoint is rolled back and the rejection is
\* audited when there is a session to attach it to.
Reject(d, cmd) ==
    IF SessionExists(d) THEN Refusal(d, cmd, "COMMAND_REJECTED") ELSE d

\* The key was used for another payload.
Conflict(d, cmd) == Refusal(d, cmd, "IDEMPOTENCY_CONFLICT")

\* _run_idempotent as a function of the database it starts from.
Perform(d, cmd, k) ==
    IF Existing(d, cmd, k) # {}
    THEN IF \E r \in Existing(d, cmd, k) : r.payload = cmd
         THEN d
         ELSE Conflict(d, cmd)
    ELSE IF Accepts(d, cmd) THEN Remember(Apply(d, cmd), cmd, k)
                            ELSE Reject(d, cmd)
===========================================================================
