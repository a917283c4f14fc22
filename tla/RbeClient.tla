----------------------------- MODULE RbeClient -----------------------------
(***************************************************************************)
(* Callers of RBERuntime.advance and RBERuntime.register_evidence          *)
(* (rbe_runtime/service.py) whose answers may be lost.  A caller that does *)
(* not hear makes the same call again with the same idempotency key.  The  *)
(* method does not resend what it sent the first time: it reads the        *)
(* session and the clock again and builds the repository command anew.     *)
(* The repository's transaction is one step, which RbeStore implements.    *)
(***************************************************************************)
EXTENDS RbeCommand

CONSTANTS Client,     \* the calls: each has the idempotency key of its name
          Wanted,     \* the targets the advance calls ask for
          MaxTries,   \* bound: times a call is made
          MaxClock,   \* bound: the clock's last reading
          MaxAudit    \* bound: no command begins on a log this long

ASSUME ClientAssumption == Client \subseteq Key /\ Wanted \subseteq State
ASSUME ClockAssumption == Stamp = 0 .. MaxClock
ASSUME CallBounds == {MaxTries, MaxClock, MaxAudit} \subseteq Nat

VARIABLES db,         \* the committed database
          clock,      \* the clock, in its resolution of a second
          wants,      \* what each caller asks for
          step,       \* where its call is
          command,    \* the repository command built for the present attempt
          reply,      \* what the attempt answered
          tries,      \* attempts made
          applied     \* how often the call has changed the session

vars == <<db, clock, wants, step, command, reply, tries, applied>>

Intention == [kind : {"advance"}, target : Wanted] \cup [kind : {"evidence"}, ref : Ref]

NoCommand == [name |-> "none"]

\* The session has just been created.
Init ==
    /\ db = Apply(EmptyDatabase, [name |-> "create_review"])
    /\ clock = 0
    /\ wants \in [Client -> Intention]
    /\ step = [c \in Client |-> "ready"]
    /\ command = [c \in Client |-> NoCommand]
    /\ reply = [c \in Client |-> "none"]
    /\ tries = [c \in Client |-> 0]
    /\ applied = [c \in Client |-> 0]
---------------------------------------------------------------------------
EvidenceOpen == {"DRAFT", "SUBMITTED", "INTAKE_VALIDATION", "RETURNED", "ACCEPTED"}

\* The checks of the service, on the session row it reads.
Admits(want) ==
    IF want.kind = "advance" THEN CanTransition(db.status, want.target)
                             ELSE db.status \in EvidenceOpen

Build(want) ==
    IF want.kind = "advance"
    THEN [name |-> "transition", target |-> want.target, expected |-> db.version]
    ELSE [name |-> "register_evidence", ref |-> want.ref, intact |-> TRUE, at |-> clock]

\* The method is called, reads, checks and builds its command ...
Start(c) ==
    /\ step[c] = "ready"
    /\ tries' = [tries EXCEPT ![c] = @ + 1]
    /\ Admits(wants[c])
    /\ command' = [command EXCEPT ![c] = Build(wants[c])]
    /\ step' = [step EXCEPT ![c] = "built"]
    /\ UNCHANGED <<db, clock, wants, reply, applied>>

\* ... or raises before the repository sees it.
TurnAway(c) ==
    /\ step[c] = "ready"
    /\ tries' = [tries EXCEPT ![c] = @ + 1]
    /\ ~Admits(wants[c])
    /\ reply' = [reply EXCEPT ![c] = "refused"]
    /\ step' = [step EXCEPT ![c] = "answering"]
    /\ UNCHANGED <<db, clock, wants, command, applied>>

\* The repository answers a call without raising.
Succeeds(cmd, k) ==
    IF Existing(db, cmd, k) = {} THEN Accepts(db, cmd)
    ELSE \E r \in Existing(db, cmd, k) : r.payload = cmd

Submit(c) ==
    /\ step[c] = "built"
    /\ Len(db.audit) < MaxAudit
    /\ db' = Perform(db, command[c], c)
    /\ reply' = [reply EXCEPT ![c] = IF Succeeds(command[c], c) THEN "ok" ELSE "refused"]
    /\ applied' = IF <<db'.version, db'.evidence>> = <<db.version, db.evidence>>
                  THEN applied ELSE [applied EXCEPT ![c] = @ + 1]
    /\ step' = [step EXCEPT ![c] = "answering"]
    /\ UNCHANGED <<clock, wants, command, tries>>

Answer(c) ==
    /\ step[c] = "answering"
    /\ step' = [step EXCEPT ![c] = "answered"]
    /\ UNCHANGED <<db, clock, wants, command, reply, tries, applied>>

\* The process executing the call dies, before or after the commit; its
\* caller hears nothing and makes the call again.
Lose(c) ==
    /\ step[c] \in {"built", "answering"}
    /\ tries[c] < MaxTries
    /\ step' = [step EXCEPT ![c] = "ready"]
    /\ command' = [command EXCEPT ![c] = NoCommand]
    /\ reply' = [reply EXCEPT ![c] = "none"]
    /\ UNCHANGED <<db, clock, wants, tries, applied>>

Tick ==
    /\ clock < MaxClock
    /\ clock' = clock + 1
    /\ UNCHANGED <<db, wants, step, command, reply, tries, applied>>

Next ==
    \/ \E c \in Client : Start(c) \/ TurnAway(c) \/ Submit(c) \/ Answer(c) \/ Lose(c)
    \/ Tick

Spec == Init /\ [][Next]_vars
---------------------------------------------------------------------------
TypeOK ==
    /\ db \in Database
    /\ clock \in Stamp
    /\ wants \in [Client -> Intention]
    /\ step \in [Client -> {"ready", "built", "answering", "answered"}]
    /\ command \in [Client -> TransitionCommand \cup EvidenceCommand \cup {NoCommand}]
    /\ reply \in [Client -> {"none", "ok", "refused"}]
    /\ tries \in [Client -> 0 .. MaxTries]
    /\ applied \in [Client -> Nat]

\* However often a call is retried, and whatever the other callers did in
\* between, it changes the session at most once: even an advance whose
\* target has become reachable again since it was applied.
AtMostOnce == \A c \in Client : applied[c] <= 1

\* A caller that is told of success has had its effect; one that is refused
\* at its first attempt has had none.
AnswersTrue ==
    \A c \in Client : step[c] = "answered" =>
        /\ reply[c] = "ok" => applied[c] = 1
        /\ reply[c] = "refused" /\ tries[c] = 1 => applied[c] = 0
============================================================================
