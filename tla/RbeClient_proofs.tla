-------------------------- MODULE RbeClient_proofs --------------------------
(***************************************************************************)
(* A call that is retried changes the session at most once and is answered *)
(* truly, for every register, every number of callers and of attempts.     *)
(*                                                                         *)
(* The attempts of one call build different payloads, so it is not the     *)
(* payload that makes the call idempotent: it is that every attempt looks  *)
(* up the same command name and key.  A key has a row exactly when its     *)
(* call has changed the session (Counted), and the row is of the name that *)
(* the caller's intention always builds (Built).                           *)
(***************************************************************************)
EXTENDS RbeClient, TLAPS

\* The commands that callers build.
Attempt == TransitionCommand \cup EvidenceCommand

\* An audit row of the right type keeps the database's type, and the log is
\* all that it changes.
LEMMA AppendAuditType ==
    ASSUME NEW d \in Database, NEW body \in Body
    PROVE  LET e == AppendAudit(d, body)
           IN  /\ e \in Database
               /\ e.status = d.status /\ e.version = d.version
               /\ e.evidence = d.evidence /\ e.idem = d.idem
<1> DEFINE row == [body |-> body, prev |-> PreviousHash(d)]
           log == Append(d.audit, row)
<1>1. d.audit \in Seq(Entry)
  BY DEF Database
<1>2. PreviousHash(d) \in Seq(Body)
  <2>1. CASE d.audit = <<>>
    BY <2>1 DEF PreviousHash
  <2>2. CASE d.audit # <<>>
    <3>1. d.audit[Len(d.audit)] \in Entry
      BY <1>1, <2>2
    <3>2. QED
      BY <2>2, <3>1 DEF PreviousHash, EntryHash, Entry
  <2>3. QED
    BY <2>1, <2>2
<1>3. log \in Seq(Entry)
  BY <1>1, <1>2 DEF Entry
<1>4. AppendAudit(d, body) = [d EXCEPT !.audit = log]
  BY DEF AppendAudit
<1> HIDE DEF log
<1>5. QED
  BY <1>3, <1>4 DEF Database

LEMMA NextSequenceType ==
    ASSUME NEW d \in Database
    PROVE  NextSequence(d) \in Nat
<1>1. d.audit \in Seq(Entry)
  BY DEF Database
<1>2. ASSUME d.audit # <<>>
      PROVE  d.audit[Len(d.audit)] \in Entry
  BY <1>1, <1>2
<1>3. \A e \in Entry : e.body.sequence \in Nat
  BY DEF Entry, Body
<1>4. QED
  BY <1>2, <1>3 DEF NextSequence

LEMMA RefusalType ==
    ASSUME NEW d \in Database, NEW cmd \in Attempt,
           NEW event \in {"COMMAND_REJECTED", "IDEMPOTENCY_CONFLICT"}
    PROVE  LET e == Refusal(d, cmd, event)
           IN  /\ e \in Database
               /\ e.version = d.version /\ e.evidence = d.evidence /\ e.idem = d.idem
<1>1. cmd.name \in CommandName
  BY DEF Attempt, TransitionCommand, EvidenceCommand, CommandName
<1>2. [sequence |-> NextSequence(d), event |-> event, command |-> cmd.name] \in Body
  BY <1>1, NextSequenceType DEF Body
<1>3. QED
  BY <1>2, AppendAuditType DEF Refusal

\* An accepted attempt changes the session, and writes no key yet.
LEMMA ApplyType ==
    ASSUME NEW d \in Database, NEW cmd \in Attempt, Accepts(d, cmd)
    PROVE  LET e == Apply(d, cmd)
           IN  /\ e \in Database /\ e.idem = d.idem /\ SessionExists(e)
               /\ <<e.version, e.evidence>> # <<d.version, d.evidence>>
<1> DEFINE e == Apply(d, cmd)
<1> SUFFICES /\ e \in Database /\ e.idem = d.idem /\ SessionExists(e)
             /\ e.version # d.version \/ e.evidence # d.evidence
  OBVIOUS
<1>1. CASE cmd \in TransitionCommand
  <2> DEFINE c == SetSession(d, cmd.target, cmd.expected + 1)
             body == [sequence |-> NextSequence(d), event |-> "STATE_TRANSITIONED",
                      source |-> d.status, target |-> cmd.target,
                      version |-> cmd.expected + 1]
  <2>1. /\ cmd.target \in State /\ cmd.expected \in Nat
        /\ CanTransition(d.status, cmd.target) /\ d.version = cmd.expected
    BY <1>1 DEF Accepts, TransitionCommand
  <2>2. d.status \in State /\ cmd.expected + 1 \in Nat /\ cmd.expected + 1 # d.version
    BY <2>1 DEF CanTransition
  <2>3. body \in Body
    BY <2>1, <2>2, NextSequenceType DEF Body
  <2>4. /\ c \in Database /\ c.status = cmd.target /\ c.version = cmd.expected + 1
        /\ c.evidence = d.evidence /\ c.idem = d.idem
    <3> DEFINE v == cmd.expected + 1
               s == cmd.target
    <3>1. v \in Nat /\ s \in State \cup {Absent} /\ c = SetSession(d, s, v)
      BY <2>1, <2>2
    <3> HIDE DEF v, s, c
    <3>2. /\ c \in Database /\ c.status = s /\ c.version = v
          /\ c.evidence = d.evidence /\ c.idem = d.idem
      BY <3>1 DEF SetSession, Database
    <3>3. QED
      BY <3>2 DEF v, s
  <2>5. e = AppendAudit(c, body)
    BY <1>1 DEF Apply, TransitionCommand
  <2> HIDE DEF e, c, body
  <2>6. QED
    BY <2>1, <2>2, <2>3, <2>4, <2>5, AppendAuditType, AbsentAssumption
       DEF SessionExists
<1>2. CASE cmd \in EvidenceCommand
  <2> DEFINE c == [d EXCEPT !.evidence = @ \cup {cmd.ref}]
             body == [sequence |-> NextSequence(d), event |-> "EVIDENCE_REGISTERED",
                      ref |-> cmd.ref]
  <2>1. cmd.ref \in Ref /\ cmd.ref \notin d.evidence /\ SessionExists(d)
    BY <1>2 DEF Accepts, EvidenceCommand
  <2>2. body \in Body
    BY <2>1, NextSequenceType DEF Body
  <2>3. /\ c \in Database /\ c.status = d.status /\ c.idem = d.idem
        /\ c.evidence = d.evidence \cup {cmd.ref}
    BY <2>1 DEF Database
  <2>4. e = AppendAudit(c, body)
    BY <1>2 DEF Apply, EvidenceCommand
  <2> HIDE DEF e, c, body
  <2>5. QED
    BY <2>1, <2>2, <2>3, <2>4, AppendAuditType DEF SessionExists
<1>3. QED
  BY <1>1, <1>2 DEF Attempt

\* What one attempt does: it changes the session and writes its key, or it
\* does neither.
LEMMA PerformEffect ==
    ASSUME NEW d \in Database, NEW cmd \in Attempt, NEW k \in Key
    PROVE  LET e == Perform(d, cmd, k)
           IN  /\ e \in Database
               /\ IF Existing(d, cmd, k) = {} /\ Accepts(d, cmd)
                  THEN /\ <<e.version, e.evidence>> # <<d.version, d.evidence>>
                       /\ \E row \in IdemRow : /\ row.key = k /\ row.payload = cmd
                                               /\ e.idem = d.idem \cup {row}
                  ELSE /\ e.version = d.version /\ e.evidence = d.evidence
                       /\ e.idem = d.idem
<1> DEFINE e == Perform(d, cmd, k)
<1>1. CASE Existing(d, cmd, k) # {}
  BY <1>1, RefusalType DEF Perform, Conflict
<1>2. CASE Existing(d, cmd, k) = {} /\ ~Accepts(d, cmd)
  BY <1>2, RefusalType DEF Perform, Reject
<1>3. CASE Existing(d, cmd, k) = {} /\ Accepts(d, cmd)
  <2> DEFINE c == Apply(d, cmd)
             row == [key |-> k, payload |-> cmd, result |-> ResultOf(c, cmd)]
  <2>1. /\ c \in Database /\ c.idem = d.idem /\ SessionExists(c)
        /\ <<c.version, c.evidence>> # <<d.version, d.evidence>>
    BY <1>3, ApplyType
  <2>2. e = Remember(c, cmd, k)
    BY <1>3 DEF Perform
  <2> HIDE DEF c
  <2>3. ResultOf(c, cmd) \in Result
    <3>1. CASE cmd \in EvidenceCommand
      BY <3>1 DEF ResultOf, EvidenceCommand, Result
    <3>2. CASE cmd \in TransitionCommand
      <4>1. cmd.name # "register_evidence"
        BY <3>2 DEF TransitionCommand
      <4>2. c.status \in State /\ c.version \in Nat
        BY <2>1 DEF SessionExists, Database
      <4>3. QED
        BY <4>1, <4>2 DEF ResultOf, Result
    <3>3. QED
      BY <3>1, <3>2 DEF Attempt
  <2>4. row \in IdemRow /\ row.key = k /\ row.payload = cmd
    BY <2>3 DEF IdemRow, Attempt, Command
  <2>5. e = [c EXCEPT !.idem = c.idem \cup {row}]
    BY <2>2 DEF Remember
  <2> HIDE DEF e, row
  <2>6. /\ e \in Database /\ e.idem = d.idem \cup {row}
        /\ e.version = c.version /\ e.evidence = c.evidence
    BY <2>1, <2>4, <2>5 DEF Database
  <2>7. QED
    BY <1>3, <2>1, <2>4, <2>6 DEF e
<1>4. QED
  BY <1>1, <1>2, <1>3
---------------------------------------------------------------------------
TypeInv ==
    /\ db \in Database
    /\ clock \in Stamp
    /\ wants \in [Client -> Intention]
    /\ step \in [Client -> {"ready", "built", "answering", "answered"}]
    /\ command \in [Client -> Attempt \cup {NoCommand}]
    /\ reply \in [Client -> {"none", "ok", "refused"}]
    /\ tries \in [Client -> Nat]
    /\ applied \in [Client -> {0, 1}]

\* The command name an intention always builds.
NameOf(want) == IF want.kind = "advance" THEN "transition" ELSE "register_evidence"

Rows(c) == {r \in db.idem : r.key = c}

\* The key of a call has a row exactly when the call has changed the session,
\* and the row is of the call's command name.
Counted(c) ==
    /\ applied[c] = 1 <=> Rows(c) # {}
    /\ \A r \in Rows(c) : r.payload.name = NameOf(wants[c])

Built(c) ==
    step[c] = "built" => /\ command[c] \in Attempt
                         /\ command[c].name = NameOf(wants[c])

\* A call has changed nothing before its first attempt reaches the
\* repository; what an attempt answered is what has happened.
Truthful(c) ==
    /\ step[c] # "ready" => tries[c] >= 1
    /\ (step[c] = "ready" /\ tries[c] = 0) => applied[c] = 0
    /\ (step[c] = "built" /\ tries[c] = 1) => applied[c] = 0
    /\ step[c] \in {"answering", "answered"} =>
          /\ reply[c] = "ok" => applied[c] = 1
          /\ (reply[c] = "refused" /\ tries[c] = 1) => applied[c] = 0

CallInv(c) == Counted(c) /\ Built(c) /\ Truthful(c)

Inv == TypeInv /\ \A c \in Client : CallInv(c)

\* A call depends on the database through the rows of its key.
Idle(c) ==
    /\ wants'[c] = wants[c] /\ step'[c] = step[c] /\ command'[c] = command[c]
    /\ reply'[c] = reply[c] /\ tries'[c] = tries[c] /\ applied'[c] = applied[c]

LEMMA OthersLemma ==
    ASSUME Inv, NEW c \in Client, Idle(c), Rows(c)' = Rows(c)
    PROVE  CallInv(c)'
BY DEF Inv, CallInv, Counted, Built, Truthful, Idle

LEMMA InitInv == Init => Inv
<1> SUFFICES ASSUME Init
             PROVE  Inv
  OBVIOUS
<1>1. db \in Database /\ db.idem = {}
  <2> DEFINE c == SetSession(EmptyDatabase, Initial, 0)
             body == [sequence |-> NextSequence(EmptyDatabase),
                      event |-> "SESSION_CREATED", target |-> Initial, version |-> 0]
  <2>1. EmptyDatabase \in Database /\ EmptyDatabase.idem = {}
    BY DEF EmptyDatabase, Database
  <2>2. Initial \in State
    BY RegisterAssumption
  <2>3. c \in Database /\ c.idem = {}
    BY <2>1, <2>2 DEF SetSession, Database
  <2>4. body \in Body
    BY <2>1, <2>2, NextSequenceType DEF Body
  <2>5. db = AppendAudit(c, body)
    BY DEF Init, Apply
  <2> HIDE DEF c, body
  <2>6. QED
    BY <2>3, <2>4, <2>5, AppendAuditType
<1>2. 0 \in Stamp
  BY ClockAssumption, CallBounds
<1>3. TypeInv
  BY <1>1, <1>2 DEF Init, TypeInv
<1>4. ASSUME NEW c \in Client
      PROVE  CallInv(c)
  BY <1>1 DEF Init, CallInv, Counted, Rows, Built, Truthful
<1>5. QED
  BY <1>3, <1>4 DEF Inv

\* The service builds, from whatever it reads, a command of the name that
\* its caller's intention determines.
LEMMA BuildLemma ==
    ASSUME TypeInv, NEW c \in Client
    PROVE  /\ Build(wants[c]) \in Attempt
           /\ Build(wants[c]).name = NameOf(wants[c])
<1> DEFINE want == wants[c]
<1>1. want \in Intention /\ db.version \in Nat /\ clock \in Stamp
  BY DEF TypeInv, Database
<1> HIDE DEF want
<1>2. CASE want \in [kind : {"advance"}, target : Wanted]
  <2>1. want.kind = "advance" /\ want.target \in State
    BY <1>2, ClientAssumption
  <2>2. QED
    BY <1>1, <2>1 DEF Build, NameOf, Attempt, TransitionCommand, want
<1>3. CASE want \in [kind : {"evidence"}, ref : Ref]
  <2>1. want.kind = "evidence" /\ want.ref \in Ref
    BY <1>3
  <2>2. QED
    BY <1>1, <2>1 DEF Build, NameOf, Attempt, EvidenceCommand, want
<1>4. QED
  BY <1>1, <1>2, <1>3 DEF Intention

LEMMA StartInv ==
    ASSUME Inv, NEW c \in Client, Start(c)
    PROVE  Inv'
<1>1. Build(wants[c]) \in Attempt /\ Build(wants[c]).name = NameOf(wants[c])
  BY BuildLemma DEF Inv
<1>2. TypeInv'
  BY <1>1 DEF Inv, TypeInv, Start
<1>3. ASSUME NEW d \in Client \ {c}
      PROVE  CallInv(d)'
  <2>1. Idle(d) /\ Rows(d)' = Rows(d)
    BY DEF Inv, TypeInv, Start, Idle, Rows
  <2>2. QED
    BY <2>1, OthersLemma
<1>4. CallInv(c)'
  <2>1. /\ db' = db /\ wants' = wants /\ applied' = applied /\ step[c] = "ready"
        /\ step'[c] = "built" /\ tries'[c] = tries[c] + 1
        /\ command'[c] = Build(wants[c]) /\ tries[c] \in Nat
    BY DEF Inv, TypeInv, Start
  <2>2. Counted(c)' /\ Built(c)'
    BY <1>1, <2>1 DEF Inv, CallInv, Counted, Rows, Built
  <2>3. Truthful(c)'
    BY <2>1 DEF Inv, CallInv, Truthful
  <2>4. QED
    BY <2>2, <2>3 DEF CallInv
<1>5. QED
  BY <1>2, <1>3, <1>4 DEF Inv

LEMMA TurnAwayInv ==
    ASSUME Inv, NEW c \in Client, TurnAway(c)
    PROVE  Inv'
<1>1. TypeInv'
  BY DEF Inv, TypeInv, TurnAway
<1>2. ASSUME NEW d \in Client \ {c}
      PROVE  CallInv(d)'
  <2>1. Idle(d) /\ Rows(d)' = Rows(d)
    BY DEF Inv, TypeInv, TurnAway, Idle, Rows
  <2>2. QED
    BY <2>1, OthersLemma
<1>3. CallInv(c)'
  <2>1. /\ db' = db /\ wants' = wants /\ applied' = applied /\ step[c] = "ready"
        /\ step'[c] = "answering" /\ tries'[c] = tries[c] + 1
        /\ reply'[c] = "refused" /\ tries[c] \in Nat
    BY DEF Inv, TypeInv, TurnAway
  <2>2. Counted(c)' /\ Built(c)'
    BY <2>1 DEF Inv, CallInv, Counted, Rows, Built
  <2>3. Truthful(c)'
    BY <2>1 DEF Inv, CallInv, Truthful
  <2>4. QED
    BY <2>2, <2>3 DEF CallInv
<1>4. QED
  BY <1>1, <1>2, <1>3 DEF Inv

LEMMA SubmitInv ==
    ASSUME Inv, NEW c \in Client, Submit(c)
    PROVE  Inv'
<1> DEFINE cmd == command[c]
           applies == Existing(db, cmd, c) = {} /\ Accepts(db, cmd)
<1>1. /\ db \in Database /\ cmd \in Attempt /\ c \in Key
      /\ cmd.name = NameOf(wants[c]) /\ step[c] = "built"
  BY ClientAssumption DEF Inv, TypeInv, CallInv, Built, Submit
<1>2. /\ db' = Perform(db, cmd, c)
      /\ reply' = [reply EXCEPT ![c] = IF Succeeds(cmd, c) THEN "ok" ELSE "refused"]
      /\ applied' = IF <<db'.version, db'.evidence>> = <<db.version, db.evidence>>
                    THEN applied ELSE [applied EXCEPT ![c] = applied[c] + 1]
      /\ step' = [step EXCEPT ![c] = "answering"]
      /\ UNCHANGED <<clock, wants, command, tries>>
  BY DEF Submit
\* The name and the key find every row of the call.
<1>3. Existing(db, cmd, c) = Rows(c)
  BY <1>1 DEF Existing, Rows, Inv, CallInv, Counted
<1>4. db' \in Database
  BY <1>1, <1>2, PerformEffect
<1>5. CASE applies
  <2>1. /\ <<db'.version, db'.evidence>> # <<db.version, db.evidence>>
        /\ \E row \in IdemRow : /\ row.key = c /\ row.payload = cmd
                                /\ db'.idem = db.idem \cup {row}
    BY <1>1, <1>2, <1>5, PerformEffect
  <2>2. PICK row \in IdemRow : /\ row.key = c /\ row.payload = cmd
                               /\ db'.idem = db.idem \cup {row}
    BY <2>1
  <2>3. applied[c] = 0 /\ Rows(c) = {}
    BY <1>3, <1>5 DEF Inv, TypeInv, CallInv, Counted
  <2>4. applied' = [applied EXCEPT ![c] = 1] /\ reply' = [reply EXCEPT ![c] = "ok"]
    BY <1>2, <1>5, <2>1, <2>3 DEF Succeeds
  <2>5. TypeInv'
    BY <1>2, <1>4, <2>4 DEF Inv, TypeInv
  <2>6. ASSUME NEW d \in Client \ {c}
        PROVE  CallInv(d)'
    <3>1. Idle(d) /\ Rows(d)' = Rows(d)
      BY <1>2, <2>2, <2>4 DEF Inv, TypeInv, Idle, Rows
    <3>2. QED
      BY <3>1, OthersLemma
  <2>7. CallInv(c)'
    <3>1. Rows(c)' = {row}
      BY <2>2, <2>3 DEF Rows
    <3>2. /\ applied'[c] = 1 /\ reply'[c] = "ok" /\ step'[c] = "answering"
          /\ wants' = wants /\ tries' = tries
      BY <1>2, <2>4 DEF Inv, TypeInv
    <3>3. Counted(c)' /\ Built(c)'
      BY <1>1, <2>2, <3>1, <3>2 DEF Counted, Built
    <3>4. Truthful(c)'
      BY <1>1, <3>2 DEF Inv, CallInv, Truthful
    <3>5. QED
      BY <3>3, <3>4 DEF CallInv
  <2>8. QED
    BY <2>5, <2>6, <2>7 DEF Inv
<1>6. CASE ~applies
  <2>1. db'.version = db.version /\ db'.evidence = db.evidence /\ db'.idem = db.idem
    BY <1>1, <1>2, <1>6, PerformEffect
  <2>2. applied' = applied
    BY <1>2, <2>1
  <2>3. TypeInv'
    BY <1>2, <1>4, <2>2 DEF Inv, TypeInv
  <2>4. \A d \in Client : Rows(d)' = Rows(d)
    BY <2>1 DEF Rows
  <2>5. ASSUME NEW d \in Client \ {c}
        PROVE  CallInv(d)'
    <3>1. Idle(d)
      BY <1>2, <2>2 DEF Inv, TypeInv, Idle
    <3>2. QED
      BY <2>4, <3>1, OthersLemma
  <2>6. CallInv(c)'
    <3>1. /\ step'[c] = "answering" /\ wants' = wants /\ tries' = tries
          /\ reply'[c] = IF Succeeds(cmd, c) THEN "ok" ELSE "refused"
      BY <1>2 DEF Inv, TypeInv
    <3>2. Succeeds(cmd, c) => Rows(c) # {}
      BY <1>3, <1>6 DEF Succeeds
    <3>3. Counted(c)' /\ Built(c)'
      BY <2>2, <2>4, <3>1 DEF Inv, CallInv, Counted, Built
    <3>4. Truthful(c)'
      BY <1>1, <2>2, <3>1, <3>2 DEF Inv, CallInv, Counted, Truthful
    <3>5. QED
      BY <3>3, <3>4 DEF CallInv
  <2>7. QED
    BY <2>3, <2>5, <2>6 DEF Inv
<1>7. QED
  BY <1>5, <1>6

LEMMA AnswerInv ==
    ASSUME Inv, NEW c \in Client, Answer(c)
    PROVE  Inv'
<1>1. TypeInv'
  BY DEF Inv, TypeInv, Answer
<1>2. ASSUME NEW d \in Client
      PROVE  CallInv(d)'
  BY DEF Inv, TypeInv, CallInv, Counted, Rows, Built, Truthful, Answer
<1>3. QED
  BY <1>1, <1>2 DEF Inv

LEMMA LoseInv ==
    ASSUME Inv, NEW c \in Client, Lose(c)
    PROVE  Inv'
<1>1. TypeInv'
  BY DEF Inv, TypeInv, Lose
<1>2. ASSUME NEW d \in Client \ {c}
      PROVE  CallInv(d)'
  <2>1. Idle(d) /\ Rows(d)' = Rows(d)
    BY DEF Inv, TypeInv, Lose, Idle, Rows
  <2>2. QED
    BY <2>1, OthersLemma
<1>3. CallInv(c)'
  <2>1. /\ step'[c] = "ready" /\ tries' = tries /\ applied' = applied /\ db' = db
        /\ wants' = wants /\ step[c] # "ready" /\ tries[c] \in Nat
    BY DEF Inv, TypeInv, Lose
  <2>2. Counted(c)' /\ Built(c)'
    BY <2>1 DEF Inv, CallInv, Counted, Rows, Built
  <2>3. Truthful(c)'
    BY <2>1 DEF Inv, CallInv, Truthful
  <2>4. QED
    BY <2>2, <2>3 DEF CallInv
<1>4. QED
  BY <1>1, <1>2, <1>3 DEF Inv

LEMMA NextInv == Inv /\ [Next]_vars => Inv'
<1> SUFFICES ASSUME Inv, [Next]_vars
             PROVE  Inv'
  OBVIOUS
<1>1. CASE Tick
  <2>1. clock' \in Stamp
    BY <1>1, ClockAssumption, CallBounds DEF Tick, Inv, TypeInv
  <2>2. TypeInv'
    BY <1>1, <2>1 DEF Tick, Inv, TypeInv
  <2>3. ASSUME NEW c \in Client
        PROVE  CallInv(c)'
    BY <1>1, OthersLemma DEF Tick, Idle, Rows
  <2>4. QED
    BY <2>2, <2>3 DEF Inv
<1>2. CASE UNCHANGED vars
  <2>1. TypeInv'
    BY <1>2 DEF vars, Inv, TypeInv
  <2>2. ASSUME NEW c \in Client
        PROVE  CallInv(c)'
    BY <1>2, OthersLemma DEF vars, Idle, Rows
  <2>3. QED
    BY <2>1, <2>2 DEF Inv
<1>3. CASE Next /\ ~Tick
  BY <1>3, StartInv, TurnAwayInv, SubmitInv, AnswerInv, LoseInv DEF Next
<1>4. QED
  BY <1>1, <1>2, <1>3

LEMMA Invariance == Spec => []Inv
BY InitInv, NextInv, PTL DEF Spec
---------------------------------------------------------------------------
\* However often a call is made, and whatever the others do in between, it
\* changes the session at most once: no payload that a retry builds escapes
\* the row its first success left.
THEOREM RetriesApplyOnce == Spec => []AtMostOnce
<1>1. Inv => AtMostOnce
  BY DEF Inv, TypeInv, AtMostOnce
<1>2. QED
  BY <1>1, Invariance, PTL

\* A caller told of success has had its effect, and one refused at its first
\* attempt has had none.
THEOREM RetriesAnswerTruly == Spec => []AnswersTrue
<1>1. Inv => AnswersTrue
  BY DEF Inv, CallInv, Truthful, AnswersTrue
<1>2. QED
  BY <1>1, Invariance, PTL
=============================================================================
