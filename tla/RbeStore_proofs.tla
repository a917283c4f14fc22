-------------------------- MODULE RbeStore_proofs --------------------------
(***************************************************************************)
(* The repository keeps its promises for every register, every number of   *)
(* callers, keys and evidence identities, and every log length.            *)
(*                                                                         *)
(* First the ledger: _run_idempotent, taken as one function of the         *)
(* database (Perform), preserves the type, the audit chain and its replay. *)
(* Then the store: while a process holds the write lock its copy is the    *)
(* committed database or what Perform makes of it (TxInv), so that every   *)
(* COMMIT is one step of the ledger.                                       *)
(* Last the history: rows and keys only accumulate, in step with each      *)
(* other, so a refusal leaves only its audit row, no command is applied    *)
(* twice, and an answer stays true (Answered, Balanced).                   *)
(***************************************************************************)
EXTENDS RbeStore, FiniteSetTheorems, SequenceTheorems, TLAPS

\* What holds of every committed database.
DbInv(d) ==
    /\ d \in Database
    /\ Ledger!Linked(d.audit)
    /\ Ledger!Replays(d)
    /\ Ledger!LegalPath(d.audit)
    /\ ~SessionExists(d) => d.version = 0 /\ d.idem = {}
---------------------------------------------------------------------------
\* _append_audit adds one row to the log, numbered after the rows before it
\* and chained to the last of them, and touches nothing else.
LEMMA AppendAuditLemma ==
    ASSUME NEW d \in Database, Ledger!Linked(d.audit),
           NEW body \in Body, body.sequence = NextSequence(d)
    PROVE  LET e == AppendAudit(d, body)
               n == Len(d.audit)
           IN  /\ e \in Database
               /\ Ledger!Linked(e.audit)
               /\ e.status = d.status /\ e.version = d.version
               /\ e.evidence = d.evidence /\ e.idem = d.idem
               /\ Len(e.audit) = n + 1
               /\ \A i \in 1 .. n : e.audit[i] = d.audit[i]
               /\ e.audit[n + 1].body = body
<1> DEFINE e == AppendAudit(d, body)
           n == Len(d.audit)
           row == [body |-> body, prev |-> PreviousHash(d)]
<1>1. d.audit \in Seq(Entry) /\ n \in Nat
  BY DEF Database
<1>2. ASSUME d.audit # <<>>
      PROVE  n \in 1 .. n /\ d.audit[n] \in Entry
  BY <1>1, <1>2
<1>3. PreviousHash(d) \in Seq(Body)
  <2>1. CASE d.audit = <<>>
    BY <2>1 DEF PreviousHash
  <2>2. CASE d.audit # <<>>
    BY <2>2, <1>2 DEF PreviousHash, EntryHash, Entry
  <2>3. QED
    BY <2>1, <2>2
<1>4. row \in Entry
  BY <1>3 DEF Entry
<1>5. e = [d EXCEPT !.audit = Append(d.audit, row)]
  BY DEF AppendAudit
<1>6. e \in Database /\ e.audit = Append(d.audit, row)
      /\ e.status = d.status /\ e.version = d.version
      /\ e.evidence = d.evidence /\ e.idem = d.idem
  <2>1. Append(d.audit, row) \in Seq(Entry)
    BY <1>1, <1>4
  <2>2. \A log : [d EXCEPT !.audit = log].audit = log
    BY DEF Database
  <2>3. QED
    BY <2>1, <2>2, <1>5 DEF Database
<1>7. Len(e.audit) = n + 1 /\ (\A i \in 1 .. n : e.audit[i] = d.audit[i])
      /\ e.audit[n + 1] = row
  BY <1>1, <1>4, <1>6
<1>8. body.sequence = n + 1
  BY <1>1, <1>2 DEF NextSequence, Ledger!Linked
<1>9. Ledger!Linked(e.audit)
  <2> SUFFICES ASSUME NEW i \in 1 .. n + 1
               PROVE  /\ e.audit[i].body.sequence = i
                      /\ e.audit[i].prev = IF i = 1 THEN <<>>
                                           ELSE EntryHash(e.audit[i - 1])
    BY <1>1, <1>6, <1>7 DEF Ledger!Linked, Ledger!EntryHash, EntryHash
  <2>1. CASE i \in 1 .. n
    <3>1. i - 1 \in 1 .. n \/ i = 1
      BY <2>1, <1>1
    <3>2. /\ d.audit[i].body.sequence = i
          /\ d.audit[i].prev = IF i = 1 THEN <<>> ELSE EntryHash(d.audit[i - 1])
      BY <2>1, <1>1 DEF Ledger!Linked, Ledger!EntryHash, EntryHash
    <3>3. QED
      BY <3>1, <3>2, <2>1, <1>7
  <2>2. CASE i = n + 1 /\ n = 0
    BY <2>2, <1>1, <1>7, <1>8 DEF PreviousHash
  <2>3. CASE i = n + 1 /\ n # 0
    BY <2>3, <1>1, <1>7, <1>8 DEF PreviousHash
  <2>4. QED
    BY <2>1, <2>2, <2>3, <1>1
<1>10. QED
  BY <1>6, <1>7, <1>9
---------------------------------------------------------------------------
Lifecycle == {"SESSION_CREATED", "STATE_TRANSITIONED"}

\* How the lifecycle rows and the announced evidence of a log grow with it.
LEMMA GrowLemma ==
    ASSUME NEW a \in Seq(Entry), NEW b \in Seq(Entry),
           Len(b) = Len(a) + 1, \A i \in 1 .. Len(a) : b[i] = a[i]
    PROVE  /\ Ledger!Transitions(a) \subseteq 1 .. Len(a)
           /\ Ledger!Transitions(b) =
                Ledger!Transitions(a) \cup
                  (IF b[Len(a) + 1].body.event \in Lifecycle THEN {Len(a) + 1} ELSE {})
           /\ Ledger!Announced(b) =
                Ledger!Announced(a) \cup
                  (IF b[Len(a) + 1].body.event = "EVIDENCE_REGISTERED"
                   THEN {b[Len(a) + 1].body.ref} ELSE {})
<1>1. Len(a) \in Nat /\ DOMAIN a = 1 .. Len(a) /\ DOMAIN b = 1 .. Len(a) + 1
  OBVIOUS
<1>2. \A i \in DOMAIN b : i \in DOMAIN a \/ i = Len(b)
  BY <1>1
<1>3. DOMAIN a \subseteq DOMAIN b /\ Len(b) \in DOMAIN b /\ Len(b) \notin DOMAIN a
  BY <1>1
<1>4. \A i \in DOMAIN a : b[i] = a[i]
  BY <1>1
<1>5. QED
  BY <1>1, <1>2, <1>3, <1>4, Zenon
     DEF Ledger!Transitions, Ledger!Announced, Lifecycle

\* A command changes the rows of d into those of c and appends one audit row,
\* which makes e.
Steps(d, c, body, e) ==
    /\ e \in Database /\ Len(d.audit) \in Nat
    /\ Ledger!Linked(e.audit)
    /\ e.status = c.status /\ e.version = c.version
    /\ e.evidence = c.evidence /\ e.idem = c.idem
    /\ e.audit[Len(d.audit) + 1].body = body
    /\ Ledger!Transitions(d.audit) \subseteq 1 .. Len(d.audit)
    /\ \A i \in Ledger!Transitions(d.audit) : e.audit[i] = d.audit[i]
    /\ Ledger!Transitions(e.audit) =
         Ledger!Transitions(d.audit) \cup
           (IF body.event \in Lifecycle THEN {Len(d.audit) + 1} ELSE {})
    /\ Ledger!Announced(e.audit) =
         Ledger!Announced(d.audit) \cup
           (IF body.event = "EVIDENCE_REGISTERED" THEN {body.ref} ELSE {})

LEMMA StepLemma ==
    ASSUME NEW d \in Database, Ledger!Linked(d.audit),
           NEW c \in Database, c.audit = d.audit,
           NEW body \in Body, body.sequence = NextSequence(d),
           NEW e, e = AppendAudit(c, body)
    PROVE  Steps(d, c, body, e)
<1> DEFINE n == Len(d.audit)
<1>1. d.audit \in Seq(Entry) /\ n \in Nat
  BY DEF Database
<1>2. body.sequence = NextSequence(c)
  BY DEF NextSequence
<1>3. /\ e \in Database /\ Ledger!Linked(e.audit)
      /\ e.status = c.status /\ e.version = c.version
      /\ e.evidence = c.evidence /\ e.idem = c.idem
      /\ Len(e.audit) = n + 1
      /\ \A i \in 1 .. n : e.audit[i] = d.audit[i]
      /\ e.audit[n + 1].body = body
  BY <1>2, AppendAuditLemma
<1>4. e.audit \in Seq(Entry)
  BY <1>3 DEF Database
<1>5. /\ Ledger!Transitions(d.audit) \subseteq 1 .. n
      /\ Ledger!Transitions(e.audit) =
           Ledger!Transitions(d.audit) \cup
             (IF body.event \in Lifecycle THEN {n + 1} ELSE {})
      /\ Ledger!Announced(e.audit) =
           Ledger!Announced(d.audit) \cup
             (IF body.event = "EVIDENCE_REGISTERED" THEN {body.ref} ELSE {})
  <2> DEFINE a == d.audit
             b == e.audit
  <2>1. a \in Seq(Entry) /\ b \in Seq(Entry) /\ Len(b) = Len(a) + 1
        /\ \A i \in 1 .. Len(a) : b[i] = a[i]
    BY <1>1, <1>3, <1>4
  <2>2. b[Len(a) + 1].body = body
    BY <1>3
  <2> HIDE DEF a, b
  <2>3. /\ Ledger!Transitions(a) \subseteq 1 .. Len(a)
        /\ Ledger!Transitions(b) =
             Ledger!Transitions(a) \cup
               (IF body.event \in Lifecycle THEN {Len(a) + 1} ELSE {})
        /\ Ledger!Announced(b) =
             Ledger!Announced(a) \cup
               (IF body.event = "EVIDENCE_REGISTERED" THEN {body.ref} ELSE {})
    BY <2>1, <2>2, GrowLemma
  <2>4. QED
    BY <2>3 DEF a, b
<1>6. \A i \in Ledger!Transitions(d.audit) : e.audit[i] = d.audit[i]
  BY <1>3, <1>5
<1>7. QED
  BY <1>1, <1>3, <1>5, <1>6 DEF Steps

LEMMA NextSequenceType ==
    ASSUME NEW d \in Database, Ledger!Linked(d.audit)
    PROVE  NextSequence(d) \in Nat
BY DEF Database, NextSequence, Ledger!Linked

\* A refusal adds one row that no replay looks at.
LEMMA RefusalLemma ==
    ASSUME NEW d, DbInv(d), SessionExists(d), NEW cmd \in Command,
           NEW event \in {"COMMAND_REJECTED", "IDEMPOTENCY_CONFLICT"}
    PROVE  LET e == Refusal(d, cmd, event)
           IN  DbInv(e) /\ e.status = d.status /\ e.version = d.version
                        /\ e.idem = d.idem
<1> DEFINE e == Refusal(d, cmd, event)
           body == [sequence |-> NextSequence(d), event |-> event,
                    command |-> cmd.name]
<1>1. d \in Database /\ Ledger!Linked(d.audit)
  BY DEF DbInv
<1>2. body \in Body
  <2>1. cmd.name \in CommandName
    BY DEF Command, Create, TransitionCommand, EvidenceCommand, CommandName
  <2>2. QED
    BY <2>1, <1>1, NextSequenceType DEF Body
<1>3. body.event \notin Lifecycle /\ body.event # "EVIDENCE_REGISTERED"
  BY DEF Lifecycle
<1>4. body.sequence = NextSequence(d)
  OBVIOUS
<1>5. e = AppendAudit(d, body)
  BY DEF Refusal
<1> HIDE DEF e, body
<1>6. /\ e \in Database /\ Ledger!Linked(e.audit)
      /\ e.status = d.status /\ e.version = d.version
      /\ e.evidence = d.evidence /\ e.idem = d.idem
      /\ \A i \in Ledger!Transitions(d.audit) : e.audit[i] = d.audit[i]
      /\ Ledger!Transitions(e.audit) = Ledger!Transitions(d.audit)
      /\ Ledger!Announced(e.audit) = Ledger!Announced(d.audit)
  <2>1. Steps(d, d, body, e)
    BY <1>1, <1>2, <1>4, <1>5, StepLemma
  <2>2. QED
    BY <2>1, <1>3 DEF Steps
<1>7. Ledger!Replays(e)
  BY <1>6 DEF DbInv, Ledger!Replays, Ledger!SessionExists
<1>8. Ledger!LegalPath(e.audit)
  BY <1>6 DEF DbInv, Ledger!LegalPath
<1>9. QED
  BY <1>6, <1>7, <1>8 DEF DbInv, SessionExists, e

\* INSERT INTO or UPDATE review_sessions.
LEMMA SetSessionLemma ==
    ASSUME NEW d \in Database, NEW s \in State \cup {Absent}, NEW v \in Nat
    PROVE  LET c == SetSession(d, s, v)
           IN  /\ c \in Database /\ c.audit = d.audit /\ c.status = s
               /\ c.version = v /\ c.evidence = d.evidence /\ c.idem = d.idem
BY DEF Database, SetSession

\* Creating the session writes the first lifecycle row.
LEMMA CreateLemma ==
    ASSUME NEW d, DbInv(d), NEW cmd \in Create, Accepts(d, cmd)
    PROVE  LET e == Apply(d, cmd)
           IN  DbInv(e) /\ SessionExists(e) /\ e.version = d.version
                        /\ e.idem = d.idem
<1> DEFINE e == Apply(d, cmd)
           c == SetSession(d, Initial, 0)
           body == [sequence |-> NextSequence(d), event |-> "SESSION_CREATED",
                    target |-> Initial, version |-> 0]
           n == Len(d.audit)
<1>1. d \in Database /\ Ledger!Linked(d.audit)
  BY DEF DbInv
<1>2. ~SessionExists(d) /\ d.version = 0 /\ Ledger!Transitions(d.audit) = {}
  BY DEF Accepts, Create, DbInv, Ledger!Replays, Ledger!SessionExists, SessionExists
<1>3. Initial \in State /\ Initial # Absent
  BY RegisterAssumption, AbsentAssumption
<1>4. c \in Database /\ c.audit = d.audit /\ c.status = Initial /\ c.version = 0
      /\ c.evidence = d.evidence /\ c.idem = d.idem
  BY <1>1, <1>3, SetSessionLemma
<1>5. body \in Body /\ body.sequence = NextSequence(d)
  BY <1>1, <1>3, NextSequenceType DEF Body
<1>6. body.event \in Lifecycle /\ body.event # "EVIDENCE_REGISTERED"
      /\ body.target = Initial /\ body.version = 0
  BY DEF Lifecycle
<1>7. e = AppendAudit(c, body)
  BY DEF Apply, Create
<1>n. n = Len(d.audit)
  OBVIOUS
<1> HIDE DEF e, c, body, n
<1>8. /\ e \in Database /\ Ledger!Linked(e.audit) /\ n \in Nat
      /\ e.status = Initial /\ e.version = 0
      /\ e.evidence = d.evidence /\ e.idem = d.idem
      /\ e.audit[n + 1].body = body
      /\ Ledger!Transitions(e.audit) = {n + 1}
      /\ Ledger!Announced(e.audit) = Ledger!Announced(d.audit)
  <2>1. Steps(d, c, body, e)
    BY <1>1, <1>4, <1>5, <1>7, StepLemma
  <2>2. QED
    BY <2>1, <1>2, <1>4, <1>6, <1>n DEF Steps
<1>9. Ledger!Replays(e)
  BY <1>3, <1>6, <1>8 DEF DbInv, Ledger!Replays, Ledger!SessionExists
<1>10. Ledger!LegalPath(e.audit)
  BY <1>8 DEF Ledger!LegalPath
<1>11. QED
  BY <1>2, <1>3, <1>8, <1>9, <1>10 DEF DbInv, SessionExists, e

\* A transition appends the next step of the path.
LEMMA TransitionLemma ==
    ASSUME NEW d, DbInv(d), NEW cmd \in TransitionCommand, Accepts(d, cmd)
    PROVE  LET e == Apply(d, cmd)
           IN  DbInv(e) /\ SessionExists(e) /\ e.version = d.version + 1
                        /\ e.idem = d.idem
<1> DEFINE e == Apply(d, cmd)
           c == SetSession(d, cmd.target, cmd.expected + 1)
           body == [sequence |-> NextSequence(d), event |-> "STATE_TRANSITIONED",
                    source |-> d.status, target |-> cmd.target,
                    version |-> cmd.expected + 1]
           n == Len(d.audit)
<1>1. d \in Database /\ Ledger!Linked(d.audit)
  BY DEF DbInv
<1>2. /\ SessionExists(d) /\ CanTransition(d.status, cmd.target)
      /\ d.version = cmd.expected
  BY DEF Accepts, TransitionCommand
<1>3. d.status \in State /\ cmd.target \in State /\ cmd.target # Absent
      /\ d.version \in Nat
  BY <1>1, <1>2, AbsentAssumption DEF CanTransition, Database
<1>4. c \in Database /\ c.audit = d.audit /\ c.status = cmd.target
      /\ c.version = d.version + 1 /\ c.evidence = d.evidence /\ c.idem = d.idem
  <2> DEFINE v == cmd.expected + 1
             s == cmd.target
  <2>1. v = d.version + 1 /\ v \in Nat /\ s \in State \cup {Absent}
    BY <1>2, <1>3
  <2>2. c = SetSession(d, s, v)
    OBVIOUS
  <2> HIDE DEF v, s, c
  <2>3. /\ c \in Database /\ c.audit = d.audit /\ c.status = s
        /\ c.version = v /\ c.evidence = d.evidence /\ c.idem = d.idem
    BY <1>1, <2>1, <2>2, SetSessionLemma
  <2>4. QED
    BY <2>1, <2>3 DEF s
<1>5. body \in Body /\ body.sequence = NextSequence(d)
  BY <1>1, <1>2, <1>3, NextSequenceType DEF Body
<1>6. body.event = "STATE_TRANSITIONED" /\ body.event \in Lifecycle
      /\ body.source = d.status /\ body.target = cmd.target
      /\ body.version = d.version + 1
  BY <1>2 DEF Lifecycle
<1>7. e = AppendAudit(c, body)
  BY DEF Apply, TransitionCommand
<1>n. n = Len(d.audit)
  OBVIOUS
<1> HIDE DEF e, c, body, n
<1>8. /\ e \in Database /\ Ledger!Linked(e.audit) /\ n \in Nat
      /\ e.status = cmd.target /\ e.version = d.version + 1
      /\ e.evidence = d.evidence /\ e.idem = d.idem
      /\ e.audit[n + 1].body = body
      /\ Ledger!Transitions(d.audit) \subseteq 1 .. n
      /\ \A i \in Ledger!Transitions(d.audit) : e.audit[i] = d.audit[i]
      /\ Ledger!Transitions(e.audit) = Ledger!Transitions(d.audit) \cup {n + 1}
      /\ Ledger!Announced(e.audit) = Ledger!Announced(d.audit)
  <2>1. Steps(d, c, body, e)
    BY <1>1, <1>4, <1>5, <1>7, StepLemma
  <2>2. QED
    BY <2>1, <1>4, <1>6, <1>n DEF Steps
<1>9. Ledger!Replays(e)
  <2>1. \A i \in Ledger!Transitions(d.audit) : ~(n + 1 <= i)
    BY <1>8
  <2>2. QED
    BY <2>1, <1>3, <1>6, <1>8 DEF DbInv, Ledger!Replays, Ledger!SessionExists
<1>10. Ledger!LegalPath(e.audit)
  <2> DEFINE T == Ledger!Transitions(d.audit)
  <2> SUFFICES ASSUME NEW i \in T \cup {n + 1}, NEW j \in T \cup {n + 1}, i < j,
                      \A m \in T \cup {n + 1} : m <= i \/ m >= j
               PROVE  /\ e.audit[j].body.event = "STATE_TRANSITIONED"
                      /\ CanTransition(e.audit[j].body.source, e.audit[j].body.target)
                      /\ e.audit[j].body.source = e.audit[i].body.target
                      /\ e.audit[j].body.version = e.audit[i].body.version + 1
    BY <1>8 DEF Ledger!LegalPath, Ledger!CanTransition, CanTransition
  <2>1. CASE j \in T
    <3>1. i \in T
      BY <2>1, <1>8
    <3>2. QED
      BY <2>1, <3>1, <1>8
         DEF DbInv, Ledger!LegalPath, Ledger!CanTransition, CanTransition
  <2>2. CASE j = n + 1
    <3>1. i \in T /\ \A m \in T : m <= i
      BY <2>2, <1>8
    <3>2. d.audit[i].body.target = d.status /\ d.audit[i].body.version = d.version
      BY <3>1 DEF DbInv, Ledger!Replays
    <3>3. QED
      BY <2>2, <3>1, <3>2, <1>2, <1>6, <1>8
  <2>3. QED
    BY <2>1, <2>2
<1>11. QED
  BY <1>3, <1>8, <1>9, <1>10 DEF DbInv, SessionExists, e

\* register_evidence appends one row that announces what it inserted.
LEMMA EvidenceLemma ==
    ASSUME NEW d, DbInv(d), NEW cmd \in EvidenceCommand, Accepts(d, cmd)
    PROVE  LET e == Apply(d, cmd)
           IN  DbInv(e) /\ SessionExists(e) /\ e.version = d.version
                        /\ e.idem = d.idem
<1> DEFINE e == Apply(d, cmd)
           c == [d EXCEPT !.evidence = @ \cup {cmd.ref}]
           body == [sequence |-> NextSequence(d), event |-> "EVIDENCE_REGISTERED",
                    ref |-> cmd.ref]
<1>1. d \in Database /\ Ledger!Linked(d.audit)
  BY DEF DbInv
<1>2. SessionExists(d) /\ cmd.ref \in Ref
  BY DEF Accepts, EvidenceCommand
<1>3. c \in Database /\ c.audit = d.audit /\ c.status = d.status
      /\ c.version = d.version /\ c.evidence = d.evidence \cup {cmd.ref}
      /\ c.idem = d.idem
  BY <1>1, <1>2 DEF Database
<1>4. body \in Body /\ body.sequence = NextSequence(d)
  BY <1>1, <1>2, NextSequenceType DEF Body
<1>5. body.event = "EVIDENCE_REGISTERED" /\ body.event \notin Lifecycle
      /\ body.ref = cmd.ref
  BY DEF Lifecycle
<1>6. e = AppendAudit(c, body)
  BY DEF Apply, EvidenceCommand
<1> HIDE DEF e, c, body
<1>7. /\ e \in Database /\ Ledger!Linked(e.audit)
      /\ e.status = d.status /\ e.version = d.version
      /\ e.evidence = d.evidence \cup {cmd.ref} /\ e.idem = d.idem
      /\ \A i \in Ledger!Transitions(d.audit) : e.audit[i] = d.audit[i]
      /\ Ledger!Transitions(e.audit) = Ledger!Transitions(d.audit)
      /\ Ledger!Announced(e.audit) = Ledger!Announced(d.audit) \cup {cmd.ref}
  <2>1. Steps(d, c, body, e)
    BY <1>1, <1>3, <1>4, <1>6, StepLemma
  <2>2. QED
    BY <2>1, <1>3, <1>5 DEF Steps
<1>8. Ledger!Replays(e)
  BY <1>7 DEF DbInv, Ledger!Replays, Ledger!SessionExists
<1>9. Ledger!LegalPath(e.audit)
  BY <1>7 DEF DbInv, Ledger!LegalPath
<1>10. QED
  BY <1>2, <1>7, <1>8, <1>9 DEF DbInv, SessionExists, e

\* Whatever operation is accepted.
LEMMA ApplyLemma ==
    ASSUME NEW d, DbInv(d), NEW cmd \in Command, Accepts(d, cmd)
    PROVE  LET e == Apply(d, cmd)
           IN  DbInv(e) /\ SessionExists(e) /\ e.version >= d.version
                        /\ e.idem = d.idem
<1>1. d.version \in Nat
  BY DEF DbInv, Database
<1>2. CASE cmd \in Create
  BY <1>1, <1>2, CreateLemma
<1>3. CASE cmd \in TransitionCommand
  BY <1>1, <1>3, TransitionLemma
<1>4. CASE cmd \in EvidenceCommand
  BY <1>1, <1>4, EvidenceLemma
<1>5. QED
  BY <1>2, <1>3, <1>4 DEF Command

\* The idempotency row keeps the rest of the database.
LEMMA RememberLemma ==
    ASSUME NEW d, DbInv(d), SessionExists(d), NEW cmd \in Command, NEW k \in Key
    PROVE  /\ DbInv(Remember(d, cmd, k)) /\ ResultOf(d, cmd) \in Result
           /\ Remember(d, cmd, k).version = d.version
           /\ SessionExists(Remember(d, cmd, k))
<1> DEFINE e == Remember(d, cmd, k)
<1>1. d \in Database
  BY DEF DbInv
<1>2. ResultOf(d, cmd) \in Result
  <2>1. CASE cmd \in EvidenceCommand
    BY <2>1 DEF ResultOf, EvidenceCommand, Result
  <2>2. CASE cmd \in Create \cup TransitionCommand
    <3>1. cmd.name # "register_evidence"
      BY <2>2 DEF Create, TransitionCommand
    <3>2. d.status \in State /\ d.version \in Nat
      BY <1>1 DEF SessionExists, Database
    <3>3. QED
      BY <3>1, <3>2 DEF ResultOf, Result
  <2>3. QED
    BY <2>1, <2>2 DEF Command
<1>3. [key |-> k, payload |-> cmd, result |-> ResultOf(d, cmd)] \in IdemRow
  BY <1>2 DEF IdemRow
<1>4. e \in Database /\ e.audit = d.audit /\ e.status = d.status
      /\ e.version = d.version /\ e.evidence = d.evidence
  BY <1>1, <1>3 DEF Remember, Database
<1> HIDE DEF e
<1>5. DbInv(e) /\ SessionExists(e)
  BY <1>4 DEF DbInv, SessionExists, Ledger!Replays, Ledger!SessionExists
<1>6. QED
  BY <1>2, <1>4, <1>5 DEF e

\* A command refused, by its operation or by its key, keeps the invariant.
LEMMA RejectLemma ==
    ASSUME NEW d, DbInv(d), NEW cmd \in Command
    PROVE  DbInv(Reject(d, cmd)) /\ Reject(d, cmd).version = d.version
<1>1. CASE SessionExists(d)
  BY <1>1, RefusalLemma DEF Reject
<1>2. CASE ~SessionExists(d)
  BY <1>2 DEF Reject
<1>3. QED
  BY <1>1, <1>2

\* _run_idempotent keeps the record consistent, whatever it is called with,
\* and never lowers the version.
LEMMA PerformLemma ==
    ASSUME NEW d, DbInv(d), NEW cmd \in Command, NEW k \in Key
    PROVE  DbInv(Perform(d, cmd, k)) /\ Perform(d, cmd, k).version >= d.version
<1>1. d.version \in Nat /\ d.version >= d.version
  BY DEF DbInv, Database
<1>2. CASE Existing(d, cmd, k) # {}
  <2>1. SessionExists(d)
    BY <1>2 DEF Existing, DbInv
  <2>2. /\ DbInv(Conflict(d, cmd))
        /\ Conflict(d, cmd).version = d.version
    BY <2>1, RefusalLemma DEF Conflict
  <2>3. QED
    BY <1>1, <1>2, <2>2 DEF Perform
<1>3. CASE Existing(d, cmd, k) = {} /\ ~Accepts(d, cmd)
  BY <1>1, <1>3, RejectLemma DEF Perform
<1>4. CASE Existing(d, cmd, k) = {} /\ Accepts(d, cmd)
  BY <1>1, <1>4, ApplyLemma, RememberLemma DEF Perform
<1>5. QED
  BY <1>2, <1>3, <1>4
---------------------------------------------------------------------------
\* What the store adds to the ledger.
Inv == TypeOK /\ DbInv(db) /\ Serial

LEMMA ReadableLemma ==
    ASSUME NEW d \in Database
    PROVE  /\ Readable(d) \subseteq Command
           /\ \A e \in Database : e.version >= d.version =>
                Readable(d) \subseteq Readable(e)
<1>1. d.version \in Nat
  BY DEF Database
<1>2. Readable(d) \subseteq Command
  BY <1>1 DEF Readable, Command, TransitionCommand
<1>3. ASSUME NEW e \in Database, e.version >= d.version
      PROVE  Readable(d) \subseteq Readable(e)
  <2>1. e.version \in Nat /\ 0 .. d.version \subseteq 0 .. e.version
    BY <1>1, <1>3 DEF Database
  <2>2. QED
    BY <2>1 DEF Readable
<1>4. QED
  BY <1>2, <1>3

LEMMA EmptyLemma == DbInv(EmptyDatabase)
<1>1. EmptyDatabase \in Database
  BY DEF EmptyDatabase, Database
<1>2. EmptyDatabase.audit = <<>> /\ EmptyDatabase.status = Absent
      /\ EmptyDatabase.version = 0 /\ EmptyDatabase.evidence = {}
      /\ EmptyDatabase.idem = {} /\ DOMAIN EmptyDatabase.audit = {}
  BY DEF EmptyDatabase
<1>3. Ledger!Transitions(EmptyDatabase.audit) = {}
      /\ Ledger!Announced(EmptyDatabase.audit) = {}
  BY <1>2 DEF Ledger!Transitions, Ledger!Announced
<1>4. QED
  BY <1>1, <1>2, <1>3
     DEF DbInv, Ledger!Linked, Ledger!Replays, Ledger!LegalPath,
         SessionExists, Ledger!SessionExists

LEMMA InitInv == Init => Inv
<1> SUFFICES ASSUME Init
             PROVE  Inv
  OBVIOUS
<1>1. EmptyDatabase \in Database
  BY EmptyLemma DEF DbInv
<1>2. TypeOK
  BY <1>1 DEF Init, TypeOK
<1>3. DbInv(db)
  BY EmptyLemma DEF Init
<1>4. Serial
  BY ProcessAssumption
     DEF Init, Serial, HoldsLock, CallReadable, CopyIsCurrent, InTransaction
<1>5. QED
  BY <1>2, <1>3, <1>4 DEF Inv

\* A step that leaves the committed database alone keeps Serial if it does
\* for the process that took it and does not take the lock from another.
\* Serial of the other processes depends on db, writer and their own state.
Untouched(q) ==
    /\ pc'[q] = pc[q] /\ call'[q] = call[q] /\ tx'[q] = tx[q]

LEMMA OthersLemma ==
    ASSUME Inv, NEW p \in Process, NEW q \in Process, Untouched(q),
           db' = db \/ writer = p, db' \in Database, db'.version >= db.version,
           q # p, writer' = writer \/ (writer' # q /\ writer # q)
    PROVE  HoldsLock(q)' /\ CallReadable(q)' /\ CopyIsCurrent(q)'
<1>1. HoldsLock(q) /\ CallReadable(q) /\ CopyIsCurrent(q)
  BY DEF Inv, Serial
<1>2. HoldsLock(q)'
  BY <1>1 DEF HoldsLock, Untouched
<1>3. CallReadable(q)'
  <2>1. Readable(db) \subseteq Readable(db')
    BY ReadableLemma DEF Inv, TypeOK
  <2>2. QED
    BY <1>1, <2>1 DEF CallReadable, Untouched
<1>4. CopyIsCurrent(q)'
  <2>1. CASE db' = db
    BY <1>1, <2>1 DEF CopyIsCurrent, Untouched
  <2>2. CASE writer = p
    <3>1. pc'[q] \notin InTransaction
      BY <1>1, <2>2 DEF HoldsLock, Untouched
    <3>2. QED
      BY <3>1 DEF CopyIsCurrent, InTransaction
  <2>3. QED
    BY <2>1, <2>2
<1>5. QED
  BY <1>2, <1>3, <1>4

\* A process that is in a transaction knows the committed database.
LEMMA OpenLemma ==
    ASSUME Inv, NEW p \in Process, pc[p] \in InTransaction
    PROVE  /\ writer = p
           /\ call[p].cmd \in Command /\ call[p].key \in Key
           /\ pc[p] = "open" => tx[p] = db
<1>1. pc[p] # "idle"
  BY DEF InTransaction
<1>2. QED
  BY <1>1, ReadableLemma
     DEF Inv, TypeOK, Serial, HoldsLock, CallReadable, CopyIsCurrent

\* One lemma for the steps that leave the database alone.
LEMMA LocalLemma ==
    ASSUME Inv, TypeOK', UNCHANGED db, NEW p \in Process,
           \A q \in Process \ {p} : Untouched(q),
           writer' = writer \/ (writer \in {p, None} /\ writer' \in {p, None}),
           HoldsLock(p)', CallReadable(p)', CopyIsCurrent(p)'
    PROVE  Inv'
<1>1. db \in Database /\ db.version >= db.version
  BY DEF Inv, TypeOK, Database
<1>2. ASSUME NEW q \in Process \ {p}
      PROVE  HoldsLock(q)' /\ CallReadable(q)' /\ CopyIsCurrent(q)'
  <2>1. q # None /\ q # p /\ q \in Process
    BY ProcessAssumption
  <2>2. writer' = writer \/ (writer' # q /\ writer # q)
    BY <2>1
  <2>3. Untouched(q) /\ db' = db /\ db' \in Database /\ db'.version >= db.version
    BY <1>1
  <2>4. QED
    BY <2>1, <2>2, <2>3, OthersLemma
<1>3. Serial'
  BY <1>2 DEF Serial
<1>4. DbInv(db')
  BY DEF Inv
<1>5. QED
  BY <1>3, <1>4 DEF Inv

LEMMA CallInv ==
    ASSUME Inv, NEW p \in Process, NEW cmd \in Readable(db), NEW k \in Key,
           Call(p, cmd, k)
    PROVE  Inv'
<1>1. cmd \in Command
  BY ReadableLemma DEF Inv, TypeOK
<1>2. TypeOK'
  BY <1>1 DEF Inv, TypeOK, Call
<1>3. \A q \in Process \ {p} : Untouched(q)
  BY DEF Inv, TypeOK, Call, Untouched
<1>4. pc'[p] = "called" /\ call'[p] = [cmd |-> cmd, key |-> k]
  BY DEF Inv, TypeOK, Call
<1>5. HoldsLock(p)' /\ CallReadable(p)' /\ CopyIsCurrent(p)'
  BY <1>4
     DEF Inv, Serial, HoldsLock, CallReadable, CopyIsCurrent, InTransaction, Call
<1>6. QED
  BY <1>2, <1>3, <1>5, LocalLemma DEF Call

LEMMA BeginInv ==
    ASSUME Inv, NEW p \in Process, Begin(p)
    PROVE  Inv'
<1>1. TypeOK'
  BY DEF Inv, TypeOK, Begin, InTransaction
<1>2. \A q \in Process \ {p} : Untouched(q)
  BY DEF Inv, TypeOK, Begin, Untouched
<1>3. pc'[p] = "open" /\ tx'[p] = db
  BY DEF Inv, TypeOK, Begin
<1>4. HoldsLock(p)' /\ CallReadable(p)' /\ CopyIsCurrent(p)'
  BY <1>3
     DEF Inv, Serial, HoldsLock, CallReadable, CopyIsCurrent, InTransaction, Begin
<1>5. QED
  BY <1>1, <1>2, <1>4, LocalLemma DEF Begin

LEMMA ReplayInv ==
    ASSUME Inv, NEW p \in Process, Replay(p)
    PROVE  Inv'
<1>1. pc[p] = "open" /\ tx[p] = db /\ writer = p /\ p # None
  BY OpenLemma, ProcessAssumption DEF Replay, InTransaction
<1>2. PICK r \in Found(p) : answer' = [answer EXCEPT ![p] = r.result]
  BY DEF Replay
<1>3. r.result \in Result
  BY <1>1, <1>2 DEF Found, Existing, Inv, TypeOK, Database, IdemRow
<1>4. TypeOK'
  BY <1>2, <1>3, EmptyLemma DEF Inv, TypeOK, Replay, DbInv
<1>5. \A q \in Process \ {p} : Untouched(q)
  BY DEF Inv, TypeOK, Replay, Untouched
<1>6. pc'[p] = "answering" /\ writer' = None
  BY DEF Inv, TypeOK, Replay
<1>7. HoldsLock(p)' /\ CallReadable(p)' /\ CopyIsCurrent(p)'
  BY <1>1, <1>6
     DEF Inv, Serial, HoldsLock, CallReadable, CopyIsCurrent, InTransaction, Replay
<1>8. QED
  BY <1>1, <1>4, <1>5, <1>6, <1>7, LocalLemma DEF Replay

LEMMA ConflictInv ==
    ASSUME Inv, NEW p \in Process, DetectConflict(p)
    PROVE  Inv'
<1>1. /\ pc[p] = "open" /\ tx[p] = db /\ writer = p
      /\ call[p].cmd \in Command /\ call[p].key \in Key
  BY OpenLemma DEF DetectConflict, InTransaction
<1>2. tx'[p] = Conflict(db, call[p].cmd) /\ pc'[p] = "refused"
  BY <1>1 DEF Inv, TypeOK, DetectConflict
<1>3. tx'[p] = Perform(db, call[p].cmd, call[p].key)
  BY <1>1, <1>2 DEF DetectConflict, Found, Perform
<1>4. tx'[p] \in Database
  BY <1>1, <1>3, PerformLemma DEF Inv, DbInv
<1>5. TypeOK'
  <2>1. tx' = [tx EXCEPT ![p] = tx'[p]]
    BY DEF Inv, TypeOK, DetectConflict
  <2>2. QED
    BY <2>1, <1>4 DEF Inv, TypeOK, DetectConflict, InTransaction
<1>6. \A q \in Process \ {p} : Untouched(q)
  BY DEF Inv, TypeOK, DetectConflict, Untouched
<1>7. HoldsLock(p)' /\ CallReadable(p)' /\ CopyIsCurrent(p)'
  BY <1>1, <1>2, <1>3
     DEF Inv, Serial, HoldsLock, CallReadable, CopyIsCurrent, InTransaction,
         DetectConflict
<1>8. QED
  BY <1>5, <1>6, <1>7, LocalLemma DEF DetectConflict

LEMMA RefuseInv ==
    ASSUME Inv, NEW p \in Process, Refuse(p)
    PROVE  Inv'
<1>1. /\ pc[p] = "open" /\ tx[p] = db /\ writer = p
      /\ call[p].cmd \in Command /\ call[p].key \in Key
  BY OpenLemma DEF Refuse, InTransaction
<1>2. tx'[p] = Reject(db, call[p].cmd) /\ pc'[p] = "refused"
  BY <1>1 DEF Inv, TypeOK, Refuse
<1>3. tx'[p] = Perform(db, call[p].cmd, call[p].key)
  BY <1>1, <1>2 DEF Refuse, Found, Perform
<1>4. tx'[p] \in Database
  BY <1>1, <1>3, PerformLemma DEF Inv, DbInv
<1>5. TypeOK'
  <2>1. tx' = [tx EXCEPT ![p] = tx'[p]]
    BY DEF Inv, TypeOK, Refuse
  <2>2. QED
    BY <2>1, <1>4 DEF Inv, TypeOK, Refuse, InTransaction
<1>6. \A q \in Process \ {p} : Untouched(q)
  BY DEF Inv, TypeOK, Refuse, Untouched
<1>7. HoldsLock(p)' /\ CallReadable(p)' /\ CopyIsCurrent(p)'
  BY <1>1, <1>2, <1>3
     DEF Inv, Serial, HoldsLock, CallReadable, CopyIsCurrent, InTransaction, Refuse
<1>8. QED
  BY <1>5, <1>6, <1>7, LocalLemma DEF Refuse

LEMMA ExecuteInv ==
    ASSUME Inv, NEW p \in Process, Execute(p)
    PROVE  Inv'
<1>1. /\ pc[p] = "open" /\ tx[p] = db /\ writer = p
      /\ call[p].cmd \in Command /\ call[p].key \in Key
  BY OpenLemma DEF Execute, InTransaction
<1>2. /\ tx'[p] = Apply(db, call[p].cmd) /\ pc'[p] = "executed"
      /\ Accepts(db, call[p].cmd)
      /\ Existing(db, call[p].cmd, call[p].key) = {}
  BY <1>1 DEF Inv, TypeOK, Execute, Found
<1>3. tx'[p] \in Database
  BY <1>1, <1>2, ApplyLemma DEF Inv, DbInv
<1>4. TypeOK'
  <2>1. tx' = [tx EXCEPT ![p] = tx'[p]]
    BY DEF Inv, TypeOK, Execute
  <2>2. QED
    BY <2>1, <1>3 DEF Inv, TypeOK, Execute, InTransaction
<1>5. \A q \in Process \ {p} : Untouched(q)
  BY DEF Inv, TypeOK, Execute, Untouched
<1>6. HoldsLock(p)' /\ CallReadable(p)' /\ CopyIsCurrent(p)'
  BY <1>1, <1>2
     DEF Inv, Serial, HoldsLock, CallReadable, CopyIsCurrent, InTransaction, Execute
<1>7. QED
  BY <1>4, <1>5, <1>6, LocalLemma DEF Execute

LEMMA RecordInv ==
    ASSUME Inv, NEW p \in Process, Record(p)
    PROVE  Inv'
<1>1. /\ pc[p] = "executed" /\ writer = p
      /\ call[p].cmd \in Command /\ call[p].key \in Key
  BY OpenLemma DEF Record, InTransaction
<1>2. /\ tx[p] = Apply(db, call[p].cmd)
      /\ Accepts(db, call[p].cmd)
      /\ Existing(db, call[p].cmd, call[p].key) = {}
  BY <1>1 DEF Inv, Serial, CopyIsCurrent
<1>3. tx'[p] = Remember(tx[p], call[p].cmd, call[p].key) /\ pc'[p] = "recorded"
  BY DEF Inv, TypeOK, Record
<1>4. tx'[p] = Perform(db, call[p].cmd, call[p].key)
  BY <1>2, <1>3 DEF Perform
<1>5. tx'[p] \in Database
  BY <1>1, <1>4, PerformLemma DEF Inv, DbInv
<1>6. ResultOf(tx[p], call[p].cmd) \in Result
  BY <1>1, <1>2, ApplyLemma, RememberLemma DEF Inv
<1>7. TypeOK'
  <2>1. tx' = [tx EXCEPT ![p] = tx'[p]]
    BY DEF Inv, TypeOK, Record
  <2>2. QED
    BY <2>1, <1>5, <1>6 DEF Inv, TypeOK, Record, InTransaction
<1>8. \A q \in Process \ {p} : Untouched(q)
  BY DEF Inv, TypeOK, Record, Untouched
<1>9. HoldsLock(p)' /\ CallReadable(p)' /\ CopyIsCurrent(p)'
  BY <1>1, <1>3, <1>4
     DEF Inv, Serial, HoldsLock, CallReadable, CopyIsCurrent, InTransaction, Record
<1>10. QED
  BY <1>7, <1>8, <1>9, LocalLemma DEF Record

\* The only step that changes the database: it becomes what the ledger makes
\* of it in one step.
LEMMA CommitStep ==
    ASSUME Inv, NEW p \in Process, Commit(p)
    PROVE  /\ writer = p /\ call[p].cmd \in Readable(db) /\ call[p].key \in Key
           /\ db' = Perform(db, call[p].cmd, call[p].key)
           /\ DbInv(db') /\ db'.version >= db.version
<1>1. pc[p] \in {"recorded", "refused"}
  BY DEF Commit
<1>2. /\ writer = p
      /\ call[p].cmd \in Command /\ call[p].key \in Key
  BY <1>1, OpenLemma DEF InTransaction
<1>3. call[p].cmd \in Readable(db)
  BY <1>1 DEF Inv, Serial, CallReadable
<1>4. db' = Perform(db, call[p].cmd, call[p].key)
  BY <1>1 DEF Commit, Inv, Serial, CopyIsCurrent
<1>5. QED
  BY <1>2, <1>3, <1>4, PerformLemma DEF Inv

LEMMA CommitInv ==
    ASSUME Inv, NEW p \in Process, Commit(p)
    PROVE  Inv'
<1>1. /\ writer = p /\ DbInv(db') /\ db'.version >= db.version
  BY CommitStep
<1>2. TypeOK'
  BY <1>1, EmptyLemma DEF Inv, TypeOK, Commit, DbInv
<1>3. ASSUME NEW q \in Process \ {p}
      PROVE  HoldsLock(q)' /\ CallReadable(q)' /\ CopyIsCurrent(q)'
  <2>1. Untouched(q)
    BY DEF Inv, TypeOK, Commit, Untouched
  <2>2. writer' # q /\ writer # q /\ q # p
    BY <1>1, ProcessAssumption DEF Commit
  <2>3. db' \in Database
    BY <1>1 DEF DbInv
  <2>4. QED
    BY <1>1, <2>1, <2>2, <2>3, OthersLemma
<1>4. pc'[p] = "answering" /\ writer' = None /\ p # None
  BY ProcessAssumption DEF Inv, TypeOK, Commit
<1>5. CallReadable(p)'
  <2>1. Readable(db) \subseteq Readable(db')
    BY <1>1, ReadableLemma DEF Inv, TypeOK, DbInv
  <2>2. QED
    BY <2>1 DEF Inv, Serial, CallReadable, Commit
<1>6. HoldsLock(p)' /\ CopyIsCurrent(p)'
  BY <1>4 DEF HoldsLock, CopyIsCurrent, InTransaction
<1>7. QED
  BY <1>1, <1>2, <1>3, <1>5, <1>6 DEF Inv, Serial

LEMMA ReturnInv ==
    ASSUME Inv, NEW p \in Process, Return(p)
    PROVE  Inv'
<1>1. TypeOK'
  BY DEF Inv, TypeOK, Return
<1>2. \A q \in Process \ {p} : Untouched(q)
  BY DEF Inv, TypeOK, Return, Untouched
<1>3. pc'[p] = "idle" /\ writer' = writer /\ writer # p
  BY DEF Inv, TypeOK, Return, Serial, HoldsLock, InTransaction
<1>4. HoldsLock(p)' /\ CallReadable(p)' /\ CopyIsCurrent(p)'
  BY <1>3 DEF HoldsLock, CallReadable, CopyIsCurrent, InTransaction
<1>5. QED
  BY <1>1, <1>2, <1>4, LocalLemma DEF Return

LEMMA CrashInv ==
    ASSUME Inv, NEW p \in Process, Crash(p)
    PROVE  Inv'
<1>1. TypeOK'
  BY EmptyLemma DEF Inv, TypeOK, Crash, DbInv
<1>2. \A q \in Process \ {p} : Untouched(q)
  BY DEF Inv, TypeOK, Crash, Untouched
<1>3. pc'[p] = "idle" /\ writer' # p
  BY ProcessAssumption DEF Inv, TypeOK, Crash
<1>4. HoldsLock(p)' /\ CallReadable(p)' /\ CopyIsCurrent(p)'
  BY <1>3 DEF HoldsLock, CallReadable, CopyIsCurrent, InTransaction
<1>5. QED
  BY <1>1, <1>2, <1>4, LocalLemma DEF Crash

LEMMA NextInv == Inv /\ [Next]_vars => Inv'
<1> SUFFICES ASSUME Inv, [Next]_vars
             PROVE  Inv'
  OBVIOUS
<1>1. ASSUME NEW p \in Process, Run(p)
      PROVE  Inv'
  BY <1>1, ReplayInv, ConflictInv, RefuseInv, ExecuteInv, RecordInv, CommitInv DEF Run
<1>2. CASE Next
  BY <1>1, <1>2, CallInv, BeginInv, ReturnInv, CrashInv DEF Next
<1>3. CASE UNCHANGED vars
  BY <1>3
     DEF Inv, vars, TypeOK, Serial, HoldsLock, CallReadable, CopyIsCurrent
<1>4. QED
  BY <1>2, <1>3

\* The inductive invariant holds of every reachable state.
THEOREM Invariance == Spec => []Inv
BY InitInv, NextInv, PTL DEF Spec
---------------------------------------------------------------------------
\* Every variable has its type, in every reachable state.
THEOREM TypeCorrect == Spec => []TypeOK
<1>1. Inv => TypeOK
  BY DEF Inv
<1>2. QED
  BY <1>1, Invariance, PTL

\* While a process holds the write lock, its copy is the committed database
\* or what its command makes of it.
THEOREM Serialised == Spec => []Serial
<1>1. Inv => Serial
  BY DEF Inv
<1>2. QED
  BY <1>1, Invariance, PTL

\* verify_audit accepts every log the repository commits.
THEOREM AuditAlwaysLinked == Spec => []AuditLinked
<1>1. Inv => AuditLinked
  BY DEF Inv, DbInv, AuditLinked
<1>2. QED
  BY <1>1, Invariance, PTL

\* The audit log determines the session row, its version and its evidence,
\* and its lifecycle rows are a path of the register.
THEOREM AuditAlwaysReplays == Spec => []AuditReplays
<1>1. Inv => AuditReplays
  BY DEF Inv, DbInv, AuditReplays
<1>2. QED
  BY <1>1, Invariance, PTL
---------------------------------------------------------------------------
\* The ledger's copies of the definitions are the store's.
LEMMA LedgerPerform ==
    ASSUME NEW d, NEW cmd, NEW k
    PROVE  Ledger!Perform(d, cmd, k) = Perform(d, cmd, k)
BY DEF Ledger!Perform, Perform, Ledger!Existing, Existing,
       Ledger!Accepts, Accepts, Ledger!Apply, Apply, Ledger!Reject, Reject,
       Ledger!Conflict, Conflict, Ledger!Refusal, Refusal,
       Ledger!Remember, Remember, Ledger!ResultOf, ResultOf,
       Ledger!AppendAudit, AppendAudit, Ledger!SetSession, SetSession,
       Ledger!NextSequence, NextSequence, Ledger!PreviousHash, PreviousHash,
       Ledger!EntryHash, EntryHash, Ledger!SessionExists, SessionExists,
       Ledger!CanTransition, CanTransition

LEMMA LedgerReadable == ASSUME NEW d PROVE Ledger!Readable(d) = Readable(d)
BY DEF Ledger!Readable, Readable, Ledger!Create, Create,
       Ledger!EvidenceCommand, EvidenceCommand

\* Every step of the store is a step of the ledger or leaves the database
\* alone.
LEMMA StepSimulation == Inv /\ [Next]_vars => [Ledger!Next]_db
<1> SUFFICES ASSUME Inv, [Next]_vars
             PROVE  [Ledger!Next]_db
  OBVIOUS
<1>1. ASSUME NEW p \in Process, Commit(p)
      PROVE  Ledger!Next
  <2>1. /\ call[p].cmd \in Ledger!Readable(db) /\ call[p].key \in Key
        /\ db' = Ledger!Perform(db, call[p].cmd, call[p].key)
    BY <1>1, CommitStep, LedgerPerform, LedgerReadable
  <2>2. QED
    BY <2>1 DEF Ledger!Next, Ledger!Do
<1>2. ASSUME NEW p \in Process, Run(p), ~Commit(p)
      PROVE  db' = db
  BY <1>2 DEF Run, Replay, DetectConflict, Refuse, Execute, Record
<1>3. CASE Next
  BY <1>1, <1>2, <1>3 DEF Next, Call, Begin, Return, Crash
<1>4. CASE UNCHANGED vars
  BY <1>4 DEF vars
<1>5. QED
  BY <1>3, <1>4

\* The repository, whatever its processes interleave and wherever they
\* crash, implements the record on which every command is one step.
THEOREM StoreImplementsLedger == Spec => ImplementsLedger
<1>1. Init => Ledger!Init
  BY DEF Init, Ledger!Init, EmptyDatabase, Ledger!EmptyDatabase
<1>2. QED
  BY <1>1, Invariance, StepSimulation, PTL DEF Spec, ImplementsLedger, Ledger!Spec
---------------------------------------------------------------------------
\* The rows of the log that stand for an applied command.
AppliedEvents == {"SESSION_CREATED", "STATE_TRANSITIONED", "EVIDENCE_REGISTERED"}

AppliedRows(a) == {i \in DOMAIN a : a[i].body.event \in AppliedEvents}

\* e's log is d's and one more row, which announces one of the events.
Logs(d, e, events) ==
    /\ d.audit \in Seq(Entry) /\ e.audit \in Seq(Entry)
    /\ Len(e.audit) = Len(d.audit) + 1
    /\ \A i \in 1 .. Len(d.audit) : e.audit[i] = d.audit[i]
    /\ e.audit[Len(d.audit) + 1].body.event \in events

\* The rows of the session other than its log and its keys.
SameRows(d, e) ==
    e.status = d.status /\ e.version = d.version /\ e.evidence = d.evidence

LEMMA LogsLemma ==
    ASSUME NEW d \in Database, Ledger!Linked(d.audit),
           NEW c \in Database, c.audit = d.audit,
           NEW body \in Body, body.sequence = NextSequence(d)
    PROVE  LET e == AppendAudit(c, body)
           IN  /\ e \in Database /\ Logs(d, e, {body.event})
               /\ e.idem = c.idem /\ SameRows(c, e)
<1> DEFINE e == AppendAudit(c, body)
<1>1. body.sequence = NextSequence(c) /\ Ledger!Linked(c.audit)
  BY DEF NextSequence
<1>2. /\ e \in Database /\ e.idem = c.idem /\ SameRows(c, e)
      /\ Len(e.audit) = Len(c.audit) + 1
      /\ \A i \in 1 .. Len(c.audit) : e.audit[i] = c.audit[i]
      /\ e.audit[Len(c.audit) + 1].body = body
  BY <1>1, AppendAuditLemma DEF SameRows
<1>3. d.audit \in Seq(Entry) /\ e.audit \in Seq(Entry)
  BY <1>2 DEF Database
<1>4. QED
  BY <1>2, <1>3 DEF Logs

\* A refusal adds its row and nothing else.
LEMMA RefusalLogs ==
    ASSUME NEW d, DbInv(d), NEW cmd \in Command,
           NEW event \in {"COMMAND_REJECTED", "IDEMPOTENCY_CONFLICT"}
    PROVE  LET e == Refusal(d, cmd, event)
           IN  /\ e \in Database
               /\ Logs(d, e, {"COMMAND_REJECTED", "IDEMPOTENCY_CONFLICT"})
               /\ e.idem = d.idem /\ SameRows(d, e)
<1> DEFINE body == [sequence |-> NextSequence(d), event |-> event,
                    command |-> cmd.name]
<1>1. d \in Database /\ Ledger!Linked(d.audit)
  BY DEF DbInv
<1>2. cmd.name \in CommandName
  BY DEF Command, Create, TransitionCommand, EvidenceCommand, CommandName
<1>3. body \in Body /\ body.sequence = NextSequence(d) /\ body.event = event
  BY <1>1, <1>2, NextSequenceType DEF Body
<1>4. Refusal(d, cmd, event) = AppendAudit(d, body)
  BY DEF Refusal
<1> HIDE DEF body
<1>5. QED
  BY <1>1, <1>3, <1>4, LogsLemma DEF Logs

\* An accepted operation adds its row and writes no key.
LEMMA ApplyLogs ==
    ASSUME NEW d, DbInv(d), NEW cmd \in Command, Accepts(d, cmd)
    PROVE  LET e == Apply(d, cmd)
           IN  Logs(d, e, AppliedEvents) /\ e.idem = d.idem
<1> DEFINE e == Apply(d, cmd)
<1> SUFFICES Logs(d, e, AppliedEvents) /\ e.idem = d.idem
  OBVIOUS
<1>1. d \in Database /\ Ledger!Linked(d.audit) /\ NextSequence(d) \in Nat
  BY NextSequenceType DEF DbInv
<1>2. ASSUME NEW c \in Database, c.audit = d.audit, c.idem = d.idem,
             NEW body \in Body, body.sequence = NextSequence(d),
             body.event \in AppliedEvents, e = AppendAudit(c, body)
      PROVE  Logs(d, e, AppliedEvents) /\ e.idem = d.idem
  <2> HIDE DEF e
  <2>1. QED
    BY <1>1, <1>2, LogsLemma DEF Logs
<1>3. CASE cmd \in Create
  <2> DEFINE c == SetSession(d, Initial, 0)
             body == [sequence |-> NextSequence(d), event |-> "SESSION_CREATED",
                      target |-> Initial, version |-> 0]
  <2>1. Initial \in State
    BY RegisterAssumption
  <2>2. c \in Database /\ c.audit = d.audit /\ c.idem = d.idem
    BY <1>1, <2>1, SetSessionLemma
  <2>3. body \in Body /\ body.sequence = NextSequence(d)
        /\ body.event \in AppliedEvents
    BY <1>1, <2>1 DEF Body, AppliedEvents
  <2>4. e = AppendAudit(c, body)
    BY <1>3 DEF Apply, Create
  <2> HIDE DEF e, c, body
  <2>5. QED
    BY <1>2, <2>2, <2>3, <2>4
<1>4. CASE cmd \in TransitionCommand
  <2> DEFINE c == SetSession(d, cmd.target, cmd.expected + 1)
             body == [sequence |-> NextSequence(d), event |-> "STATE_TRANSITIONED",
                      source |-> d.status, target |-> cmd.target,
                      version |-> cmd.expected + 1]
  <2>1. /\ cmd.target \in State /\ cmd.expected \in Nat
        /\ CanTransition(d.status, cmd.target)
    BY <1>4 DEF Accepts, TransitionCommand
  <2>2. d.status \in State /\ cmd.target \in State /\ cmd.expected + 1 \in Nat
    BY <2>1 DEF CanTransition
  <2>3. c \in Database /\ c.audit = d.audit /\ c.idem = d.idem
    <3> DEFINE v == cmd.expected + 1
               s == cmd.target
    <3>1. v \in Nat /\ s \in State \cup {Absent} /\ c = SetSession(d, s, v)
      BY <2>2
    <3> HIDE DEF v, s, c
    <3>2. QED
      BY <1>1, <3>1, SetSessionLemma
  <2>4. body \in Body /\ body.sequence = NextSequence(d)
        /\ body.event \in AppliedEvents
    BY <1>1, <2>2 DEF Body, AppliedEvents
  <2>5. e = AppendAudit(c, body)
    BY <1>4 DEF Apply, TransitionCommand
  <2> HIDE DEF e, c, body
  <2>6. QED
    BY <1>2, <2>3, <2>4, <2>5
<1>5. CASE cmd \in EvidenceCommand
  <2> DEFINE c == [d EXCEPT !.evidence = @ \cup {cmd.ref}]
             body == [sequence |-> NextSequence(d), event |-> "EVIDENCE_REGISTERED",
                      ref |-> cmd.ref]
  <2>1. cmd.ref \in Ref
    BY <1>5 DEF EvidenceCommand
  <2>2. c \in Database /\ c.audit = d.audit /\ c.idem = d.idem
    BY <1>1, <2>1 DEF Database
  <2>3. body \in Body /\ body.sequence = NextSequence(d)
        /\ body.event \in AppliedEvents
    BY <1>1, <2>1 DEF Body, AppliedEvents
  <2>4. e = AppendAudit(c, body)
    BY <1>5 DEF Apply, EvidenceCommand
  <2> HIDE DEF e, c, body
  <2>5. QED
    BY <1>2, <2>2, <2>3, <2>4
<1>6. QED
  BY <1>3, <1>4, <1>5 DEF Command

\* What one call does to the record: nothing, a refusal's row alone, or an
\* applied command's row together with its one key.
Refuses(d, cmd, k) == Existing(d, cmd, k) # {} \/ ~Accepts(d, cmd)

LEMMA PerformRefuses ==
    ASSUME NEW d, DbInv(d), NEW cmd \in Command, NEW k \in Key, Refuses(d, cmd, k)
    PROVE  LET e == Perform(d, cmd, k)
           IN  \/ e = d
               \/ /\ e \in Database /\ e.idem = d.idem /\ SameRows(d, e)
                  /\ Logs(d, e, {"COMMAND_REJECTED", "IDEMPOTENCY_CONFLICT"})
<1>1. CASE Existing(d, cmd, k) # {}
  BY <1>1, RefusalLogs DEF Perform, Conflict
<1>2. CASE Existing(d, cmd, k) = {} /\ ~Accepts(d, cmd)
  BY <1>2, RefusalLogs DEF Perform, Reject
<1>3. QED
  BY <1>1, <1>2 DEF Refuses

LEMMA PerformApplies ==
    ASSUME NEW d, DbInv(d), NEW cmd \in Command, NEW k \in Key, ~Refuses(d, cmd, k)
    PROVE  LET e == Perform(d, cmd, k)
               row == [key |-> k, payload |-> cmd,
                       result |-> ResultOf(Apply(d, cmd), cmd)]
           IN  /\ Logs(d, e, AppliedEvents)
               /\ e.idem = d.idem \cup {row}
<1>1. Accepts(d, cmd) /\ Perform(d, cmd, k) = Remember(Apply(d, cmd), cmd, k)
  BY DEF Refuses, Perform
<1> DEFINE c == Apply(d, cmd)
<1>2. Logs(d, c, AppliedEvents) /\ c.idem = d.idem /\ c \in Database
  BY <1>1, ApplyLogs, ApplyLemma DEF DbInv
<1> HIDE DEF c
<1>3. /\ Remember(c, cmd, k).audit = c.audit
      /\ Remember(c, cmd, k).idem =
           d.idem \cup {[key |-> k, payload |-> cmd, result |-> ResultOf(c, cmd)]}
  BY <1>2 DEF Remember, Database
<1>4. QED
  BY <1>1, <1>2, <1>3 DEF Logs, c
\* Every append keeps the rows before it and every key.
LEMMA PerformGrows ==
    ASSUME NEW d, DbInv(d), NEW cmd \in Command, NEW k \in Key
    PROVE  LET e == Perform(d, cmd, k)
           IN  IsExtension(e.audit, d.audit) /\ d.idem \subseteq e.idem
<1> DEFINE e == Perform(d, cmd, k)
<1>1. d.audit \in Seq(Entry) /\ Len(d.audit) \in Nat
  BY DEF DbInv, Database
<1>2. ASSUME NEW f, f.audit \in Seq(Entry), Len(f.audit) >= Len(d.audit),
             \A i \in 1 .. Len(d.audit) : f.audit[i] = d.audit[i]
      PROVE  IsExtension(f.audit, d.audit)
  <2> DEFINE a == d.audit
             b == f.audit
             p == SubSeq(b, 1, Len(a))
  <2>1. Len(a) \in Nat /\ Len(b) \in Nat /\ Len(b) >= Len(a)
        /\ \A i \in 1 .. Len(a) : b[i] = a[i] /\ b[i] \in Entry
    BY <1>1, <1>2
  <2>2. p \in Seq(Entry) /\ Len(p) = Len(a)
        /\ \A i \in 1 .. Len(a) : p[i] = a[i]
    BY <2>1, SubSeqProperties
  <2>3. p = a
    BY <1>1, <2>2, SeqEqual
  <2>4. QED
    BY <2>1, <2>3 DEF IsExtension
<1>3. CASE Refuses(d, cmd, k)
  <2>1. /\ e.audit \in Seq(Entry) /\ Len(e.audit) >= Len(d.audit)
        /\ \A i \in 1 .. Len(d.audit) : e.audit[i] = d.audit[i]
        /\ e.idem = d.idem
    BY <1>1, <1>3, PerformRefuses DEF Logs
  <2> HIDE DEF e
  <2>2. IsExtension(e.audit, d.audit) /\ d.idem \subseteq e.idem
    BY <1>2, <2>1
  <2>3. QED
    BY <2>2 DEF e
<1>4. CASE ~Refuses(d, cmd, k)
  <2>1. /\ e.audit \in Seq(Entry) /\ Len(e.audit) >= Len(d.audit)
        /\ \A i \in 1 .. Len(d.audit) : e.audit[i] = d.audit[i]
        /\ d.idem \subseteq e.idem
    BY <1>1, <1>4, PerformApplies DEF Logs
  <2> HIDE DEF e
  <2>2. IsExtension(e.audit, d.audit) /\ d.idem \subseteq e.idem
    BY <1>2, <2>1
  <2>3. QED
    BY <2>2 DEF e
<1>5. QED
  BY <1>3, <1>4

\* Only COMMIT changes the committed database.
LEMMA OnlyCommitWrites ==
    ASSUME Inv, [Next]_vars, db' # db
    PROVE  \E p \in Process : Commit(p)
<1>1. CASE Next
  BY <1>1
     DEF Next, Run, Call, Begin, Replay, DetectConflict, Refuse, Execute, Record,
         Return, Crash
<1>2. CASE UNCHANGED vars
  BY <1>2 DEF vars
<1>3. QED
  BY <1>1, <1>2

\* The promise of the audit_log triggers, and of the absence of any DELETE
\* on idempotency_keys: no interleaving or crash loses a committed row.
THEOREM LogNeverShrinks == Spec => AppendOnly
<1>1. ASSUME Inv, [Next]_vars
      PROVE  [IsExtension(db'.audit, db.audit) /\ db.idem \subseteq db'.idem]_db
  <2> SUFFICES ASSUME db' # db
               PROVE  IsExtension(db'.audit, db.audit) /\ db.idem \subseteq db'.idem
    OBVIOUS
  <2>1. PICK p \in Process : Commit(p)
    BY <1>1, OnlyCommitWrites
  <2>2. /\ db' = Perform(db, call[p].cmd, call[p].key)
        /\ call[p].cmd \in Command /\ call[p].key \in Key
    BY <1>1, <2>1, CommitStep, ReadableLemma DEF Inv, TypeOK
  <2>3. QED
    BY <1>1, <2>2, PerformGrows DEF Inv
<1>2. QED
  BY <1>1, Invariance, PTL DEF Spec, AppendOnly
---------------------------------------------------------------------------
\* What a process has been told, and what its copy holds before it is told:
\* a copy on the refusal path was made by a refused command, and the result
\* that will be returned is in the key's row from the INSERT on.
Told(p, rows) ==
    [key |-> call[p].key, payload |-> call[p].cmd, result |-> answer[p]] \in rows

AnswerKept(p) ==
    /\ pc[p] = "refused" => Refuses(db, call[p].cmd, call[p].key)
    /\ answer[p] # NoAnswer => pc[p] \in {"recorded", "answering"}
    /\ pc[p] = "recorded" => Told(p, tx[p].idem)
    /\ (pc[p] = "answering" /\ answer[p] # NoAnswer) => Told(p, db.idem)

Answered == \A p \in Process : AnswerKept(p)

\* The other processes' answers outlive a step that is not theirs.
LEMMA OthersAnswer ==
    ASSUME Inv, Answered, NEW p \in Process, NEW q \in Process, q # p,
           Untouched(q), answer'[q] = answer[q],
           db' = db \/ Commit(p)
    PROVE  AnswerKept(q)'
<1>1. AnswerKept(q)
  BY DEF Answered
<1>2. db.idem \subseteq db'.idem
  <2>1. CASE Commit(p)
    BY <2>1, CommitStep, ReadableLemma, PerformGrows DEF Inv, TypeOK
  <2>2. QED
    BY <2>1
<1>3. pc[q] = "refused" => db' = db
  <2>1. pc[q] = "refused" => writer = q
    BY DEF Inv, Serial, HoldsLock, InTransaction
  <2>2. Commit(p) => writer = p
    BY CommitStep
  <2>3. QED
    BY <2>1, <2>2
<1>4. QED
  BY <1>1, <1>2, <1>3 DEF AnswerKept, Told, Untouched

\* One lemma for the steps that end with no answer in hand.
LEMMA NoAnswerLemma ==
    ASSUME Inv, Answered, NEW p \in Process, db' = db,
           \A q \in Process \ {p} : Untouched(q) /\ answer'[q] = answer[q],
           answer'[p] = NoAnswer, pc'[p] \notin {"refused", "recorded"}
    PROVE  Answered'
<1>1. \A q \in Process \ {p} : AnswerKept(q)'
  BY OthersAnswer
<1>2. AnswerKept(p)'
  BY DEF AnswerKept
<1>3. QED
  BY <1>1, <1>2 DEF Answered

LEMMA AnsweredNext ==
    ASSUME Inv, Answered, [Next]_vars
    PROVE  Answered'
<1>1. ASSUME NEW p \in Process,
             (\E cmd \in Readable(db), k \in Key : Call(p, cmd, k)) \/ Begin(p)
      PROVE  Answered'
  <2>1. pc[p] \in {"idle", "called"} /\ answer[p] = NoAnswer
    BY <1>1 DEF Call, Begin, Answered, AnswerKept
  <2>2. pc'[p] \in {"called", "open"} /\ answer' = answer /\ db' = db
    BY <1>1 DEF Call, Begin, Inv, TypeOK
  <2>3. \A q \in Process \ {p} : Untouched(q)
    BY <1>1 DEF Call, Begin, Untouched, Inv, TypeOK
  <2>4. QED
    BY <2>1, <2>2, <2>3, NoAnswerLemma
<1>2. ASSUME NEW p \in Process, Return(p) \/ Crash(p)
      PROVE  Answered'
  <2>1. pc'[p] = "idle" /\ answer'[p] = NoAnswer /\ db' = db
    BY <1>2 DEF Return, Crash, Inv, TypeOK
  <2>2. \A q \in Process \ {p} : Untouched(q) /\ answer'[q] = answer[q]
    BY <1>2 DEF Return, Crash, Untouched, Inv, TypeOK
  <2>3. QED
    BY <2>1, <2>2, NoAnswerLemma
<1>3. ASSUME NEW p \in Process, Replay(p)
      PROVE  Answered'
  <2>1. pc[p] = "open" /\ tx[p] = db
    BY <1>3, OpenLemma DEF Replay, InTransaction
  <2>2. PICK r \in Found(p) : /\ r.payload = call[p].cmd
                              /\ answer' = [answer EXCEPT ![p] = r.result]
    BY <1>3 DEF Replay
  <2>3. r \in db.idem /\ r.key = call[p].key /\ r \in IdemRow
    BY <2>1, <2>2 DEF Found, Existing, Inv, TypeOK, Database
  <2>4. r = [key |-> call[p].key, payload |-> call[p].cmd, result |-> r.result]
    BY <2>2, <2>3 DEF IdemRow
  <2>5. answer'[p] = r.result /\ pc'[p] = "answering" /\ call'[p] = call[p] /\ db' = db
    BY <1>3, <2>2 DEF Replay, Inv, TypeOK
  <2>6. AnswerKept(p)'
    BY <2>3, <2>4, <2>5 DEF AnswerKept, Told
  <2>7. \A q \in Process \ {p} : Untouched(q) /\ answer'[q] = answer[q]
    BY <1>3, <2>2 DEF Replay, Untouched, Inv, TypeOK
  <2>8. QED
    BY <2>5, <2>6, <2>7, OthersAnswer DEF Answered
<1>4. ASSUME NEW p \in Process, DetectConflict(p) \/ Refuse(p) \/ Execute(p)
      PROVE  Answered'
  <2>1. pc[p] = "open" /\ tx[p] = db /\ answer[p] = NoAnswer
    BY <1>4, OpenLemma
       DEF DetectConflict, Refuse, Execute, InTransaction, Answered, AnswerKept
  <2>2. /\ answer' = answer /\ db' = db /\ call' = call
        /\ pc'[p] \in {"refused", "executed"}
        /\ pc'[p] = "refused" => Refuses(db, call[p].cmd, call[p].key)
    BY <1>4, <2>1
       DEF DetectConflict, Refuse, Execute, Refuses, Found, Inv, TypeOK
  <2>3. AnswerKept(p)'
    BY <2>1, <2>2 DEF AnswerKept
  <2>4. \A q \in Process \ {p} : Untouched(q)
    BY <1>4 DEF DetectConflict, Refuse, Execute, Untouched, Inv, TypeOK
  <2>5. QED
    BY <2>2, <2>3, <2>4, OthersAnswer DEF Answered
<1>5. ASSUME NEW p \in Process, Record(p)
      PROVE  Answered'
  <2> DEFINE row == [key |-> call[p].key, payload |-> call[p].cmd,
                     result |-> ResultOf(tx[p], call[p].cmd)]
  <2>1. /\ tx'[p] = Remember(tx[p], call[p].cmd, call[p].key)
        /\ answer'[p] = ResultOf(tx[p], call[p].cmd) /\ pc'[p] = "recorded"
        /\ call' = call /\ db' = db
    BY <1>5 DEF Record, Inv, TypeOK
  <2>2. row \in tx'[p].idem
    BY <2>1 DEF Remember, Inv, TypeOK, Database
  <2>3. AnswerKept(p)'
    BY <2>1, <2>2 DEF AnswerKept, Told
  <2>4. \A q \in Process \ {p} : Untouched(q) /\ answer'[q] = answer[q]
    BY <1>5 DEF Record, Untouched, Inv, TypeOK
  <2>5. QED
    BY <2>1, <2>3, <2>4, OthersAnswer DEF Answered
<1>6. ASSUME NEW p \in Process, Commit(p)
      PROVE  Answered'
  <2>1. /\ pc[p] \in {"recorded", "refused"} /\ pc'[p] = "answering"
        /\ db' = tx[p] /\ answer' = answer /\ call' = call
    BY <1>6 DEF Commit, Inv, TypeOK
  <2>2. pc[p] = "refused" => answer[p] = NoAnswer
    BY DEF Answered, AnswerKept
  <2>3. AnswerKept(p)'
    BY <2>1, <2>2 DEF AnswerKept, Told, Answered
  <2>4. \A q \in Process \ {p} : Untouched(q)
    BY <1>6 DEF Commit, Untouched, Inv, TypeOK
  <2>5. QED
    BY <1>6, <2>1, <2>3, <2>4, OthersAnswer DEF Answered
<1>7. CASE UNCHANGED vars
  BY <1>7 DEF vars, Answered, AnswerKept, Told
<1>8. QED
  BY <1>1, <1>2, <1>3, <1>4, <1>5, <1>6, <1>7 DEF Next, Run

LEMMA AnsweredInit == Init => Answered
BY DEF Init, Answered, AnswerKept

LEMMA AnsweredAlways == Spec => []Answered
BY AnsweredInit, AnsweredNext, Invariance, PTL DEF Spec

\* A caller that is told a result can rely on it, however the others
\* interleave and whoever dies after it was told.
THEOREM AnswersAreDurable == Spec => []AnswerIsDurable
<1>1. Answered => AnswerIsDurable
  BY DEF Answered, AnswerKept, Told, AnswerIsDurable
<1>2. QED
  BY <1>1, AnsweredAlways, PTL

\* A refused call leaves every row but its own audit row.
THEOREM RefusalsOnlyAudit == Spec => RefusalOnlyAudits
<1>1. ASSUME Inv, Answered, [Next]_vars, NEW p \in Process,
             pc[p] = "refused", pc'[p] = "answering"
      PROVE  /\ [db' EXCEPT !.audit = <<>>] = [db EXCEPT !.audit = <<>>]
             /\ IsExtension(db'.audit, db.audit)
  <2>1. Commit(p)
    BY <1>1
       DEF Next, Run, Call, Begin, Replay, DetectConflict, Refuse, Execute, Record,
           Commit, Return, Crash, vars, Inv, TypeOK
  <2>2. /\ db' = Perform(db, call[p].cmd, call[p].key)
        /\ call[p].cmd \in Command /\ call[p].key \in Key
    BY <1>1, <2>1, CommitStep, ReadableLemma DEF Inv, TypeOK
  <2>3. Refuses(db, call[p].cmd, call[p].key)
    BY <1>1 DEF Answered, AnswerKept
  <2>4. db' = db \/ (db' \in Database /\ db'.idem = db.idem /\ SameRows(db, db'))
    BY <1>1, <2>2, <2>3, PerformRefuses DEF Inv
  <2>5. [db' EXCEPT !.audit = <<>>] = [db EXCEPT !.audit = <<>>]
    BY <1>1, <2>4 DEF SameRows, Inv, TypeOK, Database
  <2>6. QED
    BY <1>1, <2>2, <2>5, PerformGrows DEF Inv
<1>2. ASSUME Inv, Answered, [Next]_vars
      PROVE  [\A p \in Process : (pc[p] = "refused" /\ pc'[p] = "answering") =>
                /\ [db' EXCEPT !.audit = <<>>] = [db EXCEPT !.audit = <<>>]
                /\ IsExtension(db'.audit, db.audit)]_vars
  BY <1>1, <1>2
<1>3. QED
  BY <1>2, Invariance, AnsweredAlways, PTL DEF Spec, RefusalOnlyAudits
---------------------------------------------------------------------------
\* How the applied rows of a log grow with it.
LEMMA AppliedRowsGrow ==
    ASSUME NEW d, NEW e, NEW events, Logs(d, e, events)
    PROVE  /\ IsFiniteSet(AppliedRows(d.audit)) /\ IsFiniteSet(AppliedRows(e.audit))
           /\ events \cap AppliedEvents = {} =>
                AppliedRows(e.audit) = AppliedRows(d.audit)
           /\ events \subseteq AppliedEvents =>
                /\ AppliedRows(e.audit) = AppliedRows(d.audit) \cup {Len(d.audit) + 1}
                /\ Len(d.audit) + 1 \notin AppliedRows(d.audit)
<1> DEFINE a == d.audit
           b == e.audit
           n == Len(a)
<1>1. /\ n \in Nat /\ DOMAIN a = 1 .. n /\ DOMAIN b = 1 .. n + 1
      /\ \A i \in 1 .. n : b[i] = a[i]
      /\ b[n + 1].body.event \in events
  BY DEF Logs
<1>2. n + 1 \notin 1 .. n /\ 1 .. n + 1 = (1 .. n) \cup {n + 1}
  BY <1>1
<1>3. /\ AppliedRows(a) \subseteq 1 .. n
      /\ AppliedRows(b) = AppliedRows(a) \cup
           (IF b[n + 1].body.event \in AppliedEvents THEN {n + 1} ELSE {})
  <2>1. /\ \A i \in DOMAIN b : i \in DOMAIN a \/ i = n + 1
        /\ DOMAIN a \subseteq DOMAIN b /\ n + 1 \in DOMAIN b
        /\ \A i \in DOMAIN a : b[i] = a[i]
    BY <1>1
  <2> DEFINE m == n + 1
  <2> HIDE DEF a, b, m
  <2>2. /\ AppliedRows(a) \subseteq DOMAIN a
        /\ AppliedRows(b) = AppliedRows(a) \cup
             (IF b[m].body.event \in AppliedEvents THEN {m} ELSE {})
    BY <2>1, Zenon DEF AppliedRows, m
  <2>3. QED
    BY <2>2, <1>1 DEF m
<1>4. IsFiniteSet(1 .. n) /\ IsFiniteSet(1 .. n + 1)
  BY <1>1, FS_Interval
<1>5. AppliedRows(b) \subseteq 1 .. n + 1
  BY <1>1, <1>3
<1>6. IsFiniteSet(AppliedRows(a)) /\ IsFiniteSet(AppliedRows(b))
  BY <1>3, <1>4, <1>5, FS_Subset
<1>7. QED
  BY <1>1, <1>2, <1>3, <1>6

\* As many keys as applied rows, and none twice.
Balanced(d) ==
    /\ Ledger!OneRowPerKey(d)
    /\ IsFiniteSet(d.idem)
    /\ Cardinality(d.idem) = Cardinality(AppliedRows(d.audit))

\* One call of _run_idempotent keeps the balance.
LEMMA PerformBalanced ==
    ASSUME NEW d, DbInv(d), Balanced(d), NEW cmd \in Command, NEW k \in Key
    PROVE  Balanced(Perform(d, cmd, k))
<1> DEFINE e == Perform(d, cmd, k)
<1>1. CASE Refuses(d, cmd, k)
  <2>1. e = d \/ (/\ e.idem = d.idem
                  /\ Logs(d, e, {"COMMAND_REJECTED", "IDEMPOTENCY_CONFLICT"}))
    BY <1>1, PerformRefuses
  <2> HIDE DEF e
  <2>2. e.idem = d.idem /\ AppliedRows(e.audit) = AppliedRows(d.audit)
    <3>1. {"COMMAND_REJECTED", "IDEMPOTENCY_CONFLICT"} \cap AppliedEvents = {}
      BY DEF AppliedEvents
    <3>2. QED
      BY <2>1, <3>1, AppliedRowsGrow
  <2>3. Balanced(e)
    BY <2>2 DEF Balanced, Ledger!OneRowPerKey
  <2>4. QED
    BY <2>3 DEF e
<1>2. CASE ~Refuses(d, cmd, k)
  <2> DEFINE row == [key |-> k, payload |-> cmd,
                     result |-> ResultOf(Apply(d, cmd), cmd)]
  <2>1. Logs(d, e, AppliedEvents) /\ e.idem = d.idem \cup {row}
    BY <1>2, PerformApplies
  <2>2. row.key = k /\ row.payload = cmd
    OBVIOUS
  <2> HIDE DEF e, row
  <2>3. \A r \in d.idem : ~(r.key = k /\ r.payload.name = cmd.name)
    BY <1>2 DEF Refuses, Existing
  <2>4. row \notin d.idem
    BY <2>2, <2>3
  <2>5. Ledger!OneRowPerKey(e)
    BY <2>1, <2>2, <2>3 DEF Balanced, Ledger!OneRowPerKey
  <2>6. IsFiniteSet(e.idem) /\ Cardinality(e.idem) = Cardinality(d.idem) + 1
    BY <2>1, <2>4, FS_AddElement DEF Balanced
  <2>7. Cardinality(AppliedRows(e.audit)) = Cardinality(AppliedRows(d.audit)) + 1
    <3> DEFINE rows == AppliedRows(d.audit)
               m == Len(d.audit) + 1
    <3>1. IsFiniteSet(rows) /\ m \notin rows
          /\ AppliedRows(e.audit) = rows \cup {m}
      BY <2>1, AppliedRowsGrow
    <3> HIDE DEF rows, m
    <3>2. Cardinality(rows \cup {m}) = Cardinality(rows) + 1
      BY <3>1, FS_AddElement
    <3>3. QED
      BY <3>1, <3>2 DEF rows
  <2>8. Balanced(e)
    BY <2>5, <2>6, <2>7 DEF Balanced
  <2>9. QED
    BY <2>8 DEF e
<1>3. QED
  BY <1>1, <1>2

\* Every applied command is remembered under exactly one key and nothing
\* else is: no retry, crash or interleaving applies a command twice.
THEOREM NothingAppliedTwice == Spec => []AppliedOnce
<1>1. Init => Balanced(db)
  <2>1. ASSUME Init
        PROVE  db.idem = {} /\ AppliedRows(db.audit) = {}
    BY <2>1 DEF Init, EmptyDatabase, AppliedRows
  <2>2. QED
    BY <2>1, FS_EmptySet DEF Balanced, Ledger!OneRowPerKey
<1>2. ASSUME Inv, [Next]_vars, Balanced(db)
      PROVE  Balanced(db')
  <2>1. CASE db' = db
    BY <1>2, <2>1
  <2>2. CASE db' # db
    <3>1. PICK p \in Process : Commit(p)
      BY <1>2, <2>2, OnlyCommitWrites
    <3>2. /\ db' = Perform(db, call[p].cmd, call[p].key)
          /\ call[p].cmd \in Command /\ call[p].key \in Key
      BY <1>2, <3>1, CommitStep, ReadableLemma DEF Inv, TypeOK
    <3>3. QED
      BY <1>2, <3>2, PerformBalanced DEF Inv
  <2>3. QED
    BY <2>1, <2>2
<1>3. Balanced(db) => AppliedOnce
  BY DEF Balanced, AppliedOnce, AppliedRows, AppliedEvents
<1>4. Balanced(db)' <=> Balanced(db')
  BY DEF Balanced, Ledger!OneRowPerKey
<1>5. QED
  BY <1>1, <1>2, <1>3, <1>4, Invariance, PTL DEF Spec
===========================================================================
