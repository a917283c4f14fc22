----------------------------- MODULE RbeStore -----------------------------
(***************************************************************************)
(* The repository as its callers run it: several processes, each with a    *)
(* SQLite connection of its own, executing _run_idempotent step by step.   *)
(*                                                                         *)
(* BEGIN IMMEDIATE takes the database's single write lock before anything  *)
(* is read; the transaction then works on a private copy, and COMMIT       *)
(* publishes it.  A process may die between any two of its steps, in which *)
(* case SQLite discards the copy and the lock.  A caller may have built    *)
(* its payload from a session row that is no longer current.               *)
(***************************************************************************)
EXTENDS RbeCommand, FiniteSets

CONSTANTS Process,    \* the callers
          None,       \* no process
          MaxAudit    \* bound: no command begins on a log this long

ASSUME ProcessAssumption == None \notin Process
ASSUME MaxAuditAssumption == MaxAudit \in Nat

VARIABLES db,         \* the committed database
          writer,     \* the process that holds the write lock, or None
          pc,         \* where each process is in _run_idempotent
          call,       \* the command and key it is executing
          tx,         \* the copy its transaction works on
          answer      \* the result it is about to return, or NoAnswer

vars == <<db, writer, pc, call, tx, answer>>

\* The abstract ledger of which the committed database is an implementation.
Ledger == INSTANCE RbeLedger WITH db <- db

NoCall   == [idle |-> TRUE]
NoAnswer == [error |-> TRUE]
---------------------------------------------------------------------------
Init ==
    /\ db = EmptyDatabase
    /\ writer = None
    /\ pc = [p \in Process |-> "idle"]
    /\ call = [p \in Process |-> NoCall]
    /\ tx = [p \in Process |-> EmptyDatabase]
    /\ answer = [p \in Process |-> NoAnswer]

\* A caller builds a payload.  The expected version of a transition is the
\* one it read, now or earlier.
Call(p, cmd, k) ==
    /\ pc[p] = "idle"
    /\ pc' = [pc EXCEPT ![p] = "called"]
    /\ call' = [call EXCEPT ![p] = [cmd |-> cmd, key |-> k]]
    /\ UNCHANGED <<db, writer, tx, answer>>

\* A mutant: BEGIN DEFERRED, which waits for no lock.
BeginDeferred(p) ==
    /\ pc[p] = "called"
    /\ Len(db.audit) < MaxAudit
    /\ writer' = p
    /\ tx' = [tx EXCEPT ![p] = db]
    /\ pc' = [pc EXCEPT ![p] = "open"]
    /\ UNCHANGED <<db, call, answer>>

\* BEGIN IMMEDIATE.
Begin(p) ==
    /\ pc[p] = "called"
    /\ writer = None
    /\ Len(db.audit) < MaxAudit
    /\ writer' = p
    /\ tx' = [tx EXCEPT ![p] = db]
    /\ pc' = [pc EXCEPT ![p] = "open"]
    /\ UNCHANGED <<db, call, answer>>

Found(p) == Existing(tx[p], call[p].cmd, call[p].key)

\* A mutant: the payload hash is not compared.
ReplayAny(p) ==
    /\ pc[p] = "open"
    /\ \E r \in Found(p) : answer' = [answer EXCEPT ![p] = r.result]
    /\ writer' = None
    /\ tx' = [tx EXCEPT ![p] = EmptyDatabase]
    /\ pc' = [pc EXCEPT ![p] = "answering"]
    /\ UNCHANGED <<db, call>>

\* The key is known with this payload: roll back, return the stored result.
Replay(p) ==
    /\ pc[p] = "open"
    /\ \E r \in Found(p) :
          /\ r.payload = call[p].cmd
          /\ answer' = [answer EXCEPT ![p] = r.result]
    /\ writer' = None
    /\ tx' = [tx EXCEPT ![p] = EmptyDatabase]
    /\ pc' = [pc EXCEPT ![p] = "answering"]
    /\ UNCHANGED <<db, call>>

\* The key is known with another payload: audit the conflict.
DetectConflict(p) ==
    /\ pc[p] = "open"
    /\ Found(p) # {}
    /\ \A r \in Found(p) : r.payload # call[p].cmd
    /\ tx' = [tx EXCEPT ![p] = Conflict(@, call[p].cmd)]
    /\ pc' = [pc EXCEPT ![p] = "refused"]
    /\ UNCHANGED <<db, writer, call, answer>>

\* The operation raises inside its savepoint.
Refuse(p) ==
    /\ pc[p] = "open"
    /\ Found(p) = {}
    /\ ~Accepts(tx[p], call[p].cmd)
    /\ tx' = [tx EXCEPT ![p] = Reject(@, call[p].cmd)]
    /\ pc' = [pc EXCEPT ![p] = "refused"]
    /\ UNCHANGED <<db, writer, call, answer>>

\* The operation succeeds; its idempotency row is not written yet.
Execute(p) ==
    /\ pc[p] = "open"
    /\ Found(p) = {}
    /\ Accepts(tx[p], call[p].cmd)
    /\ tx' = [tx EXCEPT ![p] = Apply(@, call[p].cmd)]
    /\ pc' = [pc EXCEPT ![p] = "executed"]
    /\ UNCHANGED <<db, writer, call, answer>>

\* A mutant: the result is read through another connection.
RecordCommitted(p) ==
    /\ pc[p] = "executed"
    /\ tx' = [tx EXCEPT ![p] = Remember(@, call[p].cmd, call[p].key)]
    /\ answer' = [answer EXCEPT ![p] = ResultOf(db, call[p].cmd)]
    /\ pc' = [pc EXCEPT ![p] = "recorded"]
    /\ UNCHANGED <<db, writer, call>>

\* INSERT INTO idempotency_keys.
Record(p) ==
    /\ pc[p] = "executed"
    /\ tx' = [tx EXCEPT ![p] = Remember(@, call[p].cmd, call[p].key)]
    /\ answer' = [answer EXCEPT ![p] = ResultOf(tx[p], call[p].cmd)]
    /\ pc' = [pc EXCEPT ![p] = "recorded"]
    /\ UNCHANGED <<db, writer, call>>

\* A mutant: commits before the idempotency row is written.
CommitEarly(p) ==
    /\ pc[p] \in {"executed", "recorded", "refused"}
    /\ db' = tx[p]
    /\ writer' = None
    /\ tx' = [tx EXCEPT ![p] = EmptyDatabase]
    /\ pc' = [pc EXCEPT ![p] = "answering"]
    /\ UNCHANGED <<call, answer>>

\* COMMIT, on the success path and on the two refusal paths.
Commit(p) ==
    /\ pc[p] \in {"recorded", "refused"}
    /\ db' = tx[p]
    /\ writer' = None
    /\ tx' = [tx EXCEPT ![p] = EmptyDatabase]
    /\ pc' = [pc EXCEPT ![p] = "answering"]
    /\ UNCHANGED <<call, answer>>

\* The call returns, or raises the pending error.
Return(p) ==
    /\ pc[p] = "answering"
    /\ pc' = [pc EXCEPT ![p] = "idle"]
    /\ call' = [call EXCEPT ![p] = NoCall]
    /\ answer' = [answer EXCEPT ![p] = NoAnswer]
    /\ UNCHANGED <<db, writer, tx>>

\* A mutant: the lock outlives the process.
CrashLocked(p) ==
    /\ pc[p] # "idle"
    /\ tx' = [tx EXCEPT ![p] = EmptyDatabase]
    /\ pc' = [pc EXCEPT ![p] = "idle"]
    /\ call' = [call EXCEPT ![p] = NoCall]
    /\ answer' = [answer EXCEPT ![p] = NoAnswer]
    /\ UNCHANGED <<db, writer>>

\* The process dies.  Nothing tells its caller whether it had committed.
Crash(p) ==
    /\ pc[p] # "idle"
    /\ writer' = IF writer = p THEN None ELSE writer
    /\ tx' = [tx EXCEPT ![p] = EmptyDatabase]
    /\ pc' = [pc EXCEPT ![p] = "idle"]
    /\ call' = [call EXCEPT ![p] = NoCall]
    /\ answer' = [answer EXCEPT ![p] = NoAnswer]
    /\ UNCHANGED db

\* The steps a running transaction takes by itself.
Run(p) == \/ Replay(p)
          \/ DetectConflict(p)
          \/ Refuse(p)
          \/ Execute(p)
          \/ Record(p)
          \/ Commit(p)

Next == \E p \in Process :
            \/ \E cmd \in Readable(db), k \in Key : Call(p, cmd, k)
            \/ Begin(p)
            \/ Run(p)
            \/ Return(p)
            \/ Crash(p)

Spec == Init /\ [][Next]_vars

\* A transaction that has begun is code running to completion in one
\* process: it goes on unless the process dies.  Calls, lock acquisition and
\* crashes are not fair.
FairSpec == Spec /\ \A p \in Process : WF_vars(Run(p))
---------------------------------------------------------------------------
InTransaction == {"open", "executed", "recorded", "refused"}

TypeOK ==
    /\ db \in Database
    /\ writer \in Process \cup {None}
    /\ pc \in [Process -> {"idle", "called", "answering"} \cup InTransaction]
    /\ call \in [Process -> [cmd : Command, key : Key] \cup {NoCall}]
    /\ tx \in [Process -> Database]
    /\ answer \in [Process -> Result \cup {NoAnswer}]

\* What a running transaction knows: it alone holds the write lock, and its
\* copy is the committed database or what the command makes of it, however
\* the other processes interleaved before it took the lock.
HoldsLock(p) == pc[p] \in InTransaction <=> writer = p

CallReadable(p) ==
    pc[p] # "idle" => call[p].key \in Key /\ call[p].cmd \in Readable(db)

CopyIsCurrent(p) ==
    /\ pc[p] = "open" => tx[p] = db
    /\ pc[p] = "executed" => /\ Existing(db, call[p].cmd, call[p].key) = {}
                             /\ Accepts(db, call[p].cmd)
                             /\ tx[p] = Apply(db, call[p].cmd)
    /\ pc[p] \in {"recorded", "refused"} =>
          tx[p] = Perform(db, call[p].cmd, call[p].key)

Serial == \A p \in Process : HoldsLock(p) /\ CallReadable(p) /\ CopyIsCurrent(p)

\* The committed audit log always passes verify_audit, whatever the
\* interleaving of appenders (_append_audit reads the last row and inserts
\* the next one in two statements).
AuditLinked == Ledger!Linked(db.audit)

\* The session row, its version and its evidence can be rebuilt from the
\* audit log, and the log's lifecycle rows are a path of the register: no
\* update is lost between two callers that read the same version.
AuditReplays == Ledger!Replays(db) /\ Ledger!LegalPath(db.audit)

\* Every applied command is remembered under exactly one key, and nothing
\* refused is: the lifecycle and evidence rows of the log are as many as the
\* idempotency rows, so no retry applied a command twice.
AppliedOnce ==
    /\ Ledger!OneRowPerKey(db)
    /\ Cardinality(db.idem) =
         Cardinality({i \in DOMAIN db.audit : db.audit[i].body.event \in
             {"SESSION_CREATED", "STATE_TRANSITIONED", "EVIDENCE_REGISTERED"}})

\* A caller that is told a result can rely on it: the command is committed
\* and remembered with that very result.
AnswerIsDurable ==
    \A p \in Process :
        (pc[p] = "answering" /\ answer[p] # NoAnswer) =>
            \E r \in db.idem : /\ r.key = call[p].key
                               /\ r.payload = call[p].cmd
                               /\ r.result = answer[p]

\* A refused command changes nothing but the audit log, and the log only
\* grows: [AppendOnly] is the promise of the audit_log triggers.
IsExtension(new, old) == Len(old) <= Len(new) /\ SubSeq(new, 1, Len(old)) = old

RefusalOnlyAudits ==
    [][\A p \in Process : (pc[p] = "refused" /\ pc'[p] = "answering") =>
          /\ [db' EXCEPT !.audit = <<>>] = [db EXCEPT !.audit = <<>>]
          /\ IsExtension(db'.audit, db.audit)]_vars

AppendOnly == [][IsExtension(db'.audit, db.audit) /\ db.idem \subseteq db'.idem]_db

\* The repository implements the one-step record.
ImplementsLedger == Ledger!Spec

\* A transaction never keeps the write lock: it commits, rolls back or dies.
LockReleased == \A p \in Process : (writer = p) ~> (writer # p)
===========================================================================
