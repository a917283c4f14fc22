------------------------------ MODULE EosJobs ------------------------------
(***************************************************************************)
(* The PX job engine and the research pipeline that runs in it             *)
(* (project_exchange/eos.py, workers/), used by several browser sessions   *)
(* at once.                                                                *)
(*                                                                         *)
(* An operation is not a transaction: every statement group commits by     *)
(* itself, on a connection of its own.  todo[u] is the program session u   *)
(* has still to run, one element for each commit, nested jobs first.       *)
(* Events, logs, messages, edges and the history column of a job are       *)
(* written and listed, and decide nothing; they are left out.  A row's     *)
(* identifier is its position in its table, because the code makes it from *)
(* the number of rows.                                                     *)
(***************************************************************************)
EXTENDS Naturals, Sequences, FiniteSets

CONSTANTS Session,      \* the browser sessions
          MaxRetries,   \* max_retries of a job
          Decision,     \* what an audit may decide
          Offered,      \* the operators the manual job form offers
          Typed,        \* the record numbers typed into its payload
          MaxCalls,     \* bound: operations the users ask for
          MaxRuns       \* bound: those of them that execute a job

ASSUME SessionAssumption == Session # {} /\ IsFiniteSet(Session)
ASSUME DecisionAssumption == "approved" \in Decision
ASSUME NumberAssumption == MaxRetries \in Nat /\ MaxCalls \in Nat /\ MaxRuns \in Nat /\ Typed \subseteq Nat

VARIABLES jobs,         \* the jobs table
          worker,       \* the status of each worker
          research,     \* research_records: their pipeline_status
          packages,     \* the number of research_packages
          audits,       \* audit_records
          library,      \* library_records
          todo,         \* what each session has still to do
          calls,        \* operations asked for so far, for the bounds
          runs,         \* and those that execute
          crashed       \* has the process ever died

tables == <<jobs, worker, research, packages, audits, library>>
vars == <<tables, todo, calls, runs, crashed>>

Kind == {"Research", "Audit", "Library", "Other"}
Worker == {"PX-R001", "PX-A001", "PX-L001", "PX-H001"}
NoWorker == "none"

ASSUME OfferedAssumption == Offered \subseteq Worker \cup {NoWorker}

JobStatus    == {"Pending", "Running", "Completed", "Failed", "Cancelled"}
WorkerStatus == {"Active", "Idle", "Working", "Running", "Completed", "Failed"}
---------------------------------------------------------------------------
(* The commits of which operations are made.                               *)

Assign(j, status)  == [do |-> "status", job |-> j, to |-> status]
Requeue(j)         == [do |-> "requeue", job |-> j]
Report(w, status)  == [do |-> "worker", worker |-> w, to |-> status]
Dispatch(j)        == [do |-> "dispatch", job |-> j]
Complete(j)        == [do |-> "complete", job |-> j]
Count(table, row)  == [do |-> "count", table |-> table, row |-> row]
Insert(table, row, id) == [do |-> "insert", table |-> table, row |-> row, id |-> id]

\* A job without an operator tells none.
Tell(w, status) == IF w = NoWorker THEN <<>> ELSE <<Report(w, status)>>

\* What start_job, complete_job and fail_job have in common.
Change(j, by, status, workerStatus) ==
    <<Assign(j, status)>> \o Tell(by, workerStatus)

\* execute_job.  The reading of the job's row is part of its first commit:
\* nothing that execute_job uses of it ever changes.
Executing(j, by) ==
    Change(j, by, "Running", "Working") \o <<Dispatch(j), Complete(j)>>

\* A job to be created; run says whether its creator also executes it.
NewJob(kind, r, a, by, run) ==
    Count("jobs", [kind |-> kind, research |-> r, audit |-> a, by |-> by, run |-> run])

Init ==
    /\ jobs = <<>>
    /\ worker = [w \in Worker |-> "Active"]
    /\ research = <<>>
    /\ packages = 0
    /\ audits = <<>>
    /\ library = <<>>
    /\ todo = [u \in Session |-> <<>>]
    /\ calls = 0
    /\ runs = 0
    /\ crashed = FALSE

\* The operator in whose worker_run a table's rows are inserted.
Keeper == [research |-> "PX-R001", audits |-> "PX-A001", library |-> "PX-L001"]
---------------------------------------------------------------------------
(* What the users ask for.  Any job may be selected in any state.          *)

Ask(u, program) ==
    /\ todo[u] = <<>>
    /\ calls < MaxCalls
    /\ calls' = calls + 1
    /\ todo' = [todo EXCEPT ![u] = program]

CountRun == runs < MaxRuns /\ runs' = runs + 1

\* The buttons that create a job and execute it at once.
CreateAndRun(u, kind, r, a, by) ==
    /\ Ask(u, <<NewJob(kind, r, a, by, TRUE)>>)
    /\ CountRun
    /\ UNCHANGED <<tables, crashed>>

\* The manual form, which takes any operator and any payload.
CreateByHand(u, kind, r, a, by) ==
    /\ Ask(u, <<NewJob(kind, r, a, by, FALSE)>>)
    /\ UNCHANGED <<tables, runs, crashed>>

Run(u, j) ==
    /\ Ask(u, Executing(j, jobs[j].by))
    /\ CountRun
    /\ UNCHANGED <<tables, crashed>>

RetryTwice(u, j) ==      \* a mutant: one reading of the budget, two retries
    /\ jobs[j].retries < MaxRetries
    /\ Ask(u, <<Requeue(j), Requeue(j)>>)
    /\ UNCHANGED <<tables, runs, crashed>>

\* retry_job reads the budget in one transaction and spends it in another.
Retry(u, j) ==
    /\ jobs[j].retries < MaxRetries
    /\ Ask(u, <<Requeue(j)>>)
    /\ UNCHANGED <<tables, runs, crashed>>

Cancel(u, j) ==
    /\ Ask(u, <<Assign(j, "Cancelled")>>)
    /\ UNCHANGED <<tables, runs, crashed>>

Resume(u, j) ==
    /\ Ask(u, <<Assign(j, "Pending")>>)
    /\ UNCHANGED <<tables, runs, crashed>>

RestartWorker(u, w) ==
    /\ Ask(u, <<Report(w, "Idle")>>)
    /\ UNCHANGED <<tables, runs, crashed>>

\* The status an audit gives its research record.
PipelineStatus(decision) == IF decision = "approved" THEN "approved_queue" ELSE decision

UpdateDecisionOnly(u, a, decision) ==      \* a mutant: the record is not told
    /\ Ask(u, <<>>)
    /\ audits' = [audits EXCEPT ![a].decision = decision]
    /\ UNCHANGED <<jobs, worker, research, packages, library, runs, crashed>>

\* update_audit_decision, one transaction.
UpdateDecision(u, a, decision) ==
    /\ Ask(u, <<>>)
    /\ audits' = [audits EXCEPT ![a].decision = decision]
    /\ research' = [research EXCEPT ![audits[a].research] = PipelineStatus(decision)]
    /\ UNCHANGED <<jobs, worker, packages, library, runs, crashed>>
---------------------------------------------------------------------------
(* The next commit of session u.                                           *)

Next1(u, do) == todo[u] # <<>> /\ Head(todo[u]).do = do

\* The commit is made, and program is to be run before the rest.
Then(u, program) == todo' = [todo EXCEPT ![u] = program \o Tail(@)]

Quiet == UNCHANGED <<calls, runs, crashed>>

\* execute_job catches what its dispatch raises, and fails its own job; an
\* exception no execute_job is around ends the call.
Handler(u) == {i \in DOMAIN todo[u] : todo[u][i].do = "complete"}

Raise(u, cleanup) ==
    LET i == CHOOSE h \in Handler(u) : \A k \in Handler(u) : h <= k
    IN  todo' = [todo EXCEPT ![u] =
                    IF Handler(u) = {} THEN cleanup
                    ELSE cleanup \o Change(@[i].job, jobs[@[i].job].by, "Failed", "Failed")
                                 \o SubSeq(@, i + 1, Len(@))]

SetStatus(u) ==
    /\ Next1(u, "status")
    /\ LET s == Head(todo[u]) IN jobs' = [jobs EXCEPT ![s.job].status = s.to]
    /\ Then(u, <<>>)
    /\ Quiet
    /\ UNCHANGED <<worker, research, packages, audits, library>>

SpendRetry(u) ==
    /\ Next1(u, "requeue")
    /\ LET j == Head(todo[u]).job
       IN  jobs' = [jobs EXCEPT ![j].status = "Pending", ![j].retries = @ + 1]
    /\ Then(u, <<>>)
    /\ Quiet
    /\ UNCHANGED <<worker, research, packages, audits, library>>

SetWorker(u) ==
    /\ Next1(u, "worker")
    /\ LET s == Head(todo[u]) IN worker' = [worker EXCEPT ![s.worker] = s.to]
    /\ Then(u, <<>>)
    /\ Quiet
    /\ UNCHANGED <<jobs, research, packages, audits, library>>

\* complete_job, after dispatch_job has returned.
CompleteJob(u) ==
    /\ Next1(u, "complete")
    /\ LET j == Head(todo[u]).job
       IN  /\ jobs' = [jobs EXCEPT ![j].status = "Completed"]
           /\ Then(u, Tell(jobs[j].by, "Idle"))
    /\ Quiet
    /\ UNCHANGED <<worker, research, packages, audits, library>>
---------------------------------------------------------------------------
(* dispatch_job.                                                           *)

Dispatching(u, kind) == Next1(u, "dispatch") /\ jobs[Head(todo[u]).job].kind = kind

\* run_internet_research finds evidence, or raises.
DispatchResearch(u, found) ==
    /\ Dispatching(u, "Research")
    /\ IF found THEN Then(u, <<Report("PX-R001", "Running"), Count("research", "pending_audit")>>)
                ELSE Raise(u, <<>>)
    /\ Quiet
    /\ UNCHANGED tables

\* run_audit decides.
DispatchAudit(u, decision) ==
    /\ Dispatching(u, "Audit")
    /\ LET r == jobs[Head(todo[u]).job].research
       IN  IF r \in DOMAIN research
           THEN Then(u, <<Report("PX-A001", "Running"),
                          Count("audits", [research |-> r, decision |-> decision])>>)
           ELSE Raise(u, <<>>)
    /\ Quiet
    /\ UNCHANGED tables

DispatchLibraryBlind(u) ==       \* a mutant: the records are not looked up
    /\ Dispatching(u, "Library")
    /\ LET job == jobs[Head(todo[u]).job]
       IN  Then(u, <<Report("PX-L001", "Running"),
                     Count("library", [audit |-> job.audit, research |-> job.research])>>)
    /\ Quiet
    /\ UNCHANGED tables

\* store_approved_record, on the decision as it is now.
DispatchLibrary(u) ==
    /\ Dispatching(u, "Library")
    /\ LET job == jobs[Head(todo[u]).job]
       IN  IF /\ job.audit \in DOMAIN audits
              /\ job.research \in DOMAIN research
              /\ audits[job.audit].decision = "approved"
           THEN Then(u, <<Report("PX-L001", "Running"),
                          Count("library", [audit |-> job.audit, research |-> job.research])>>)
           ELSE Raise(u, <<>>)
    /\ Quiet
    /\ UNCHANGED tables

\* The prompt jobs and the scan, which may raise.
DispatchOther(u, ok) ==
    /\ Dispatching(u, "Other")
    /\ IF ok THEN Then(u, <<>>) ELSE Raise(u, <<>>)
    /\ Quiet
    /\ UNCHANGED tables
---------------------------------------------------------------------------
(* Inserts: the identifier is computed from a count read before.           *)

Rows(table) == CASE table = "jobs"     -> Len(jobs)
                 [] table = "research" -> Len(research)
                 [] table = "packages" -> packages
                 [] table = "audits"   -> Len(audits)
                 [] table = "library"  -> Len(library)

CountRows(u) ==
    /\ Next1(u, "count")
    /\ LET s == Head(todo[u]) IN Then(u, <<Insert(s.table, s.row, Rows(s.table) + 1)>>)
    /\ Quiet
    /\ UNCHANGED tables

Inserting(u, table) ==
    Next1(u, "insert") /\ Head(todo[u]).table = table /\ Head(todo[u]).id > Rows(table)

\* The identifier is taken: IntegrityError, which worker_run reports.
OwnWorker(table) ==
    IF table \in DOMAIN Keeper THEN <<Report(Keeper[table], "Failed")>> ELSE <<>>

CollideUncaught(u) ==            \* a mutant: only ValueError is caught
    /\ Next1(u, "insert")
    /\ Head(todo[u]).id <= Rows(Head(todo[u]).table)
    /\ todo' = [todo EXCEPT ![u] = <<>>]
    /\ Quiet
    /\ UNCHANGED tables

Collide(u) ==
    /\ Next1(u, "insert")
    /\ Head(todo[u]).id <= Rows(Head(todo[u]).table)
    /\ Raise(u, OwnWorker(Head(todo[u]).table))
    /\ Quiet
    /\ UNCHANGED tables

InsertJob(u) ==
    /\ Inserting(u, "jobs")
    /\ LET s == Head(todo[u])
       IN  /\ jobs' = Append(jobs, [kind |-> s.row.kind, research |-> s.row.research,
                                    audit |-> s.row.audit, by |-> s.row.by,
                                    status |-> "Pending", retries |-> 0])
           /\ Then(u, IF s.row.run THEN Executing(s.id, s.row.by) ELSE <<>>)
    /\ Quiet
    /\ UNCHANGED <<worker, research, packages, audits, library>>

\* run_market_scan ends; the package and the audit job follow.
InsertResearch(u) ==
    /\ Inserting(u, "research")
    /\ LET s == Head(todo[u])
       IN  /\ research' = Append(research, s.row)
           /\ Then(u, <<Report("PX-R001", "Completed"), Count("packages", "row"),
                        NewJob("Audit", s.id, 0, "PX-A001", TRUE)>>)
    /\ Quiet
    /\ UNCHANGED <<jobs, worker, packages, audits, library>>

InsertPackage(u) ==
    /\ Inserting(u, "packages")
    /\ packages' = packages + 1
    /\ Then(u, <<>>)
    /\ Quiet
    /\ UNCHANGED <<jobs, worker, research, audits, library>>

\* run_audit ends; an approved record goes on to the library.
InsertAudit(u) ==
    /\ Inserting(u, "audits")
    /\ LET s == Head(todo[u])
       IN  /\ audits' = Append(audits, s.row)
           /\ research' = [research EXCEPT ![s.row.research] = PipelineStatus(s.row.decision)]
           /\ Then(u, <<Report("PX-A001", "Completed")>> \o
                      IF s.row.decision = "approved"
                      THEN <<NewJob("Library", s.row.research, s.id, "PX-L001", TRUE)>> ELSE <<>>)
    /\ Quiet
    /\ UNCHANGED <<jobs, worker, packages, library>>

InsertLibrary(u) ==
    /\ Inserting(u, "library")
    /\ LET s == Head(todo[u])
       IN  /\ library' = Append(library, s.row)
           /\ research' = [research EXCEPT ![s.row.research] = "stored_in_library"]
    /\ Then(u, <<Report("PX-L001", "Completed")>>)
    /\ Quiet
    /\ UNCHANGED <<jobs, worker, packages, audits>>
---------------------------------------------------------------------------
Step(u) ==
    \/ SetStatus(u) \/ SpendRetry(u) \/ SetWorker(u)
    \/ CompleteJob(u)
    \/ \E found \in BOOLEAN : DispatchResearch(u, found)
    \/ \E decision \in Decision : DispatchAudit(u, decision)
    \/ DispatchLibrary(u)
    \/ \E ok \in BOOLEAN : DispatchOther(u, ok)
    \/ CountRows(u) \/ Collide(u)
    \/ InsertJob(u) \/ InsertResearch(u) \/ InsertPackage(u)
    \/ InsertAudit(u) \/ InsertLibrary(u)

\* 0 stands for an identifier that was not given.  A button offers the rows
\* that were listed when the page was drawn, which may be long ago.
Call(u) ==
    \/ CreateAndRun(u, "Research", 0, 0, "PX-R001")
    \/ \E r \in DOMAIN research : CreateAndRun(u, "Audit", r, 0, "PX-A001")
    \/ \E a \in DOMAIN audits : CreateAndRun(u, "Library", audits[a].research, a, "PX-L001")
    \/ CreateAndRun(u, "Other", 0, 0, NoWorker)
    \/ \E by \in Offered :
         \/ CreateByHand(u, "Research", 0, 0, by)
         \/ \E r \in Typed : CreateByHand(u, "Audit", r, 0, by)
         \/ \E r, a \in Typed : CreateByHand(u, "Library", r, a, by)
         \/ CreateByHand(u, "Other", 0, 0, by)
    \/ \E j \in DOMAIN jobs : Run(u, j) \/ Retry(u, j) \/ Cancel(u, j) \/ Resume(u, j)
    \/ \E w \in Worker : RestartWorker(u, w)
    \/ \E a \in DOMAIN audits, decision \in Decision : UpdateDecision(u, a, decision)

\* The server process dies, and its sessions with it; the tables stay.
Crash ==
    /\ \E u \in Session : todo[u] # <<>>
    /\ todo' = [u \in Session |-> <<>>]
    /\ crashed' = TRUE
    /\ UNCHANGED <<tables, calls, runs>>

Next == Crash \/ \E u \in Session : Call(u) \/ Step(u)

Spec == Init /\ [][Next]_vars

---------------------------------------------------------------------------
Ids(table) == 1 .. Rows(table)

JobRow == [kind : Kind, research : Nat, audit : Nat, by : Worker \cup {NoWorker},
           status : JobStatus, retries : Nat]

ResearchStatus ==
    {"pending_audit", "approved_queue", "stored_in_library"} \cup (Decision \ {"approved"})

\* Every table holds rows of its schema with the values its readers filter
\* by, and what a session has still to do names jobs that exist.
TypeOK ==
    /\ jobs \in Seq(JobRow)
    /\ worker \in [Worker -> WorkerStatus]
    /\ research \in Seq(ResearchStatus)
    /\ packages \in Nat
    /\ audits \in Seq([research : Nat, decision : Decision])
    /\ library \in Seq([audit : Nat, research : Nat])
    /\ DOMAIN todo = Session
    /\ \A u \in Session : \A i \in DOMAIN todo[u] :
         todo[u][i].do \in {"status", "requeue", "dispatch", "complete"} =>
             todo[u][i].job \in DOMAIN jobs
    /\ calls \in 0 .. MaxCalls /\ runs \in 0 .. MaxRuns
    /\ crashed \in BOOLEAN

\* Session u will yet end job j, or free worker w.
WillEnd(u, j) ==
    \E i \in DOMAIN todo[u] :
        \/ todo[u][i].do = "complete" /\ todo[u][i].job = j
        \/ todo[u][i].do = "status" /\ todo[u][i].job = j /\ todo[u][i].to # "Running"

WillFree(u, w) ==
    \E i \in DOMAIN todo[u] :
        \/ /\ todo[u][i].do = "worker"
           /\ todo[u][i].worker = w
           /\ todo[u][i].to \notin {"Working", "Running"}
        \/ todo[u][i].do = "complete" /\ jobs[todo[u][i].job].by = w
        \/ /\ todo[u][i].do \in {"count", "insert"}
           /\ todo[u][i].table \in DOMAIN Keeper
           /\ Keeper[todo[u][i].table] = w

\* Unless the process died, a job shown Running and an operator shown at
\* work are somebody's: whatever sessions run, cancel, retry or restart at
\* once, and whatever raises in a nested job, no run is left unfinished
\* (execute_job's handler, worker_run's two exits).
NothingLeftRunning ==
    ~crashed =>
        /\ \A j \in DOMAIN jobs : jobs[j].status = "Running" => \E u \in Session : WillEnd(u, j)
        /\ \A w \in Worker : worker[w] \in {"Working", "Running"} => \E u \in Session : WillFree(u, w)

\* The sessions that have seen budget left for job j and not yet spent it.
Retrying(j) ==
    {u \in Session : \E i \in DOMAIN todo[u] : todo[u][i] = Requeue(j)}

\* retry_job's budget, read outside the transaction that spends it, can be
\* passed, but by no more than one retry for every other session.
RetriesNearBudget ==
    \A j \in DOMAIN jobs :
        jobs[j].retries + Cardinality(Retrying(j)) <= MaxRetries + Cardinality(Session) - 1

\* Every audit is of a research record, and every library record of an
\* audit and a research record, that exist: what the jobs' payloads name,
\* typed or computed, is looked up before it is stored (dispatch_job).
Lineage ==
    /\ \A a \in DOMAIN audits : audits[a].research \in DOMAIN research
    /\ \A l \in DOMAIN library :
         library[l].audit \in DOMAIN audits /\ library[l].research \in DOMAIN research

\* A research record's pipeline_status is always somebody's word: an audit
\* of that record decided so and stands by it, or the library holds it.
\* The two tables are written by run_audit, update_audit_decision and
\* store_approved_record, for several audits of one record.
StatusBacked ==
    \A r \in DOMAIN research :
        \/ research[r] = "pending_audit"
        \/ research[r] = "stored_in_library" /\ \E l \in DOMAIN library : library[l].research = r
        \/ \E a \in DOMAIN audits :
             audits[a].research = r /\ PipelineStatus(audits[a].decision) = research[r]
============================================================================
