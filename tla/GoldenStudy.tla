----------------------------- MODULE GoldenStudy -----------------------------
(***************************************************************************)
(* The Golden Study (project_exchange/golden_study.py): its runs, and the  *)
(* evidence pipeline from signals to Engineering Ready, driven by several  *)
(* browser sessions.                                                       *)
(*                                                                         *)
(* As in EosJobs, todo[u] is the program session u has still to run, one   *)
(* element for each commit.  seen[u] is the run its last look for the      *)
(* active one returned: handlers go on with that row, whatever happens to  *)
(* it meanwhile.  An identifier is the number of rows plus one; a taken    *)
(* one raises, and what was committed before stays.  A count and the       *)
(* insert it is for are one step: two sessions that read the same count    *)
(* collide on the key, and the second changes nothing.                     *)
(*                                                                         *)
(* What a text is worth is StudyRules; here evidence has passed the gate,  *)
(* is told apart by its source, and belongs to one pain category.  Events  *)
(* and notifications are written and listed only, and left out.            *)
(***************************************************************************)
EXTENDS Naturals, Sequences, FiniteSets

CONSTANTS Session,      \* the browser sessions
          Source,       \* sources of evidence
          Verdict,      \* what the audit of real evidence may decide
          MinSignals,   \* signals a production finding needs
          MinSources,   \* and how many independent sources
          MaxCalls      \* bound: operations the users ask for

ASSUME StudySessions == Session # {} /\ IsFiniteSet(Session)
ASSUME StudySources == IsFiniteSet(Source)
ASSUME StudyVerdicts == "Approve Opportunity" \in Verdict
ASSUME StudyMinima == MinSignals \in Nat \ {0} /\ MinSources \in Nat /\ MaxCalls \in Nat

VARIABLES mode,     \* studies.study_mode
          runs,     \* study_runs, by number
          rows,     \* the run-scoped tables, each by number
          todo,     \* what each session has still to do
          seen,     \* the active run each session last saw
          calls,    \* operations asked for, for the bound
          erased    \* has archived demo data ever been deleted

tables == <<mode, runs, rows>>
vars == <<tables, todo, seen, calls, erased>>

Mode == {"demo", "production"}
Table == {"signals", "findings", "audits", "opportunities", "briefs"}
\* The tables that demo_records_count and non_demo_records_count look at.
Counted == Table \ {"briefs"}
---------------------------------------------------------------------------
(* Rows.                                                                   *)

Active == {r \in DOMAIN runs : runs[r].status = "active"}
Newest(R) == CHOOSE r \in R : \A s \in R : runs[s].made <= runs[r].made

NextId(table) == Cardinality(DOMAIN table) + 1
With(table, i, row) == [j \in DOMAIN table \cup {i} |-> IF j = i THEN row ELSE table[j]]
Without(table, I) == [j \in DOMAIN table \ I |-> table[j]]

NewRun(m, status) ==
    [mode |-> m, status |-> status,
     made |-> IF DOMAIN runs = {} THEN 1 ELSE runs[Newest(DOMAIN runs)].made + 1]

\* All run-scoped rows, as pairs of a table and a number.
Rows == UNION {{t} \X DOMAIN rows[t] : t \in Table}
At(x) == rows[x[1]][x[2]]
Live(x) == At(x).status # "archived"

\* demo_records_count and non_demo_records_count
Holds(r, demo) ==
    \E x \in Rows : x[1] \in Counted /\ At(x).run = r /\ At(x).demo = demo /\ Live(x)

\* An UPDATE of a row that is gone changes nothing.
Marked(table, i, status) ==
    IF i \in DOMAIN table THEN [table EXCEPT ![i].status = status] ELSE table
---------------------------------------------------------------------------
(* The commits programs are made of.                                       *)

Resolve            == [do |-> "resolve"]
History            == [do |-> "history"]
Create(m)          == [do |-> "create", mode |-> m]
InsertRun(m)       == [do |-> "insertRun", mode |-> m]
SetMode(m)         == [do |-> "setMode", mode |-> m]
Close              == [do |-> "close"]
Switch(m)          == [do |-> "switch", mode |-> m]
ListDemo           == [do |-> "listDemo"]
ArchiveRows(X)     == [do |-> "archive", left |-> X]
ArchiveDemoRuns    == [do |-> "archiveDemoRuns"]
Restart            == [do |-> "restart"]
Retire(r)          == [do |-> "retire", run |-> r]
Delete             == [do |-> "delete"]
Pull               == [do |-> "pull"]
Candidates(S, r)   == [do |-> "candidates", left |-> S, run |-> r]
Admit(s, demo)     == [do |-> "admit", source |-> s, demo |-> demo]
Store(s, demo)     == [do |-> "store", source |-> s, demo |-> demo]
Batch(S)           == [do |-> "batch", left |-> S]
Generate           == [do |-> "generate"]
Collect(m)         == [do |-> "collect", mode |-> m]
Upsert(row)        == [do |-> "upsert", row |-> row]
Rewrite(f, row)    == [do |-> "rewrite", finding |-> f, row |-> row]
AddFinding(row)    == [do |-> "addFinding", row |-> row]
AuditAll           == [do |-> "auditAll"]
ListAuditable(m)   == [do |-> "listAuditable", mode |-> m]
Audit(F)           == [do |-> "audit", left |-> F]
Record(row)        == [do |-> "record", row |-> row]
Select             == [do |-> "select"]
Promote(A)         == [do |-> "promote", left |-> A]
Insert(row)        == [do |-> "insert", row |-> row]
Chain(o)           == [do |-> "chain", opportunity |-> o]
MarkReady(o, demo) == [do |-> "markReady", opportunity |-> o, demo |-> demo]
Brief              == [do |-> "brief"]
---------------------------------------------------------------------------
(* The page.  Its script runs init_db, which inserts the default demo run, *)
(* active, unless its number is taken, and then looks for the active run.  *)

Seeded == IF 1 \in DOMAIN runs THEN runs ELSE With(runs, 1, NewRun("demo", "active"))

Ask(u, program) ==
    /\ todo[u] = <<>>
    /\ calls < MaxCalls
    /\ calls' = calls + 1
    /\ runs' = Seeded
    /\ todo' = [todo EXCEPT ![u] = <<Resolve>> \o program]
    /\ UNCHANGED <<mode, rows, seen, erased>>

Visit(u)              == Ask(u, <<>>)
LoadDemoBatch(u)      == Ask(u, <<Batch(Source)>>)
CollectEvidence(u, s) == Ask(u, <<Admit(s, FALSE)>>)
PullEvidence(u)       == Ask(u, <<Pull>>)
GenerateFindings(u)   == Ask(u, <<Generate>>)
RunAudits(u)          == Ask(u, <<AuditAll>>)
Approve(u)            == Ask(u, <<Select>>)
WriteBrief(u)         == Ask(u, <<Brief>>)
ClearDemo(u)          == Ask(u, <<ListDemo, ArchiveDemoRuns>>)
StartProduction(u)    == Ask(u, <<ListDemo, ArchiveDemoRuns, Resolve, Switch("production")>>)
StartFresh(u)         == Ask(u, <<Restart>>)
DeleteArchived(u)     == Ask(u, <<Delete>>)

\* The buttons beside the rows the page lists: those of the active run.
Shown(t) == {i \in DOMAIN rows[t] : /\ rows[t][i].status # "archived"
                                   /\ Active # {} /\ rows[t][i].run = Newest(Active)}
AuditOne(u)         == \E f \in Shown("findings") : Ask(u, <<Audit({f})>>)
EngineeringReady(u) == \E o \in Shown("opportunities") : Ask(u, <<Chain(o)>>)
ArchiveOne(u)       == \E t \in Counted : \E i \in Shown(t) : Ask(u, <<ArchiveRows({<<t, i>>})>>)
---------------------------------------------------------------------------
(* The next commit of session u.                                           *)

Now(u, do) == todo[u] # <<>> /\ Head(todo[u]).do = do
Step(u) == Head(todo[u])

\* The commit is made, and program is to be run before the rest.
Then(u, program) == todo' = [todo EXCEPT ![u] = program \o Tail(@)]
Raise(u) == todo' = [todo EXCEPT ![u] = <<>>]
Quiet == UNCHANGED <<calls, erased>>

See(u, r, m) == seen' = [seen EXCEPT ![u] = [id |-> r, mode |-> m]]

InsertRow(t, row) == rows' = [rows EXCEPT ![t] = With(@, NextId(@), row)]
Collides(table) == NextId(table) \in DOMAIN table

\* A row of table t is inserted, or its number is taken and the call ends.
Inserting(u, t, row, program) ==
    IF Collides(rows[t])
    THEN Raise(u) /\ UNCHANGED rows
    ELSE InsertRow(t, row) /\ Then(u, program)
---------------------------------------------------------------------------
(* Runs.                                                                   *)

\* get_active_study_run, with the look for a demo run of
\* ensure_demo_history_run; every row has its run, so nothing is assigned.
ResolveRun(u) ==
    /\ Now(u, "resolve")
    /\ IF Active = {}
       THEN Then(u, <<Create(mode)>>) /\ UNCHANGED seen
       ELSE LET r == Newest(Active) IN
            /\ See(u, r, runs[r].mode)
            /\ Then(u, IF \E d \in DOMAIN runs : runs[d].mode = "demo" THEN <<>> ELSE <<History>>)
    /\ Quiet
    /\ UNCHANGED tables

InsertHistory(u) ==
    /\ Now(u, "history")
    /\ IF Collides(runs)
       THEN Raise(u) /\ UNCHANGED runs
       ELSE runs' = With(runs, NextId(runs), NewRun("demo", "archived")) /\ Then(u, <<>>)
    /\ Quiet
    /\ UNCHANGED <<mode, rows, seen>>

CreateUnchecked(u) ==      \* a mutant: no look for an active run
    /\ Now(u, "create")
    /\ Then(u, <<InsertRun(Step(u).mode)>>)
    /\ Quiet
    /\ UNCHANGED <<tables, seen>>

\* create_study_run looks for an active run before its transaction begins.
CreateRun(u) ==
    /\ Now(u, "create")
    /\ IF Active # {} THEN Raise(u) ELSE Then(u, <<InsertRun(Step(u).mode)>>)
    /\ Quiet
    /\ UNCHANGED <<tables, seen>>

InsertNewRun(u) ==
    /\ Now(u, "insertRun")
    /\ IF Collides(runs)
       THEN Raise(u) /\ UNCHANGED <<runs, seen>>
       ELSE /\ runs' = With(runs, NextId(runs), NewRun(Step(u).mode, "active"))
            /\ See(u, NextId(runs), Step(u).mode)
            /\ Then(u, <<>>)
    /\ Quiet
    /\ UNCHANGED <<mode, rows>>

\* switch_study_run_mode, from the active run the session saw.
SwitchRun(u) ==
    /\ Now(u, "switch")
    /\ LET m == Step(u).mode
           demoRows == {x \in Rows : At(x).run = seen[u].id /\ At(x).demo /\ Live(x)}
       IN  Then(u, IF seen[u].mode = m THEN <<>>
                   ELSE (IF seen[u].mode = "demo" THEN <<ArchiveRows(demoRows)>> ELSE <<>>)
                        \o <<Resolve, Close, Create(m), SetMode(m)>>)
    /\ Quiet
    /\ UNCHANGED <<tables, seen>>

CloseRun(u) ==
    /\ Now(u, "close")
    /\ runs' = Marked(runs, seen[u].id, "closed")
    /\ Then(u, <<>>)
    /\ Quiet
    /\ UNCHANGED <<mode, rows, seen>>

SetStudyMode(u) ==
    /\ Now(u, "setMode")
    /\ mode' = Step(u).mode
    /\ Then(u, <<>>)
    /\ Quiet
    /\ UNCHANGED <<runs, rows, seen>>

\* archive_current_production_run_and_start_fresh
RestartRun(u) ==
    /\ Now(u, "restart")
    /\ IF seen[u].mode # "production" THEN Raise(u)
       ELSE LET r == seen[u].id IN
            Then(u, <<ArchiveRows({x \in Rows : At(x).run = r /\ Live(x)}), Retire(r),
                      Create("production"), SetMode("production")>>)
    /\ Quiet
    /\ UNCHANGED <<tables, seen>>

RetireRun(u) ==
    /\ Now(u, "retire")
    /\ runs' = Marked(runs, Step(u).run, "archived")
    /\ Then(u, <<>>)
    /\ Quiet
    /\ UNCHANGED <<mode, rows, seen>>
---------------------------------------------------------------------------
(* Archiving and deleting.                                                 *)

ListDemoRows(u) ==
    /\ Now(u, "listDemo")
    /\ Then(u, <<ArchiveRows({x \in Rows : At(x).demo /\ Live(x)})>>)
    /\ Quiet
    /\ UNCHANGED <<tables, seen>>

\* archive_record, for the rows of a list, in whatever order.
ArchiveRow(u) ==
    /\ Now(u, "archive")
    /\ \/ /\ Step(u).left = {}
          /\ Then(u, <<>>)
          /\ UNCHANGED rows
       \/ \E x \in Step(u).left :
             IF x \in Rows
             THEN /\ rows' = [rows EXCEPT ![x[1]][x[2]].status = "archived"]
                  /\ Then(u, IF Step(u).left = {x} THEN <<>> ELSE <<ArchiveRows(Step(u).left \ {x})>>)
             ELSE Raise(u) /\ UNCHANGED rows
    /\ Quiet
    /\ UNCHANGED <<mode, runs, seen>>

ArchiveAllDemoRuns(u) ==
    /\ Now(u, "archiveDemoRuns")
    /\ runs' = [r \in DOMAIN runs |-> IF runs[r].mode = "demo"
                                      THEN [runs[r] EXCEPT !.status = "archived"] ELSE runs[r]]
    /\ Then(u, <<>>)
    /\ Quiet
    /\ UNCHANGED <<mode, rows, seen>>

\* delete_archived_demo_data, one transaction.
DeleteArchivedDemo(u) ==
    /\ Now(u, "delete")
    /\ rows' = [t \in Table |-> Without(rows[t], {i \in DOMAIN rows[t] :
                                    rows[t][i].demo /\ rows[t][i].status = "archived"})]
    /\ runs' = Without(runs, {r \in DOMAIN runs : runs[r].mode = "demo" /\ runs[r].status = "archived"})
    /\ erased' = TRUE
    /\ Then(u, <<>>)
    /\ UNCHANGED <<mode, seen, calls>>
---------------------------------------------------------------------------
(* Signals.                                                                *)

AdmitAnywhere(u) ==      \* a mutant: the mode of the run is not compared
    /\ Now(u, "admit")
    /\ IF Holds(seen[u].id, ~Step(u).demo) THEN Raise(u)
       ELSE Then(u, <<Store(Step(u).source, Step(u).demo)>>)
    /\ Quiet
    /\ UNCHANGED <<tables, seen>>

\* The checks of create_signal: kinds of evidence never meet in a run.
AdmitSignal(u) ==
    /\ Now(u, "admit")
    /\ LET s == Step(u) IN
       IF /\ (seen[u].mode = "demo") = s.demo
          /\ ~Holds(seen[u].id, ~s.demo)
       THEN Then(u, <<Store(s.source, s.demo)>>)
       ELSE Raise(u)
    /\ Quiet
    /\ UNCHANGED <<tables, seen>>

StoreSignal(u) ==
    /\ Now(u, "store")
    /\ Inserting(u, "signals", [run |-> seen[u].id, demo |-> Step(u).demo, status |-> "active",
                                source |-> Step(u).source], <<>>)
    /\ Quiet
    /\ UNCHANGED <<mode, runs, seen>>

\* run_research_batch, as the sample loader calls it.
NextOfBatch(u) ==
    /\ Now(u, "batch")
    /\ IF Step(u).left = {} THEN Then(u, <<Resolve, Generate>>)
       ELSE LET s == CHOOSE s \in Step(u).left : TRUE
            IN  Then(u, <<Resolve, Admit(s, TRUE), Batch(Step(u).left \ {s})>>)
    /\ Quiet
    /\ UNCHANGED <<tables, seen>>

\* pull_real_market_evidence: blocked, or the candidates the providers found.
StartPull(u) ==
    /\ Now(u, "pull")
    /\ IF seen[u].mode # "production" THEN Then(u, <<>>)
       ELSE \E found \in SUBSET Source : Then(u, <<Candidates(found, seen[u].id)>>)
    /\ Quiet
    /\ UNCHANGED <<tables, seen>>

\* The loop over them, best first: signal_duplicate_exists looks at the run
\* the pull started in, create_signal stores in the one that is active now.
NextCandidate(u) ==
    /\ Now(u, "candidates")
    /\ LET known == {rows["signals"][i].source : i \in {j \in DOMAIN rows["signals"] :
                        rows["signals"][j].run = Step(u).run}}
       IN  \/ Step(u).left = {} /\ Then(u, <<>>)
           \/ \E s \in Step(u).left :
                Then(u, (IF s \in known THEN <<>> ELSE <<Resolve, Admit(s, FALSE)>>)
                        \o <<Candidates(Step(u).left \ {s}, Step(u).run)>>)
    /\ Quiet
    /\ UNCHANGED <<tables, seen>>
---------------------------------------------------------------------------
(* Findings.                                                               *)

SourcesOf(S) == {rows["signals"][i].source : i \in S}

\* cluster_finding_status and the sufficiency test of upsert_finding
Sufficient(S) == Cardinality(S) >= MinSignals /\ Cardinality(SourcesOf(S)) >= MinSources

\* generate_findings asks for the active run again to list its signals.
GenerateStep(u) ==
    /\ Now(u, "generate")
    /\ Then(u, <<Resolve, Collect(seen[u].mode)>>)
    /\ Quiet
    /\ UNCHANGED <<tables, seen>>

CollectSignals(u) ==
    /\ Now(u, "collect")
    /\ LET S == {i \in DOMAIN rows["signals"] : LET s == rows["signals"][i] IN
                    /\ s.run = seen[u].id
                    /\ s.status = "active"
                    /\ s.demo => Step(u).mode = "demo"}
           demo == \E i \in S : rows["signals"][i].demo
           status == CASE demo -> "Demo Finding"
                       [] ~demo /\ Sufficient(S) -> "pending_audit"
                       [] OTHER -> "Insufficient Evidence"
           worth == IF Step(u).mode = "demo" THEN Cardinality(S) >= 2 ELSE Sufficient(S)
       IN  Then(u, IF worth
                   THEN <<Upsert([run |-> seen[u].id, demo |-> demo, status |-> status, signals |-> S])>>
                   ELSE <<>>)
    /\ Quiet
    /\ UNCHANGED <<tables, seen>>

\* upsert_finding looks for the finding of the run, then writes it.
UpsertFinding(u) ==
    /\ Now(u, "upsert")
    /\ LET row == Step(u).row
           there == {f \in DOMAIN rows["findings"] : /\ rows["findings"][f].run = row.run
                                                     /\ rows["findings"][f].status # "archived"}
       IN  \/ there = {} /\ Then(u, <<AddFinding(row)>>)
           \/ \E f \in there : Then(u, <<Rewrite(f, row)>>)
    /\ Quiet
    /\ UNCHANGED <<tables, seen>>

InsertFinding(u) ==
    /\ Now(u, "addFinding")
    /\ Inserting(u, "findings", Step(u).row, <<>>)
    /\ Quiet
    /\ UNCHANGED <<mode, runs, seen>>

\* The UPDATE names no status it expects: an audited finding is reopened.
RewriteFinding(u) ==
    /\ Now(u, "rewrite")
    /\ IF Step(u).finding \in DOMAIN rows["findings"]
       THEN rows' = [rows EXCEPT !["findings"][Step(u).finding] = Step(u).row] /\ Then(u, <<>>)
       ELSE Raise(u) /\ UNCHANGED rows
    /\ Quiet
    /\ UNCHANGED <<mode, runs, seen>>
---------------------------------------------------------------------------
(* Audits.                                                                 *)

\* run_audit_batch
AuditBatch(u) ==
    /\ Now(u, "auditAll")
    /\ Then(u, <<Resolve, ListAuditable(seen[u].mode)>>)
    /\ Quiet
    /\ UNCHANGED <<tables, seen>>

Auditable(status) == status \in {"pending_audit", "Demo Finding"}

ListFindings(u) ==
    /\ Now(u, "listAuditable")
    /\ Then(u, <<Audit({f \in DOMAIN rows["findings"] : LET row == rows["findings"][f] IN
                    /\ row.run = seen[u].id
                    /\ Auditable(row.status)
                    /\ row.demo => Step(u).mode = "demo"})>>)
    /\ Quiet
    /\ UNCHANGED <<tables, seen>>

\* Whether get_finding and get_signal find what they are asked for.
Legible(f) == f \in DOMAIN rows["findings"] /\ rows["findings"][f].signals \subseteq DOMAIN rows["signals"]
DemoEvidence(f) == rows["findings"][f].demo \/ \E i \in rows["findings"][f].signals : rows["signals"][i].demo

\* audit_finding reads and decides, and then writes.
AuditFinding(u) ==
    /\ Now(u, "audit")
    /\ \/ Step(u).left = {} /\ Then(u, <<>>)
       \/ \E f \in Step(u).left :
             IF Legible(f) /\ Auditable(rows["findings"][f].status)
             THEN \E v \in IF DemoEvidence(f) THEN {"Demo Audited"} ELSE Verdict :
                     Then(u, <<Record([run |-> rows["findings"][f].run, demo |-> DemoEvidence(f),
                                       status |-> IF DemoEvidence(f) THEN "Demo Audited" ELSE "active",
                                       finding |-> f, decision |-> v]),
                               Audit(Step(u).left \ {f})>>)
             ELSE Raise(u)
    /\ Quiet
    /\ UNCHANGED <<tables, seen>>

RecordAudit(u) ==
    /\ Now(u, "record")
    /\ LET row == Step(u).row IN
       IF Collides(rows["audits"])
       THEN Raise(u) /\ UNCHANGED rows
       ELSE /\ rows' = [rows EXCEPT !["audits"] = With(@, NextId(@), row),
                                    !["findings"] = Marked(@, row.finding,
                                          IF row.demo THEN "Demo Audited" ELSE "audited")]
            /\ Then(u, <<>>)
    /\ Quiet
    /\ UNCHANGED <<mode, runs, seen>>
---------------------------------------------------------------------------
(* Opportunities.                                                          *)

UnusedAlways(a) == TRUE      \* a mutant: no LEFT JOIN
Unused(a) == \A o \in DOMAIN rows["opportunities"] : rows["opportunities"][o].audit # a

SelectAny(u) ==      \* a mutant: whatever was decided
    /\ Now(u, "select")
    /\ Then(u, <<Promote({a \in DOMAIN rows["audits"] : /\ rows["audits"][a].run = seen[u].id
                                                        /\ rows["audits"][a].status # "archived"
                                                        /\ Unused(a)})>>)
    /\ Quiet
    /\ UNCHANGED <<tables, seen>>

\* approve_audited_opportunities: the audits of the run with none yet.
SelectAudits(u) ==
    /\ Now(u, "select")
    /\ LET demo == seen[u].mode = "demo" IN
       Then(u, <<Promote({a \in DOMAIN rows["audits"] : LET row == rows["audits"][a] IN
                    /\ row.run = seen[u].id
                    /\ row.status # "archived"
                    /\ row.demo = demo
                    /\ row.decision = IF demo THEN "Demo Audited" ELSE "Approve Opportunity"
                    /\ Unused(a)})>>)
    /\ Quiet
    /\ UNCHANGED <<tables, seen>>

\* create_opportunity_from_audit, with the row of the audit the query read:
\* finding and signals now, then the active run, then the insert.
PromoteAudit(u) ==
    /\ Now(u, "promote")
    /\ \/ Step(u).left = {} /\ Then(u, <<>>)
       \/ \E a \in Step(u).left :
             LET audit == rows["audits"][a] IN
             IF a \in DOMAIN rows["audits"] /\ Legible(audit.finding)
             THEN Then(u, <<Resolve,
                            Insert([run |-> audit.run, demo |-> audit.demo \/ DemoEvidence(audit.finding),
                                    audit |-> a, finding |-> audit.finding]),
                            Promote(Step(u).left \ {a})>>)
             ELSE Raise(u)
    /\ Quiet
    /\ UNCHANGED <<tables, seen>>

InsertOpportunity(u) ==
    /\ Now(u, "insert")
    /\ LET o == Step(u).row
           row == [run |-> o.run, demo |-> o.demo, audit |-> o.audit, finding |-> o.finding,
                   status |-> IF o.demo THEN "Demo Opportunity" ELSE "Approved Opportunity"]
       IN  IF Collides(rows["opportunities"]) \/ (o.demo /\ seen[u] # [id |-> o.run, mode |-> "demo"])
           THEN Raise(u) /\ UNCHANGED rows
           ELSE /\ rows' = [rows EXCEPT !["opportunities"] = With(@, NextId(@), row),
                                        !["findings"] = Marked(@, o.finding,
                                            IF o.demo THEN "Demo Opportunity" ELSE "opportunity_approved")]
                /\ Then(u, <<>>)
    /\ Quiet
    /\ UNCHANGED <<mode, runs, seen>>

\* mark_engineering_ready of a complete form: what traceability_chain finds
\* decides whether it is blocked.
CheckChain(u) ==
    /\ Now(u, "chain")
    /\ LET o == Step(u).opportunity
           opportunity == rows["opportunities"][o]
           audit == rows["audits"][opportunity.audit]
           live == {i \in rows["findings"][opportunity.finding].signals :
                       rows["signals"][i].status # "archived" /\ rows["signals"][i].run = opportunity.run}
       IN  IF /\ o \in DOMAIN rows["opportunities"]
              /\ opportunity.status # "archived"
              /\ opportunity.run = seen[u].id
              /\ opportunity.audit \in DOMAIN rows["audits"]
              /\ Legible(opportunity.finding)
           THEN LET demo == \/ audit.demo \/ rows["findings"][opportunity.finding].demo
                            \/ \E i \in live : rows["signals"][i].demo
                IN  Then(u, IF live # {} /\ (demo => opportunity.demo)
                            THEN <<MarkReady(o, opportunity.demo)>> ELSE <<>>)
           ELSE Raise(u)
    /\ Quiet
    /\ UNCHANGED <<tables, seen>>

MarkEngineeringReady(u) ==
    /\ Now(u, "markReady")
    /\ LET o == Step(u).opportunity IN
       /\ rows' = [rows EXCEPT !["opportunities"] = Marked(@, o,
                       IF Step(u).demo THEN "Demo Engineering Ready" ELSE "Engineering Ready")]
       /\ Then(u, <<>>)
    /\ Quiet
    /\ UNCHANGED <<mode, runs, seen>>

\* generate_executive_brief: the column is_demo is left to its default, 1.
InsertBrief(u) ==
    /\ Now(u, "brief")
    /\ Inserting(u, "briefs", [run |-> seen[u].id, demo |-> TRUE, status |-> "active"], <<>>)
    /\ Quiet
    /\ UNCHANGED <<mode, runs, seen>>
---------------------------------------------------------------------------
(* The system.                                                             *)

Nobody == [u \in Session |-> [id |-> 0, mode |-> "demo"]]
NoRows == [t \in Table |-> [i \in {} |-> {}]]

\* After the first init_db.
Fresh ==
    /\ mode = "demo"
    /\ runs = [r \in {1} |-> [mode |-> "demo", status |-> "active", made |-> 1]]
    /\ rows = NoRows

\* After production has started and each source has been collected once;
\* then, unless the study is still there, after a finding, if the sources are
\* enough for one, and its approval.
Underway ==
    /\ mode = "production"
    /\ runs = [r \in {1, 2} |-> IF r = 1 THEN [mode |-> "demo", status |-> "archived", made |-> 1]
                                ELSE [mode |-> "production", status |-> "active", made |-> 2]]
    /\ \E f \in [1..Cardinality(Source) -> Source] :
          /\ \A i, j \in DOMAIN f : f[i] = f[j] => i = j
          /\ LET collected == [NoRows EXCEPT !["signals"] = [i \in DOMAIN f |->
                        [run |-> 2, demo |-> FALSE, status |-> "active", source |-> f[i]]]]
                 found == [run |-> 2, demo |-> FALSE, status |-> "audited", signals |-> DOMAIN f]
                 approved == [run |-> 2, demo |-> FALSE, status |-> "active", finding |-> 1,
                              decision |-> "Approve Opportunity"]
             IN  \/ rows = collected
                 \/ /\ rows = [collected EXCEPT !["findings"] = [i \in {1} |-> found],
                                                !["audits"] = [i \in {1} |-> approved]]
                    /\ Sufficient(DOMAIN f)

Init ==
    /\ Fresh \/ Underway
    /\ todo = [u \in Session |-> <<>>]
    /\ seen = Nobody
    /\ calls = 0
    /\ erased = FALSE

Request(u) ==
    \/ Visit(u) \/ LoadDemoBatch(u) \/ PullEvidence(u) \/ GenerateFindings(u) \/ RunAudits(u)
    \/ Approve(u) \/ WriteBrief(u) \/ ClearDemo(u) \/ StartProduction(u) \/ StartFresh(u)
    \/ DeleteArchived(u) \/ AuditOne(u) \/ EngineeringReady(u) \/ ArchiveOne(u)
    \/ \E s \in Source : CollectEvidence(u, s)

Commit(u) ==
    \/ ResolveRun(u) \/ InsertHistory(u) \/ CreateRun(u) \/ InsertNewRun(u) \/ SwitchRun(u)
    \/ CloseRun(u) \/ SetStudyMode(u) \/ RestartRun(u) \/ RetireRun(u) \/ ListDemoRows(u)
    \/ ArchiveRow(u) \/ ArchiveAllDemoRuns(u) \/ DeleteArchivedDemo(u) \/ AdmitSignal(u)
    \/ StoreSignal(u) \/ NextOfBatch(u) \/ StartPull(u) \/ NextCandidate(u) \/ GenerateStep(u)
    \/ CollectSignals(u) \/ UpsertFinding(u) \/ InsertFinding(u) \/ RewriteFinding(u)
    \/ AuditBatch(u) \/ ListFindings(u) \/ AuditFinding(u) \/ RecordAudit(u) \/ SelectAudits(u)
    \/ PromoteAudit(u) \/ InsertOpportunity(u) \/ CheckChain(u) \/ MarkEngineeringReady(u)
    \/ InsertBrief(u)

\* The server is restarted: what the sessions had still to do is forgotten.
Crash ==
    /\ \E u \in Session : todo[u] # <<>>
    /\ todo' = [u \in Session |-> <<>>]
    /\ UNCHANGED <<tables, seen, calls, erased>>

Next == Crash \/ \E u \in Session : Request(u) \/ Commit(u)

Spec == Init /\ [][Next]_vars
---------------------------------------------------------------------------
(* Properties.                                                             *)

Run == [mode : Mode, status : {"active", "closed", "archived"}, made : Nat]

RowIn(t) == CASE t = "signals" -> {"run", "demo", "status", "source"}
              [] t = "findings" -> {"run", "demo", "status", "signals"}
              [] t = "audits" -> {"run", "demo", "status", "finding", "decision"}
              [] t = "opportunities" -> {"run", "demo", "status", "audit", "finding"}
              [] t = "briefs" -> {"run", "demo", "status"}

\* Types, and numbers: every run and every row of a table is numbered, and a
\* number is never above the most rows its table has had.
TypeOK ==
    /\ mode \in Mode
    /\ \A r \in DOMAIN runs : r \in Nat \ {0} /\ runs[r] \in Run
    /\ \A x \in Rows : DOMAIN At(x) = RowIn(x[1]) /\ At(x).run \in Nat /\ At(x).demo \in BOOLEAN
    /\ \A u \in Session : seen[u] \in [id : Nat, mode : Mode]
    /\ calls \in 0..MaxCalls /\ erased \in BOOLEAN

\* "Active production run contains no demo records" (golden_study.py:4473),
\* whatever mixture of sessions switches runs while others load evidence: the
\* run a record goes to and the mode its checks saw are the same run's.
\* Executive briefs are left out, and so is what follows a deletion.
NoDemoInProduction ==
    ~erased => \A x \in Rows : x[1] \in Counted /\ At(x).demo =>
                  At(x).run \in DOMAIN runs /\ runs[At(x).run].mode = "demo"

\* A real opportunity has an audit that approved it, of its own finding, in
\* its own run, which is a production run: no interleaving of audits,
\* regenerated findings, archiving and run switches promotes anything else.
RealOpportunity ==
    ~erased => \A o \in DOMAIN rows["opportunities"] : LET row == rows["opportunities"][o] IN
        ~row.demo => /\ row.audit \in DOMAIN rows["audits"]
                     /\ LET audit == rows["audits"][row.audit] IN
                        /\ audit.decision = "Approve Opportunity" /\ ~audit.demo
                        /\ audit.finding = row.finding /\ audit.run = row.run
                     /\ runs[row.run].mode = "production"

\* Beside the run it is in, an audit gives one opportunity for each session
\* at most: a query that ran before the other's insert is the only way to a
\* second one, and a crash or a repeated click adds none.
OppsPerAudit ==
    ~erased => \A a \in DOMAIN rows["audits"] :
        Cardinality({o \in DOMAIN rows["opportunities"] : rows["opportunities"][o].audit = a})
            <= Cardinality(Session)

\* However the sessions' switches meet, at most one run for each session is
\* active while nothing has been deleted.
ActiveRunsNearOne == ~erased => Cardinality(Active) <= Cardinality(Session)

\* "Production records cannot be deleted here" (streamlit_app.py, beside the
\* button of DeleteArchived): no row of a production run ever disappears.
ProductionKept ==
    [][\A x \in Rows : At(x).run \in DOMAIN runs /\ runs[At(x).run].mode = "production"
                          => x[2] \in DOMAIN rows'[x[1]]]_vars
=============================================================================
