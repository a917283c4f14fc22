------------------------------ MODULE RbeExport ------------------------------
(***************************************************************************)
(* The review bundle (rbe_runtime/artifacts.py): an export is one read of  *)
(* the database after another, with commands committing in between, then   *)
(* one file after another, into a directory that may hold the remains of   *)
(* earlier exports or be the target of another one.                        *)
(*                                                                         *)
(* A session is exported once it has a candidate, so the model starts with *)
(* the first one, or later.  What can still change are the tables of Table; *)
(* assignments, evidence, reports and findings are of the past, and their  *)
(* files alike in every export.  The commands are those of ReviewBoard,    *)
(* each committed as it is asked for.                                      *)
(***************************************************************************)
EXTENDS RbeRegister, Naturals, Sequences, FiniteSets

CONSTANTS
    Exporter,    \* processes that export the session into the directory
    None,        \* no decision, no publication
    MaxCommits,  \* bound: commands that run beside the exports
    MaxExports   \* bound: exports started

ASSUME ExporterAssumption == IsFiniteSet(Exporter) /\ Exporter # {}
ASSUME NoneAssumption == None \notin Nat
ASSUME ExportBounds == MaxCommits \in Nat /\ MaxExports \in Nat

VARIABLES
    tables,   \* the session's rows, by table; audit is the log of all commits
    files,    \* the output directory: path to content, NoFile where there is none
    export,   \* what each exporter is doing: reads done, copies, files to write
    commits,  \* commands committed so far
    exports   \* exports started

vars == <<tables, files, export, commits, exports>>

\* The order of the reads in export(), and of the files, sorted by path.
ReadsAuditFirst ==   \* a mutant: the log before what it should account for
    <<"session", "plans", "audit", "candidate", "decision", "ratification", "publication",
      "verification">>

Reads == <<"session", "plans", "candidate", "decision", "ratification", "publication",
           "audit", "verification">>

Paths == <<"audit.jsonl", "bundle-manifest.json", "decision.json",
           "package-manifest.json", "remediation-plans.json", "review-report.md",
           "session.json">>

Table == {"session", "plans", "candidate", "decision", "publication", "audit"}
Artifact == {Paths[i] : i \in DOMAIN Paths} \ {"bundle-manifest.json"}

\* What is at a path where there is no file; a file holds named parts.
NoFile == [missing |-> TRUE]
---------------------------------------------------------------------------
(* The session while it is exported.                                       *)

Status == tables.session

\* One transaction: a table is changed and the audit log says so.
Commit(table, value) ==
    /\ commits < MaxCommits
    /\ commits' = commits + 1
    /\ tables' = [tables EXCEPT ![table] = value,
                                !.audit = Append(@, [table |-> table, value |-> value])]
    /\ UNCHANGED <<files, export, exports>>

PrepareCandidate ==
    /\ Status \in {"CONSOLIDATION", "BLOCKED"}
    /\ Commit("candidate", tables.candidate + 1)

\* Admitted while no candidate was there, committed after one.
SubmitPlanLate ==
    /\ Status = "CONSOLIDATION"
    /\ Commit("plans", tables.plans + 1)

\* Decision and ratification are saved together.
Ratify ==
    /\ Status = "GOVERNANCE_VALIDATION"
    /\ tables.decision = None
    /\ Commit("decision", tables.candidate)

Publish ==
    /\ Status = "DECIDED"
    /\ tables.decision # None
    /\ tables.publication = None
    /\ Commit("publication", tables.decision)

Advance(target) ==
    /\ <<Status, target>> \in Transitions
    /\ target = "DECIDED" => tables.decision # None
    /\ target = "PUBLISHED" => tables.publication # None
    /\ Commit("session", target)
---------------------------------------------------------------------------
(* An export.                                                              *)

Idle == [phase |-> "idle", copies |-> <<>>, written |-> 0, alone |-> FALSE]

Copy(e, table) == export[e].copies[CHOOSE i \in DOMAIN Reads : Reads[i] = table]

Busy(e) == export[e].phase \in {"reading", "writing"}

\* Nobody else is at it: for the property, an export has the directory to
\* itself as long as no other begins.
Begin(e) ==
    /\ ~Busy(e)
    /\ exports < MaxExports
    /\ exports' = exports + 1
    /\ export' = [x \in Exporter |->
                    IF x = e THEN [phase |-> "reading", copies |-> <<>>, written |-> 0,
                                   alone |-> \A y \in Exporter \ {e} : ~Busy(y)]
                    ELSE [export[x] EXCEPT !.alone = FALSE]]
    /\ UNCHANGED <<tables, files, commits>>

\* A ratification is of the decision it is saved with, and verify_audit reads
\* the log again.
Seen(i) == CASE Reads[i] = "ratification" -> tables.decision
             [] Reads[i] = "verification" -> Len(tables.audit)
             [] OTHER                     -> tables[Reads[i]]

ReadNext(e) ==
    /\ export[e].phase = "reading"
    /\ LET i == Len(export[e].copies) + 1
       IN  export' = [export EXCEPT ![e].copies = Append(@, Seen(i)),
                                    ![e].phase = IF i = Len(Reads) THEN "writing" ELSE @]
    /\ UNCHANGED <<tables, files, commits, exports>>

\* What a file holds of the copies.
Content(e, path) ==
    LET of(names) == [t \in names |-> Copy(e, t)]
    IN  CASE path = "audit.jsonl"            -> of({"audit"})
          [] path = "decision.json"          -> of({"candidate", "decision", "ratification", "publication"})
          [] path = "package-manifest.json"  -> of({"candidate"})
          [] path = "remediation-plans.json" -> of({"plans"})
          [] path = "session.json"           -> of({"session"})
          [] path = "review-report.md"       ->
                of({"session", "plans", "candidate", "decision", "publication", "verification"})

\* The digests of the artifacts, which tell their contents apart.
Manifest(e) == [path \in Artifact |-> Content(e, path)]

WriteMissing(e) ==   \* a mutant: a file that is already there is kept
    /\ export[e].phase = "writing"
    /\ LET n == export[e].written + 1
           path == Paths[n]
       IN  /\ files' = IF files[path] # NoFile THEN files
                       ELSE [files EXCEPT ![path] = IF path = "bundle-manifest.json"
                                                    THEN Manifest(e) ELSE Content(e, path)]
           /\ export' = [export EXCEPT ![e].written = n,
                                       ![e].phase = IF n = Len(Paths) THEN "done" ELSE @]
    /\ UNCHANGED <<tables, commits, exports>>

\* A temporary file, renamed over the path.
WriteFile(e) ==
    /\ export[e].phase = "writing"
    /\ LET n == export[e].written + 1
           path == Paths[n]
       IN  /\ files' = [files EXCEPT ![path] = IF path = "bundle-manifest.json"
                                               THEN Manifest(e) ELSE Content(e, path)]
           /\ export' = [export EXCEPT ![e].written = n,
                                       ![e].phase = IF n = Len(Paths) THEN "done" ELSE @]
    /\ UNCHANGED <<tables, commits, exports>>

\* The process ends before its export does; the files it wrote stay.
Crash(e) ==
    /\ Busy(e)
    /\ export' = [export EXCEPT ![e] = Idle]
    /\ UNCHANGED <<tables, files, commits, exports>>

\* ArtifactExporter.verify
Verifies ==
    LET manifest == files["bundle-manifest.json"]
    IN  /\ manifest # NoFile
        /\ \A path \in Artifact : files[path] # NoFile /\ files[path] = manifest[path]
---------------------------------------------------------------------------
\* A session with its first candidate, as far as status.
Entry(table, value) == [table |-> table, value |-> value]

Until(status) ==
    LET log == <<Entry("candidate", 1), Entry("session", "GOVERNANCE_VALIDATION"),
                 Entry("decision", 1), Entry("session", "DECIDED")>>
        entries == CASE status = "CONSOLIDATION" -> 1
                     [] status = "GOVERNANCE_VALIDATION" -> 2
                     [] status = "DECIDED" -> 4
    IN  [session |-> status, plans |-> 0, candidate |-> 1,
         decision |-> IF status = "DECIDED" THEN 1 ELSE None, publication |-> None,
         audit |-> SubSeq(log, 1, entries)]

Init ==
    /\ tables \in {Until(s) : s \in {"CONSOLIDATION", "GOVERNANCE_VALIDATION", "DECIDED"}}
    /\ files = [path \in {Paths[i] : i \in DOMAIN Paths} |-> NoFile]
    /\ export = [e \in Exporter |-> Idle]
    /\ commits = 0
    /\ exports = 0

Command ==
    \/ PrepareCandidate
    \/ SubmitPlanLate
    \/ Ratify
    \/ Publish
    \/ \E target \in States : Advance(target)

Next ==
    \/ Command
    \/ \E e \in Exporter : Begin(e) \/ ReadNext(e) \/ WriteFile(e) \/ Crash(e)

Spec == Init /\ [][Next]_vars
---------------------------------------------------------------------------
(* Properties.                                                             *)

TypeOK ==
    /\ tables.session \in States
    /\ {tables.plans, tables.candidate} \subseteq 0 .. MaxCommits + 1
    /\ tables.decision \in (1 .. tables.candidate) \cup {None}
    /\ tables.publication \in {tables.decision, None}
    /\ Len(tables.audit) \in 1 .. MaxCommits + 4
    /\ \A e \in Exporter :
          /\ export[e].phase \in {"idle", "reading", "writing", "done"}
          /\ Len(export[e].copies) \in 0 .. Len(Reads)
          /\ export[e].written \in 0 .. Len(Paths)
    /\ commits \in 0 .. MaxCommits
    /\ exports \in 0 .. MaxExports

\* What a log says was written to a table, last of all.
Announces(log, table, value) ==
    value \in {log[i].value : i \in {j \in DOMAIN log : log[j].table = table}}

\* The exported log accounts for all that is exported with it, however the
\* commands ran between the reads: no record is in the bundle before its
\* entry is, and a state that was reached with a decision or a publication
\* is exported with it.
BundleAccounted ==
    \A e \in Exporter : export[e].phase \in {"writing", "done"} =>
        LET log == Copy(e, "audit")
        IN  /\ \A t \in {"candidate", "decision", "publication"} :
                  Copy(e, t) # None => Announces(log, t, Copy(e, t))
            /\ Copy(e, "decision") # None => Copy(e, "ratification") = Copy(e, "decision")
            /\ Copy(e, "session") # "CONSOLIDATION" => Announces(log, "session", Copy(e, "session"))
            /\ Copy(e, "session") \in {"DECIDED", "PUBLISHED"} => Copy(e, "decision") # None
            /\ Copy(e, "session") = "PUBLISHED" => Copy(e, "publication") = Copy(e, "decision")

\* Whatever crashed or overlapping exports left behind, an export that had
\* the directory to itself leaves a bundle that verifies and is its own.
ReexportRepairs ==
    \A e \in Exporter : (export[e].phase = "done" /\ export[e].alone) =>
        /\ Verifies
        /\ \A path \in Artifact : files[path] = Content(e, path)
=============================================================================
