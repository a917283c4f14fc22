# Project Xchange in TLA+

TLA+ models of Project Xchange, the TLC runs that check them on small
instances, and TLAPS proofs of what should hold on all of them. `PROJECT.json`
is the index: components, runs, mutants, the source lines of every definition,
the hazards, the findings and the theorems.

    tlc -config MCRbeStore.cfg MCRbeStore        # check a run
    tlapm RbeStore_proofs.tla                    # check the proofs of a module

## 1. The system

Project Xchange is a Python application in which automated "workers" research,
audit and store market evidence, with a governance runtime, the Review Board
Engine (RBE), that takes a document package through a formal review. The parts
share SQLite files and little else.

| Component | State it keeps | Operations | Talks to |
|---|---|---|---|
| RBE store, `rbe_runtime/repository.py` | sessions with a version, packages, assignments, evidence, reports, findings, plans, candidates, decisions, publications, idempotency keys, a hash-chained audit log | create, transition, register evidence, respond, report, plan, candidate, decide, publish; verify_audit; reads | SQLite, one connection per call |
| RBE service, `rbe_runtime/service.py` | none: every call reads the store | initiate, register_evidence, resubmit, respond, submit_report, submit_remediation_plan, prepare, ratify, publish, advance | the store (several reads, then one command), the decision engine, the authority packages |
| Decision engine, `rbe_runtime/decision.py` | the compiled rules of one profile | evaluate | called by the service |
| Lifecycle register, `state_machine.py` and `registers/state_machine.json` | 24 states, 30 transitions | require_transition | called by service and store |
| Controlled authority, `controlled_authority/` | document packages on disk | evaluate_outcome, validate_decision_bundle, package checks | called by publish_decision and by the build scripts |
| Artifact export, `rbe_runtime/artifacts.py` | a directory of files with a manifest | export, verify | reads the store, writes files |
| EOS job engine, `project_exchange/eos.py` | jobs with a status, retries and a history; worker statuses; events and logs | create, start, complete, fail, retry, cancel, resume, execute/dispatch | calls the workers; nested jobs |
| Workers, `workers/` | research, audit and library records | scan, audit, store, re-decide | called by dispatch_job and by the UI |
| Head of Functions, `head_of_functions.py` | execution plans with lists of jobs | create, attach, complete a plan | creates and executes jobs |
| Prompt engine, `components/comp_001_prompt_engine` | prompts and their versions, tests | create, edit, approve, roll back, test | called by dispatch_job and by the UI |
| Golden Study, `golden_study.py` | a study's mode and runs; per run signals, findings, audits, opportunities, briefs | add or pull evidence, generate findings, audit, approve, mark engineering ready, write a brief, archive, delete, switch runs | UI; the evidence gate in the same file |
| SV engine, `sv_engine/` | stored executions | load and check a handoff, assess claims, categories, gates and scenarios, decide, plan, store | CLI |
| UI and HTTP, `streamlit_app.py`, `foundry_api.py` | browser session state | render, call the above | everything |

### What is hard about it

* The store serialises its commands with SQLite's write lock, but the service
  checks **before** the command, on other connections. Between the check and
  the commit any number of other clients commit. This is where most of the
  RBE's hazards are.
* A caller whose answer is lost repeats the call. The store remembers
  idempotency keys; the service rebuilds the command from what it reads now.
* A process may die between any two statements.
* The outcome is computed twice by independent code, and must agree.
* The job engine has no transaction around an operation: status, worker,
  events, log and history are separate commits, without guards, and identifiers
  are row counts.
* The Golden Study works the same way, and its handlers go on with the run they
  looked up first while another session archives or replaces it.
* An export reads a moving database a dozen times and then writes a directory
  file by file.
* The evidence gate and the SV engine are pure, but they are chains of tests,
  thresholds, caps and averages, in which one more fact may tip a decision the
  wrong way.

The full list, each at its line and with the properties that watch it, is
`hazards` in `PROJECT.json`.

### What would make each component correct

* **Store**: commands take effect one at a time and at most once per key; a
  refused command changes nothing but the log; the log is a chain, grows only,
  and replays to the session; an answer given is durable; the lock is released.
* **Service**: no phase opens before the one before it is complete; records are
  written in their phase and never replaced; a candidate is decided on the
  findings as they are; what is published is what was signed, once.
* **Callers**: a repeated call acts at most once, and its answer is true.
* **Decision engine**: the rules always decide, agree with the second
  evaluator, and are monotone in findings and plans.
* **Export**: the log in a bundle accounts for every record in it; an
  undisturbed export repairs what an interrupted one left.
* **Golden Study**: demo and production evidence never meet in a production
  run; a real opportunity rests on an approving audit of real evidence; races
  cost at most one extra row for each session. **Evidence rules**: nothing a
  text admits against itself makes it acceptable, a refusal is explained, and
  corroboration never costs an approval.
* **SV engine**: a BUILD verdict rests on approved evidence for every required
  claim; doubt never improves a verdict, and good evidence never worsens one.
* **Job engine and pipeline**: nothing is left running that nobody runs,
  retries stay near their budget, the research, audit and library tables agree,
  and only approved records are stored.

## 2. The modules

| Module | Models | State |
|---|---|---|
| `RbeRegister` | the canonical lifecycle register | none (data) |
| `RbeCommand` | a database value of one session and what one command does to it, as operators: `Accepts`, `Apply`, `Remember`, `Reject`, `Perform` | none |
| `RbeLedger` | **abstract**: every command takes effect in one step | `db` |
| `RbeStore` | `_run_idempotent`, statement by statement, in several processes that may die | `db`, `writer` (the lock), and per process `pc`, `call`, `tx` (its uncommitted copy), `answer` |
| `RbeClient` | callers of `advance` and `register_evidence` that lose answers and retry, on the canonical register | `db`, the clock, and per call what it wants, its step, the command it built, reply, tries |
| `RbeDecision` | the profile's rules, the engine's evaluation, and `evaluate_outcome` | none |
| `RbeFindings` | the record a decision is made on as it accumulates | findings, remediated ids, sufficiency |
| `ReviewBoard` | the whole review: every service method as a check action and a commit action | the session's records, and `inflight`, the requests that passed their checks and have not committed |
| `EosJobs` | the job engine and the research pipeline in it, one action per commit, used by several browser sessions | jobs, worker statuses, research, audit and library rows, and per session `todo`, the commits it has still to make |
| `RbeExport` | the exporter read by read and file by file, the commands that commit meanwhile, crashes, and `Verifies` | the session's tables and log, the directory, per exporter its phase and copies |
| `GoldenStudy` | the study's runs and evidence pipeline, one action per commit, used by several browser sessions | mode, runs, rows by table, per session `todo` and `seen`, the run it last looked up |
| `StudyRules` | the evidence gate, clusters and their confidence, opportunity scores and the audit's decision, as operators | none |
| `StudyEvidence` | a text and a finding's signals that grow under `StudyRules` | text, signals, category |
| `SvRules` | the SV engine's rule set and `evaluate`, as operators | none |
| `SvCases` | the repository's five fixture handoffs | none (data) |
| `SvEngine` | an author edits a handoff and has it evaluated and stored | handoff, stored executions |
| `RbeStore_proofs`, `RbeClient_proofs`, `ReviewBoard_proofs`, `RbeExport_proofs`, `EosJobs_proofs`, `GoldenStudy_proofs`, `StudyEvidence_proofs`, `SvEngine_proofs` | the inductive invariant, lemmas and theorems of the module they are named after; `ReviewBoard_proofs` also has those of `RbeFindings` | none |

`RbeStore` and `RbeClient` extend `RbeCommand`; `RbeStore` instantiates
`RbeLedger` as its abstract specification (`Ledger == INSTANCE RbeLedger WITH
db <- db`: the mapping forgets the lock, the processes and their copies).
`ReviewBoard` extends `RbeRegister` and `RbeDecision`, `RbeExport` extends
`RbeRegister`. `StudyEvidence` extends `StudyRules`; `SvEngine` extends
`SvCases`, which extends `SvRules`. `EosJobs` and `GoldenStudy` stand alone:
their tables are not read by each other's operations.

An operator whose comment says *a mutant* is not part of the model. It stands
next to the definition it is a faulty form of and is there to show that a
property can fail: put in the definition's place, it makes TLC report the
property (`mutants` in `PROJECT.json`).

### How the state corresponds to the code

*Store.* `db.status` and `db.version` are the columns of `review_sessions`,
`db.evidence` the primary keys of `evidence_references`, `db.idem` and
`db.audit` the rows of the tables of those names. A process goes from *called*
to `BEGIN IMMEDIATE` (*open*), to the operation inside its savepoint
(*executed*), to the idempotency row (*recorded*), to `COMMIT` (*answering*);
a refusal or a conflict goes to *refused* and commits its audit row. `Crash`
may happen anywhere. `canonical_hash` is an injective function: an entry's hash
is the sequence of contents it commits to.

*Service.* A method reads several rows and then calls one command. Its reads
and its checks are one action, its command is another, and everything else may
happen in between. `prepare_decision_candidate` has three actions, because it
reads the plans twice. The store's command is atomic here, which is what
`RbeStore` establishes; the idempotency and audit rows are left to it.
`Drop` takes a request off `inflight` for every way it may come to nothing.
`version` is abstracted to a flag: a transition request is `current` until the
next transition commits, which is what the compared `aggregate_version` does.

*Job engine.* A session runs one call at a time: `todo[u]` is the rest of its
program, one element for each commit, and the next element's action makes that
commit and may put more before the rest. A nested `execute_job` is therefore a
prefix of its parent's program, and its `complete` element marks where its
`try` ends: an exception goes to the first one, as `Raise` says. A row is its
position in its table, since identifiers are counted. Counting and inserting
are two steps: Python's `sqlite3` opens its transaction at the first `INSERT`,
after the `SELECT COUNT`. Jobs, research, audits and library rows are never
deleted by the code.

*Export.* `Reads` is the order of the reads in `export`, `Paths` the order in
which the files are written. What is read is a version of a table, what is
written a digest of it. The manifest's outcome comes from the candidate and its
`merge_permitted` from a later read of the decision; the report takes the
number of entries from a second read of the log. `verify` compares the files
with the manifest, and success means no more.

*Golden Study.* `todo[u]` is a program of commits, as in `EosJobs`. Runs and
rows are numbered, and a number is the row count plus one, so that it may be
taken after a deletion. A count and the insert it is for are one step: a session
whose insert collides changes nothing. `seen[u]` is what
`get_active_study_run` last returned to it. Every page visit looks up or
creates the run and seeds the first one, as `init_db` does.

*Evidence rules.* A text is the set of phrases that the keyword lists tell
apart, written once for each class of lists they belong to. Scores are
integers; a rounded average is computed with its rounding.

*SV engine.* A handoff is a record of its sections; a credit, a score and an
adjustment are hundredths, and means keep the four digits the code keeps. The
model is exact where the code uses floats: on the values of the runs they
agree, except that a difference of adjustments that equals the tolerance of
0.30 exactly may come out above it in floating point.

### Abstractions

* A report carries at most one finding, and a plan document one plan.
* Metadata that `advance` demands of its caller can always be supplied.
* Counter-evidence is not modelled, so two candidates may look alike.
* Texts, signatures, schemas and checksums are not modelled; they depend on
  the arguments of one call only.
* Evidence is never withdrawn from the store, as in the code.
* A job's history, the events, logs, messages and edges are left out: they are
  written and listed, and no operation depends on them.
* What research finds and what an audit decides is a choice.
* A statement of the job engine does not time out on SQLite's lock (5 seconds);
  each of its transactions is a few statements.
* The page buttons give a job its own operator; only the manual form chooses.
* Evidence in `GoldenStudy` has passed the gate and is told apart by its source;
  all of it belongs to one category. Creation times order the runs.
* In `RbeExport` assignments, evidence, reports and findings are of the past.
* In `SvEngine` an edit changes one field of one part; two of the fixtures'
  value kinds are written as `OBSERVED`, as no rule tells them apart.

## 3. What is checked

| Run | Bounds | What it shows |
|---|---|---|
| `store` | two processes, two keys, one reference, a register with a cycle and a terminal state, a log of 4 rows | serialisation, the chain, replay, once per key, durable answers, refusals only audit, append only, the refinement to `RbeLedger`, and that the lock is always released |
| `client` | four calls, two tries each, two clock readings, five log rows | at most one effect per call, true answers |
| `findings` | three findings | totality, agreement of the two evaluators, monotonicity |
| `review` | two specialists, SR and MA; two requests in flight, two packages, two candidates | phases are earned, reports in order, sound candidates, published as signed, commits in phase, records only added |
| `export` | two exporters, two exports, two commands beside them, from any of three phases | the bundle's log accounts for its records; an undisturbed export repairs the directory |
| `eos` | two sessions, three calls of which two execute a job, one retry per job, two decisions, record number 1 typed by hand | no run left unfinished, the retry budget, lineage, statuses that are backed by rows |
| `golden` | two sessions, two sources, findings need both, three operations from a fresh study, from collected evidence or from an approving audit | no demo evidence in production, real opportunities, opportunities per audit, active runs |
| `rules` | 19 phrases, texts of up to five; findings of 1, 2, 7 or 8 signals and two more; two trusts, two strengths, both categories | no laundering, refusals explained, corroboration helps |
| `sv` | five handoffs, two edits before an evaluation, credits 60 and 95, adjustments -0.76, -0.30 and 0.30, costs below and above the learning they buy | grounded verdicts, monotonicity in doubt and in evidence |

Why the bounds are enough: two processes are all that can meet at one lock, and
two keys with one reference give every combination of same or other key with
same or other payload; four log rows hold a creation, a transition, a refusal
and a retry. Four calls let a session go round the cycle SUBMITTED,
INTAKE_VALIDATION, RETURNED while a lost call waits, so that its target is
reachable again. Three findings are one more than any rule counts. Two requests
in flight are a check and the commit that overtakes it; two packages and two
candidates are one and its successor. Two executed jobs are two whole
pipelines side by side, colliding at every identifier, or one job run twice at
once; the third call retries, cancels, resumes, restarts, re-decides or creates
at any point of them. Two exporters and two commands give every order of a
record's commit, the read of its table, the read of the log and the other's
writes. Two sessions with three operations are a slow one and two that overtake
it; the starting states put the interesting end of the pipeline within that
reach. The phrases of `rules` hold one for every list of keywords, so five of
them are a text that qualifies and one thing against it; 2 and 7 signals are one
below, 8 the number at which a count's threshold or cap is met. In `sv` a
property compares a handoff before and after one edit, and two edits let the
comparison start off the fixtures; `Ids` are two, one for each edit that may add
an item. The bounds (`MaxAudit`, `MaxTries`, `MaxClock`,
`MaxCalls`, `MaxRuns`, `MaxInFlight`, `MaxPackages`, `MaxCandidates`,
`MaxCommits`, `MaxExports`, `MaxPhrases`, `MaxAdded`, `MaxEdits`) are constants
named in the modules.

Every module with state has a `TypeOK` that says what its variables hold. The
runs check those of the store, the review and the rules, whose values a
plausible mistake would break; the others were checked once with the same
configurations. Those of the store, the findings, the review, the job engine, the
study, the evidence rules and the SV engine are also theorems.

Symmetry: sessions, sources, exporters, calls, references and findings are
interchangeable in the runs that declare it; `store` checks a liveness property
and declares none.

Deadlock is not checked in `client`, where all calls end, nor in the runs of
`ReviewBoard`, where a review ends ARCHIVED, VOID or WITHDRAWN, nor in those of
the other modules, where the bounded operations run out.

Fairness. `RbeStore!FairSpec` assumes that a transaction that has begun goes
on: it is straight-line code in one process. Callers need not call, and a
crash is never required. `ReviewBoard` states no liveness:
its clients are people, who need not act; so are those of the job engine and the
study, and a server that dies leaves their programs undone for good.

### Where the code departs from what it says

Three statements have a run that TLC finds violated; `findings` quotes the lines.

| Run | Statement | What happens |
|---|---|---|
| `decision_reproducible` | pinned inputs reproduce the decision | a plan checked before the candidate commits after it; the signed decision cannot be published any more |
| `remand` | the REMANDED dead end is closed | ASSIGNMENT is the dead end now |
| `golden_kept` | the delete button deletes archived demo data only | a production brief is stored as demo data, by a column default, archived and deleted with it |

Met while modelling, and described here without a run of their own:

* *Review.* Evidence whose registration passed the check commits after the lock
  (`service.py:154`; line 164 says it cannot). In CONSOLIDATION a BLOCKED
  candidate is followed by a READY one without resolution evidence
  (`service.py:545`; line 554 asks for it). A retried `advance` that was applied
  is refused before the store is asked for its key (`service.py:815`;
  `docs/rbe-runtime/README.md:114` promises the original result). An SR or MA
  report may commit after CHALLENGE, and a plan may be listed in a candidate's
  manifest and absent from its outcome. A seat that declined is never replaced.
  A reassessment finds every specialist COMPLETED and goes straight through.
* *Export.* A ratification may be exported without its decision, which was read
  before both were saved; evidence files of an earlier export stay beside the new
  ones; two exporters share the name of the temporary file.
* *Jobs.* A decision changed between the Library's check and its insert is not
  seen: a rejected audit is stored (`library_manager.py:16`). An approved one
  can be stored twice. `attach_job_to_plan` of the Head of Functions can lose
  one of two attachments.
* *Study.* Two sessions may each start a run; `golden_study.py:4456` says only
  one is active. Deleting the archived first run lets the next page seed it
  again, active; a count below the highest number makes every later insert
  collide. A finding may be regenerated from other evidence while its audit is
  written, and is then open again. A pull stops midway at the first source that
  is refused. The dashboard's "Ready for finding generation"
  (`golden_study.py:2440`) asks for less than a finding does, and the audit's
  "Reject" cannot be reached.
* *SV engine.* `docs/sv_engine_v1_implementation.md:93` says VALIDATE FURTHER
  always comes with missing evidence and a plan; a claim supported in its
  category and not linked to the gate leaves both empty (`assessment.py:341`).
  `assessment.py:92` says negative evidence lowers the category's confidence; a
  flagged item only leaves the average, which may rise. Rejecting a flagged item
  does not clear its contradiction. The rule against a BUILD on the upside
  scenario alone is never reached. A stored record lacks the claims, and cannot
  be evaluated again from itself.

The races between a check and a commit are unlikely at human speed, but nothing
excludes them.

`RetriesNearBudget` is weaker than the budget on purpose: `retry_job` can pass
`max_retries`, by one for each other session that read it at the same time.
`ActiveRunsNearOne` and `OppsPerAudit` are of the same kind: one, and one more
for each other session that looked before the insert. The study's invariants are
stated for histories in which nothing was deleted.

## 4. What is proved

A run shows a property on its instance; the theorems of this section hold for
every value of the constants: any number of processes, sessions, callers, keys,
findings, sources, any bound, and any register that satisfies the named
assumptions. Each `*_proofs` module is laid out the same way: an inductive
invariant `Inv` as a conjunction of named parts, lemmas about the operators of
the model, one lemma for each action (or for each family of actions that write
alike), `InitInv`, `NextInv`, `Invariance`, and then the theorems, each from
`Inv` alone or, for an action property, from `Inv` and one step. Every `Inv` was
checked by TLC on the component's run before it was proved.

**The store** (`RbeStore_proofs`). The inductive invariant is `TypeOK`, `Serial`
and a predicate on the committed database. `Serial` is the heart: a process in a
transaction holds the lock, and its copy is the committed database or the result
of its command on it. Without it nothing could be said of what `Commit`
publishes. With it, `Commit` is one `Perform` on the database, so the database
part of the invariant (the chain, replay to the session, a legal path of the
register) need only be shown preserved by `Perform`, by cases on the command;
and every step of the store is a step of `RbeLedger` or leaves `db` alone, which
is the refinement. On top of it come two histories. `Answered`: a process that
was told *applied* has an audit row and an idempotency row that say so, which
stay because rows only accumulate. `Balanced`: applied rows of the log and
remembered keys correspond one to one. Theorems: `TypeCorrect`, `Serialised`,
`AuditAlwaysLinked`, `AuditAlwaysReplays`, `StoreImplementsLedger`,
`LogNeverShrinks`, `RefusalsOnlyAudit`, `AnswersAreDurable`,
`NothingAppliedTwice`.

**The decision rules** (the last section of `ReviewBoard_proofs`), for any set of
finding identities: the rules are total (`AlwaysTotal`), the evaluators agree
(`AlwaysAgrees`), findings never help (`NoFindingHelps`) and plans never hurt
(`NoPlanHurts`); `RecordTypeCorrect` is what they start from. The arguments are
about the cardinalities of the sets of unresolved and remediated findings, of
which at most one grows in a step.

**Callers** (`RbeClient_proofs`): `RetriesApplyOnce` and `RetriesAnswerTruly`.
Two attempts of one call build different payloads, because the clock moves and
the version they read may differ, so it is not the payload that makes a call
idempotent. `Counted` says that a call's key has a row exactly when the call has
changed the session, `Built` that every attempt of a call asks under the same
command name and key, `Truthful` what each reply means.

**The review** (`ReviewBoard_proofs`). A request is checked in one step and
committed in another, so the invariant has a part, `RequestsBacked`, for what a
request in flight can still count on when it commits: what its check read and no
other commit takes back. The rest is `TypeOK`, `PhasesEarned`,
`ReportsInOrder`, `PublishedAsSigned` and `CandidatesDecided`: once a candidate is
READY every seat has reported, so the findings it was decided over are the
findings for ever. Theorems: `TypeCorrect`, `PhasesAreEarned`,
`ReportsKeepOrder`, `CandidatesAreSound`, `PublicationsAsSigned`, and the action
properties `CommitsKeepPhase` and `RecordsAreKept`.

**The export** (`RbeExport_proofs`): `BundlesAccounted` and `ReexportsRepair`.
`Logged` says that the log accounts for every record of the tables, and
`Accounted` that a copy is of a state the log read later accounts for: the
exporter reads the log last, and both only grow. `Progress` ties an exporter's
position to what it has copied, and `Undisturbed` says that one that began alone
still is and finds its files as it wrote them.

**The job engine** (`EosJobs_proofs`): `TypeCorrect`, `RunsAreFinished`,
`RetriesStayNear`, `LineageHolds`, `StatusesAreBacked`. Here the invariant is
mostly about programs, the commits the sessions have still to make.
`ProgramsSound` says what each element may count on when it is reached (the row
it updates exists, the record it audits was there), `ProgramsOrderly` in which
order elements can stand: what starts a run or engages an operator is followed by
what ends it, nothing others wait for is skipped when an exception unwinds through
nested jobs, and a retry is spent by a program that does nothing else. With these,
`NothingLeftRunning`, `RetriesNearBudget`, `Lineage` and `StatusBacked` are
inductive: what is shown Running has its end in some program, and a job's retries
and the sessions about to spend one are counted together.

**The study** (`GoldenStudy_proofs`): `TypeCorrect`, `NoDemoMixing`,
`OpportunitiesAreReal`, `FewOpportunities`, `FewActiveRuns`. As long as nothing
is deleted, `Evidence` holds. `TablesSound`: a row is demo exactly when its run
is, a finding's signals are of its run, an opportunity agrees with its audit;
this is what stays true whoever commits in between, since a run keeps its mode
and a row its run and kind. `ProgramsSound` says the same of the rows a session
carries in its program, `SeenSound` that the run a session saw is there with the
mode it saw and that an admitted signal is of that kind. `StartsBounded` and
`PromotionsBounded` count: active runs and the sessions about to insert one are
together no more than the sessions, and so are the opportunities of an audit and
the sessions that hold a promise of one. They need `ProgramsOrderly` (the insert
follows its look at once, and no program promises an audit twice).

**The evidence rules** (`StudyEvidence_proofs`), for texts of any number of
phrases and findings of any number of signals: `TypeCorrect`,
`RefusalsExplained`, `NothingLaundered`, `MoreEvidenceHelps`. The state's own
invariant is small (a text of phrases, a sequence of signals the gate accepts);
the work is in lemmas about the operators.

* A text gets the class of the first rule that holds, the least index of a set.
  `SourceType` and `ProductionClass` spell the two chains out. Then an accepted
  text can contain no self-serving phrase but "pricing", "reddit" and
  "research", and those only behind an earlier source rule (a court, an
  ombudsman, ...) that holds without them too (`SelfServingRefused`).
* A total is a fold of the community modules, which takes an arbitrary element
  first. It is shown to exist and not to depend on that choice (`SumExists`,
  `SumExchange`) by an induction over subsets with the set of those for which the
  claim holds in the place of a predicate (`SubsetInduction`), from well-foundedness
  of the numbers. `TotalsGrow` is what the rest uses: a signal adds its own value.
* Rounding is monotone in the fraction, halves to even included
  (`RoundMonotone`), so no average falls when a signal at least as good comes in
  (`AverageTrustGrows`, `ConfidenceGrows`). A count never falls (`CountsGrow`),
  the scores are made of these by monotone operators (`ScoresGrow`), and so is the
  confidence of the audit (`OciMonotone`).

**The SV engine** (`SvEngine_proofs`), for any handoffs of the right types, any
edits and any number of evaluations: `TypeCorrect`, `VerdictsAreGrounded`,
`DoubtHelpsNoVerdict`, `EvidenceHurtsNoVerdict`. The invariant is `TypeOK /\
VerdictGrounded`, and an execution is grounded when it is stored; the work is in
the rules.

* *Typing.* An edit is a chain of `EXCEPT`s on a record whose sections have types
  of their own. For each edit a lemma says that what it makes is a handoff again
  (`FlagProper` to `AddProper`, over `ItemStays`, `ClaimStays` and
  `ScenarioStays`).
* *The verdict.* `DetermineLemma`, `ScenarioLemma`, `ReconcileLemma` and
  `MaterialLemma` say what each step of `evaluate` answers, and `EvaluateLemma`
  puts them together: which assessment gives which verdict.
  `EvaluateGrounded` reads from it, down through gates, claims and items, what a
  BUILD takes. `RankMonotone` compares: if every reason to refuse the one handoff
  is one to refuse the other, and the other is clear of open gates, weak categories
  and contradictions, with no lower score, wherever the one is, then its verdict is
  no worse, in each scenario and after they are reconciled. It is used in both
  directions.
* *The scores.* Sums over categories and over items are compared term by term
  (`TotalMonotone`, `TotalAdd`) with the same account of a fold as in the evidence
  rules; the lemmas are repeated there, since the two sums add different things.
  `ScoresGrow` is about the weighted score and the overall confidence.
* *Doubt.* A flagged item leaves every set of approved items, so no claim becomes
  affirmed and no denial goes unheard; a claim denied can only become NEGATIVE or
  stay (`DenialStates`). The averages may well rise, and what saves the property
  is that the contradiction a flag raises rules BUILD out, and that a refusal does
  not depend on any average (`FlagIsWorse`, `DenialIsWorse`).
* *Evidence.* An item that is approved, or added and cited, moves no claim but
  towards SUPPORTED (`CorroboratedStates`); a mean does not fall when it gains a
  term that is no less than it, rounding included (`MeanGrows`), and neither does a
  category's confidence under its caps (`ConfidenceGrows`).

Assumptions: on the register, what `validate_register` enforces at load time; that
the sessions, the sources and the sets that are counted are finite and, for the
study, that there is a session and that an audit may approve; that minima and
bounds are numbers; for the SV engine, that the handoffs an author starts from are
typed as `from_dict` makes them (`CasesAssumption`), that a confidence is between 0
and 1 (`InputAssumption`) and that a missing value is no value (`NoneAssumption`).
They are named `ASSUME`s of the modules and TLC evaluates them in the runs.

**Only model-checked**, and why:

* `LockReleased` of the store: liveness and `ENABLED` are outside the prover's
  reach.
* The three statements of section 3 that the code does not keep.

## 5. Plan

In order, the most important first:

1. Done: the store, its abstract ledger and its proofs; the decision rules and
   their proofs; callers and retries; the whole review.
2. Done: `EosJobs`, the job engine, each operation as its sequence of commits,
   and the nested pipeline of `dispatch_job`.
3. Done: `RbeExport`; `GoldenStudy`, `StudyRules` and `StudyEvidence`;
   `SvRules`, `SvCases` and `SvEngine`.
4. Done: proofs of the invariants and action properties of the store, callers,
   review, export, job engine, study, evidence rules and SV engine.

Every invariant and every action property of a passing run is a theorem. Left, in
the order of what they would add: the Head of Functions and its attachments, the
prompt engine's versions, and the files the SV engine writes beside its record.

## 6. Not modelled

Schemas, authority packages and argument validation are stateless; the HTTP
routes, the command lines and the scripts render or call the rest, and so does
the UI but for the requests its buttons make;
providers and the LLM are outside services and text heuristics. The
Head of Functions turns a command into jobs by keywords and keeps a list of
them; the prompt engine keeps versions of texts: both write and list. The SV
engine's reports are files written before the record is stored, one by one, so
that a crash leaves files without a record. Of the Golden Study, discovery
memory, the competitor and stakeholder reports and the page texts are left out.
