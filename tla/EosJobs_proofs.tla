-------------------------- MODULE EosJobs_proofs --------------------------
(***************************************************************************)
(* Sessions commit statement by statement, and any of them may find at its *)
(* next commit what the others have done since.  What keeps the tables     *)
(* right is in the programs the sessions have still to run: what each      *)
(* element names exists, and each element that makes something run is      *)
(* followed by one that ends it, also after an exception.                  *)
(***************************************************************************)
EXTENDS EosJobs, FiniteSetTheorems, SequenceTheorems, WellFoundedInduction, TLAPS

Busy == {"Working", "Running"}

Table == {"jobs", "research", "packages", "audits", "library"}

Order      == [kind : Kind, research : Nat, audit : Nat,
               by : Worker \cup {NoWorker}, run : BOOLEAN]
AuditRow   == [research : Nat, decision : Decision]
LibraryRow == [audit : Nat, research : Nat]

\* What an element of a program names exists, whenever it is run: rows are
\* never deleted, and an identifier is at most one beyond the last row.
Sound(s) ==
    /\ s.do \in {"status", "requeue", "dispatch", "complete"} => s.job \in 1 .. Len(jobs)
    /\ s.do \in {"count", "insert"} =>
          /\ s.table = "jobs" => s.row \in Order
          /\ s.table = "research" => s.row = "pending_audit"
          /\ s.table = "audits" => /\ s.row \in AuditRow
                                   /\ s.row.research \in 1 .. Len(research)
          /\ s.table = "library" => /\ s.row \in LibraryRow
                                    /\ s.row.audit \in 1 .. Len(audits)
                                    /\ s.row.research \in 1 .. Len(research)
    /\ s.do = "insert" => s.id <= Rows(s.table) + 1

\* Element s ends a run of job j, or frees worker w; js is the table of jobs.
Ends(s, j) ==
    \/ s.do = "complete" /\ s.job = j
    \/ s.do = "status" /\ s.job = j /\ s.to # "Running"

Frees(js, s, w) ==
    \/ s.do = "worker" /\ s.worker = w /\ s.to \notin Busy
    \/ s.do = "complete" /\ js[s.job].by = w
    \/ s.do \in {"count", "insert"} /\ s.table \in DOMAIN Keeper /\ Keeper[s.table] = w

\* An exception may skip element s: nothing waits for it.
Skippable(s) == s.do = "count" /\ s.table = "jobs"

\* From position i on, everything before the first handler may be skipped.
Calm(q, i) ==
    \A k \in i .. Len(q) : Skippable(q[k]) \/ \E m \in i .. k : q[m].do = "complete"

\* A program ends what it starts, can raise without losing what others wait
\* for, and spends no retry unless it does nothing else.
Starts(js, q) ==
    \A i \in 1 .. Len(q) :
        /\ q[i].do = "status" /\ q[i].to = "Running" =>
              \E k \in i + 1 .. Len(q) : q[k].do = "complete" /\ q[k].job = q[i].job
        /\ q[i].do = "worker" /\ q[i].to \in Busy =>
              \E k \in i + 1 .. Len(q) : Frees(js, q[k], q[i].worker)

Raises(q) ==
    \A i \in 1 .. Len(q) : q[i].do \in {"dispatch", "count", "insert"} => Calm(q, i + 1)

Retries(q) == \A i \in 1 .. Len(q) : q[i].do = "requeue" => Len(q) = 1

Orderly(js, q) == Starts(js, q) /\ Raises(q) /\ Retries(q)

ProgramsSound == \A u \in Session : \A i \in 1 .. Len(todo[u]) : Sound(todo[u][i])

ProgramsOrderly == \A u \in Session : Orderly(jobs, todo[u])

\* The elements of which programs are made.
StatusStep   == [do : {"status"}, job : Nat, to : JobStatus]
RequeueStep  == [do : {"requeue"}, job : Nat]
WorkerStep   == [do : {"worker"}, worker : Worker, to : WorkerStatus]
DispatchStep == [do : {"dispatch"}, job : Nat]
CompleteStep == [do : {"complete"}, job : Nat]
Row          == Order \cup {"pending_audit", "row"} \cup AuditRow \cup LibraryRow
CountStep    == [do : {"count"}, table : Table, row : Row]
InsertStep   == [do : {"insert"}, table : Table, row : Row, id : Nat]

Commit == StatusStep \cup RequeueStep \cup WorkerStep \cup DispatchStep
          \cup CompleteStep \cup CountStep \cup InsertStep

TypeInv ==
    /\ jobs \in Seq(JobRow)
    /\ worker \in [Worker -> WorkerStatus]
    /\ research \in Seq(ResearchStatus)
    /\ packages \in Nat
    /\ audits \in Seq(AuditRow)
    /\ library \in Seq(LibraryRow)
    /\ todo \in [Session -> Seq(Commit)]
    /\ calls \in 0 .. MaxCalls /\ runs \in 0 .. MaxRuns
    /\ crashed \in BOOLEAN

Inv == /\ TypeInv
       /\ ProgramsSound
       /\ ProgramsOrderly
       /\ NothingLeftRunning
       /\ RetriesNearBudget
       /\ Lineage
       /\ StatusBacked
---------------------------------------------------------------------------
(* Elements and programs.                                                  *)

LEMMA CommitKinds ==
    ASSUME NEW s \in Commit
    PROVE  /\ s.do = "status"   => s \in StatusStep
           /\ s.do = "requeue"  => s \in RequeueStep
           /\ s.do = "worker"   => s \in WorkerStep
           /\ s.do = "dispatch" => s \in DispatchStep
           /\ s.do = "complete" => s \in CompleteStep
           /\ s.do = "count"    => s \in CountStep
           /\ s.do = "insert"   => s \in InsertStep
<1>1. /\ s \in StatusStep   => s.do = "status"
      /\ s \in RequeueStep  => s.do = "requeue"
      /\ s \in WorkerStep   => s.do = "worker"
      /\ s \in DispatchStep => s.do = "dispatch"
  BY DEF StatusStep, RequeueStep, WorkerStep, DispatchStep
<1>2. /\ s \in CompleteStep => s.do = "complete"
      /\ s \in CountStep    => s.do = "count"
      /\ s \in InsertStep   => s.do = "insert"
  BY DEF CompleteStep, CountStep, InsertStep
<1>3. QED
  BY <1>1, <1>2 DEF Commit

LEMMA SimpleSteps ==
    ASSUME NEW j \in Nat
    PROVE  /\ \A status \in JobStatus : Assign(j, status) \in Commit
           /\ Requeue(j) \in Commit
           /\ Dispatch(j) \in Commit
           /\ Complete(j) \in Commit
BY DEF Commit, StatusStep, RequeueStep, DispatchStep, CompleteStep,
       Assign, Requeue, Dispatch, Complete

LEMMA ReportStep ==
    ASSUME NEW w \in Worker, NEW status \in WorkerStatus
    PROVE  Report(w, status) \in Commit
BY DEF Commit, WorkerStep, Report

LEMMA TableSteps ==
    ASSUME NEW table \in Table, NEW row \in Row
    PROVE  /\ Count(table, row) \in Commit
           /\ \A id \in Nat : Insert(table, row, id) \in Commit
BY DEF Commit, CountStep, InsertStep, Count, Insert

\* Short programs, element by element.
LEMMA Program1 ==
    ASSUME NEW a \in Commit
    PROVE  <<a>> \in Seq(Commit) /\ Len(<<a>>) = 1 /\ <<a>>[1] = a
OBVIOUS

LEMMA Program2 ==
    ASSUME NEW a \in Commit, NEW b \in Commit
    PROVE  /\ <<a, b>> \in Seq(Commit) /\ Len(<<a, b>>) = 2
           /\ <<a, b>>[1] = a /\ <<a, b>>[2] = b
OBVIOUS

LEMMA Program3 ==
    ASSUME NEW a \in Commit, NEW b \in Commit, NEW c \in Commit
    PROVE  /\ <<a, b, c>> \in Seq(Commit) /\ Len(<<a, b, c>>) = 3
           /\ <<a, b, c>>[1] = a /\ <<a, b, c>>[2] = b /\ <<a, b, c>>[3] = c
OBVIOUS
---------------------------------------------------------------------------
(* A session's program after a step: p, and then what is left of q after   *)
(* its first d elements.                                                   *)

Spliced(q1, p, q, d) ==
    /\ p \in Seq(Commit) /\ q \in Seq(Commit) /\ q1 \in Seq(Commit)
    /\ d \in 1 .. Len(q)
    /\ Len(q1) = Len(p) + (Len(q) - d)
    /\ \A i \in 1 .. Len(p) : q1[i] = p[i]
    /\ \A i \in d + 1 .. Len(q) : q1[Len(p) + (i - d)] = q[i]
    /\ \A i \in Len(p) + 1 .. Len(q1) : q1[i] = q[d + (i - Len(p))]

LEMMA SpliceLemma ==
    ASSUME NEW p \in Seq(Commit), NEW q \in Seq(Commit), NEW d \in 1 .. Len(q)
    PROVE  Spliced(p \o SubSeq(q, d + 1, Len(q)), p, q, d)
<1> DEFINE t == SubSeq(q, d + 1, Len(q))
<1>1. Len(p) \in Nat /\ Len(q) \in Nat /\ d \in Nat
  BY LenProperties
<1>2. \A i \in d + 1 .. Len(q) : q[i] \in Commit
  BY <1>1, ElementOfSeq
<1>3. t \in Seq(Commit) /\ Len(t) = Len(q) - d /\ \A i \in 1 .. Len(q) - d : t[i] = q[d + i]
  BY <1>1, <1>2, SubSeqProperties
<1> HIDE DEF t
<1>4. /\ p \o t \in Seq(Commit)
      /\ Len(p \o t) = Len(p) + Len(t)
      /\ \A i \in 1 .. Len(p) + Len(t) :
            (p \o t)[i] = IF i <= Len(p) THEN p[i] ELSE t[i - Len(p)]
  BY <1>3, ConcatProperties
<1>5. Spliced(p \o t, p, q, d)
  <2>1. \A i \in 1 .. Len(p) : (p \o t)[i] = p[i]
    BY <1>1, <1>3, <1>4
  <2>2. \A i \in d + 1 .. Len(q) : (p \o t)[Len(p) + (i - d)] = q[i]
    <3>1. SUFFICES ASSUME NEW i \in d + 1 .. Len(q)
                   PROVE  (p \o t)[Len(p) + (i - d)] = q[i]
      OBVIOUS
    <3>2. /\ Len(p) + (i - d) \in 1 .. Len(p) + Len(t)
          /\ ~ (Len(p) + (i - d) <= Len(p))
          /\ (Len(p) + (i - d)) - Len(p) = i - d
          /\ i - d \in 1 .. Len(q) - d
          /\ d + (i - d) = i
      BY <1>1, <1>3
    <3>3. QED
      BY <1>3, <1>4, <3>2
  <2>3. \A i \in Len(p) + 1 .. Len(p \o t) : (p \o t)[i] = q[d + (i - Len(p))]
    <3>1. SUFFICES ASSUME NEW i \in Len(p) + 1 .. Len(p \o t)
                   PROVE  (p \o t)[i] = q[d + (i - Len(p))]
      OBVIOUS
    <3>2. /\ i \in 1 .. Len(p) + Len(t)
          /\ ~ (i <= Len(p))
          /\ i - Len(p) \in 1 .. Len(q) - d
      BY <1>1, <1>3, <1>4
    <3>3. QED
      BY <1>3, <1>4, <3>2
  <2>4. QED
    BY <1>1, <1>3, <1>4, <2>1, <2>2, <2>3 DEF Spliced
<1>6. QED
  BY <1>5 DEF t

\* The commit at the head is made, and program p comes before the rest.
LEMMA ThenLemma ==
    ASSUME TypeInv, NEW u \in Session, todo[u] # <<>>, NEW p \in Seq(Commit), Then(u, p)
    PROVE  /\ Spliced(todo'[u], p, todo[u], 1)
           /\ todo' \in [Session -> Seq(Commit)]
           /\ \A v \in Session : v # u => todo'[v] = todo[v]
           /\ Head(todo[u]) = todo[u][1]
<1> DEFINE q == todo[u]
<1>1. todo \in [Session -> Seq(Commit)] /\ q \in Seq(Commit)
  BY DEF TypeInv
<1>2. Len(q) \in Nat \ {0}
  BY <1>1, EmptySeq
<1>3. 1 \in 1 .. Len(q)
  BY <1>2
<1>4. Tail(q) = SubSeq(q, 1 + 1, Len(q))
  BY <1>1, TailIsSubSeq
<1>5. Spliced(p \o Tail(q), p, q, 1)
  BY <1>1, <1>3, <1>4, SpliceLemma
<1>6. p \o Tail(q) \in Seq(Commit)
  BY <1>5 DEF Spliced
<1>7. todo' = [todo EXCEPT ![u] = p \o Tail(q)]
  BY DEF Then
<1>8. Head(q) = q[1]
  OBVIOUS
<1> HIDE DEF q
<1>9. todo' \in [Session -> Seq(Commit)] /\ todo'[u] = p \o Tail(q)
      /\ \A v \in Session : v # u => todo'[v] = todo[v]
  BY <1>1, <1>6, <1>7
<1>10. QED
  BY <1>5, <1>8, <1>9 DEF q

LEMMA LeastNumber ==
    ASSUME NEW T, T \subseteq Nat, T # {}
    PROVE  \E x \in T : \A y \in T : x <= y
<1> DEFINE below == OpToRel(<, Nat)
<1>1. IsWellFoundedOn(below, Nat)
  BY NatLessThanWellFounded
<1>2. \A x, y \in Nat : y < x => <<y, x>> \in below
  BY DEF OpToRel
<1> HIDE DEF below
<1>3. PICK x \in T : \A y \in T : ~ (<<y, x>> \in below)
  BY <1>1, WFMin
<1>4. \A y \in T : ~ (y < x)
  BY <1>2, <1>3
<1>5. QED
  BY <1>3, <1>4

\* What an exception leaves: the cleanup, what the first handler does, and
\* what stands behind it.
Unwinds(u, cleanup, p, d) ==
    /\ Spliced(todo'[u], p, todo[u], d)
    /\ \A x \in 1 .. Len(todo[u]) : x < d => todo[u][x].do # "complete"
    /\ IF todo[u][d].do = "complete"
       THEN p = cleanup \o Change(todo[u][d].job, jobs[todo[u][d].job].by, "Failed", "Failed")
       ELSE p = cleanup /\ d = Len(todo[u])

\* start_job, complete_job and fail_job: the job's status, then its operator's.
LEMMA ChangeLemma ==
    ASSUME NEW j \in Nat, NEW by \in Worker \cup {NoWorker},
           NEW s \in JobStatus, NEW w \in WorkerStatus
    PROVE  /\ Change(j, by, s, w) \in Seq(Commit)
           /\ Change(j, by, s, w)[1] = Assign(j, s)
           /\ by = NoWorker => Len(Change(j, by, s, w)) = 1
           /\ by # NoWorker => /\ Len(Change(j, by, s, w)) = 2
                               /\ Change(j, by, s, w)[2] = Report(by, w)
<1> DEFINE a == Assign(j, s)
           b == Report(by, w)
<1>1. a \in Commit
  BY SimpleSteps
<1>2. by # NoWorker => b \in Commit
  BY ReportStep
<1>3. Change(j, by, s, w) = <<a>> \o (IF by = NoWorker THEN <<>> ELSE <<b>>)
  BY DEF Change, Tell
<1> HIDE DEF a, b
<1>4. <<a>> \in Seq(Commit) /\ Len(<<a>>) = 1 /\ <<a>>[1] = a
  BY <1>1, Program1
<1>5. CASE by = NoWorker
  <2>1. Change(j, by, s, w) = <<a>>
    BY <1>3, <1>4, <1>5, ConcatEmptySeq
  <2>2. QED
    BY <1>4, <1>5, <2>1 DEF a
<1>6. CASE by # NoWorker
  <2>1. <<b>> \in Seq(Commit) /\ Len(<<b>>) = 1 /\ <<b>>[1] = b
    BY <1>2, <1>6, Program1
  <2>2. Change(j, by, s, w) = <<a>> \o <<b>>
    BY <1>3, <1>6
  <2>3. /\ <<a>> \o <<b>> \in Seq(Commit)
        /\ Len(<<a>> \o <<b>>) = 2
        /\ (<<a>> \o <<b>>)[1] = a
        /\ (<<a>> \o <<b>>)[2] = b
    BY <1>4, <2>1, ConcatProperties
  <2>4. QED
    BY <1>6, <2>2, <2>3 DEF a, b
<1>7. QED
  BY <1>5, <1>6

LEMMA ConcatElements ==
    ASSUME NEW c \in Seq(Commit), NEW d \in Seq(Commit)
    PROVE  /\ c \o d \in Seq(Commit)
           /\ Len(c \o d) = Len(c) + Len(d)
           /\ \A i \in 1 .. Len(c) : (c \o d)[i] = c[i]
           /\ \A i \in 1 .. Len(d) : (c \o d)[Len(c) + i] = d[i]
<1>1. Len(c) \in Nat /\ Len(d) \in Nat
  BY LenProperties
<1>2. /\ c \o d \in Seq(Commit)
      /\ Len(c \o d) = Len(c) + Len(d)
      /\ \A i \in 1 .. Len(c) + Len(d) :
            (c \o d)[i] = IF i <= Len(c) THEN c[i] ELSE d[i - Len(c)]
  BY ConcatProperties
<1>3. \A i \in 1 .. Len(c) : (c \o d)[i] = c[i]
  BY <1>1, <1>2
<1>4. \A i \in 1 .. Len(d) : (c \o d)[Len(c) + i] = d[i]
  <2>1. SUFFICES ASSUME NEW i \in 1 .. Len(d)
                 PROVE  (c \o d)[Len(c) + i] = d[i]
    OBVIOUS
  <2>2. /\ Len(c) + i \in 1 .. Len(c) + Len(d)
        /\ ~ (Len(c) + i <= Len(c))
        /\ (Len(c) + i) - Len(c) = i
    BY <1>1
  <2>3. QED
    BY <1>2, <2>2
<1>5. QED
  BY <1>2, <1>3, <1>4

LEMMA ExecutingLemma ==
    ASSUME NEW j \in Nat, NEW by \in Worker \cup {NoWorker}
    PROVE  /\ Executing(j, by) \in Seq(Commit)
           /\ Executing(j, by)[1] = Assign(j, "Running")
           /\ by = NoWorker => /\ Len(Executing(j, by)) = 3
                               /\ Executing(j, by)[2] = Dispatch(j)
                               /\ Executing(j, by)[3] = Complete(j)
           /\ by # NoWorker => /\ Len(Executing(j, by)) = 4
                               /\ Executing(j, by)[2] = Report(by, "Working")
                               /\ Executing(j, by)[3] = Dispatch(j)
                               /\ Executing(j, by)[4] = Complete(j)
<1> DEFINE c == Change(j, by, "Running", "Working")
           d == <<Dispatch(j), Complete(j)>>
<1>1. /\ c \in Seq(Commit) /\ c[1] = Assign(j, "Running")
      /\ by = NoWorker => Len(c) = 1
      /\ by # NoWorker => Len(c) = 2 /\ c[2] = Report(by, "Working")
  BY ChangeLemma DEF JobStatus, WorkerStatus
<1>2. d \in Seq(Commit) /\ Len(d) = 2 /\ d[1] = Dispatch(j) /\ d[2] = Complete(j)
  BY SimpleSteps, Program2
<1>3. Executing(j, by) = c \o d
  BY DEF Executing
<1> HIDE DEF c, d
<1>4. /\ c \o d \in Seq(Commit)
      /\ Len(c \o d) = Len(c) + Len(d)
      /\ \A i \in 1 .. Len(c) : (c \o d)[i] = c[i]
      /\ \A i \in 1 .. Len(d) : (c \o d)[Len(c) + i] = d[i]
  BY <1>1, <1>2, ConcatElements
<1>5. CASE by = NoWorker
  <2>1. 1 \in 1 .. Len(c) /\ 1 \in 1 .. Len(d) /\ 2 \in 1 .. Len(d) /\ Len(c) = 1
    BY <1>1, <1>2, <1>5
  <2>2. (c \o d)[1] = c[1] /\ (c \o d)[1 + 1] = d[1] /\ (c \o d)[1 + 2] = d[2]
    BY <1>4, <2>1
  <2>3. Len(c \o d) = 3 /\ 1 + 1 = 2 /\ 1 + 2 = 3
    BY <1>2, <1>4, <2>1
  <2>4. QED
    BY <1>1, <1>2, <1>3, <1>4, <1>5, <2>2, <2>3
<1>6. CASE by # NoWorker
  <2>1. /\ 1 \in 1 .. Len(c) /\ 2 \in 1 .. Len(c) /\ Len(c) = 2
        /\ 1 \in 1 .. Len(d) /\ 2 \in 1 .. Len(d)
    BY <1>1, <1>2, <1>6
  <2>2. /\ (c \o d)[1] = c[1] /\ (c \o d)[2] = c[2]
        /\ (c \o d)[2 + 1] = d[1] /\ (c \o d)[2 + 2] = d[2]
    BY <1>4, <2>1
  <2>3. Len(c \o d) = 4 /\ 2 + 1 = 3 /\ 2 + 2 = 4
    BY <1>2, <1>4, <2>1
  <2>4. QED
    BY <1>1, <1>2, <1>3, <1>4, <1>6, <2>2, <2>3
<1>7. QED
  BY <1>5, <1>6

LEMMA JobLemma ==
    ASSUME TypeInv, NEW j \in 1 .. Len(jobs)
    PROVE  /\ j \in Nat /\ jobs[j] \in JobRow
           /\ jobs[j].by \in Worker \cup {NoWorker}
<1>1. jobs \in Seq(JobRow) /\ Len(jobs) \in Nat
  BY LenProperties DEF TypeInv
<1>2. jobs[j] \in JobRow
  BY <1>1, ElementOfSeq
<1>3. QED
  BY <1>1, <1>2 DEF JobRow

\* An exception unwinds the program to its first handler, or all of it.
LEMMA RaiseLemma ==
    ASSUME TypeInv, ProgramsSound, NEW u \in Session, todo[u] # <<>>,
           NEW cleanup \in Seq(Commit), Raise(u, cleanup)
    PROVE  /\ \E p \in Seq(Commit), d \in 1 .. Len(todo[u]) : Unwinds(u, cleanup, p, d)
           /\ todo' \in [Session -> Seq(Commit)]
           /\ \A v \in Session : v # u => todo'[v] = todo[v]
<1> DEFINE q == todo[u]
           first == CHOOSE h \in Handler(u) : \A k \in Handler(u) : h <= k
           job == q[first].job
           fails == Change(job, jobs[job].by, "Failed", "Failed")
           behind == SubSeq(q, first + 1, Len(q))
<1>1. todo \in [Session -> Seq(Commit)] /\ q \in Seq(Commit)
  BY DEF TypeInv
<1>2. Len(q) \in Nat \ {0} /\ DOMAIN q = 1 .. Len(q)
  BY <1>1, EmptySeq, LenProperties
<1>3. Handler(u) = {i \in 1 .. Len(q) : q[i].do = "complete"}
  BY <1>2 DEF Handler
<1>4. todo' = [todo EXCEPT ![u] = IF Handler(u) = {} THEN cleanup
                                  ELSE cleanup \o fails \o behind]
  BY DEF Raise
<1>5. CASE Handler(u) = {}
  <2>1. /\ todo' \in [Session -> Seq(Commit)] /\ todo'[u] = cleanup
        /\ \A v \in Session : v # u => todo'[v] = todo[v]
    BY <1>1, <1>4, <1>5
  <2>2. Len(q) \in 1 .. Len(q)
    BY <1>2
  <2>3. SubSeq(q, Len(q) + 1, Len(q)) = <<>>
    BY <1>2, SubSeqEmpty
  <2>4. cleanup \o <<>> = cleanup
    BY ConcatEmptySeq
  <2>5. Spliced(cleanup, cleanup, q, Len(q))
    BY <1>1, <2>2, <2>3, <2>4, SpliceLemma
  <2>6. \A x \in 1 .. Len(q) : q[x].do # "complete"
    BY <1>3, <1>5
  <2>7. Unwinds(u, cleanup, cleanup, Len(q))
    BY <2>1, <2>2, <2>5, <2>6 DEF Unwinds
  <2>8. QED
    BY <2>1, <2>2, <2>7
<1>6. CASE Handler(u) # {}
  <2>1. Handler(u) \subseteq Nat
    BY <1>2, <1>3
  <2>2. \E h \in Handler(u) : \A k \in Handler(u) : h <= k
    BY <1>6, <2>1, LeastNumber
  <2>3. first \in Handler(u) /\ \A k \in Handler(u) : first <= k
    BY <2>2
  <2> HIDE DEF first
  <2>4. first \in 1 .. Len(q) /\ q[first].do = "complete"
    BY <1>3, <2>3
  <2>5. \A x \in 1 .. Len(q) : x < first => q[x].do # "complete"
    BY <1>2, <1>3, <2>3, <2>4
  <2>6. job \in 1 .. Len(jobs)
    BY <2>4 DEF ProgramsSound, Sound
  <2>7. job \in Nat /\ jobs[job].by \in Worker \cup {NoWorker}
    BY <2>6, JobLemma
  <2> HIDE DEF job
  <2>8. fails \in Seq(Commit)
    BY <2>7, ChangeLemma DEF JobStatus, WorkerStatus
  <2> HIDE DEF fails
  <2>9. cleanup \o fails \in Seq(Commit)
    BY <2>8, ConcatProperties
  <2>10. Spliced((cleanup \o fails) \o behind, cleanup \o fails, q, first)
    BY <1>1, <2>4, <2>9, SpliceLemma
  <2>11. (cleanup \o fails) \o behind \in Seq(Commit)
    BY <2>10 DEF Spliced
  <2> HIDE DEF behind
  <2>12. /\ todo' \in [Session -> Seq(Commit)] /\ todo'[u] = (cleanup \o fails) \o behind
         /\ \A v \in Session : v # u => todo'[v] = todo[v]
    BY <1>1, <1>4, <1>6, <2>11
  <2>13. Unwinds(u, cleanup, cleanup \o fails, first)
    BY <2>4, <2>5, <2>10, <2>12 DEF Unwinds, fails, job
  <2>14. QED
    BY <2>4, <2>9, <2>12, <2>13
<1>7. QED
  BY <1>5, <1>6
---------------------------------------------------------------------------
(* What a step of one session leaves of the programs.                      *)

\* A calm rest and an orderly program before it make an orderly program.
LEMMA OrderlySplice ==
    ASSUME NEW js, NEW q1, NEW p, NEW q, NEW d, Spliced(q1, p, q, d),
           Orderly(js, p), Orderly(js, q),
           \A i \in 1 .. Len(p) : p[i].do # "requeue",
           \/ \A i \in 1 .. Len(p) : p[i].do \in {"status", "worker"}
           \/ Calm(q, d + 1)
    PROVE  Orderly(js, q1)
<1> DEFINE n == Len(p)
           m == Len(q)
           at(i) == n + (i - d)
           from(i) == d + (i - n)
<1>1. /\ n \in Nat /\ m \in Nat /\ d \in Nat /\ 1 <= d /\ d <= m
      /\ Len(q1) = n + (m - d)
  BY LenProperties DEF Spliced
<1>2. /\ \A i \in 1 .. n : q1[i] = p[i]
      /\ \A i \in d + 1 .. m : q1[at(i)] = q[i]
      /\ \A i \in n + 1 .. Len(q1) : q1[i] = q[from(i)]
  BY DEF Spliced
<1> HIDE DEF n, m
<1>3. \A i \in d + 1 .. m : at(i) \in n + 1 .. Len(q1)
  BY <1>1
<1>4. \A i \in n + 1 .. Len(q1) : from(i) \in d + 1 .. m /\ from(i) \in 1 .. m
  BY <1>1
<1>5. \A i \in n + 1 .. Len(q1), k \in d + 1 .. m :
          from(i) < k => at(k) \in i + 1 .. Len(q1)
  BY <1>1
<1>6. ASSUME NEW i \in 1 .. Len(q1)
      PROVE  i \in 1 .. n \/ i \in n + 1 .. Len(q1)
  BY <1>1
<1>7. Starts(js, q1)
  <2>1. ASSUME NEW i \in 1 .. n
        PROVE  /\ q1[i].do = "status" /\ q1[i].to = "Running" =>
                     \E k \in i + 1 .. Len(q1) : q1[k].do = "complete" /\ q1[k].job = q1[i].job
               /\ q1[i].do = "worker" /\ q1[i].to \in Busy =>
                     \E k \in i + 1 .. Len(q1) : Frees(js, q1[k], q1[i].worker)
    <3>1. ASSUME NEW k \in i + 1 .. n
          PROVE  k \in i + 1 .. Len(q1) /\ q1[k] = p[k]
      <4>1. k \in 1 .. n /\ k \in i + 1 .. Len(q1)
        BY <1>1
      <4>2. QED
        BY <1>2, <4>1
    <3>2. q1[i] = p[i]
      BY <1>2
    <3>3. QED
      BY <3>1, <3>2 DEF Orderly, Starts, n
  <2>2. ASSUME NEW i \in n + 1 .. Len(q1)
        PROVE  /\ q1[i].do = "status" /\ q1[i].to = "Running" =>
                     \E k \in i + 1 .. Len(q1) : q1[k].do = "complete" /\ q1[k].job = q1[i].job
               /\ q1[i].do = "worker" /\ q1[i].to \in Busy =>
                     \E k \in i + 1 .. Len(q1) : Frees(js, q1[k], q1[i].worker)
    <3> DEFINE x == from(i)
    <3>1. q1[i] = q[x] /\ x \in 1 .. m /\ x \in d + 1 .. m
      BY <1>2, <1>4
    <3>2. ASSUME NEW k \in x + 1 .. m
          PROVE  at(k) \in i + 1 .. Len(q1) /\ q1[at(k)] = q[k]
      <4>1. k \in d + 1 .. m /\ x < k
        BY <1>1, <3>1
      <4>2. QED
        BY <1>2, <1>5, <4>1
    <3> HIDE DEF x, at
    <3>3. QED
      BY <3>1, <3>2 DEF Orderly, Starts, m
  <2>3. QED
    BY <1>6, <2>1, <2>2 DEF Starts
<1>8. Raises(q1)
  <2>1. ASSUME NEW i \in 1 .. n, q1[i].do \in {"dispatch", "count", "insert"},
               NEW k \in i + 1 .. Len(q1)
        PROVE  Skippable(q1[k]) \/ \E x \in i + 1 .. k : q1[x].do = "complete"
    <3>1. q1[i] = p[i]
      BY <1>2
    <3>2. CASE k \in i + 1 .. n
      <4>1. Skippable(p[k]) \/ \E x \in i + 1 .. k : p[x].do = "complete"
        BY <2>1, <3>1, <3>2 DEF Orderly, Raises, Calm, n
      <4>2. \A x \in i + 1 .. k : q1[x] = p[x]
        BY <1>1, <1>2, <3>2
      <4>3. q1[k] = p[k]
        BY <1>1, <1>2, <3>2
      <4>4. QED
        BY <4>1, <4>2, <4>3
    <3>3. CASE k \in n + 1 .. Len(q1)
      <4> DEFINE y == from(k)
      <4>1. y \in d + 1 .. m /\ q1[k] = q[y]
        BY <1>2, <1>4, <3>3
      <4>2. Calm(q, d + 1)
        BY <2>1, <3>1 DEF n
      <4>3. Skippable(q[y]) \/ \E x \in d + 1 .. y : q[x].do = "complete"
        BY <4>1, <4>2 DEF Calm, m
      <4>4. ASSUME NEW x \in d + 1 .. y
            PROVE  at(x) \in i + 1 .. k /\ q1[at(x)] = q[x]
        BY <1>1, <1>2, <3>3, <4>1
      <4> HIDE DEF y, at
      <4>5. QED
        BY <4>1, <4>3, <4>4
    <3>4. QED
      BY <1>1, <3>2, <3>3
  <2>2. ASSUME NEW i \in n + 1 .. Len(q1), q1[i].do \in {"dispatch", "count", "insert"},
               NEW k \in i + 1 .. Len(q1)
        PROVE  Skippable(q1[k]) \/ \E x \in i + 1 .. k : q1[x].do = "complete"
    <3> DEFINE z == from(i)
               y == from(k)
    <3>1. k \in n + 1 .. Len(q1)
      BY <1>1
    <3>2. /\ z \in 1 .. m /\ q1[i] = q[z]
          /\ y \in z + 1 .. m /\ q1[k] = q[y]
      BY <1>1, <1>2, <1>4, <3>1
    <3>3. z \in d + 1 .. m
      BY <1>4
    <3>4. ASSUME NEW x \in z + 1 .. y
          PROVE  at(x) \in i + 1 .. k /\ q1[at(x)] = q[x]
      <4>1. x \in d + 1 .. m
        BY <1>1, <3>2, <3>3
      <4>2. at(x) \in i + 1 .. k
        BY <1>1
      <4>3. QED
        BY <1>2, <4>1, <4>2
    <3> HIDE DEF z, y, at
    <3>5. Skippable(q[y]) \/ \E x \in z + 1 .. y : q[x].do = "complete"
      BY <2>2, <3>2 DEF Orderly, Raises, Calm, m
    <3>6. QED
      BY <3>2, <3>4, <3>5
  <2>3. QED
    BY <1>6, <2>1, <2>2 DEF Raises, Calm
<1>9. Retries(q1)
  <2>1. \A i \in 1 .. n : q1[i].do # "requeue"
    BY <1>2 DEF n
  <2>2. ASSUME NEW i \in n + 1 .. Len(q1), q1[i].do = "requeue"
        PROVE  FALSE
    <3>1. from(i) \in d + 1 .. m /\ from(i) \in 1 .. m /\ q[from(i)].do = "requeue"
      BY <1>2, <1>4, <2>2
    <3>2. m = 1
      BY <3>1 DEF Orderly, Retries, m
    <3>3. QED
      BY <1>1, <3>1, <3>2
  <2>3. QED
    BY <1>6, <2>1, <2>2 DEF Retries
<1>10. QED
  BY <1>7, <1>8, <1>9 DEF Orderly

\* Tables only grow, and a job keeps its operator.
Grow ==
    /\ Len(jobs) <= Len(jobs')
    /\ \A j \in 1 .. Len(jobs) : jobs'[j].by = jobs[j].by
    /\ Len(research) <= Len(research')
    /\ packages <= packages'
    /\ Len(audits) <= Len(audits')
    /\ Len(library) <= Len(library')

LEMMA TableSizes ==
    TypeInv => /\ Len(jobs) \in Nat /\ Len(research) \in Nat /\ packages \in Nat
               /\ Len(audits) \in Nat /\ Len(library) \in Nat
BY LenProperties DEF TypeInv

LEMMA SoundKept ==
    ASSUME TypeInv, TypeInv', Grow, NEW s \in Commit, Sound(s)
    PROVE  Sound(s)'
<1>1. /\ Len(jobs) \in Nat /\ Len(research) \in Nat /\ packages \in Nat
      /\ Len(audits) \in Nat /\ Len(library) \in Nat
  BY TableSizes
<1>2. /\ Len(jobs') \in Nat /\ Len(research') \in Nat /\ packages' \in Nat
      /\ Len(audits') \in Nat /\ Len(library') \in Nat
  BY LenProperties DEF TypeInv
<1>3. s.do \in {"status", "requeue", "dispatch", "complete"} => s.job \in 1 .. Len(jobs')
  BY <1>1, <1>2 DEF Sound, Grow
<1>4. s.do \in {"count", "insert"} =>
          /\ s.table = "jobs" => s.row \in Order
          /\ s.table = "research" => s.row = "pending_audit"
          /\ s.table = "audits" => /\ s.row \in AuditRow
                                   /\ s.row.research \in 1 .. Len(research')
          /\ s.table = "library" => /\ s.row \in LibraryRow
                                    /\ s.row.audit \in 1 .. Len(audits')
                                    /\ s.row.research \in 1 .. Len(research')
  BY <1>1, <1>2 DEF Sound, Grow
<1>5. s.do = "insert" => s.id <= Rows(s.table)' + 1
  <2>1. SUFFICES ASSUME s.do = "insert"
                 PROVE  s.id <= Rows(s.table)' + 1
    OBVIOUS
  <2>2. s.table \in Table /\ s.id \in Nat
    BY <2>1, CommitKinds DEF InsertStep
  <2>3. Rows(s.table) \in Nat /\ Rows(s.table)' \in Nat /\ Rows(s.table) <= Rows(s.table)'
    BY <1>1, <1>2, <2>2 DEF Rows, Table, Grow
  <2>4. QED
    BY <2>1, <2>2, <2>3 DEF Sound
<1>6. QED
  BY <1>3, <1>4, <1>5 DEF Sound

LEMMA FreesKept ==
    ASSUME Grow, NEW s \in Commit, Sound(s), NEW w, Frees(jobs, s, w)
    PROVE  Frees(jobs', s, w)
BY DEF Frees, Grow, Sound

LEMMA OrderlyKept ==
    ASSUME Grow, NEW q \in Seq(Commit), \A i \in 1 .. Len(q) : Sound(q[i]), Orderly(jobs, q)
    PROVE  Orderly(jobs', q)
<1>1. ASSUME NEW i \in 1 .. Len(q), q[i].do = "worker", q[i].to \in Busy
      PROVE  \E k \in i + 1 .. Len(q) : Frees(jobs', q[k], q[i].worker)
  <2>1. PICK k \in i + 1 .. Len(q) : Frees(jobs, q[k], q[i].worker)
    BY <1>1 DEF Orderly, Starts
  <2>2. k \in 1 .. Len(q)
    BY LenProperties
  <2>3. q[k] \in Commit /\ Sound(q[k])
    BY <2>2, ElementOfSeq
  <2>4. QED
    BY <2>1, <2>3, FreesKept
<1>2. QED
  BY <1>1 DEF Orderly, Starts

\* Session u has run d elements of its program, or lost them, and p has come
\* in their place.
Moves(u, p, d) ==
    /\ Spliced(todo'[u], p, todo[u], d)
    /\ \A v \in Session : v # u => todo'[v] = todo[v]

LEMMA ProgramsLemma ==
    ASSUME TypeInv, TypeInv', ProgramsSound, ProgramsOrderly, Grow,
           NEW u \in Session, NEW p, NEW d, Moves(u, p, d),
           \A i \in 1 .. Len(p) : Sound(p[i])',
           Orderly(jobs', p),
           \A i \in 1 .. Len(p) : p[i].do # "requeue",
           \/ \A i \in 1 .. Len(p) : p[i].do \in {"status", "worker"}
           \/ Calm(todo[u], d + 1)
    PROVE  ProgramsSound' /\ ProgramsOrderly'
<1>1. \A v \in Session : todo[v] \in Seq(Commit)
  BY DEF TypeInv
<1>2. ASSUME NEW v \in Session, NEW i \in 1 .. Len(todo[v]), NEW s, s = todo[v][i]
      PROVE  Sound(s)'
  <2>1. s \in Commit
    BY <1>1, <1>2, ElementOfSeq
  <2>2. Sound(s)
    BY <1>2 DEF ProgramsSound
  <2>3. QED
    BY <2>1, <2>2, SoundKept
<1>3. ASSUME NEW v \in Session, NEW i \in 1 .. Len(todo'[v]), NEW s, s = todo'[v][i]
      PROVE  Sound(s)'
  <2>1. CASE v # u
    <3>1. todo'[v] = todo[v]
      BY <2>1 DEF Moves
    <3>2. i \in 1 .. Len(todo[v]) /\ s = todo[v][i]
      BY <1>3, <3>1
    <3>3. QED
      BY <1>2, <3>2
  <2>2. CASE v = u /\ i \in 1 .. Len(p)
    <3>1. s = p[i]
      BY <1>3, <2>2 DEF Moves, Spliced
    <3>2. QED
      BY <2>2, <3>1
  <2>3. CASE v = u /\ i \in Len(p) + 1 .. Len(todo'[u])
    <3> DEFINE x == d + (i - Len(p))
    <3>1. s = todo[u][x]
      BY <1>3, <2>3 DEF Moves, Spliced
    <3>2. /\ Len(p) \in Nat /\ Len(todo[u]) \in Nat /\ d \in Nat /\ 1 <= d
          /\ Len(todo'[u]) = Len(p) + (Len(todo[u]) - d)
      BY LenProperties DEF Moves, Spliced
    <3>3. x \in 1 .. Len(todo[u])
      BY <2>3, <3>2
    <3> HIDE DEF x
    <3>4. QED
      BY <1>2, <3>1, <3>3
  <2>4. Len(p) \in Nat /\ Len(todo'[u]) \in Nat
    BY LenProperties DEF Moves, Spliced
  <2>5. QED
    BY <2>1, <2>2, <2>3, <2>4
<1>4. ProgramsSound'
  BY <1>3 DEF ProgramsSound
<1>5. ASSUME NEW v \in Session
      PROVE  Orderly(jobs', todo[v])
  <2>1. todo[v] \in Seq(Commit) /\ Orderly(jobs, todo[v])
    BY <1>1 DEF ProgramsOrderly
  <2>2. \A i \in 1 .. Len(todo[v]) : Sound(todo[v][i])
    BY DEF ProgramsSound
  <2>3. QED
    BY <2>1, <2>2, OrderlyKept
<1>6. Orderly(jobs', todo'[u])
  BY <1>5, OrderlySplice DEF Moves
<1>7. ProgramsOrderly'
  BY <1>5, <1>6 DEF ProgramsOrderly, Moves
<1>8. QED
  BY <1>4, <1>7

\* Nothing is left running if a step frees what its session was to free, or
\* puts somebody in its program who will.
LEMMA RunningLemma ==
    ASSUME TypeInv, TypeInv', ProgramsSound, NothingLeftRunning, crashed' = crashed, Grow,
           NEW u \in Session, NEW p, NEW d, Moves(u, p, d),
           \A j \in 1 .. Len(jobs') : jobs'[j].status = "Running" =>
               \/ \E i \in 1 .. Len(p) : Ends(p[i], j)
               \/ \E i \in d + 1 .. Len(todo[u]) : Ends(todo[u][i], j)
               \/ /\ j \in 1 .. Len(jobs) /\ jobs[j].status = "Running"
                  /\ \A i \in 1 .. d : ~ Ends(todo[u][i], j),
           \A w \in Worker : worker'[w] \in Busy =>
               \/ \E i \in 1 .. Len(p) : Frees(jobs', p[i], w)
               \/ \E i \in d + 1 .. Len(todo[u]) : Frees(jobs', todo[u][i], w)
               \/ /\ worker[w] \in Busy
                  /\ \A i \in 1 .. d : ~ Frees(jobs, todo[u][i], w)
    PROVE  NothingLeftRunning'
<1>1. /\ \A v \in Session : todo[v] \in Seq(Commit) /\ todo'[v] \in Seq(Commit)
      /\ \A v \in Session : DOMAIN todo[v] = 1 .. Len(todo[v]) /\ Len(todo[v]) \in Nat
      /\ \A v \in Session : DOMAIN todo'[v] = 1 .. Len(todo'[v]) /\ Len(todo'[v]) \in Nat
  BY LenProperties DEF TypeInv
<1>2. \A v \in Session : \A j :
          /\ WillEnd(v, j) <=> \E i \in 1 .. Len(todo[v]) : Ends(todo[v][i], j)
          /\ WillEnd(v, j)' <=> \E i \in 1 .. Len(todo'[v]) : Ends(todo'[v][i], j)
  BY <1>1 DEF WillEnd, Ends
<1>3. \A v \in Session : \A w :
          /\ WillFree(v, w) <=> \E i \in 1 .. Len(todo[v]) : Frees(jobs, todo[v][i], w)
          /\ WillFree(v, w)' <=> \E i \in 1 .. Len(todo'[v]) : Frees(jobs', todo'[v][i], w)
  <2> SUFFICES ASSUME NEW v \in Session, NEW w
               PROVE  /\ WillFree(v, w) <=> \E i \in 1 .. Len(todo[v]) :
                                              Frees(jobs, todo[v][i], w)
                      /\ WillFree(v, w)' <=> \E i \in 1 .. Len(todo'[v]) :
                                              Frees(jobs', todo'[v][i], w)
    OBVIOUS
  <2>1. WillFree(v, w) <=> \E i \in DOMAIN todo[v] : Frees(jobs, todo[v][i], w)
    BY Zenon DEF WillFree, Frees, Busy
  <2>2. WillFree(v, w)' <=> \E i \in DOMAIN todo'[v] : Frees(jobs', todo'[v][i], w)
    BY Zenon DEF WillFree, Frees, Busy
  <2>3. DOMAIN todo[v] = 1 .. Len(todo[v]) /\ DOMAIN todo'[v] = 1 .. Len(todo'[v])
    BY <1>1
  <2>4. QED
    BY <2>1, <2>2, <2>3
<1>4. /\ p \in Seq(Commit) /\ Len(p) \in Nat /\ d \in 1 .. Len(todo[u])
      /\ Len(todo'[u]) = Len(p) + (Len(todo[u]) - d)
      /\ \A i \in 1 .. Len(p) : todo'[u][i] = p[i]
      /\ \A i \in d + 1 .. Len(todo[u]) : todo'[u][Len(p) + (i - d)] = todo[u][i]
  BY LenProperties DEF Moves, Spliced
<1>5. /\ \A i \in 1 .. Len(p) : i \in 1 .. Len(todo'[u])
      /\ \A i \in d + 1 .. Len(todo[u]) : Len(p) + (i - d) \in 1 .. Len(todo'[u])
  BY <1>1, <1>4
<1>6. \A v \in Session : v # u => todo'[v] = todo[v]
  BY DEF Moves
<1>7. \A i \in 1 .. Len(todo[u]) : i \in 1 .. d \/ i \in d + 1 .. Len(todo[u])
  BY <1>1, <1>4
<1>8. ASSUME NEW v \in Session, NEW i \in 1 .. Len(todo[v]), NEW w, Frees(jobs, todo[v][i], w)
      PROVE  Frees(jobs', todo[v][i], w)
  <2>1. todo[v][i] \in Commit
    BY <1>1, ElementOfSeq
  <2>2. Sound(todo[v][i])
    BY DEF ProgramsSound
  <2>3. QED
    BY <1>8, <2>1, <2>2, FreesKept
<1>9. ASSUME ~ crashed, NEW j \in 1 .. Len(jobs'), jobs'[j].status = "Running"
      PROVE  \E v \in Session : WillEnd(v, j)'
  <2>1. CASE \E i \in 1 .. Len(p) : Ends(p[i], j)
    BY <1>2, <1>4, <1>5, <2>1
  <2>2. CASE \E i \in d + 1 .. Len(todo[u]) : Ends(todo[u][i], j)
    BY <1>2, <1>4, <1>5, <2>2
  <2>3. CASE /\ j \in 1 .. Len(jobs) /\ jobs[j].status = "Running"
             /\ \A i \in 1 .. d : ~ Ends(todo[u][i], j)
    <3>1. j \in DOMAIN jobs
      BY <2>3, LenProperties DEF TypeInv
    <3>2. PICK v \in Session : WillEnd(v, j)
      BY <1>9, <2>3, <3>1 DEF NothingLeftRunning
    <3>3. PICK i \in 1 .. Len(todo[v]) : Ends(todo[v][i], j)
      BY <1>2, <3>2
    <3>4. CASE v # u
      BY <1>2, <1>6, <3>3, <3>4
    <3>5. CASE v = u
      BY <1>7, <2>2, <2>3, <3>3, <3>5
    <3>6. QED
      BY <3>4, <3>5
  <2>4. QED
    BY <1>9, <2>1, <2>2, <2>3
<1>10. ASSUME ~ crashed, NEW w \in Worker, worker'[w] \in Busy
       PROVE  \E v \in Session : WillFree(v, w)'
  <2>1. CASE \E i \in 1 .. Len(p) : Frees(jobs', p[i], w)
    BY <1>3, <1>4, <1>5, <2>1
  <2>2. CASE \E i \in d + 1 .. Len(todo[u]) : Frees(jobs', todo[u][i], w)
    BY <1>3, <1>4, <1>5, <2>2
  <2>3. CASE /\ worker[w] \in Busy
             /\ \A i \in 1 .. d : ~ Frees(jobs, todo[u][i], w)
    <3>1. PICK v \in Session : WillFree(v, w)
      BY <1>10, <2>3 DEF NothingLeftRunning, Busy
    <3>2. PICK i \in 1 .. Len(todo[v]) : Frees(jobs, todo[v][i], w)
      BY <1>3, <3>1
    <3>3. Frees(jobs', todo[v][i], w)
      BY <1>8, <3>2
    <3>4. CASE v # u
      BY <1>3, <1>6, <3>2, <3>3, <3>4
    <3>5. CASE v = u
      BY <1>7, <2>2, <2>3, <3>2, <3>3, <3>5
    <3>6. QED
      BY <3>4, <3>5
  <2>4. QED
    BY <1>10, <2>1, <2>2, <2>3
<1>11. DOMAIN jobs' = 1 .. Len(jobs')
  BY LenProperties DEF TypeInv
<1>12. QED
  BY <1>9, <1>10, <1>11 DEF NothingLeftRunning, Busy

\* Where the number of retries stays, the budget stands if no session comes
\* to have a retry before it that it had not.
LEMMA BudgetLemma ==
    ASSUME TypeInv, TypeInv', RetriesNearBudget, NEW u \in Session, NEW p, NEW d,
           Moves(u, p, d), \A i \in 1 .. Len(p) : p[i].do # "requeue",
           ProgramsSound,
           \A j \in 1 .. Len(jobs') :
               IF j \in 1 .. Len(jobs) THEN jobs'[j].retries = jobs[j].retries
                                       ELSE jobs'[j].retries = 0
    PROVE  RetriesNearBudget'
<1>1. \A v \in Session : /\ DOMAIN todo[v] = 1 .. Len(todo[v])
                         /\ DOMAIN todo'[v] = 1 .. Len(todo'[v])
  BY LenProperties DEF TypeInv
<1>2. ASSUME NEW j, NEW i \in 1 .. Len(todo'[u]), todo'[u][i] = Requeue(j)
      PROVE  \E x \in 1 .. Len(todo[u]) : todo[u][x] = Requeue(j)
  <2>1. Requeue(j).do = "requeue"
    BY DEF Requeue
  <2>2. i \notin 1 .. Len(p)
    BY <1>2, <2>1 DEF Moves, Spliced
  <2>3. /\ Len(p) \in Nat /\ Len(todo[u]) \in Nat /\ d \in Nat /\ 1 <= d
        /\ Len(todo'[u]) = Len(p) + (Len(todo[u]) - d)
    BY LenProperties DEF Moves, Spliced
  <2>4. i \in Len(p) + 1 .. Len(todo'[u])
    BY <2>2, <2>3
  <2> DEFINE x == d + (i - Len(p))
  <2>5. todo[u][x] = Requeue(j)
    BY <1>2, <2>4 DEF Moves, Spliced
  <2>6. x \in 1 .. Len(todo[u])
    BY <2>3, <2>4
  <2> HIDE DEF x
  <2>7. QED
    BY <2>5, <2>6
<1>3. ASSUME NEW j
      PROVE  Retrying(j)' \subseteq Retrying(j)
  <2>1. ASSUME NEW v \in Session, NEW i \in 1 .. Len(todo'[v]), todo'[v][i] = Requeue(j)
        PROVE  \E x \in 1 .. Len(todo[v]) : todo[v][x] = Requeue(j)
    <3>1. CASE v = u
      BY <1>2, <2>1, <3>1
    <3>2. CASE v # u
      BY <2>1, <3>2 DEF Moves
    <3>3. QED
      BY <3>1, <3>2
  <2>2. \A v \in Session : /\ DOMAIN todo[v] = 1 .. Len(todo[v])
                           /\ DOMAIN todo'[v] = 1 .. Len(todo'[v])
    BY <1>1
  <2>3. \A j2 : Requeue(j2)' = Requeue(j2)
    BY DEF Requeue
  <2>4. QED
    BY <2>1, <2>2, <2>3 DEF Retrying
<1>4. ASSUME NEW j
      PROVE  /\ IsFiniteSet(Retrying(j)) /\ IsFiniteSet(Retrying(j)')
             /\ Cardinality(Retrying(j)) \in Nat /\ Cardinality(Retrying(j)') \in Nat
             /\ Cardinality(Retrying(j)') <= Cardinality(Retrying(j))
  <2>1. Retrying(j) \subseteq Session
    BY DEF Retrying
  <2>2. IsFiniteSet(Retrying(j))
    BY <2>1, SessionAssumption, FS_Subset
  <2>3. QED
    BY <1>3, <2>2, FS_Subset, FS_CardinalityType
<1>5. /\ Cardinality(Session) \in Nat /\ Cardinality(Session) >= 1
      /\ MaxRetries \in Nat
  BY SessionAssumption, NumberAssumption, FS_CardinalityType, FS_EmptySet
<1>6. ASSUME NEW j \in 1 .. Len(jobs')
      PROVE  jobs'[j].retries + Cardinality(Retrying(j)')
                <= MaxRetries + Cardinality(Session) - 1
  <2>1. CASE j \in 1 .. Len(jobs)
    <3>1. jobs'[j].retries = jobs[j].retries
      BY <2>1
    <3>2. jobs[j].retries + Cardinality(Retrying(j)) <= MaxRetries + Cardinality(Session) - 1
      BY <2>1, LenProperties DEF TypeInv, RetriesNearBudget
    <3>3. jobs[j].retries \in Nat
      BY <2>1, JobLemma DEF JobRow
    <3>4. QED
      BY <1>4, <1>5, <3>1, <3>2, <3>3
  <2>2. CASE j \notin 1 .. Len(jobs)
    <3>1. ASSUME NEW v \in Retrying(j)
          PROVE  FALSE
      <4>1. PICK i \in 1 .. Len(todo[v]) : todo[v][i] = Requeue(j)
        BY <1>1, <3>1 DEF Retrying
      <4>2. Sound(Requeue(j))
        BY <3>1, <4>1 DEF ProgramsSound, Retrying
      <4>3. QED
        BY <2>2, <4>2 DEF Sound, Requeue
    <3>2. Retrying(j)' = {}
      BY <1>3, <3>1
    <3>3. Cardinality(Retrying(j)') = 0
      BY <3>2, FS_EmptySet
    <3>4. QED
      BY <1>5, <2>2, <3>3
  <2>3. QED
    BY <2>1, <2>2
<1>7. DOMAIN jobs' = 1 .. Len(jobs')
  BY LenProperties DEF TypeInv
<1>8. QED
  BY <1>6, <1>7 DEF RetriesNearBudget

\* What a step of one session has to show.
LEMMA StepLemma ==
    ASSUME Inv, TypeInv', crashed' = crashed, Grow,
           NEW u \in Session, NEW p, NEW d, Moves(u, p, d),
           \A i \in 1 .. Len(p) : Sound(p[i])' /\ p[i].do # "requeue",
           Orderly(jobs', p),
           \/ \A i \in 1 .. Len(p) : p[i].do \in {"status", "worker"}
           \/ Calm(todo[u], d + 1),
           \A j \in 1 .. Len(jobs') : jobs'[j].status = "Running" =>
               \/ \E i \in 1 .. Len(p) : Ends(p[i], j)
               \/ \E i \in d + 1 .. Len(todo[u]) : Ends(todo[u][i], j)
               \/ /\ j \in 1 .. Len(jobs) /\ jobs[j].status = "Running"
                  /\ \A i \in 1 .. d : ~ Ends(todo[u][i], j),
           \A w \in Worker : worker'[w] \in Busy =>
               \/ \E i \in 1 .. Len(p) : Frees(jobs', p[i], w)
               \/ \E i \in d + 1 .. Len(todo[u]) : Frees(jobs', todo[u][i], w)
               \/ /\ worker[w] \in Busy
                  /\ \A i \in 1 .. d : ~ Frees(jobs, todo[u][i], w),
           \A j \in 1 .. Len(jobs') :
               IF j \in 1 .. Len(jobs) THEN jobs'[j].retries = jobs[j].retries
                                       ELSE jobs'[j].retries = 0,
           Lineage', StatusBacked'
    PROVE  Inv'
<1>1. ProgramsSound' /\ ProgramsOrderly'
  BY ProgramsLemma DEF Inv
<1>2. NothingLeftRunning'
  BY RunningLemma DEF Inv
<1>3. RetriesNearBudget'
  BY BudgetLemma DEF Inv
<1>4. QED
  BY <1>1, <1>2, <1>3 DEF Inv

\* The element at the head of a program.
LEMMA HeadLemma ==
    ASSUME Inv, NEW u \in Session, NEW do, Next1(u, do)
    PROVE  /\ todo[u] # <<>> /\ todo[u] \in Seq(Commit)
           /\ 1 \in 1 .. Len(todo[u])
           /\ Head(todo[u]) = todo[u][1]
           /\ todo[u][1] \in Commit /\ todo[u][1].do = do
           /\ Sound(todo[u][1])
           /\ Orderly(jobs, todo[u])
           /\ do \in {"dispatch", "count", "insert"} => Calm(todo[u], 1 + 1)
<1>1. todo[u] # <<>> /\ todo[u] \in Seq(Commit) /\ Head(todo[u]).do = do
  BY DEF Next1, Inv, TypeInv
<1>2. Len(todo[u]) \in Nat \ {0}
  BY <1>1, EmptySeq
<1>3. 1 \in 1 .. Len(todo[u])
  BY <1>2
<1>4. Head(todo[u]) = todo[u][1]
  BY <1>1
<1>5. todo[u][1] \in Commit
  BY <1>1, <1>3, ElementOfSeq
<1>6. Sound(todo[u][1]) /\ Orderly(jobs, todo[u])
  BY <1>3 DEF Inv, ProgramsSound, ProgramsOrderly
<1>7. do \in {"dispatch", "count", "insert"} => Calm(todo[u], 1 + 1)
  BY <1>1, <1>3, <1>4, <1>6 DEF Orderly, Raises
<1>8. QED
  BY <1>1, <1>3, <1>4, <1>5, <1>6, <1>7

\* A program that only reports an end is orderly, and so is an empty one.
LEMMA OrderlyPlain ==
    ASSUME NEW js, NEW p,
           \A i \in 1 .. Len(p) : /\ p[i].do \in {"status", "worker"}
                                  /\ p[i].do = "status" => p[i].to # "Running"
                                  /\ p[i].do = "worker" => p[i].to \notin Busy
    PROVE  Orderly(js, p) /\ \A i \in 1 .. Len(p) : p[i].do # "requeue"
BY DEF Orderly, Starts, Raises, Retries

\* A job's status changes, or it is put back with one retry spent.
LEMMA RowChange ==
    ASSUME NEW r \in JobRow
    PROVE  /\ \A to \in JobStatus :
                 LET row == [r EXCEPT !.status = to]
                 IN  row \in JobRow /\ row.by = r.by /\ row.status = to
                     /\ row.retries = r.retries
           /\ LET row == [r EXCEPT !.status = "Pending", !.retries = @ + 1]
              IN  row \in JobRow /\ row.by = r.by /\ row.status = "Pending"
                  /\ row.retries = r.retries + 1
<1>1. /\ DOMAIN r = {"kind", "research", "audit", "by", "status", "retries"}
      /\ r.kind \in Kind /\ r.research \in Nat /\ r.audit \in Nat
      /\ r.by \in Worker \cup {NoWorker} /\ r.status \in JobStatus /\ r.retries \in Nat
  BY DEF JobRow
<1>2. ASSUME NEW to \in JobStatus
      PROVE  LET row == [r EXCEPT !.status = to]
             IN  row \in JobRow /\ row.by = r.by /\ row.status = to
                 /\ row.retries = r.retries
  BY <1>1 DEF JobRow
<1>3. LET row == [r EXCEPT !.status = "Pending", !.retries = @ + 1]
      IN  row \in JobRow /\ row.by = r.by /\ row.status = "Pending"
          /\ row.retries = r.retries + 1
  <2> DEFINE put == [r EXCEPT !.status = "Pending"]
             n == r.retries + 1
             row == [put EXCEPT !.retries = n]
  <2>1. [r EXCEPT !.status = "Pending", !.retries = @ + 1] = row
    BY DEF JobRow
  <2>2. put \in JobRow /\ put.by = r.by /\ put.status = "Pending" /\ n \in Nat
    BY <1>1 DEF JobRow, JobStatus
  <2> HIDE DEF put, n
  <2>3. row \in JobRow /\ row.by = put.by /\ row.status = put.status /\ row.retries = n
    BY <2>2 DEF JobRow
  <2> HIDE DEF row
  <2>4. QED
    BY <2>1, <2>2, <2>3 DEF n
<1>4. QED
  BY <1>2, <1>3

\* A row of the jobs table is replaced.
LEMMA JobChange ==
    ASSUME TypeInv, NEW j \in 1 .. Len(jobs), NEW row \in JobRow, row.by = jobs[j].by,
           NEW js, [jobs EXCEPT ![j] = row] = js
    PROVE  /\ js \in Seq(JobRow) /\ Len(js) = Len(jobs)
           /\ \A i \in 1 .. Len(jobs) : /\ js[i] = IF i = j THEN row ELSE jobs[i]
                                        /\ js[i].by = jobs[i].by
<1>1. jobs \in Seq(JobRow)
  BY DEF TypeInv
<1>2. /\ js \in Seq(JobRow) /\ Len(js) = Len(jobs)
      /\ \A i \in 1 .. Len(jobs) : js[i] = IF i = j THEN row ELSE jobs[i]
  BY <1>1, ExceptSeq
<1>3. QED
  BY <1>2
---------------------------------------------------------------------------
(* The steps, one by one.                                                  *)

LEMMA SetStatusInv ==
    ASSUME Inv, NEW u \in Session, SetStatus(u)
    PROVE  Inv'
<1> DEFINE s == todo[u][1]
           row == [jobs[s.job] EXCEPT !.status = s.to]
<1>1. /\ todo[u] # <<>> /\ Head(todo[u]) = s /\ s \in Commit /\ s.do = "status"
      /\ Sound(s) /\ Orderly(jobs, todo[u]) /\ 1 \in 1 .. Len(todo[u])
  BY HeadLemma DEF SetStatus
<1>2. s \in StatusStep /\ s.job \in 1 .. Len(jobs)
  BY <1>1, CommitKinds DEF Sound
<1>3. jobs' = [jobs EXCEPT ![s.job] = row] /\ Then(u, <<>>)
  BY <1>1 DEF SetStatus
<1>4. /\ row \in JobRow /\ row.by = jobs[s.job].by
      /\ row.status = s.to /\ row.retries = jobs[s.job].retries
  BY <1>2, JobLemma DEF Inv, JobRow, StatusStep
<1> HIDE DEF row
<1>5. /\ jobs' \in Seq(JobRow) /\ Len(jobs') = Len(jobs)
      /\ \A i \in 1 .. Len(jobs) : /\ jobs'[i] = IF i = s.job THEN row ELSE jobs[i]
                                   /\ jobs'[i].by = jobs[i].by
  <2> DEFINE j == s.job
             js == jobs'
  <2>1. TypeInv /\ j \in 1 .. Len(jobs) /\ [jobs EXCEPT ![j] = row] = js
        /\ row \in JobRow /\ row.by = jobs[j].by
    BY <1>2, <1>3, <1>4 DEF Inv
  <2> HIDE DEF j, js, s
  <2>2. /\ js \in Seq(JobRow) /\ Len(js) = Len(jobs)
        /\ \A i \in 1 .. Len(jobs) : /\ js[i] = IF i = j THEN row ELSE jobs[i]
                                     /\ js[i].by = jobs[i].by
    BY <2>1, JobChange
  <2>3. QED
    BY <2>2 DEF j, js
<1>6. <<>> \in Seq(Commit) /\ Len(<<>>) = 0
  BY EmptySeq
<1>7. /\ Moves(u, <<>>, 1)
      /\ todo' \in [Session -> Seq(Commit)]
  BY <1>1, <1>3, <1>6, ThenLemma DEF Inv, Moves
<1>8. TypeInv'
  BY <1>5, <1>7 DEF Inv, TypeInv, SetStatus, Quiet
<1>9. Grow
  BY <1>5, TableSizes DEF Grow, Inv, SetStatus
<1>10. Orderly(jobs', <<>>) /\ \A i \in 1 .. Len(<<>>) : FALSE
  BY <1>6, OrderlyPlain
<1>11. ASSUME NEW j \in 1 .. Len(jobs'), jobs'[j].status = "Running"
       PROVE  \/ \E i \in 1 + 1 .. Len(todo[u]) : Ends(todo[u][i], j)
              \/ /\ j \in 1 .. Len(jobs) /\ jobs[j].status = "Running"
                 /\ \A i \in 1 .. 1 : ~ Ends(todo[u][i], j)
  <2>1. CASE j = s.job
    <3>1. s.to = "Running"
      BY <1>4, <1>5, <1>11, <2>1
    <3>2. \E k \in 1 + 1 .. Len(todo[u]) : todo[u][k].do = "complete" /\ todo[u][k].job = s.job
      BY <1>1, <3>1 DEF Orderly, Starts
    <3>3. QED
      BY <2>1, <3>2 DEF Ends
  <2>2. CASE j # s.job
    <3>1. jobs[j].status = "Running" /\ j \in 1 .. Len(jobs)
      BY <1>5, <1>11, <2>2
    <3>2. ~ Ends(s, j)
      BY <1>1, <2>2 DEF Ends
    <3>3. \A i \in 1 .. 1 : i = 1
      OBVIOUS
    <3>4. QED
      BY <3>1, <3>2, <3>3
  <2>3. QED
    BY <2>1, <2>2
<1>12. ASSUME NEW w \in Worker, worker'[w] \in Busy
       PROVE  worker[w] \in Busy /\ \A i \in 1 .. 1 : ~ Frees(jobs, todo[u][i], w)
  <2>1. ~ Frees(jobs, s, w)
    BY <1>1 DEF Frees
  <2>2. \A i \in 1 .. 1 : i = 1
    OBVIOUS
  <2>3. QED
    BY <1>12, <2>1, <2>2 DEF SetStatus
<1>13. \A j \in 1 .. Len(jobs') : j \in 1 .. Len(jobs) /\ jobs'[j].retries = jobs[j].retries
  BY <1>4, <1>5
<1>14. Lineage' /\ StatusBacked'
  BY DEF Inv, Lineage, StatusBacked, SetStatus
<1>15. crashed' = crashed
  BY DEF SetStatus, Quiet
<1>16. PICK p : p = <<>>
  OBVIOUS
<1> HIDE DEF s
<1>17. QED
  BY <1>7, <1>8, <1>9, <1>10, <1>11, <1>12, <1>13, <1>14, <1>15, <1>16, StepLemma

LEMMA SpendRetryInv ==
    ASSUME Inv, NEW u \in Session, SpendRetry(u)
    PROVE  Inv'
<1> DEFINE s == todo[u][1]
           row == [jobs[s.job] EXCEPT !.status = "Pending", !.retries = @ + 1]
<1>1. /\ todo[u] # <<>> /\ Head(todo[u]) = s /\ s \in Commit /\ s.do = "requeue"
      /\ Sound(s) /\ Orderly(jobs, todo[u]) /\ 1 \in 1 .. Len(todo[u])
  BY HeadLemma DEF SpendRetry
<1>2. s \in RequeueStep /\ s.job \in 1 .. Len(jobs)
  BY <1>1, CommitKinds DEF Sound
<1>3. jobs' = [jobs EXCEPT ![s.job] = row] /\ Then(u, <<>>)
  BY <1>1 DEF SpendRetry
<1>4. /\ row \in JobRow /\ row.by = jobs[s.job].by
      /\ row.status = "Pending" /\ row.retries = jobs[s.job].retries + 1
  <2>1. jobs[s.job] \in JobRow
    BY <1>2, JobLemma DEF Inv
  <2> HIDE DEF s
  <2>2. QED
    BY <2>1, RowChange
<1> HIDE DEF row
<1>5. /\ jobs' \in Seq(JobRow) /\ Len(jobs') = Len(jobs)
      /\ \A i \in 1 .. Len(jobs) : /\ jobs'[i] = IF i = s.job THEN row ELSE jobs[i]
                                   /\ jobs'[i].by = jobs[i].by
  <2> DEFINE j == s.job
             js == jobs'
  <2>1. TypeInv /\ j \in 1 .. Len(jobs) /\ [jobs EXCEPT ![j] = row] = js
        /\ row \in JobRow /\ row.by = jobs[j].by
    BY <1>2, <1>3, <1>4 DEF Inv
  <2> HIDE DEF j, js, s
  <2>2. /\ js \in Seq(JobRow) /\ Len(js) = Len(jobs)
        /\ \A i \in 1 .. Len(jobs) : /\ js[i] = IF i = j THEN row ELSE jobs[i]
                                     /\ js[i].by = jobs[i].by
    BY <2>1, JobChange
  <2>3. QED
    BY <2>2 DEF j, js
<1>6. <<>> \in Seq(Commit) /\ Len(<<>>) = 0
  BY EmptySeq
<1>7. /\ Moves(u, <<>>, 1)
      /\ todo' \in [Session -> Seq(Commit)]
  BY <1>1, <1>3, <1>6, ThenLemma DEF Inv, Moves
<1>8. TypeInv'
  BY <1>5, <1>7 DEF Inv, TypeInv, SpendRetry, Quiet
<1>9. Grow
  <2>1. UNCHANGED <<research, packages, audits, library>>
    BY DEF SpendRetry
  <2>2. QED
    BY <1>5, <2>1, TableSizes DEF Grow, Inv
<1>10. Orderly(jobs', <<>>) /\ \A i \in 1 .. Len(<<>>) : FALSE
  BY <1>6, OrderlyPlain
<1>11. ASSUME NEW j \in 1 .. Len(jobs'), jobs'[j].status = "Running"
       PROVE  /\ j \in 1 .. Len(jobs) /\ jobs[j].status = "Running"
              /\ \A i \in 1 .. 1 : ~ Ends(todo[u][i], j)
  <2>1. j # s.job
    BY <1>4, <1>5, <1>11
  <2>2. jobs[j].status = "Running" /\ j \in 1 .. Len(jobs)
    BY <1>5, <1>11, <2>1
  <2>3. ~ Ends(s, j)
    BY <1>1 DEF Ends
  <2>4. \A i \in 1 .. 1 : i = 1
    OBVIOUS
  <2>5. QED
    BY <2>2, <2>3, <2>4
<1>12. ASSUME NEW w \in Worker, worker'[w] \in Busy
       PROVE  worker[w] \in Busy /\ \A i \in 1 .. 1 : ~ Frees(jobs, todo[u][i], w)
  <2>1. ~ Frees(jobs, s, w)
    BY <1>1 DEF Frees
  <2>2. \A i \in 1 .. 1 : i = 1
    OBVIOUS
  <2>3. QED
    BY <1>12, <2>1, <2>2 DEF SpendRetry
<1>13. crashed' = crashed
  BY DEF SpendRetry, Quiet
<1>14. ProgramsSound' /\ ProgramsOrderly'
  <2>1. PICK p : p = <<>>
    OBVIOUS
  <2>2. QED
    BY <1>7, <1>8, <1>9, <1>10, <2>1, ProgramsLemma DEF Inv
<1>15. NothingLeftRunning'
  <2>1. PICK p : p = <<>>
    OBVIOUS
  <2> HIDE DEF s
  <2>2. QED
    BY <1>7, <1>8, <1>9, <1>11, <1>12, <1>13, <2>1, RunningLemma DEF Inv
<1>16. ASSUME NEW j \in 1 .. Len(jobs)
       PROVE  /\ Retrying(j)' \subseteq Retrying(j)
              /\ u \notin Retrying(j)'
              /\ j = s.job => u \in Retrying(j)
  <2>1. \A v \in Session : /\ DOMAIN todo[v] = 1 .. Len(todo[v])
                           /\ DOMAIN todo'[v] = 1 .. Len(todo'[v])
    BY <1>8, LenProperties DEF Inv, TypeInv
  <2>2. Len(todo[u]) = 1
    BY <1>1 DEF Orderly, Retries
  <2>3. Len(todo'[u]) = 0
    BY <1>6, <1>7, <2>2 DEF Moves, Spliced
  <2>4. u \notin Retrying(j)'
    BY <2>1, <2>3 DEF Retrying
  <2>5. ASSUME NEW v \in Session, v # u
        PROVE  v \in Retrying(j)' => v \in Retrying(j)
    BY <1>7, <2>5 DEF Retrying, Moves, Requeue
  <2>6. Retrying(j)' \subseteq Session
    BY DEF Retrying
  <2>7. s = Requeue(s.job)
    BY <1>2 DEF RequeueStep, Requeue
  <2>8. j = s.job => u \in Retrying(j)
    BY <1>1, <2>1, <2>7 DEF Retrying
  <2>9. QED
    BY <2>4, <2>5, <2>6, <2>8
<1>17. ASSUME NEW j \in 1 .. Len(jobs)
       PROVE  jobs'[j].retries + Cardinality(Retrying(j)')
                 <= MaxRetries + Cardinality(Session) - 1
  <2> DEFINE before == Retrying(j)
             after == Retrying(j)'
  <2>1. IsFiniteSet(before) /\ Cardinality(before) \in Nat
    <3>1. before \subseteq Session
      BY DEF Retrying
    <3>2. QED
      BY <3>1, SessionAssumption, FS_Subset, FS_CardinalityType
  <2>2. after \subseteq before /\ u \notin after /\ (j = s.job => u \in before)
    BY <1>16
  <2>3. jobs[j].retries + Cardinality(before) <= MaxRetries + Cardinality(Session) - 1
    BY LenProperties DEF Inv, TypeInv, RetriesNearBudget
  <2>4. /\ jobs[j].retries \in Nat
        /\ jobs'[j].retries = IF j = s.job THEN jobs[j].retries + 1 ELSE jobs[j].retries
    BY <1>4, <1>5, JobLemma DEF Inv, JobRow
  <2>5. Cardinality(Session) \in Nat /\ MaxRetries \in Nat
    BY SessionAssumption, NumberAssumption, FS_CardinalityType
  <2> HIDE DEF before, after, s
  <2>6. IsFiniteSet(after) /\ Cardinality(after) \in Nat /\ Cardinality(after) <= Cardinality(before)
    BY <2>1, <2>2, FS_Subset, FS_CardinalityType
  <2>7. CASE j = s.job
    <3>1. /\ after \subseteq before \ {u}
          /\ IsFiniteSet(before \ {u}) /\ Cardinality(before \ {u}) = Cardinality(before) - 1
      BY <2>1, <2>2, <2>7, FS_RemoveElement
    <3>2. Cardinality(after) <= Cardinality(before) - 1
      BY <3>1, FS_Subset
    <3>3. QED
      BY <2>1, <2>3, <2>4, <2>5, <2>6, <2>7, <3>2 DEF after
  <2>8. CASE j # s.job
    BY <2>1, <2>3, <2>4, <2>5, <2>6, <2>8 DEF after
  <2>9. QED
    BY <2>7, <2>8
<1>18. RetriesNearBudget'
  <2>1. DOMAIN jobs' = 1 .. Len(jobs)
    BY <1>5, LenProperties
  <2>2. QED
    BY <1>17, <2>1 DEF RetriesNearBudget
<1>19. Lineage' /\ StatusBacked'
  BY DEF Inv, Lineage, StatusBacked, SpendRetry
<1>20. QED
  BY <1>8, <1>14, <1>15, <1>18, <1>19 DEF Inv

LEMMA SetWorkerInv ==
    ASSUME Inv, NEW u \in Session, SetWorker(u)
    PROVE  Inv'
<1> DEFINE s == todo[u][1]
<1>1. /\ todo[u] # <<>> /\ Head(todo[u]) = s /\ s \in Commit /\ s.do = "worker"
      /\ Sound(s) /\ Orderly(jobs, todo[u]) /\ 1 \in 1 .. Len(todo[u])
  BY HeadLemma DEF SetWorker
<1>2. s.worker \in Worker /\ s.to \in WorkerStatus
  BY <1>1, CommitKinds DEF WorkerStep
<1>3. worker' = [worker EXCEPT ![s.worker] = s.to] /\ Then(u, <<>>)
  BY <1>1 DEF SetWorker
<1>4. /\ worker' \in [Worker -> WorkerStatus]
      /\ \A w \in Worker : worker'[w] = IF w = s.worker THEN s.to ELSE worker[w]
  BY <1>2, <1>3 DEF Inv, TypeInv
<1>5. <<>> \in Seq(Commit) /\ Len(<<>>) = 0
  BY EmptySeq
<1>6. /\ Moves(u, <<>>, 1)
      /\ todo' \in [Session -> Seq(Commit)]
  BY <1>1, <1>3, <1>5, ThenLemma DEF Inv, Moves
<1>7. TypeInv'
  BY <1>4, <1>6 DEF Inv, TypeInv, SetWorker, Quiet
<1>8. Grow
  BY TableSizes DEF Grow, Inv, SetWorker
<1>9. Orderly(jobs', <<>>) /\ \A i \in 1 .. Len(<<>>) : FALSE
  BY <1>5, OrderlyPlain
<1>10. \A i \in 1 .. 1 : i = 1
  OBVIOUS
<1>11. ASSUME NEW j \in 1 .. Len(jobs'), jobs'[j].status = "Running"
       PROVE  /\ j \in 1 .. Len(jobs) /\ jobs[j].status = "Running"
              /\ \A i \in 1 .. 1 : ~ Ends(todo[u][i], j)
  BY <1>1, <1>10, <1>11 DEF Ends, SetWorker
<1>12. ASSUME NEW w \in Worker, worker'[w] \in Busy
       PROVE  \/ \E i \in 1 + 1 .. Len(todo[u]) : Frees(jobs', todo[u][i], w)
              \/ worker[w] \in Busy /\ \A i \in 1 .. 1 : ~ Frees(jobs, todo[u][i], w)
  <2>1. CASE w = s.worker
    <3>1. s.to \in Busy
      BY <1>4, <1>12, <2>1
    <3>2. \E k \in 1 + 1 .. Len(todo[u]) : Frees(jobs, todo[u][k], w)
      BY <1>1, <2>1, <3>1 DEF Orderly, Starts
    <3>3. QED
      BY <3>2 DEF SetWorker
  <2>2. CASE w # s.worker
    BY <1>1, <1>4, <1>10, <1>12, <2>2 DEF Frees
  <2>3. QED
    BY <2>1, <2>2
<1>13. \A j \in 1 .. Len(jobs') : j \in 1 .. Len(jobs) /\ jobs'[j].retries = jobs[j].retries
  BY DEF SetWorker
<1>14. Lineage' /\ StatusBacked'
  BY DEF Inv, Lineage, StatusBacked, SetWorker
<1>15. crashed' = crashed
  BY DEF SetWorker, Quiet
<1>16. PICK p : p = <<>>
  OBVIOUS
<1> HIDE DEF s
<1>17. QED
  BY <1>6, <1>7, <1>8, <1>9, <1>11, <1>12, <1>13, <1>14, <1>15, <1>16, StepLemma

\* What a job's operator, if it has one, is told.
LEMMA TellLemma ==
    ASSUME NEW by \in Worker \cup {NoWorker}, NEW status \in WorkerStatus,
           NEW p, Tell(by, status) = p
    PROVE  /\ p \in Seq(Commit)
           /\ \A i \in 1 .. Len(p) : p[i] = Report(by, status) /\ by \in Worker
           /\ by \in Worker => Len(p) = 1 /\ p[1] = Report(by, status)
<1>1. CASE by = NoWorker
  <2>1. p = <<>> /\ Len(p) = 0
    BY <1>1 DEF Tell
  <2>2. p \in Seq(Commit)
    BY <2>1, EmptySeq
  <2>3. by \notin Worker
    BY <1>1 DEF Worker, NoWorker
  <2>4. QED
    BY <2>1, <2>2, <2>3
<1>2. CASE by # NoWorker
  <2> DEFINE a == Report(by, status)
  <2>1. a \in Commit /\ by \in Worker
    BY <1>2, ReportStep
  <2>2. p = <<a>>
    BY <1>2 DEF Tell
  <2> HIDE DEF a
  <2>3. p \in Seq(Commit) /\ Len(p) = 1 /\ p[1] = a
    BY <2>1, <2>2, Program1
  <2>4. \A i \in 1 .. Len(p) : i = 1
    BY <2>3
  <2>5. QED
    BY <2>1, <2>3, <2>4 DEF a
<1>3. QED
  BY <1>1, <1>2

LEMMA CompleteJobInv ==
    ASSUME Inv, NEW u \in Session, CompleteJob(u)
    PROVE  Inv'
<1> DEFINE s == todo[u][1]
           row == [jobs[s.job] EXCEPT !.status = "Completed"]
<1>1. /\ todo[u] # <<>> /\ Head(todo[u]) = s /\ s \in Commit /\ s.do = "complete"
      /\ Sound(s) /\ Orderly(jobs, todo[u]) /\ 1 \in 1 .. Len(todo[u])
  BY HeadLemma DEF CompleteJob
<1>2. s \in CompleteStep /\ s.job \in 1 .. Len(jobs)
  BY <1>1, CommitKinds DEF Sound
<1>3. PICK by \in Worker \cup {NoWorker} : by = jobs[s.job].by
  BY <1>2, JobLemma DEF Inv
<1>4. PICK p : Tell(by, "Idle") = p
  OBVIOUS
<1>5. jobs' = [jobs EXCEPT ![s.job] = row] /\ Then(u, p)
  BY <1>1, <1>3, <1>4 DEF CompleteJob
<1>6. /\ row \in JobRow /\ row.by = jobs[s.job].by
      /\ row.status = "Completed" /\ row.retries = jobs[s.job].retries
  <2>1. jobs[s.job] \in JobRow
    BY <1>2, JobLemma DEF Inv
  <2>2. "Completed" \in JobStatus
    BY DEF JobStatus
  <2> HIDE DEF s
  <2>3. QED
    BY <2>1, <2>2, RowChange
<1> HIDE DEF row
<1>7. /\ jobs' \in Seq(JobRow) /\ Len(jobs') = Len(jobs)
      /\ \A i \in 1 .. Len(jobs) : /\ jobs'[i] = IF i = s.job THEN row ELSE jobs[i]
                                   /\ jobs'[i].by = jobs[i].by
  <2> DEFINE j == s.job
             js == jobs'
  <2>1. TypeInv /\ j \in 1 .. Len(jobs) /\ [jobs EXCEPT ![j] = row] = js
        /\ row \in JobRow /\ row.by = jobs[j].by
    BY <1>2, <1>5, <1>6 DEF Inv
  <2> HIDE DEF j, js, s
  <2>2. /\ js \in Seq(JobRow) /\ Len(js) = Len(jobs)
        /\ \A i \in 1 .. Len(jobs) : /\ js[i] = IF i = j THEN row ELSE jobs[i]
                                     /\ js[i].by = jobs[i].by
    BY <2>1, JobChange
  <2>3. QED
    BY <2>2 DEF j, js
<1>8. /\ p \in Seq(Commit)
      /\ \A i \in 1 .. Len(p) : p[i] = Report(by, "Idle") /\ by \in Worker
      /\ by \in Worker => Len(p) = 1 /\ p[1] = Report(by, "Idle")
  BY <1>4, TellLemma DEF WorkerStatus
<1>9. Moves(u, p, 1) /\ todo' \in [Session -> Seq(Commit)]
  BY <1>1, <1>5, <1>8, ThenLemma DEF Inv, Moves
<1>10. UNCHANGED <<worker, research, packages, audits, library, calls, runs, crashed>>
  BY DEF CompleteJob, Quiet
<1>11. TypeInv'
  BY <1>7, <1>9, <1>10 DEF Inv, TypeInv
<1>12. Grow
  BY <1>7, <1>10, TableSizes DEF Grow, Inv
<1>13. \A i \in 1 .. Len(p) : p[i].do = "worker" /\ p[i].to = "Idle"
  BY <1>8 DEF Report
<1>14. Orderly(jobs', p) /\ \A i \in 1 .. Len(p) : p[i].do # "requeue"
  <2>1. PICK js : js = jobs'
    OBVIOUS
  <2>2. Orderly(js, p) /\ \A i \in 1 .. Len(p) : p[i].do # "requeue"
    BY <1>13, OrderlyPlain DEF Busy
  <2>3. QED
    BY <2>1, <2>2
<1>15. \A i \in 1 .. Len(p) : Sound(p[i])'
  BY <1>13 DEF Sound
<1>16. ASSUME NEW j \in 1 .. Len(jobs'), jobs'[j].status = "Running"
       PROVE  /\ j \in 1 .. Len(jobs) /\ jobs[j].status = "Running"
              /\ \A i \in 1 .. 1 : ~ Ends(todo[u][i], j)
  <2>1. j # s.job
    BY <1>6, <1>7, <1>16
  <2>2. jobs[j].status = "Running" /\ j \in 1 .. Len(jobs)
    BY <1>7, <1>16, <2>1
  <2>3. ~ Ends(s, j)
    BY <1>1, <2>1 DEF Ends
  <2>4. \A i \in 1 .. 1 : i = 1
    OBVIOUS
  <2>5. QED
    BY <2>2, <2>3, <2>4
<1>17. ASSUME NEW w \in Worker, worker'[w] \in Busy
       PROVE  \/ \E i \in 1 .. Len(p) : Frees(jobs', p[i], w)
              \/ worker[w] \in Busy /\ \A i \in 1 .. 1 : ~ Frees(jobs, todo[u][i], w)
  <2>1. CASE by = w
    <3>1. 1 \in 1 .. Len(p) /\ p[1] = Report(w, "Idle")
      BY <1>8, <2>1
    <3>2. Frees(jobs', p[1], w)
      BY <3>1 DEF Frees, Report, Busy
    <3>3. QED
      BY <3>1, <3>2
  <2>2. CASE by # w
    <3>1. ~ Frees(jobs, s, w)
      BY <1>1, <1>3, <2>2 DEF Frees
    <3>2. \A i \in 1 .. 1 : i = 1
      OBVIOUS
    <3>3. QED
      BY <1>10, <1>17, <3>1, <3>2
  <2>3. QED
    BY <2>1, <2>2
<1>18. \A j \in 1 .. Len(jobs') : j \in 1 .. Len(jobs) /\ jobs'[j].retries = jobs[j].retries
  BY <1>6, <1>7
<1>19. Lineage' /\ StatusBacked'
  BY <1>10 DEF Inv, Lineage, StatusBacked
<1> HIDE DEF s
<1>20. QED
  BY <1>9, <1>10, <1>11, <1>12, <1>13, <1>14, <1>15, <1>16, <1>17, <1>18, <1>19, StepLemma

\* A step that changes no table: what its elements were to end or to free,
\* those that take their place do.
LEMMA TalkLemma ==
    ASSUME Inv, UNCHANGED tables, Quiet,
           NEW u \in Session, NEW p, NEW d, Moves(u, p, d),
           todo' \in [Session -> Seq(Commit)],
           \A i \in 1 .. Len(p) : Sound(p[i]) /\ p[i].do # "requeue",
           Orderly(jobs, p),
           \/ \A i \in 1 .. Len(p) : p[i].do \in {"status", "worker"}
           \/ Calm(todo[u], d + 1),
           \A x \in 1 .. d, j \in 1 .. Len(jobs) : Ends(todo[u][x], j) =>
               \E i \in 1 .. Len(p) : Ends(p[i], j),
           \A x \in 1 .. d, w \in Worker : Frees(jobs, todo[u][x], w) =>
               \E i \in 1 .. Len(p) : Frees(jobs, p[i], w)
    PROVE  Inv'
<1>1. /\ jobs' = jobs /\ worker' = worker /\ research' = research /\ packages' = packages
      /\ audits' = audits /\ library' = library
      /\ calls' = calls /\ runs' = runs /\ crashed' = crashed
  BY DEF tables, Quiet
<1>2. TypeInv'
  BY <1>1 DEF Inv, TypeInv
<1>3. Grow
  BY <1>1, TableSizes DEF Grow, Inv
<1>4. ASSUME NEW i \in 1 .. Len(p)
      PROVE  Sound(p[i])' /\ p[i].do # "requeue"
  <2>1. PICK a : a = p[i]
    OBVIOUS
  <2>2. a \in Commit /\ Sound(a)
    BY <2>1, ElementOfSeq DEF Moves, Spliced
  <2>3. Sound(a)'
    BY <1>2, <1>3, <2>2, SoundKept DEF Inv
  <2>4. QED
    BY <2>1, <2>3
<1>5. Orderly(jobs', p)
  BY <1>1
<1>6. ASSUME NEW j \in 1 .. Len(jobs'), jobs'[j].status = "Running"
      PROVE  \/ \E i \in 1 .. Len(p) : Ends(p[i], j)
             \/ /\ j \in 1 .. Len(jobs) /\ jobs[j].status = "Running"
                /\ \A i \in 1 .. d : ~ Ends(todo[u][i], j)
  BY <1>1, <1>6
<1>7. ASSUME NEW w \in Worker, worker'[w] \in Busy
      PROVE  \/ \E i \in 1 .. Len(p) : Frees(jobs', p[i], w)
             \/ worker[w] \in Busy /\ \A i \in 1 .. d : ~ Frees(jobs, todo[u][i], w)
  BY <1>1, <1>7
<1>8. \A j \in 1 .. Len(jobs') : j \in 1 .. Len(jobs) /\ jobs'[j].retries = jobs[j].retries
  BY <1>1
<1>9. Lineage' /\ StatusBacked'
  BY <1>1 DEF Inv, Lineage, StatusBacked
<1>10. QED
  BY <1>1, <1>2, <1>3, <1>4, <1>5, <1>6, <1>7, <1>8, <1>9, StepLemma

\* An exception: the head of the program is lost, and what it was to free
\* the cleanup frees; of the elements skipped nobody expects anything.
LEMMA RaiseInv ==
    ASSUME Inv, UNCHANGED tables, Quiet, NEW u \in Session, NEW do,
           Next1(u, do), do \in {"dispatch", "count", "insert"},
           NEW cleanup \in Seq(Commit), Raise(u, cleanup),
           \A i \in 1 .. Len(cleanup) : cleanup[i].do = "worker" /\ cleanup[i].to \notin Busy,
           \A w \in Worker : Frees(jobs, todo[u][1], w) =>
               \E i \in 1 .. Len(cleanup) : Frees(jobs, cleanup[i], w)
    PROVE  Inv'
<1> DEFINE q == todo[u]
<1>1. /\ q # <<>> /\ q \in Seq(Commit) /\ q[1].do = do
      /\ Orderly(jobs, q) /\ Calm(q, 1 + 1)
  BY HeadLemma
<1>2. /\ \E p \in Seq(Commit), d \in 1 .. Len(q) : Unwinds(u, cleanup, p, d)
      /\ todo' \in [Session -> Seq(Commit)]
      /\ \A v \in Session : v # u => todo'[v] = todo[v]
  BY <1>1, RaiseLemma DEF Inv
<1>3. PICK p \in Seq(Commit), d \in 1 .. Len(q) : Unwinds(u, cleanup, p, d)
  BY <1>2
<1>4. Moves(u, p, d)
  BY <1>2, <1>3 DEF Moves, Unwinds
<1>5. Len(q) \in Nat \ {0} /\ d \in Nat /\ 1 <= d /\ d <= Len(q) /\ Len(cleanup) \in Nat
  BY <1>1, EmptySeq, LenProperties
<1>6. \A x \in 1 .. Len(q) : q[x] \in Commit /\ Sound(q[x])
  BY <1>1, ElementOfSeq DEF Inv, ProgramsSound
<1>7. \A x \in 1 .. Len(q) : x < d => q[x].do # "complete"
  BY <1>3 DEF Unwinds
<1>8. ASSUME NEW x \in 1 .. d
      PROVE  x = 1 \/ Skippable(q[x]) \/ (x = d /\ q[x].do = "complete")
  <2>1. CASE x = 1
    BY <2>1
  <2>2. CASE x # 1
    <3>1. x \in 1 + 1 .. Len(q)
      BY <1>5, <2>2
    <3>2. Skippable(q[x]) \/ \E m \in 1 + 1 .. x : q[m].do = "complete"
      BY <1>1, <3>1 DEF Calm
    <3>3. ASSUME NEW m \in 1 + 1 .. x, q[m].do = "complete"
          PROVE  m = d /\ x = d
      <4>1. m \in 1 .. Len(q) /\ x <= d /\ m <= x
        BY <1>5
      <4>2. ~ (m < d)
        BY <1>7, <3>3, <4>1
      <4>3. QED
        BY <1>5, <4>1, <4>2
    <3>4. QED
      BY <3>2, <3>3
  <2>3. QED
    BY <2>1, <2>2
<1>9. CASE q[d].do = "complete"
  <2>1. q[d].job \in 1 .. Len(jobs)
    BY <1>6, <1>9 DEF Sound
  <2>2. PICK job \in 1 .. Len(jobs) : job = q[d].job
    BY <2>1
  <2>3. job \in Nat /\ jobs[job].by \in Worker \cup {NoWorker}
    BY <2>2, JobLemma DEF Inv
  <2>4. PICK by \in Worker \cup {NoWorker} : by = jobs[job].by
    BY <2>3
  <2>5. PICK c : c = Change(job, by, "Failed", "Failed")
    OBVIOUS
  <2>6. /\ c \in Seq(Commit) /\ c[1] = Assign(job, "Failed")
        /\ by = NoWorker => Len(c) = 1
        /\ by # NoWorker => Len(c) = 2 /\ c[2] = Report(by, "Failed")
    BY <2>3, <2>5, ChangeLemma DEF JobStatus, WorkerStatus
  <2>7. p = cleanup \o c
    BY <1>3, <1>9, <2>2, <2>4, <2>5 DEF Unwinds
  <2>8. /\ Len(p) = Len(cleanup) + Len(c)
        /\ \A i \in 1 .. Len(cleanup) : p[i] = cleanup[i]
        /\ \A i \in 1 .. Len(c) : p[Len(cleanup) + i] = c[i]
    BY <2>6, <2>7, ConcatElements
  <2>9. /\ Len(c) \in Nat /\ 1 <= Len(c) /\ Len(c) <= 2
        /\ \A i \in 1 .. Len(c) : i = 1 \/ (i = 2 /\ by # NoWorker)
    <3>1. CASE by = NoWorker
      <4>1. Len(c) = 1
        BY <2>6, <3>1
      <4> HIDE DEF NoWorker
      <4>2. QED
        BY <4>1
    <3>2. CASE by # NoWorker
      <4>1. Len(c) = 2
        BY <2>6, <3>2
      <4>2. \A i \in 1 .. Len(c) : i = 1 \/ i = 2
        BY <4>1
      <4>3. QED
        BY <3>2, <4>1, <4>2
    <3>3. QED
      BY <3>1, <3>2
  <2>10. \A i \in 1 .. Len(c) : i = 1 \/ (i = 2 /\ by # NoWorker)
    BY <2>9
  <2>11. \A i \in 1 .. Len(c) : \/ c[i] = Assign(job, "Failed")
                                \/ c[i] = Report(by, "Failed")
    BY <2>6, <2>10
  <2>12. ASSUME NEW i \in 1 .. Len(p)
         PROVE  \/ i \in 1 .. Len(cleanup) /\ p[i] = cleanup[i]
                \/ p[i] = Assign(job, "Failed") \/ p[i] = Report(by, "Failed")
    <3>1. CASE i <= Len(cleanup)
      BY <1>5, <2>8, <3>1
    <3>2. CASE ~ (i <= Len(cleanup))
      <4> DEFINE k == i - Len(cleanup)
      <4>1. k \in 1 .. Len(c) /\ Len(cleanup) + k = i
        BY <1>5, <2>8, <2>9, <3>2
      <4> HIDE DEF k
      <4>2. p[i] = c[k]
        BY <2>8, <4>1
      <4>3. QED
        BY <2>11, <4>1, <4>2
    <3>3. QED
      BY <3>1, <3>2
  <2>13. \A i \in 1 .. Len(p) : /\ p[i].do \in {"status", "worker"}
                                /\ p[i].do = "status" => p[i].to # "Running" /\ p[i].job = job
                                /\ p[i].do = "worker" => p[i].to \notin Busy
    BY <2>12 DEF Assign, Report, Busy
  <2>14. Orderly(jobs, p) /\ \A i \in 1 .. Len(p) : p[i].do # "requeue"
    BY <2>13, OrderlyPlain
  <2>15. \A i \in 1 .. Len(p) : Sound(p[i])
    BY <2>2, <2>13 DEF Sound
  <2>16. /\ Len(cleanup) + 1 \in 1 .. Len(p) /\ p[Len(cleanup) + 1] = Assign(job, "Failed")
         /\ by # NoWorker => /\ Len(cleanup) + 2 \in 1 .. Len(p)
                             /\ p[Len(cleanup) + 2] = Report(by, "Failed")
    <3>1. 1 \in 1 .. Len(c)
      BY <2>9
    <3>2. by # NoWorker => 2 \in 1 .. Len(c)
      BY <2>6
    <3>3. QED
      BY <1>5, <2>6, <2>8, <2>9, <3>1, <3>2
  <2>17. ASSUME NEW x \in 1 .. d, NEW j \in 1 .. Len(jobs), Ends(q[x], j)
         PROVE  \E i \in 1 .. Len(p) : Ends(p[i], j)
    <3>1. x = d /\ q[x].do = "complete"
      BY <1>1, <1>8, <2>17 DEF Ends, Skippable
    <3>2. j = job
      BY <2>2, <2>17, <3>1 DEF Ends
    <3>3. Ends(p[Len(cleanup) + 1], j)
      BY <2>16, <3>2 DEF Ends, Assign
    <3>4. QED
      BY <2>16, <3>3
  <2>18. ASSUME NEW x \in 1 .. d, NEW w \in Worker, Frees(jobs, q[x], w)
         PROVE  \E i \in 1 .. Len(p) : Frees(jobs, p[i], w)
    <3>1. ~ Skippable(q[x])
      BY <2>18 DEF Frees, Skippable, Keeper
    <3>2. CASE x = 1
      <4>1. PICK i \in 1 .. Len(cleanup) : Frees(jobs, cleanup[i], w)
        BY <2>18, <3>2
      <4>2. i \in 1 .. Len(p) /\ p[i] = cleanup[i]
        BY <1>5, <2>8, <2>9
      <4>3. QED
        BY <4>1, <4>2
    <3>3. CASE x = d /\ q[x].do = "complete"
      <4>1. by = w
        BY <2>2, <2>4, <2>18, <3>3 DEF Frees
      <4>2. by # NoWorker
        BY <4>1 DEF Worker, NoWorker
      <4>3. Frees(jobs, p[Len(cleanup) + 2], w)
        BY <2>16, <4>1, <4>2 DEF Frees, Report, Busy
      <4>4. QED
        BY <2>16, <4>2, <4>3
    <3>4. QED
      BY <1>8, <3>1, <3>2, <3>3
  <2> HIDE DEF q
  <2>19. \A i \in 1 .. Len(p) : p[i].do \in {"status", "worker"}
    BY <2>13
  <2>20. QED
    BY <1>2, <1>4, <2>14, <2>15, <2>17, <2>18, <2>19, TalkLemma DEF q
<1>10. CASE q[d].do # "complete"
  <2>1. p = cleanup
    BY <1>3, <1>10 DEF Unwinds
  <2>2. Orderly(jobs, p) /\ \A i \in 1 .. Len(p) : p[i].do # "requeue"
    BY <2>1, OrderlyPlain
  <2>3. \A i \in 1 .. Len(p) : Sound(p[i])
    BY <2>1 DEF Sound
  <2>4. ASSUME NEW x \in 1 .. d, NEW j \in 1 .. Len(jobs), Ends(q[x], j)
        PROVE  \E i \in 1 .. Len(p) : Ends(p[i], j)
    BY <1>1, <1>8, <1>10, <2>4 DEF Ends, Skippable
  <2>5. ASSUME NEW x \in 1 .. d, NEW w \in Worker, Frees(jobs, q[x], w)
        PROVE  \E i \in 1 .. Len(p) : Frees(jobs, p[i], w)
    <3>1. ~ Skippable(q[x])
      BY <2>5 DEF Frees, Skippable, Keeper
    <3>2. x = 1
      BY <1>8, <1>10, <3>1
    <3>3. QED
      BY <2>1, <2>5, <3>2
  <2>6. \A i \in 1 .. Len(p) : p[i].do \in {"status", "worker"}
    BY <2>1
  <2> HIDE DEF q
  <2>7. QED
    BY <1>2, <1>4, <2>2, <2>3, <2>4, <2>5, <2>6, TalkLemma DEF q
<1>11. QED
  BY <1>9, <1>10

\* dispatch_job goes on with p, or raises.
LEMMA DispatchTalk ==
    ASSUME Inv, UNCHANGED tables, Quiet, NEW u \in Session, Next1(u, "dispatch"),
           NEW p \in Seq(Commit), Then(u, p),
           \A i \in 1 .. Len(p) : Sound(p[i]) /\ p[i].do # "requeue",
           Orderly(jobs, p)
    PROVE  Inv'
<1>1. todo[u] # <<>> /\ todo[u][1].do = "dispatch" /\ Calm(todo[u], 1 + 1)
  BY HeadLemma
<1>2. Moves(u, p, 1) /\ todo' \in [Session -> Seq(Commit)]
  BY <1>1, ThenLemma DEF Inv, Moves
<1>3. \A x \in 1 .. 1 : x = 1
  OBVIOUS
<1>4. \A x \in 1 .. 1, j \in 1 .. Len(jobs) : ~ Ends(todo[u][x], j)
  BY <1>1, <1>3 DEF Ends
<1>5. \A x \in 1 .. 1, w \in Worker : ~ Frees(jobs, todo[u][x], w)
  BY <1>1, <1>3 DEF Frees
<1>6. QED
  BY <1>1, <1>2, <1>4, <1>5, TalkLemma

LEMMA DispatchRaise ==
    ASSUME Inv, UNCHANGED tables, Quiet, NEW u \in Session, Next1(u, "dispatch"),
           Raise(u, <<>>)
    PROVE  Inv'
<1>1. todo[u][1].do = "dispatch"
  BY HeadLemma
<1>2. \A w \in Worker : ~ Frees(jobs, todo[u][1], w)
  BY <1>1 DEF Frees
<1>3. PICK c \in Seq(Commit) : c = <<>> /\ Len(c) = 0
  BY EmptySeq
<1>4. \A i \in 1 .. Len(c) : FALSE
  BY <1>3
<1>5. Raise(u, c)
  BY <1>3
<1>6. "dispatch" \in {"dispatch", "count", "insert"}
  OBVIOUS
<1>7. PICK do : do = "dispatch"
  OBVIOUS
<1>8. Next1(u, do) /\ do \in {"dispatch", "count", "insert"}
  BY <1>6, <1>7
<1>9. QED
  BY <1>2, <1>4, <1>5, <1>8, RaiseInv

\* A worker is set to work, and will be told when its row is in or refused.
LEMMA WorkerRun ==
    ASSUME NEW t \in {"research", "audits", "library"}, NEW row \in Row, NEW js,
           NEW p, <<Report(Keeper[t], "Running"), Count(t, row)>> = p
    PROVE  /\ p \in Seq(Commit) /\ Len(p) = 2
           /\ p[1] = Report(Keeper[t], "Running") /\ p[2] = Count(t, row)
           /\ Orderly(js, p)
           /\ \A i \in 1 .. Len(p) : i = 1 \/ i = 2
<1> DEFINE a == Report(Keeper[t], "Running")
           b == Count(t, row)
<1>1. Keeper[t] \in Worker /\ t \in DOMAIN Keeper /\ t \in Table
  BY DEF Keeper, Worker, Table
<1>2. a \in Commit /\ b \in Commit
  BY <1>1, ReportStep, TableSteps DEF WorkerStatus
<1>3. /\ a.do = "worker" /\ a.worker = Keeper[t]
      /\ b.do = "count" /\ b.table = t
  BY DEF Report, Count
<1> HIDE DEF a, b
<1>4. p \in Seq(Commit) /\ Len(p) = 2 /\ p[1] = a /\ p[2] = b
  BY <1>2, Program2 DEF a, b
<1>5. \A i \in 1 .. Len(p) : i = 1 \/ i = 2
  BY <1>4
<1>6. 2 \in 1 + 1 .. Len(p) /\ Frees(js, p[2], p[1].worker)
  BY <1>1, <1>3, <1>4 DEF Frees
<1>7. Starts(js, p)
  BY <1>3, <1>4, <1>5, <1>6 DEF Starts
<1>8. Raises(p)
  <2>1. \A k \in 2 + 1 .. Len(p) : FALSE
    BY <1>4
  <2>2. Calm(p, 2 + 1)
    BY <2>1 DEF Calm
  <2>3. QED
    BY <1>3, <1>4, <1>5, <2>2 DEF Raises
<1>9. Retries(p)
  BY <1>3, <1>4, <1>5 DEF Retries
<1>10. QED
  BY <1>4, <1>5, <1>7, <1>8, <1>9 DEF Orderly, a, b

\* The dispatch that sets a worker to work on a row it may store.
LEMMA WorkerRunInv ==
    ASSUME Inv, UNCHANGED tables, Quiet, NEW u \in Session, Next1(u, "dispatch"),
           NEW t \in {"research", "audits", "library"}, NEW row \in Row,
           Then(u, <<Report(Keeper[t], "Running"), Count(t, row)>>),
           t = "research" => row = "pending_audit",
           t = "audits" => row \in AuditRow /\ row.research \in 1 .. Len(research),
           t = "library" => /\ row \in LibraryRow
                            /\ row.audit \in 1 .. Len(audits)
                            /\ row.research \in 1 .. Len(research)
    PROVE  Inv'
<1>1. PICK js : js = jobs
  OBVIOUS
<1>2. PICK p : <<Report(Keeper[t], "Running"), Count(t, row)>> = p
  OBVIOUS
<1>3. /\ p \in Seq(Commit)
      /\ p[1] = Report(Keeper[t], "Running") /\ p[2] = Count(t, row)
      /\ Orderly(js, p)
      /\ \A i \in 1 .. Len(p) : i = 1 \/ i = 2
  BY <1>2, WorkerRun
<1>4. /\ Sound(Report(Keeper[t], "Running"))
      /\ Report(Keeper[t], "Running").do # "requeue"
  BY DEF Sound, Report
<1>5. Sound(Count(t, row)) /\ Count(t, row).do # "requeue"
  BY DEF Sound, Count
<1>6. \A i \in 1 .. Len(p) : Sound(p[i]) /\ p[i].do # "requeue"
  BY <1>3, <1>4, <1>5
<1>7. Then(u, p) /\ Orderly(jobs, p)
  BY <1>1, <1>2, <1>3
<1>8. QED
  BY <1>3, <1>6, <1>7, DispatchTalk

LEMMA TableDomains ==
    TypeInv => /\ DOMAIN jobs = 1 .. Len(jobs) /\ DOMAIN research = 1 .. Len(research)
               /\ DOMAIN audits = 1 .. Len(audits) /\ DOMAIN library = 1 .. Len(library)
BY LenProperties DEF TypeInv

LEMMA DispatchResearchInv ==
    ASSUME Inv, NEW u \in Session, NEW found \in BOOLEAN, DispatchResearch(u, found)
    PROVE  Inv'
<1>1. UNCHANGED tables /\ Quiet /\ Next1(u, "dispatch")
  BY DEF DispatchResearch, Dispatching
<1>2. CASE found
  <2>1. Then(u, <<Report("PX-R001", "Running"), Count("research", "pending_audit")>>)
    BY <1>2 DEF DispatchResearch
  <2>2. PICK t \in {"research", "audits", "library"} : t = "research"
    OBVIOUS
  <2>3. PICK row \in Row : row = "pending_audit"
    BY DEF Row
  <2>4. Then(u, <<Report(Keeper[t], "Running"), Count(t, row)>>)
    BY <2>1, <2>2, <2>3 DEF Keeper
  <2>5. QED
    BY <1>1, <2>2, <2>3, <2>4, WorkerRunInv
<1>3. CASE ~ found
  <2>1. Raise(u, <<>>)
    BY <1>3 DEF DispatchResearch
  <2>2. QED
    BY <1>1, <2>1, DispatchRaise
<1>4. QED
  BY <1>2, <1>3

LEMMA DispatchAuditInv ==
    ASSUME Inv, NEW u \in Session, NEW decision \in Decision, DispatchAudit(u, decision)
    PROVE  Inv'
<1> DEFINE j == Head(todo[u]).job
           r == jobs[j].research
<1>1. UNCHANGED tables /\ Quiet /\ Next1(u, "dispatch")
  BY DEF DispatchAudit, Dispatching
<1>2. j \in 1 .. Len(jobs)
  BY <1>1, HeadLemma DEF Sound
<1>3. r \in Nat
  BY <1>2, JobLemma DEF JobRow, Inv
<1>4. CASE r \in DOMAIN research
  <2>1. Then(u, <<Report("PX-A001", "Running"),
                  Count("audits", [research |-> r, decision |-> decision])>>)
    BY <1>4 DEF DispatchAudit
  <2>2. PICK t \in {"research", "audits", "library"} : t = "audits"
    OBVIOUS
  <2> HIDE DEF j, r
  <2>3. PICK row \in AuditRow : row = [research |-> r, decision |-> decision]
    BY <1>3 DEF AuditRow
  <2>4. row \in Row /\ row.research \in 1 .. Len(research)
    BY <1>4, <2>3, TableDomains DEF Row, Inv
  <2>5. Then(u, <<Report(Keeper[t], "Running"), Count(t, row)>>)
    BY <2>1, <2>2, <2>3 DEF Keeper
  <2>6. QED
    BY <1>1, <2>2, <2>4, <2>5, WorkerRunInv
<1>5. CASE r \notin DOMAIN research
  <2>1. Raise(u, <<>>)
    BY <1>5 DEF DispatchAudit
  <2>2. QED
    BY <1>1, <2>1, DispatchRaise
<1>6. QED
  BY <1>4, <1>5

LEMMA DispatchLibraryInv ==
    ASSUME Inv, NEW u \in Session, DispatchLibrary(u)
    PROVE  Inv'
<1> DEFINE j == Head(todo[u]).job
           job == jobs[j]
           may == /\ job.audit \in DOMAIN audits
                  /\ job.research \in DOMAIN research
                  /\ audits[job.audit].decision = "approved"
<1>1. UNCHANGED tables /\ Quiet /\ Next1(u, "dispatch")
  BY DEF DispatchLibrary, Dispatching
<1>2. j \in 1 .. Len(jobs)
  BY <1>1, HeadLemma DEF Sound
<1>3. job.audit \in Nat /\ job.research \in Nat
  BY <1>2, JobLemma DEF JobRow, Inv
<1>4. CASE may
  <2>1. Then(u, <<Report("PX-L001", "Running"),
                  Count("library", [audit |-> job.audit, research |-> job.research])>>)
    BY <1>4 DEF DispatchLibrary
  <2>2. PICK t \in {"research", "audits", "library"} : t = "library"
    OBVIOUS
  <2>3. job.audit \in DOMAIN audits /\ job.research \in DOMAIN research
    BY <1>4
  <2> HIDE DEF j, job
  <2>4. PICK row \in LibraryRow : row = [audit |-> job.audit, research |-> job.research]
    BY <1>3 DEF LibraryRow
  <2>5. row \in Row /\ row.audit \in 1 .. Len(audits) /\ row.research \in 1 .. Len(research)
    BY <2>3, <2>4, TableDomains DEF Row, Inv
  <2>6. Then(u, <<Report(Keeper[t], "Running"), Count(t, row)>>)
    BY <2>1, <2>2, <2>4 DEF Keeper
  <2>7. QED
    BY <1>1, <2>2, <2>4, <2>5, <2>6, WorkerRunInv
<1>5. CASE ~ may
  <2>1. Raise(u, <<>>)
    BY <1>5 DEF DispatchLibrary
  <2>2. QED
    BY <1>1, <2>1, DispatchRaise
<1>6. QED
  BY <1>4, <1>5

LEMMA DispatchOtherInv ==
    ASSUME Inv, NEW u \in Session, NEW ok \in BOOLEAN, DispatchOther(u, ok)
    PROVE  Inv'
<1>1. UNCHANGED tables /\ Quiet /\ Next1(u, "dispatch")
  BY DEF DispatchOther, Dispatching
<1>2. CASE ok
  <2>1. PICK p \in Seq(Commit) : p = <<>> /\ Len(p) = 0
    BY EmptySeq
  <2>2. Then(u, p)
    BY <1>2, <2>1 DEF DispatchOther
  <2>3. \A i \in 1 .. Len(p) : FALSE
    BY <2>1
  <2>4. PICK js : js = jobs
    OBVIOUS
  <2>5. Orderly(js, p)
    BY <2>3, OrderlyPlain
  <2>6. QED
    BY <1>1, <2>2, <2>3, <2>4, <2>5, DispatchTalk
<1>3. CASE ~ ok
  <2>1. Raise(u, <<>>)
    BY <1>3 DEF DispatchOther
  <2>2. QED
    BY <1>1, <2>1, DispatchRaise
<1>4. QED
  BY <1>2, <1>3

\* The number of rows is read: the identifier may be taken when it is used,
\* but it is never beyond the next one.
LEMMA CountRowsInv ==
    ASSUME Inv, NEW u \in Session, CountRows(u)
    PROVE  Inv'
<1> DEFINE s == todo[u][1]
           id == Rows(s.table) + 1
           a == Insert(s.table, s.row, id)
<1>1. /\ todo[u] # <<>> /\ Head(todo[u]) = s /\ s \in Commit /\ s.do = "count"
      /\ Sound(s) /\ Calm(todo[u], 1 + 1)
  BY HeadLemma DEF CountRows
<1>2. s.table \in Table /\ s.row \in Row
  BY <1>1, CommitKinds DEF CountStep
<1>3. Rows(s.table) \in Nat
  BY <1>2, TableSizes DEF Rows, Table, Inv
<1>4. a \in Commit
  BY <1>2, <1>3, TableSteps
<1>5. a.do = "insert" /\ a.table = s.table /\ a.row = s.row /\ a.id = id
  BY DEF Insert
<1>6. Sound(a)
  <2>1. a.id <= Rows(a.table) + 1
    BY <1>3, <1>5
  <2> HIDE DEF a
  <2>2. QED
    BY <1>1, <1>5, <2>1 DEF Sound
<1>7. UNCHANGED tables /\ Quiet /\ Then(u, <<a>>)
  BY <1>1 DEF CountRows
<1> HIDE DEF a
<1>8. PICK p \in Seq(Commit) : p = <<a>> /\ Len(p) = 1 /\ p[1] = a
  BY <1>4, Program1
<1>9. \A i \in 1 .. Len(p) : i = 1
  BY <1>8
<1>10. Moves(u, p, 1) /\ todo' \in [Session -> Seq(Commit)]
  BY <1>1, <1>7, <1>8, ThenLemma DEF Inv, Moves
<1>11. Orderly(jobs, p)
  <2>1. \A k \in 1 + 1 .. Len(p) : FALSE
    BY <1>8
  <2>2. Calm(p, 1 + 1)
    BY <2>1 DEF Calm
  <2>3. QED
    BY <1>5, <1>8, <1>9, <2>2 DEF Orderly, Starts, Raises, Retries
<1>12. \A x \in 1 .. 1 : x = 1
  OBVIOUS
<1>13. \A x \in 1 .. 1, j \in 1 .. Len(jobs) : ~ Ends(todo[u][x], j)
  BY <1>1, <1>12 DEF Ends
<1>14. ASSUME NEW x \in 1 .. 1, NEW w \in Worker, Frees(jobs, todo[u][x], w)
       PROVE  \E i \in 1 .. Len(p) : Frees(jobs, p[i], w)
  <2>1. Frees(jobs, s, w)
    BY <1>12, <1>14
  <2>2. Frees(jobs, p[1], w)
    BY <1>1, <1>5, <1>8, <2>1 DEF Frees
  <2>3. 1 \in 1 .. Len(p)
    BY <1>8
  <2>4. QED
    BY <2>2, <2>3
<1>15. \A i \in 1 .. Len(p) : Sound(p[i]) /\ p[i].do # "requeue"
  BY <1>5, <1>6, <1>8, <1>9
<1>16. QED
  BY <1>1, <1>7, <1>10, <1>11, <1>13, <1>14, <1>15, TalkLemma

\* The identifier was taken: worker_run tells its worker, and raises again.
LEMMA CollideInv ==
    ASSUME Inv, NEW u \in Session, Collide(u)
    PROVE  Inv'
<1> DEFINE s == todo[u][1]
           t == s.table
<1>1. /\ Head(todo[u]) = s /\ s.do = "insert"
  BY HeadLemma DEF Collide
<1>2. UNCHANGED tables /\ Quiet /\ Next1(u, "insert") /\ Raise(u, OwnWorker(t))
  BY <1>1 DEF Collide
<1>3. PICK do : do = "insert" /\ do \in {"dispatch", "count", "insert"}
  OBVIOUS
<1>4. Next1(u, do)
  BY <1>2, <1>3
<1>5. CASE t \in DOMAIN Keeper
  <2> DEFINE a == Report(Keeper[t], "Failed")
  <2>1. a \in Commit
    BY <1>5, ReportStep DEF Keeper, Worker, WorkerStatus
  <2>2. OwnWorker(t) = <<a>>
    BY <1>5 DEF OwnWorker
  <2>3. a.do = "worker" /\ a.to \notin Busy /\ a.worker = Keeper[t]
    BY DEF Report, Busy
  <2> HIDE DEF a
  <2>4. PICK c \in Seq(Commit) : c = <<a>> /\ Len(c) = 1 /\ c[1] = a
    BY <2>1, Program1
  <2>5. \A i \in 1 .. Len(c) : c[i].do = "worker" /\ c[i].to \notin Busy
    BY <2>3, <2>4
  <2>6. ASSUME NEW w \in Worker, Frees(jobs, todo[u][1], w)
        PROVE  \E i \in 1 .. Len(c) : Frees(jobs, c[i], w)
    <3>1. Keeper[t] = w
      BY <1>1, <2>6 DEF Frees
    <3>2. Frees(jobs, c[1], w)
      BY <2>3, <2>4, <3>1 DEF Frees
    <3>3. QED
      BY <2>4, <3>2
  <2>7. Raise(u, c)
    BY <1>2, <2>2, <2>4
  <2>8. QED
    BY <1>2, <1>3, <1>4, <2>5, <2>6, <2>7, RaiseInv
<1>6. CASE t \notin DOMAIN Keeper
  <2>1. PICK c \in Seq(Commit) : c = <<>> /\ Len(c) = 0
    BY EmptySeq
  <2>2. Raise(u, c)
    BY <1>2, <1>6, <2>1 DEF OwnWorker
  <2>3. \A i \in 1 .. Len(c) : FALSE
    BY <2>1
  <2>4. \A w \in Worker : ~ Frees(jobs, todo[u][1], w)
    BY <1>1, <1>6 DEF Frees
  <2>5. QED
    BY <1>2, <1>3, <1>4, <2>2, <2>3, <2>4, RaiseInv
<1>7. QED
  BY <1>5, <1>6

\* execute_job, of a job whose operator is by.
LEMMA ExecutingOrderly ==
    ASSUME NEW j \in Nat, NEW by \in Worker \cup {NoWorker}, NEW js, js[j].by = by,
           NEW p, Executing(j, by) = p
    PROVE  /\ p \in Seq(Commit) /\ Orderly(js, p)
           /\ \A i \in 1 .. Len(p) :
                 /\ p[i].do \in {"status", "worker", "dispatch", "complete"}
                 /\ p[i].do # "worker" => p[i].job = j
<1>1. /\ p \in Seq(Commit)
      /\ p[1] = Assign(j, "Running")
      /\ by = NoWorker => Len(p) = 3 /\ p[2] = Dispatch(j) /\ p[3] = Complete(j)
      /\ by # NoWorker => /\ Len(p) = 4 /\ p[2] = Report(by, "Working")
                          /\ p[3] = Dispatch(j) /\ p[4] = Complete(j)
  BY ExecutingLemma
<1>2. PICK n : n = Len(p)
  OBVIOUS
<1>3. /\ n \in {3, 4} /\ p[n] = Complete(j) /\ p[n - 1] = Dispatch(j)
      /\ n = 4 => p[2] = Report(by, "Working")
  <2>1. CASE by = NoWorker
    <3>1. n = 3 /\ p[2] = Dispatch(j) /\ p[3] = Complete(j)
      BY <1>1, <1>2, <2>1
    <3>2. n - 1 = 2 /\ n # 4
      BY <3>1
    <3>3. QED
      BY <3>1, <3>2
  <2>2. CASE by # NoWorker
    <3>1. n = 4 /\ p[2] = Report(by, "Working") /\ p[3] = Dispatch(j) /\ p[4] = Complete(j)
      BY <1>1, <1>2, <2>2
    <3>2. n - 1 = 3
      BY <3>1
    <3>3. QED
      BY <3>1, <3>2
  <2>3. QED
    BY <2>1, <2>2
<1>4. \A i \in 1 .. n : i = 1 \/ i = n \/ i = n - 1 \/ (i = 2 /\ n = 4)
  BY <1>3
<1>5. /\ Assign(j, "Running").do = "status" /\ Assign(j, "Running").job = j
      /\ Dispatch(j).do = "dispatch" /\ Dispatch(j).job = j
      /\ Complete(j).do = "complete" /\ Complete(j).job = j
      /\ Report(by, "Working").do = "worker" /\ Report(by, "Working").worker = by
  BY DEF Assign, Dispatch, Complete, Report
<1>6. \A i \in 1 .. n : /\ p[i].do = "status" => i = 1
                        /\ p[i].do = "worker" => i = 2 /\ n = 4
                        /\ p[i].do = "dispatch" => i = n - 1
                        /\ p[i].do \in {"status", "worker", "dispatch", "complete"}
                        /\ p[i].do # "worker" => p[i].job = j
  BY <1>1, <1>3, <1>4, <1>5
<1>7. ASSUME NEW i \in 1 .. n
      PROVE  /\ p[i].do = "status" =>
                   \E k \in i + 1 .. n : p[k].do = "complete" /\ p[k].job = p[i].job
             /\ p[i].do = "worker" => \E k \in i + 1 .. n : Frees(js, p[k], p[i].worker)
  <2>1. p[i].do = "status" \/ p[i].do = "worker" => n \in i + 1 .. n
    BY <1>3, <1>6
  <2>2. p[n].do = "complete" /\ p[n].job = j
    BY <1>3, <1>5
  <2>3. p[i].do = "status" => p[i].job = j
    BY <1>6
  <2>4. p[i].do = "worker" => p[i].worker = by
    BY <1>3, <1>5, <1>6
  <2>5. Frees(js, p[n], by)
    BY <2>2 DEF Frees
  <2>6. QED
    BY <2>1, <2>2, <2>3, <2>4, <2>5
<1>8. ASSUME NEW i \in 1 .. n, p[i].do \in {"dispatch", "count", "insert"}
      PROVE  Calm(p, i + 1)
  <2>1. i = n - 1
    BY <1>6, <1>8
  <2>2. \A k \in i + 1 .. n : k = n
    BY <1>3, <2>1
  <2>3. n \in i + 1 .. n /\ p[n].do = "complete"
    BY <1>3, <1>5, <2>1
  <2>4. QED
    BY <1>2, <2>2, <2>3 DEF Calm
<1>9. Retries(p)
  BY <1>2, <1>6 DEF Retries
<1>10. Orderly(js, p)
  BY <1>2, <1>7, <1>8, <1>9 DEF Orderly, Starts, Raises
<1>11. QED
  BY <1>1, <1>2, <1>6, <1>10

LEMMA InsertJobInv ==
    ASSUME Inv, NEW u \in Session, InsertJob(u)
    PROVE  Inv'
<1> DEFINE s == todo[u][1]
           row == [kind |-> s.row.kind, research |-> s.row.research,
                   audit |-> s.row.audit, by |-> s.row.by,
                   status |-> "Pending", retries |-> 0]
<1>1. /\ todo[u] # <<>> /\ Head(todo[u]) = s /\ s \in Commit /\ s.do = "insert"
      /\ Sound(s) /\ Calm(todo[u], 1 + 1) /\ s.table = "jobs" /\ s.id > Rows(s.table)
  BY HeadLemma DEF InsertJob, Inserting
<1>2. s.row \in Order /\ s.id = Len(jobs) + 1 /\ Len(jobs) \in Nat
  <2>1. s.id \in Nat /\ s.row \in Order /\ s.id <= Rows(s.table) + 1
    BY <1>1, CommitKinds DEF InsertStep, Sound
  <2>2. Rows(s.table) = Len(jobs) /\ Len(jobs) \in Nat
    BY <1>1, TableSizes DEF Rows, Inv
  <2>3. QED
    BY <1>1, <2>1, <2>2
<1>3. row \in JobRow /\ row.status = "Pending" /\ row.retries = 0 /\ row.by = s.row.by
  BY <1>2 DEF Order, JobRow, JobStatus
<1>4. jobs' = Append(jobs, row) /\ Then(u, IF s.row.run THEN Executing(s.id, s.row.by) ELSE <<>>)
  BY <1>1 DEF InsertJob
<1> HIDE DEF row
<1>5. /\ jobs' \in Seq(JobRow) /\ Len(jobs') = Len(jobs) + 1
      /\ \A j \in 1 .. Len(jobs) : jobs'[j] = jobs[j]
      /\ jobs'[Len(jobs) + 1] = row
  BY <1>3, <1>4, AppendProperties DEF Inv, TypeInv
<1>6. UNCHANGED <<worker, research, packages, audits, library, calls, runs, crashed>>
  BY DEF InsertJob, Quiet
<1>7. PICK j \in Nat : j = s.id /\ j \in 1 .. Len(jobs')
  BY <1>2, <1>5
<1>8. PICK by \in Worker \cup {NoWorker} : by = s.row.by
  BY <1>2 DEF Order
<1>9. PICK js : js = jobs'
  OBVIOUS
<1>10. js[j].by = by
  BY <1>2, <1>3, <1>5, <1>7, <1>8, <1>9
<1>11. \E p \in Seq(Commit) :
          /\ Then(u, p) /\ Orderly(js, p)
          /\ \A i \in 1 .. Len(p) :
                /\ p[i].do \in {"status", "worker", "dispatch", "complete"}
                /\ p[i].do # "worker" => p[i].job = j
  <2>1. CASE s.row.run
    <3>1. PICK p : Executing(j, by) = p
      OBVIOUS
    <3>2. Then(u, p)
      BY <1>4, <1>7, <1>8, <2>1, <3>1
    <3>3. QED
      BY <1>10, <3>1, <3>2, ExecutingOrderly
  <2>2. CASE ~ s.row.run
    <3>1. PICK p \in Seq(Commit) : p = <<>> /\ Len(p) = 0
      BY EmptySeq
    <3>2. Then(u, p)
      BY <1>4, <2>2, <3>1
    <3>3. \A i \in 1 .. Len(p) : FALSE
      BY <3>1
    <3>4. QED
      BY <3>2, <3>3, OrderlyPlain
  <2>3. QED
    BY <2>1, <2>2
<1>12. PICK p \in Seq(Commit) :
          /\ Then(u, p) /\ Orderly(js, p)
          /\ \A i \in 1 .. Len(p) :
                /\ p[i].do \in {"status", "worker", "dispatch", "complete"}
                /\ p[i].do # "worker" => p[i].job = j
  BY <1>11
<1>13. Moves(u, p, 1) /\ todo' \in [Session -> Seq(Commit)]
  BY <1>1, <1>12, ThenLemma DEF Inv, Moves
<1>14. TypeInv'
  BY <1>5, <1>6, <1>13 DEF Inv, TypeInv
<1>15. Grow
  BY <1>2, <1>5, <1>6, TableSizes DEF Grow, Inv
<1>16. Orderly(jobs', p)
  BY <1>9, <1>12
<1>17. \A i \in 1 .. Len(p) : Sound(p[i])' /\ p[i].do # "requeue"
  BY <1>7, <1>12 DEF Sound
<1>18. \A i \in 1 .. Len(jobs') : i \in 1 .. Len(jobs) \/ i = Len(jobs) + 1
  BY <1>2, <1>5
<1>19. \A x \in 1 .. 1 : x = 1
  OBVIOUS
<1>20. ASSUME NEW i \in 1 .. Len(jobs'), jobs'[i].status = "Running"
       PROVE  /\ i \in 1 .. Len(jobs) /\ jobs[i].status = "Running"
              /\ \A x \in 1 .. 1 : ~ Ends(todo[u][x], i)
  <2>1. i \in 1 .. Len(jobs)
    BY <1>3, <1>5, <1>18, <1>20
  <2>2. ~ Ends(s, i)
    BY <1>1 DEF Ends
  <2>3. QED
    BY <1>5, <1>19, <1>20, <2>1, <2>2
<1>21. ASSUME NEW w \in Worker, worker'[w] \in Busy
       PROVE  worker[w] \in Busy /\ \A x \in 1 .. 1 : ~ Frees(jobs, todo[u][x], w)
  <2>1. ~ Frees(jobs, s, w)
    BY <1>1 DEF Frees, Keeper
  <2>2. QED
    BY <1>6, <1>19, <1>21, <2>1
<1>22. \A i \in 1 .. Len(jobs') : IF i \in 1 .. Len(jobs) THEN jobs'[i].retries = jobs[i].retries
                                                          ELSE jobs'[i].retries = 0
  BY <1>3, <1>5, <1>18
<1>23. Lineage' /\ StatusBacked'
  BY <1>6 DEF Inv, Lineage, StatusBacked
<1> HIDE DEF s
<1>24. QED
  BY <1>1, <1>6, <1>13, <1>14, <1>15, <1>16, <1>17, <1>20, <1>21, <1>22, <1>23, StepLemma

\* What follows the insert of a row of a worker's table: the worker is told,
\* and then counts are read, of which an exception may skip all but the first.
LEMMA OrderlyAfter ==
    ASSUME NEW js, NEW p,
           \A i \in 1 .. Len(p) : \/ p[i].do = "worker" /\ p[i].to \notin Busy
                                  \/ p[i].do = "count",
           \A i \in 1 .. Len(p) : \A k \in i + 1 .. Len(p) :
               p[i].do = "count" => Skippable(p[k])
    PROVE  Orderly(js, p) /\ \A i \in 1 .. Len(p) : p[i].do # "requeue"
<1>1. Starts(js, p)
  BY DEF Starts
<1>2. Raises(p)
  BY DEF Raises, Calm
<1>3. Retries(p)
  BY DEF Retries
<1>4. QED
  BY <1>1, <1>2, <1>3 DEF Orderly

\* What the insert of a row in a table other than jobs has to show.
LEMMA RowInsert ==
    ASSUME Inv, TypeInv', Grow, NEW u \in Session, Next1(u, "insert"),
           jobs' = jobs, worker' = worker, crashed' = crashed,
           NEW p \in Seq(Commit), Then(u, p),
           \A i \in 1 .. Len(p) : Sound(p[i])' /\ p[i].do # "requeue",
           Orderly(jobs, p),
           \A w \in Worker : Frees(jobs, todo[u][1], w) =>
               \E i \in 1 .. Len(p) : Frees(jobs, p[i], w),
           Lineage', StatusBacked'
    PROVE  Inv'
<1>1. todo[u] # <<>> /\ todo[u][1].do = "insert" /\ Calm(todo[u], 1 + 1)
  BY HeadLemma
<1>2. Moves(u, p, 1)
  BY <1>1, ThenLemma DEF Inv, Moves
<1>3. \A x \in 1 .. 1 : x = 1
  OBVIOUS
<1>4. ASSUME NEW j \in 1 .. Len(jobs'), jobs'[j].status = "Running"
      PROVE  /\ j \in 1 .. Len(jobs) /\ jobs[j].status = "Running"
             /\ \A x \in 1 .. 1 : ~ Ends(todo[u][x], j)
  <2>1. ~ Ends(todo[u][1], j)
    BY <1>1 DEF Ends
  <2>2. QED
    BY <1>3, <1>4, <2>1
<1>5. ASSUME NEW w \in Worker, worker'[w] \in Busy
      PROVE  \/ \E i \in 1 .. Len(p) : Frees(jobs', p[i], w)
             \/ worker[w] \in Busy /\ \A x \in 1 .. 1 : ~ Frees(jobs, todo[u][x], w)
  <2>1. CASE Frees(jobs, todo[u][1], w)
    BY <2>1
  <2>2. CASE ~ Frees(jobs, todo[u][1], w)
    BY <1>3, <1>5, <2>2
  <2>3. QED
    BY <2>1, <2>2
<1>6. \A j \in 1 .. Len(jobs') : j \in 1 .. Len(jobs) /\ jobs'[j].retries = jobs[j].retries
  OBVIOUS
<1>7. QED
  BY <1>1, <1>2, <1>4, <1>5, <1>6, StepLemma

LEMMA InsertingLemma ==
    ASSUME Inv, NEW u \in Session, NEW t, Inserting(u, t)
    PROVE  /\ Next1(u, "insert") /\ Head(todo[u]) = todo[u][1]
           /\ todo[u][1] \in InsertStep /\ todo[u][1].do = "insert"
           /\ todo[u][1].table = t /\ Sound(todo[u][1])
           /\ \A w \in Worker : Frees(jobs, todo[u][1], w) =>
                 t \in DOMAIN Keeper /\ Keeper[t] = w
<1>1. Next1(u, "insert")
  BY DEF Inserting
<1>2. /\ Head(todo[u]) = todo[u][1] /\ todo[u][1] \in Commit
      /\ todo[u][1].do = "insert" /\ Sound(todo[u][1])
  BY <1>1, HeadLemma
<1>3. QED
  BY <1>1, <1>2, CommitKinds DEF Inserting, Frees

LEMMA InsertPackageInv ==
    ASSUME Inv, NEW u \in Session, InsertPackage(u)
    PROVE  Inv'
<1>1. Inserting(u, "packages") /\ packages' = packages + 1 /\ Then(u, <<>>)
  BY DEF InsertPackage
<1>2. UNCHANGED <<jobs, worker, research, audits, library, calls, runs, crashed>>
  BY DEF InsertPackage, Quiet
<1>3. /\ Next1(u, "insert")
      /\ \A w \in Worker : ~ Frees(jobs, todo[u][1], w)
  BY <1>1, InsertingLemma DEF Keeper
<1>4. PICK p \in Seq(Commit) : p = <<>> /\ Len(p) = 0
  BY EmptySeq
<1>5. \A i \in 1 .. Len(p) : FALSE
  BY <1>4
<1>6. Then(u, p) /\ Orderly(jobs, p)
  <2>1. PICK js : js = jobs
    OBVIOUS
  <2>2. Orderly(js, p)
    BY <1>5, OrderlyPlain
  <2>3. QED
    BY <1>1, <1>4, <2>1, <2>2
<1>7. todo[u] # <<>>
  BY <1>3 DEF Next1
<1>8. todo' \in [Session -> Seq(Commit)]
  BY <1>6, <1>7, ThenLemma DEF Inv
<1>9. TypeInv'
  BY <1>1, <1>2, <1>8 DEF Inv, TypeInv
<1>10. Grow
  BY <1>1, <1>2, TableSizes DEF Grow, Inv
<1>11. Lineage' /\ StatusBacked'
  BY <1>2 DEF Inv, Lineage, StatusBacked
<1>12. QED
  BY <1>2, <1>3, <1>5, <1>6, <1>9, <1>10, <1>11, RowInsert

LEMMA InsertResearchInv ==
    ASSUME Inv, NEW u \in Session, InsertResearch(u)
    PROVE  Inv'
<1> DEFINE s == todo[u][1]
<1>1. /\ Next1(u, "insert") /\ Head(todo[u]) = s /\ s \in InsertStep
      /\ s.table = "research" /\ s.do = "insert" /\ Sound(s)
      /\ \A w \in Worker : Frees(jobs, s, w) => w = "PX-R001"
  BY InsertingLemma DEF InsertResearch, Keeper
<1>2. PICK order \in Order : order = [kind |-> "Audit", research |-> s.id, audit |-> 0,
                                      by |-> "PX-A001", run |-> TRUE]
  BY <1>1 DEF InsertStep, Order, Kind, Worker
<1>3. UNCHANGED <<jobs, worker, packages, audits, library, calls, runs, crashed>>
  BY DEF InsertResearch, Quiet
<1>4. PICK a, b, c : a = Report("PX-R001", "Completed") /\ b = Count("packages", "row")
                     /\ c = Count("jobs", order)
  OBVIOUS
<1>5. research' = Append(research, "pending_audit") /\ Then(u, <<a, b, c>>)
  BY <1>1, <1>2, <1>4 DEF InsertResearch, NewJob, Sound
<1>6. /\ a \in Commit /\ b \in Commit /\ c \in Commit
      /\ a.do = "worker" /\ a.worker = "PX-R001" /\ a.to = "Completed"
      /\ b.do = "count" /\ b.table = "packages"
      /\ c.do = "count" /\ c.table = "jobs" /\ c.row = order
  <2>1. order \in Row /\ "row" \in Row /\ "jobs" \in Table /\ "packages" \in Table
        /\ "PX-R001" \in Worker /\ "Completed" \in WorkerStatus
    BY DEF Worker, WorkerStatus, Table, Row
  <2>2. QED
    BY <1>4, <2>1, ReportStep, TableSteps DEF Report, Count
<1>7. Sound(a)' /\ Sound(b)' /\ Sound(c)'
  BY <1>6 DEF Sound
<1>8. PICK p \in Seq(Commit) : p = <<a, b, c>> /\ Len(p) = 3 /\ p[1] = a /\ p[2] = b /\ p[3] = c
  <2>1. a \in Commit /\ b \in Commit /\ c \in Commit
    BY <1>6
  <2>2. PICK p : p = <<a, b, c>>
    OBVIOUS
  <2>3. p \in Seq(Commit) /\ Len(p) = 3 /\ p[1] = a /\ p[2] = b /\ p[3] = c
    BY <2>1, <2>2, Program3
  <2>4. QED
    BY <2>2, <2>3
<1>9. \A i \in 1 .. Len(p) : i = 1 \/ i = 2 \/ i = 3
  BY <1>8
<1>10. Then(u, p) /\ Orderly(jobs, p) /\ \A i \in 1 .. Len(p) : p[i].do # "requeue"
  <2>1. \A i \in 1 .. Len(p) : \/ p[i].do = "worker" /\ p[i].to \notin Busy
                               \/ p[i].do = "count"
    BY <1>6, <1>8, <1>9 DEF Busy
  <2>2. ASSUME NEW i \in 1 .. Len(p), NEW k \in i + 1 .. Len(p), p[i].do = "count"
        PROVE  Skippable(p[k])
    <3>1. i # 1
      BY <1>6, <1>8, <2>2
    <3>2. k = 3
      BY <1>8, <3>1
    <3>3. QED
      BY <1>6, <1>8, <3>2 DEF Skippable
  <2>3. PICK js : js = jobs
    OBVIOUS
  <2>4. Orderly(js, p) /\ \A i \in 1 .. Len(p) : p[i].do # "requeue"
    BY <2>1, <2>2, OrderlyAfter
  <2>5. QED
    BY <1>5, <1>8, <2>3, <2>4
<1>11. \A i \in 1 .. Len(p) : Sound(p[i])'
  BY <1>7, <1>8, <1>9
<1>12. ASSUME NEW w \in Worker, Frees(jobs, s, w)
       PROVE  \E i \in 1 .. Len(p) : Frees(jobs, p[i], w)
  <2>1. Frees(jobs, p[1], w)
    BY <1>1, <1>6, <1>8, <1>12 DEF Frees, Busy
  <2>2. 1 \in 1 .. Len(p)
    BY <1>8
  <2>3. QED
    BY <2>1, <2>2
<1>13. /\ research' \in Seq(ResearchStatus) /\ Len(research') = Len(research) + 1
       /\ \A r \in 1 .. Len(research) : research'[r] = research[r]
       /\ research'[Len(research) + 1] = "pending_audit"
  <2>1. research \in Seq(ResearchStatus) /\ "pending_audit" \in ResearchStatus
    BY DEF Inv, TypeInv, ResearchStatus
  <2>2. QED
    BY <1>5, <2>1, AppendProperties
<1>14. todo[u] # <<>>
  BY <1>1 DEF Next1
<1>15. todo' \in [Session -> Seq(Commit)]
  BY <1>10, <1>14, ThenLemma DEF Inv
<1>16. TypeInv'
  BY <1>3, <1>13, <1>15 DEF Inv, TypeInv
<1>17. Grow
  BY <1>3, <1>13, TableSizes DEF Grow, Inv
<1>18. /\ DOMAIN research = 1 .. Len(research) /\ DOMAIN research' = 1 .. Len(research')
       /\ Len(research) \in Nat
  BY <1>13, LenProperties DEF Inv, TypeInv
<1>19. Lineage'
  <2>1. DOMAIN research \subseteq DOMAIN research'
    BY <1>13, <1>18
  <2>2. QED
    BY <1>3, <2>1 DEF Inv, Lineage
<1>20. StatusBacked'
  <2>1. ASSUME NEW r \in DOMAIN research'
        PROVE  \/ r \in DOMAIN research /\ research'[r] = research[r]
               \/ research'[r] = "pending_audit"
    BY <1>13, <1>18
  <2>2. QED
    BY <1>3, <2>1 DEF Inv, StatusBacked
<1> HIDE DEF s
<1>21. QED
  BY <1>1, <1>3, <1>10, <1>11, <1>12, <1>16, <1>17, <1>19, <1>20, RowInsert DEF s

\* The worker of a table is told, and a job may have to be created.
LEMMA Afterwards ==
    ASSUME NEW w \in Worker, NEW order \in Order, NEW more \in BOOLEAN, NEW js,
           NEW p, <<Report(w, "Completed")>> \o
                      (IF more THEN <<Count("jobs", order)>> ELSE <<>>) = p
    PROVE  /\ p \in Seq(Commit) /\ Orderly(js, p)
           /\ \A i \in 1 .. Len(p) : /\ p[i].do # "requeue"
                                     /\ \/ p[i] = Report(w, "Completed")
                                        \/ p[i] = Count("jobs", order)
           /\ 1 \in 1 .. Len(p) /\ p[1] = Report(w, "Completed")
<1>1. PICK a, b : a = Report(w, "Completed") /\ b = Count("jobs", order)
  OBVIOUS
<1>2. /\ a \in Commit /\ b \in Commit
      /\ a.do = "worker" /\ a.to = "Completed"
      /\ b.do = "count" /\ b.table = "jobs"
  <2>1. order \in Row /\ "jobs" \in Table /\ "Completed" \in WorkerStatus
    BY DEF Row, Table, WorkerStatus
  <2>2. QED
    BY <1>1, <2>1, ReportStep, TableSteps DEF Report, Count
<1>3. /\ p \in Seq(Commit) /\ 1 \in 1 .. Len(p) /\ p[1] = a
      /\ \A i \in 1 .. Len(p) : (p[i] = a /\ i = 1) \/ (p[i] = b /\ i = 2 /\ Len(p) = 2)
  <2>1. <<a>> \in Seq(Commit) /\ Len(<<a>>) = 1 /\ <<a>>[1] = a
    BY <1>2, Program1
  <2>2. <<b>> \in Seq(Commit) /\ Len(<<b>>) = 1 /\ <<b>>[1] = b
    BY <1>2, Program1
  <2>3. CASE more
    <3>1. p = <<a>> \o <<b>>
      BY <1>1, <2>3
    <3>2. /\ p \in Seq(Commit) /\ Len(p) = 2 /\ p[1] = a /\ p[2] = b
      BY <2>1, <2>2, <3>1, ConcatProperties
    <3>3. \A i \in 1 .. Len(p) : i = 1 \/ i = 2
      BY <3>2
    <3>4. QED
      BY <3>2, <3>3
  <2>4. CASE ~ more
    <3>1. p = <<a>> \o <<>>
      BY <1>1, <2>4
    <3>2. p = <<a>>
      BY <2>1, <3>1, ConcatEmptySeq
    <3>3. \A i \in 1 .. Len(p) : i = 1
      BY <2>1, <3>2
    <3>4. QED
      BY <2>1, <3>2, <3>3
  <2>5. QED
    BY <2>3, <2>4
<1>4. Orderly(js, p) /\ \A i \in 1 .. Len(p) : p[i].do # "requeue"
  <2>1. \A i \in 1 .. Len(p) : \/ p[i].do = "worker" /\ p[i].to \notin Busy
                               \/ p[i].do = "count"
    BY <1>2, <1>3 DEF Busy
  <2>2. ASSUME NEW i \in 1 .. Len(p), NEW k \in i + 1 .. Len(p), p[i].do = "count"
        PROVE  FALSE
    BY <1>2, <1>3, <2>2
  <2>3. QED
    BY <2>1, <2>2, OrderlyAfter
<1>5. QED
  BY <1>1, <1>3, <1>4

LEMMA InsertAuditInv ==
    ASSUME Inv, NEW u \in Session, InsertAudit(u)
    PROVE  Inv'
<1> DEFINE s == todo[u][1]
<1>1. /\ Next1(u, "insert") /\ Head(todo[u]) = s /\ s \in InsertStep
      /\ s.table = "audits" /\ s.do = "insert" /\ Sound(s)
      /\ \A w \in Worker : Frees(jobs, s, w) => w = "PX-A001"
  BY InsertingLemma DEF InsertAudit, Keeper
<1>2. UNCHANGED <<jobs, worker, packages, library, calls, runs, crashed>>
  BY DEF InsertAudit, Quiet
<1>3. PICK row \in AuditRow : row = s.row /\ row.research \in 1 .. Len(research)
  BY <1>1 DEF Sound
<1>4. PICK r \in Nat : r = row.research
  BY DEF AuditRow
<1>5. PICK status \in ResearchStatus : status = PipelineStatus(row.decision)
  BY DEF AuditRow, PipelineStatus, ResearchStatus
<1>6. PICK order \in Order : order = [kind |-> "Library", research |-> r, audit |-> s.id,
                                      by |-> "PX-L001", run |-> TRUE]
  BY <1>1, <1>4 DEF InsertStep, Order, Kind, Worker
<1>7. PICK more \in BOOLEAN : more = (row.decision = "approved")
  OBVIOUS
<1>8. PICK p : <<Report("PX-A001", "Completed")>> \o
                   (IF more THEN <<Count("jobs", order)>> ELSE <<>>) = p
  OBVIOUS
<1>9. PICK js : js = jobs
  OBVIOUS
<1>10. /\ audits' = Append(audits, row)
       /\ research' = [research EXCEPT ![r] = status]
       /\ Then(u, p)
  BY <1>1, <1>3, <1>4, <1>5, <1>6, <1>7, <1>8 DEF InsertAudit, NewJob
<1>11. /\ p \in Seq(Commit) /\ Orderly(js, p)
       /\ \A i \in 1 .. Len(p) : /\ p[i].do # "requeue"
                                 /\ \/ p[i] = Report("PX-A001", "Completed")
                                    \/ p[i] = Count("jobs", order)
       /\ 1 \in 1 .. Len(p) /\ p[1] = Report("PX-A001", "Completed")
  <2>1. PICK w \in Worker : w = "PX-A001"
    BY DEF Worker
  <2>2. <<Report(w, "Completed")>> \o (IF more THEN <<Count("jobs", order)>> ELSE <<>>) = p
    BY <1>8, <2>1
  <2>3. /\ p \in Seq(Commit) /\ Orderly(js, p)
        /\ \A i \in 1 .. Len(p) : /\ p[i].do # "requeue"
                                  /\ \/ p[i] = Report(w, "Completed")
                                     \/ p[i] = Count("jobs", order)
        /\ 1 \in 1 .. Len(p) /\ p[1] = Report(w, "Completed")
    BY <2>2, Afterwards
  <2>4. QED
    BY <2>1, <2>3
<1>12. \A i \in 1 .. Len(p) : Sound(p[i])'
  <2>1. Sound(Report("PX-A001", "Completed"))' /\ Sound(Count("jobs", order))'
    BY DEF Sound, Report, Count
  <2>2. PICK a, b : a = Report("PX-A001", "Completed") /\ b = Count("jobs", order)
    OBVIOUS
  <2>3. Sound(a)' /\ Sound(b)'
    BY <2>1, <2>2
  <2>4. \A i \in 1 .. Len(p) : p[i] = a \/ p[i] = b
    BY <1>11, <2>2
  <2>5. QED
    BY <2>3, <2>4
<1>13. ASSUME NEW w \in Worker, Frees(jobs, s, w)
       PROVE  \E i \in 1 .. Len(p) : Frees(jobs, p[i], w)
  <2>1. Frees(jobs, p[1], w)
    BY <1>1, <1>11, <1>13 DEF Frees, Report, Busy
  <2>2. QED
    BY <1>11, <2>1
<1>14. /\ audits' \in Seq(AuditRow) /\ Len(audits') = Len(audits) + 1
       /\ \A a \in 1 .. Len(audits) : audits'[a] = audits[a]
       /\ audits'[Len(audits) + 1] = row
  BY <1>10, AppendProperties DEF Inv, TypeInv
<1>15. /\ research' \in Seq(ResearchStatus) /\ Len(research') = Len(research)
       /\ \A x \in 1 .. Len(research) : research'[x] = IF x = r THEN status ELSE research[x]
  <2>1. research \in Seq(ResearchStatus) /\ r \in 1 .. Len(research)
    BY <1>3, <1>4 DEF Inv, TypeInv
  <2>2. QED
    BY <1>10, <2>1, ExceptSeq
<1>16. todo[u] # <<>>
  BY <1>1 DEF Next1
<1>17. todo' \in [Session -> Seq(Commit)]
  BY <1>10, <1>11, <1>16, ThenLemma DEF Inv
<1>18. TypeInv'
  BY <1>2, <1>14, <1>15, <1>17 DEF Inv, TypeInv
<1>19. /\ Len(jobs) \in Nat /\ Len(research) \in Nat /\ packages \in Nat
       /\ Len(audits) \in Nat /\ Len(library) \in Nat
  BY TableSizes DEF Inv
<1>20. Grow
  BY <1>2, <1>14, <1>15, <1>19 DEF Grow
<1>21. /\ DOMAIN research = 1 .. Len(research) /\ DOMAIN research' = 1 .. Len(research)
       /\ DOMAIN audits = 1 .. Len(audits) /\ DOMAIN audits' = 1 .. Len(audits) + 1
  BY <1>14, <1>15, <1>18, LenProperties DEF Inv, TypeInv
<1>22. Lineage'
  <2>1. ASSUME NEW a \in DOMAIN audits'
        PROVE  audits'[a].research \in DOMAIN research'
    <3>1. a \in DOMAIN audits \/ a = Len(audits) + 1
      BY <1>19, <1>21
    <3>2. CASE a \in DOMAIN audits
      BY <1>14, <1>21, <3>2 DEF Inv, Lineage
    <3>3. CASE a = Len(audits) + 1
      BY <1>3, <1>14, <1>21, <3>3
    <3>4. QED
      BY <3>1, <3>2, <3>3
  <2>2. ASSUME NEW l \in DOMAIN library'
        PROVE  library'[l].audit \in DOMAIN audits' /\ library'[l].research \in DOMAIN research'
    <3>1. DOMAIN audits \subseteq DOMAIN audits'
      BY <1>19, <1>21
    <3>2. QED
      BY <1>2, <1>21, <2>2, <3>1 DEF Inv, Lineage
  <2>3. QED
    BY <2>1, <2>2 DEF Lineage
<1>23. StatusBacked'
  <2>1. ASSUME NEW x \in DOMAIN research', x # r, research'[x] # "pending_audit",
               ~ (research'[x] = "stored_in_library" /\ \E l \in DOMAIN library' : library'[l].research = x)
        PROVE  \E a \in DOMAIN audits' :
                   audits'[a].research = x /\ PipelineStatus(audits'[a].decision) = research'[x]
    <3>1. research'[x] = research[x] /\ x \in DOMAIN research
      BY <1>15, <1>21, <2>1
    <3>2. PICK a \in DOMAIN audits :
             audits[a].research = x /\ PipelineStatus(audits[a].decision) = research[x]
      BY <1>2, <2>1, <3>1 DEF Inv, StatusBacked
    <3>3. a \in DOMAIN audits' /\ audits'[a] = audits[a]
      BY <1>14, <1>19, <1>21
    <3>4. QED
      BY <3>1, <3>2, <3>3
  <2>2. /\ Len(audits) + 1 \in DOMAIN audits' /\ audits'[Len(audits) + 1].research = r
        /\ PipelineStatus(audits'[Len(audits) + 1].decision) = research'[r]
    BY <1>3, <1>4, <1>5, <1>14, <1>15, <1>19, <1>21
  <2>3. QED
    BY <2>1, <2>2 DEF StatusBacked, PipelineStatus
<1>24. Orderly(jobs, p)
  BY <1>9, <1>11
<1>25. \A i \in 1 .. Len(p) : p[i].do # "requeue"
  BY <1>11
<1> HIDE DEF s
<1>26. QED
  BY <1>1, <1>2, <1>10, <1>11, <1>12, <1>13, <1>18, <1>20, <1>22, <1>23, <1>24, <1>25,
     RowInsert DEF s

LEMMA InsertLibraryInv ==
    ASSUME Inv, NEW u \in Session, InsertLibrary(u)
    PROVE  Inv'
<1> DEFINE s == todo[u][1]
<1>1. /\ Next1(u, "insert") /\ Head(todo[u]) = s /\ s \in InsertStep
      /\ s.table = "library" /\ s.do = "insert" /\ Sound(s)
      /\ \A w \in Worker : Frees(jobs, s, w) => w = "PX-L001"
  BY InsertingLemma DEF InsertLibrary, Keeper
<1>2. UNCHANGED <<jobs, worker, packages, audits, calls, runs, crashed>>
  BY DEF InsertLibrary, Quiet
<1>3. PICK row \in LibraryRow : /\ row = s.row
                                /\ row.audit \in 1 .. Len(audits)
                                /\ row.research \in 1 .. Len(research)
  BY <1>1 DEF Sound
<1>4. PICK r \in Nat : r = row.research
  BY DEF LibraryRow
<1>5. PICK a : a = Report("PX-L001", "Completed")
  OBVIOUS
<1>6. /\ library' = Append(library, row)
      /\ research' = [research EXCEPT ![r] = "stored_in_library"]
      /\ Then(u, <<a>>)
  BY <1>1, <1>3, <1>4, <1>5 DEF InsertLibrary
<1>7. a \in Commit /\ a.do = "worker" /\ a.worker = "PX-L001" /\ a.to = "Completed"
  BY <1>5, ReportStep DEF Report, Worker, WorkerStatus
<1>8. PICK p \in Seq(Commit) : p = <<a>> /\ Len(p) = 1 /\ p[1] = a
  BY <1>7, Program1
<1>9. 1 \in 1 .. Len(p) /\ \A i \in 1 .. Len(p) : p[i] = a
  BY <1>8
<1>10. Orderly(jobs, p) /\ Then(u, p)
  <2>1. PICK js : js = jobs
    OBVIOUS
  <2>2. Orderly(js, p)
    BY <1>7, <1>9, OrderlyPlain DEF Busy
  <2>3. QED
    BY <1>6, <1>8, <2>1, <2>2
<1>11. \A i \in 1 .. Len(p) : Sound(p[i])' /\ p[i].do # "requeue"
  BY <1>7, <1>9 DEF Sound
<1>12. ASSUME NEW w \in Worker, Frees(jobs, s, w)
       PROVE  \E i \in 1 .. Len(p) : Frees(jobs, p[i], w)
  <2>1. Frees(jobs, p[1], w)
    BY <1>1, <1>7, <1>8, <1>12 DEF Frees, Busy
  <2>2. QED
    BY <1>9, <2>1
<1>13. /\ library' \in Seq(LibraryRow) /\ Len(library') = Len(library) + 1
       /\ \A l \in 1 .. Len(library) : library'[l] = library[l]
       /\ library'[Len(library) + 1] = row
  BY <1>6, AppendProperties DEF Inv, TypeInv
<1>14. /\ research' \in Seq(ResearchStatus) /\ Len(research') = Len(research)
       /\ \A x \in 1 .. Len(research) :
             research'[x] = IF x = r THEN "stored_in_library" ELSE research[x]
  <2>1. /\ research \in Seq(ResearchStatus) /\ r \in 1 .. Len(research)
        /\ "stored_in_library" \in ResearchStatus
    BY <1>3, <1>4 DEF Inv, TypeInv, ResearchStatus
  <2>2. QED
    BY <1>6, <2>1, ExceptSeq
<1>15. todo[u] # <<>>
  BY <1>1 DEF Next1
<1>16. todo' \in [Session -> Seq(Commit)]
  BY <1>10, <1>15, ThenLemma DEF Inv
<1>17. TypeInv'
  BY <1>2, <1>13, <1>14, <1>16 DEF Inv, TypeInv
<1>18. /\ Len(jobs) \in Nat /\ Len(research) \in Nat /\ packages \in Nat
       /\ Len(audits) \in Nat /\ Len(library) \in Nat
  BY TableSizes DEF Inv
<1>19. Grow
  BY <1>2, <1>13, <1>14, <1>18 DEF Grow
<1>20. /\ DOMAIN research = 1 .. Len(research) /\ DOMAIN research' = 1 .. Len(research)
       /\ DOMAIN audits = 1 .. Len(audits)
       /\ DOMAIN library = 1 .. Len(library) /\ DOMAIN library' = 1 .. Len(library) + 1
  BY <1>13, <1>14, <1>17, LenProperties DEF Inv, TypeInv
<1>21. \A l \in DOMAIN library' :
           (l \in DOMAIN library /\ library'[l] = library[l]) \/ library'[l] = row
  <2>1. SUFFICES ASSUME NEW l \in DOMAIN library'
                 PROVE  (l \in DOMAIN library /\ library'[l] = library[l]) \/ library'[l] = row
    OBVIOUS
  <2>2. l \in 1 .. Len(library) \/ l = Len(library) + 1
    BY <1>18, <1>20
  <2>3. QED
    BY <1>13, <1>20, <2>2
<1>22. Lineage'
  <2>1. \A a1 \in DOMAIN audits' : audits'[a1].research \in DOMAIN research'
    BY <1>2, <1>20 DEF Inv, Lineage
  <2>2. ASSUME NEW l \in DOMAIN library'
        PROVE  library'[l].audit \in DOMAIN audits' /\ library'[l].research \in DOMAIN research'
    <3>1. CASE l \in DOMAIN library /\ library'[l] = library[l]
      BY <1>2, <1>20, <3>1 DEF Inv, Lineage
    <3>2. CASE library'[l] = row
      BY <1>2, <1>3, <1>20, <3>2
    <3>3. QED
      BY <1>21, <3>1, <3>2
  <2>3. QED
    BY <2>1, <2>2 DEF Lineage
<1>23. StatusBacked'
  <2>1. ASSUME NEW x \in DOMAIN research', x # r
        PROVE  \/ research'[x] = "pending_audit"
               \/ research'[x] = "stored_in_library" /\ \E l \in DOMAIN library' : library'[l].research = x
               \/ \E a1 \in DOMAIN audits' : audits'[a1].research = x
                                  /\ PipelineStatus(audits'[a1].decision) = research'[x]
    <3>1. research'[x] = research[x] /\ x \in DOMAIN research
      BY <1>14, <1>20, <2>1
    <3>2. \A l \in DOMAIN library : l \in DOMAIN library' /\ library'[l] = library[l]
      BY <1>13, <1>18, <1>20
    <3>3. QED
      BY <1>2, <3>1, <3>2 DEF Inv, StatusBacked
  <2>2. /\ Len(library) + 1 \in DOMAIN library' /\ library'[Len(library) + 1].research = r
        /\ (r \in DOMAIN research' => research'[r] = "stored_in_library")
    BY <1>4, <1>13, <1>14, <1>18, <1>20
  <2>3. QED
    BY <2>1, <2>2 DEF StatusBacked, PipelineStatus
<1> HIDE DEF s
<1>24. QED
  BY <1>1, <1>2, <1>10, <1>11, <1>12, <1>17, <1>19, <1>22, <1>23, RowInsert DEF s

---------------------------------------------------------------------------
(* What the users ask for.                                                 *)

\* A program is given to an idle session, which nobody waited for.
LEMMA AskLemma ==
    ASSUME Inv, TypeInv', Grow, jobs' = jobs, worker' = worker, crashed' = crashed,
           NEW u \in Session, NEW p \in Seq(Commit), Ask(u, p),
           \A i \in 1 .. Len(p) : Sound(p[i]), Orderly(jobs, p),
           \A i \in 1 .. Len(p), j \in 1 .. Len(jobs) :
               p[i] = Requeue(j) => jobs[j].retries < MaxRetries,
           Lineage', StatusBacked'
    PROVE  Inv'
<1>1. /\ todo[u] = <<>> /\ Len(todo[u]) = 0 /\ todo' = [todo EXCEPT ![u] = p]
      /\ todo'[u] = p /\ \A v \in Session : v # u => todo'[v] = todo[v]
  BY DEF Ask, Inv, TypeInv
<1>2. \A v \in Session : /\ DOMAIN todo[v] = 1 .. Len(todo[v])
                         /\ DOMAIN todo'[v] = 1 .. Len(todo'[v])
  BY LenProperties DEF Inv, TypeInv
<1>3. ProgramsSound'
  <2>1. ASSUME NEW v \in Session, NEW i \in 1 .. Len(todo'[v]), NEW s, s = todo'[v][i]
        PROVE  Sound(s)'
    <3>1. s \in Commit
      BY <2>1, ElementOfSeq DEF TypeInv
    <3>2. Sound(s)
      <4>1. CASE v = u
        BY <1>1, <2>1, <4>1
      <4>2. CASE v # u
        BY <1>1, <2>1, <4>2 DEF Inv, ProgramsSound
      <4>3. QED
        BY <4>1, <4>2
    <3>3. QED
      BY <3>1, <3>2, SoundKept DEF Inv
  <2>2. QED
    BY <2>1 DEF ProgramsSound
<1>4. ProgramsOrderly'
  BY <1>1 DEF Inv, ProgramsOrderly
<1>5. NothingLeftRunning'
  <2>1. ASSUME NEW v \in Session, NEW j, WillEnd(v, j)
        PROVE  WillEnd(v, j)'
    <3>1. v # u
      BY <1>1, <2>1 DEF WillEnd
    <3>2. QED
      BY <1>1, <2>1, <3>1 DEF WillEnd
  <2>2. ASSUME NEW v \in Session, NEW w, WillFree(v, w)
        PROVE  WillFree(v, w)'
    <3>1. v # u
      BY <1>1, <2>2 DEF WillFree
    <3>2. QED
      BY <1>1, <2>2, <3>1 DEF WillFree
  <2>3. QED
    BY <2>1, <2>2 DEF Inv, NothingLeftRunning
<1>6. RetriesNearBudget'
  <2>1. SUFFICES ASSUME NEW j \in DOMAIN jobs'
                 PROVE  jobs'[j].retries + Cardinality(Retrying(j)')
                           <= MaxRetries + Cardinality(Session) - 1
    BY DEF RetriesNearBudget
  <2>2. j \in 1 .. Len(jobs) /\ j \in DOMAIN jobs
    BY <2>1, TableDomains DEF Inv
  <2>3. jobs[j].retries \in Nat
    BY <2>2, JobLemma DEF Inv, JobRow
  <2>4. Cardinality(Session) \in Nat /\ MaxRetries \in Nat
    BY SessionAssumption, NumberAssumption, FS_CardinalityType
  <2> DEFINE before == Retrying(j)
             after == Retrying(j)'
  <2>5. before \subseteq Session /\ after \subseteq Session
    BY DEF Retrying
  <2>6. /\ IsFiniteSet(before) /\ IsFiniteSet(after)
        /\ Cardinality(before) \in Nat /\ Cardinality(after) \in Nat
        /\ Cardinality(after) <= Cardinality(Session)
    BY <2>5, SessionAssumption, FS_Subset, FS_CardinalityType
  <2>7. jobs[j].retries + Cardinality(before) <= MaxRetries + Cardinality(Session) - 1
    BY <2>2 DEF Inv, RetriesNearBudget
  <2>8. CASE \E i \in 1 .. Len(p) : p[i] = Requeue(j)
    <3>1. jobs[j].retries < MaxRetries
      BY <2>2, <2>8
    <3> HIDE DEF before, after
    <3>2. QED
      BY <2>3, <2>4, <2>6, <3>1 DEF after
  <2>9. CASE ~ \E i \in 1 .. Len(p) : p[i] = Requeue(j)
    <3>1. after \subseteq before
      BY <1>1, <1>2, <2>9 DEF Retrying, Requeue
    <3> HIDE DEF before, after
    <3>2. Cardinality(after) <= Cardinality(before)
      BY <2>6, <3>1, FS_Subset
    <3>3. QED
      BY <2>3, <2>4, <2>6, <2>7, <3>2 DEF after
  <2>10. QED
    BY <2>8, <2>9
<1>7. QED
  BY <1>3, <1>4, <1>5, <1>6 DEF Inv

\* An operation that only gives a session its program.
LEMMA AskTalk ==
    ASSUME Inv, UNCHANGED <<tables, crashed>>, runs' = runs \/ CountRun,
           NEW u \in Session, NEW p \in Seq(Commit), Ask(u, p),
           \A i \in 1 .. Len(p) : Sound(p[i]), Orderly(jobs, p),
           \A i \in 1 .. Len(p), j \in 1 .. Len(jobs) :
               p[i] = Requeue(j) => jobs[j].retries < MaxRetries
    PROVE  Inv'
<1>1. /\ jobs' = jobs /\ worker' = worker /\ research' = research /\ packages' = packages
      /\ audits' = audits /\ library' = library /\ crashed' = crashed
  BY DEF tables
<1>2. calls' \in 0 .. MaxCalls
  BY NumberAssumption DEF Ask, Inv, TypeInv
<1>3. runs' \in 0 .. MaxRuns
  BY NumberAssumption DEF CountRun, Inv, TypeInv
<1>4. todo' \in [Session -> Seq(Commit)]
  BY DEF Ask, Inv, TypeInv
<1>5. TypeInv'
  BY <1>1, <1>2, <1>3, <1>4 DEF Inv, TypeInv
<1>6. Grow
  BY <1>1, TableSizes DEF Grow, Inv
<1>7. Lineage' /\ StatusBacked'
  BY <1>1 DEF Inv, Lineage, StatusBacked
<1>8. QED
  BY <1>1, <1>5, <1>6, <1>7, AskLemma

LEMMA CreateInv ==
    ASSUME Inv, UNCHANGED <<tables, crashed>>, runs' = runs \/ CountRun,
           NEW u \in Session, NEW kind \in Kind, NEW r \in Nat, NEW a \in Nat,
           NEW by \in Worker \cup {NoWorker}, NEW run \in BOOLEAN,
           Ask(u, <<NewJob(kind, r, a, by, run)>>)
    PROVE  Inv'
<1>1. PICK order \in Order : order = [kind |-> kind, research |-> r, audit |-> a,
                                      by |-> by, run |-> run]
  BY DEF Order
<1>2. PICK s : s = Count("jobs", order)
  OBVIOUS
<1>3. s \in Commit /\ s.do = "count" /\ s.table = "jobs" /\ s.row = order
  BY <1>2, TableSteps DEF Count, Table, Row
<1>4. PICK p \in Seq(Commit) : p = <<s>> /\ Len(p) = 1 /\ p[1] = s
  BY <1>3, Program1
<1>5. \A i \in 1 .. Len(p) : i = 1 /\ p[i] = s
  BY <1>4
<1>6. Ask(u, p)
  BY <1>1, <1>2, <1>4 DEF NewJob
<1>7. Orderly(jobs, p)
  <2>1. PICK js : js = jobs
    OBVIOUS
  <2>2. Orderly(js, p)
    <3>1. \A i \in 1 .. Len(p) : p[i].do = "count"
      BY <1>3, <1>5
    <3>2. \A i \in 1 .. Len(p) : \A k \in i + 1 .. Len(p) : FALSE
      BY <1>4
    <3>3. QED
      BY <3>1, <3>2, OrderlyAfter
  <2>3. QED
    BY <2>1, <2>2
<1>8. \A i \in 1 .. Len(p) : Sound(p[i])
  BY <1>3, <1>5 DEF Sound
<1>9. \A i \in 1 .. Len(p), j \in 1 .. Len(jobs) : p[i] # Requeue(j)
  BY <1>3, <1>5 DEF Requeue
<1>10. QED
  BY <1>6, <1>7, <1>8, <1>9, AskTalk

LEMMA RunInv ==
    ASSUME Inv, NEW u \in Session, NEW j \in 1 .. Len(jobs), Run(u, j)
    PROVE  Inv'
<1>1. PICK js : js = jobs
  OBVIOUS
<1>2. j \in Nat /\ jobs[j].by \in Worker \cup {NoWorker}
  BY JobLemma DEF Inv
<1>3. PICK by \in Worker \cup {NoWorker} : by = js[j].by
  BY <1>1, <1>2
<1>4. PICK p : Executing(j, by) = p
  OBVIOUS
<1>5. /\ p \in Seq(Commit) /\ Orderly(js, p)
      /\ \A i \in 1 .. Len(p) :
            /\ p[i].do \in {"status", "worker", "dispatch", "complete"}
            /\ p[i].do # "worker" => p[i].job = j
  BY <1>2, <1>3, <1>4, ExecutingOrderly
<1>6. Ask(u, p) /\ CountRun /\ UNCHANGED <<tables, crashed>>
  BY <1>1, <1>3, <1>4 DEF Run
<1>7. \A i \in 1 .. Len(p) : Sound(p[i])
  BY <1>5 DEF Sound
<1>8. \A i \in 1 .. Len(p), k \in 1 .. Len(jobs) : p[i] # Requeue(k)
  BY <1>5 DEF Requeue
<1>9. Orderly(jobs, p)
  BY <1>1, <1>5
<1>10. QED
  BY <1>5, <1>6, <1>7, <1>8, <1>9, AskTalk

\* One element that starts nothing.
LEMMA AskOne ==
    ASSUME Inv, UNCHANGED <<tables, runs, crashed>>, NEW u \in Session,
           NEW s \in Commit, Ask(u, <<s>>), Sound(s),
           s.do \in {"status", "worker", "requeue"},
           s.do = "status" => s.to # "Running",
           s.do = "worker" => s.to \notin Busy,
           \A j \in 1 .. Len(jobs) : s = Requeue(j) => jobs[j].retries < MaxRetries
    PROVE  Inv'
<1>1. PICK p \in Seq(Commit) : p = <<s>> /\ Len(p) = 1 /\ p[1] = s
  BY Program1
<1>2. \A i \in 1 .. Len(p) : p[i] = s
  BY <1>1
<1>3. Orderly(jobs, p)
  BY <1>1, <1>2 DEF Orderly, Starts, Raises, Retries
<1>4. QED
  BY <1>1, <1>2, <1>3, AskTalk

LEMMA AskOnJobInv ==
    ASSUME Inv, NEW u \in Session, NEW j \in 1 .. Len(jobs),
           Retry(u, j) \/ Cancel(u, j) \/ Resume(u, j)
    PROVE  Inv'
<1>1. j \in Nat
  BY JobLemma DEF Inv
<1>2. CASE Retry(u, j)
  <2>1. PICK s \in Commit : s = Requeue(j)
    BY <1>1, SimpleSteps
  <2>2. s.do = "requeue" /\ s.job = j
    BY <2>1 DEF Requeue
  <2>3. Ask(u, <<s>>) /\ UNCHANGED <<tables, runs, crashed>> /\ jobs[j].retries < MaxRetries
    BY <1>2, <2>1 DEF Retry
  <2>4. Sound(s)
    BY <2>2 DEF Sound
  <2>5. \A k \in 1 .. Len(jobs) : s = Requeue(k) => jobs[k].retries < MaxRetries
    BY <2>2, <2>3 DEF Requeue
  <2>6. QED
    BY <2>2, <2>3, <2>4, <2>5, AskOne
<1>3. CASE Cancel(u, j) \/ Resume(u, j)
  <2>1. PICK status \in {"Cancelled", "Pending"} :
             Ask(u, <<Assign(j, status)>>) /\ UNCHANGED <<tables, runs, crashed>>
    BY <1>3 DEF Cancel, Resume
  <2>2. PICK s \in Commit : s = Assign(j, status)
    BY <1>1, SimpleSteps DEF JobStatus
  <2>3. s.do = "status" /\ s.job = j /\ s.to = status
    BY <2>2 DEF Assign
  <2>4. Ask(u, <<s>>) /\ UNCHANGED <<tables, runs, crashed>>
    BY <2>1, <2>2
  <2>5. Sound(s)
    BY <2>3 DEF Sound
  <2>6. \A k \in 1 .. Len(jobs) : s # Requeue(k)
    BY <2>3 DEF Requeue
  <2>7. QED
    BY <2>3, <2>4, <2>5, <2>6, AskOne
<1>4. QED
  BY <1>2, <1>3

LEMMA RestartWorkerInv ==
    ASSUME Inv, NEW u \in Session, NEW w \in Worker, RestartWorker(u, w)
    PROVE  Inv'
<1>1. PICK s \in Commit : s = Report(w, "Idle")
  BY ReportStep DEF WorkerStatus
<1>2. s.do = "worker" /\ s.to = "Idle"
  BY <1>1 DEF Report
<1>3. Ask(u, <<s>>) /\ UNCHANGED <<tables, runs, crashed>>
  BY <1>1 DEF RestartWorker
<1>4. Sound(s) /\ s.to \notin Busy
  BY <1>2 DEF Sound, Busy
<1>5. \A k \in 1 .. Len(jobs) : s # Requeue(k)
  BY <1>2 DEF Requeue
<1>6. QED
  BY <1>2, <1>3, <1>4, <1>5, AskOne

LEMMA UpdateDecisionInv ==
    ASSUME Inv, NEW u \in Session, NEW a \in DOMAIN audits, NEW decision \in Decision,
           UpdateDecision(u, a, decision)
    PROVE  Inv'
<1>1. /\ a \in 1 .. Len(audits) /\ DOMAIN audits = 1 .. Len(audits)
      /\ DOMAIN research = 1 .. Len(research) /\ DOMAIN library = 1 .. Len(library)
  BY TableDomains DEF Inv
<1>2. audits[a] \in AuditRow
  BY <1>1, ElementOfSeq DEF Inv, TypeInv
<1>3. PICK r \in DOMAIN research : r = audits[a].research
  BY DEF Inv, Lineage
<1>4. PICK row \in AuditRow : /\ row = [audits[a] EXCEPT !.decision = decision]
                              /\ row.research = r /\ row.decision = decision
  <2>1. PICK old \in AuditRow : old = audits[a]
    BY <1>2
  <2>2. PICK row : row = [old EXCEPT !.decision = decision]
    OBVIOUS
  <2>3. row \in AuditRow /\ row.research = old.research /\ row.decision = decision
    BY <2>2 DEF AuditRow
  <2>4. row = [audits[a] EXCEPT !.decision = decision] /\ row.research = r
    BY <1>3, <2>1, <2>2, <2>3
  <2>5. QED
    BY <2>3, <2>4
<1>5. PICK status \in ResearchStatus : status = PipelineStatus(decision)
  BY DEF PipelineStatus, ResearchStatus
<1>6. /\ Ask(u, <<>>)
      /\ audits' = [audits EXCEPT ![a] = row]
      /\ research' = [research EXCEPT ![r] = status]
      /\ UNCHANGED <<jobs, worker, packages, library, runs, crashed>>
  BY <1>3, <1>4, <1>5 DEF UpdateDecision
<1>7. /\ audits' \in Seq(AuditRow) /\ Len(audits') = Len(audits)
      /\ \A i \in 1 .. Len(audits) : audits'[i] = IF i = a THEN row ELSE audits[i]
  BY <1>1, <1>6, ExceptSeq DEF Inv, TypeInv
<1>8. /\ research' \in Seq(ResearchStatus) /\ Len(research') = Len(research)
      /\ \A i \in 1 .. Len(research) : research'[i] = IF i = r THEN status ELSE research[i]
  BY <1>1, <1>6, ExceptSeq DEF Inv, TypeInv
<1>9. PICK p \in Seq(Commit) : p = <<>> /\ Len(p) = 0
  BY EmptySeq
<1>10. Ask(u, p) /\ \A i \in 1 .. Len(p) : FALSE
  BY <1>6, <1>9
<1>11. calls' \in 0 .. MaxCalls /\ todo' \in [Session -> Seq(Commit)]
  BY <1>10, NumberAssumption DEF Ask, Inv, TypeInv
<1>12. TypeInv'
  BY <1>6, <1>7, <1>8, <1>11 DEF Inv, TypeInv
<1>13. Grow
  BY <1>6, <1>7, <1>8, TableSizes DEF Grow, Inv
<1>14. DOMAIN audits' = DOMAIN audits /\ DOMAIN research' = DOMAIN research
  BY <1>1, <1>7, <1>8, LenProperties
<1>15. Lineage'
  <2>1. ASSUME NEW b \in DOMAIN audits'
        PROVE  audits'[b].research \in DOMAIN research'
    <3>1. audits'[b].research = audits[b].research
      BY <1>1, <1>3, <1>4, <1>7, <1>14
    <3>2. QED
      BY <1>14, <3>1 DEF Inv, Lineage
  <2>2. QED
    BY <1>6, <1>14, <2>1 DEF Inv, Lineage
<1>16. StatusBacked'
  <2>1. ASSUME NEW x \in DOMAIN research', x # r
        PROVE  \/ research'[x] = "pending_audit"
               \/ research'[x] = "stored_in_library" /\ \E l \in DOMAIN library' : library'[l].research = x
               \/ \E b \in DOMAIN audits' : audits'[b].research = x
                                  /\ PipelineStatus(audits'[b].decision) = research'[x]
    <3>1. research'[x] = research[x] /\ x \in DOMAIN research
      BY <1>1, <1>8, <1>14, <2>1
    <3>2. \A b \in DOMAIN audits : audits[b].research = x => audits'[b] = audits[b]
      BY <1>1, <1>3, <1>7, <2>1
    <3>3. QED
      BY <1>6, <1>14, <3>1, <3>2 DEF Inv, StatusBacked
  <2>2. /\ a \in DOMAIN audits' /\ audits'[a].research = r
        /\ PipelineStatus(audits'[a].decision) = research'[r]
    <3>1. a \in DOMAIN audits' /\ audits'[a] = row /\ research'[r] = status
      BY <1>1, <1>7, <1>8, <1>14
    <3>2. row.research = r /\ row.decision = decision
      BY <1>4
    <3>3. QED
      BY <1>5, <3>1, <3>2
  <2>3. QED
    BY <2>1, <2>2 DEF StatusBacked, PipelineStatus
<1>17. Orderly(jobs, p)
  <2>1. PICK js : js = jobs
    OBVIOUS
  <2>2. Orderly(js, p)
    BY <1>10, OrderlyPlain
  <2>3. QED
    BY <2>1, <2>2
<1>18. QED
  BY <1>6, <1>10, <1>12, <1>13, <1>15, <1>16, <1>17, AskLemma

\* The process dies: the tables stay, and nobody is waited for any more.
LEMMA CrashInv ==
    ASSUME Inv, Crash
    PROVE  Inv'
<1>1. /\ jobs' = jobs /\ worker' = worker /\ research' = research /\ packages' = packages
      /\ audits' = audits /\ library' = library /\ calls' = calls /\ runs' = runs
      /\ todo' = [u \in Session |-> <<>>] /\ crashed' = TRUE
  BY DEF Crash, tables
<1>2. \A u \in Session : todo'[u] = <<>> /\ Len(todo'[u]) = 0 /\ DOMAIN todo'[u] = {}
  BY <1>1
<1>3. todo' \in [Session -> Seq(Commit)]
  BY <1>1, EmptySeq
<1>4. TypeInv'
  BY <1>1, <1>3 DEF Inv, TypeInv
<1>5. \A u \in Session : \A i \in 1 .. Len(todo'[u]) : FALSE
  BY <1>2
<1>6. ProgramsSound'
  BY <1>5 DEF ProgramsSound
<1>7. ProgramsOrderly'
  BY <1>5 DEF ProgramsOrderly, Orderly, Starts, Raises, Retries
<1>8. NothingLeftRunning'
  BY <1>1 DEF NothingLeftRunning
<1>9. RetriesNearBudget'
  <2>1. SUFFICES ASSUME NEW j \in DOMAIN jobs
                 PROVE  jobs[j].retries + Cardinality(Retrying(j)')
                           <= MaxRetries + Cardinality(Session) - 1
    BY <1>1 DEF RetriesNearBudget
  <2>2. Retrying(j)' = {}
    BY <1>2 DEF Retrying
  <2>3. Cardinality(Retrying(j)') = 0
    BY <2>2, FS_EmptySet
  <2>4. IsFiniteSet(Retrying(j)) /\ Cardinality(Retrying(j)) \in Nat
    <3>1. Retrying(j) \subseteq Session
      BY DEF Retrying
    <3>2. QED
      BY <3>1, SessionAssumption, FS_Subset, FS_CardinalityType
  <2>5. jobs[j].retries \in Nat
    BY TableDomains, JobLemma DEF Inv, JobRow
  <2>6. Cardinality(Session) \in Nat /\ MaxRetries \in Nat
    BY SessionAssumption, NumberAssumption, FS_CardinalityType
  <2>7. jobs[j].retries + Cardinality(Retrying(j)) <= MaxRetries + Cardinality(Session) - 1
    BY DEF Inv, RetriesNearBudget
  <2>8. PICK n \in Nat : n = Cardinality(Retrying(j))
    BY <2>4
  <2>9. QED
    BY <2>3, <2>5, <2>6, <2>7, <2>8
<1>10. Lineage' /\ StatusBacked'
  BY <1>1 DEF Inv, Lineage, StatusBacked
<1>11. QED
  BY <1>4, <1>6, <1>7, <1>8, <1>9, <1>10 DEF Inv
---------------------------------------------------------------------------
LEMMA InitInv == Init => Inv
<1>1. SUFFICES ASSUME Init
               PROVE  Inv
  OBVIOUS
<1>2. /\ jobs = <<>> /\ research = <<>> /\ audits = <<>> /\ library = <<>>
      /\ DOMAIN jobs = {} /\ DOMAIN research = {} /\ DOMAIN audits = {} /\ DOMAIN library = {}
      /\ packages = 0 /\ calls = 0 /\ runs = 0 /\ crashed = FALSE
      /\ worker = [w \in Worker |-> "Active"]
      /\ todo = [u \in Session |-> <<>>]
  BY <1>1 DEF Init
<1>3. TypeInv
  <2>1. worker \in [Worker -> WorkerStatus]
    BY <1>2 DEF WorkerStatus
  <2>2. /\ jobs \in Seq(JobRow) /\ research \in Seq(ResearchStatus)
        /\ audits \in Seq(AuditRow) /\ library \in Seq(LibraryRow)
    BY <1>2, EmptySeq
  <2>3. todo \in [Session -> Seq(Commit)]
    BY <1>2, EmptySeq
  <2>4. packages \in Nat /\ calls \in 0 .. MaxCalls /\ runs \in 0 .. MaxRuns
    BY <1>2, NumberAssumption
  <2>5. QED
    BY <1>2, <2>1, <2>2, <2>3, <2>4 DEF TypeInv
<1>4. \A u \in Session : \A i \in 1 .. Len(todo[u]) : FALSE
  BY <1>2
<1>5. ProgramsSound
  BY <1>4 DEF ProgramsSound
<1>6. ProgramsOrderly
  BY <1>4 DEF ProgramsOrderly, Orderly, Starts, Raises, Retries
<1>7. NothingLeftRunning /\ RetriesNearBudget /\ Lineage /\ StatusBacked
  BY <1>2 DEF NothingLeftRunning, RetriesNearBudget, Lineage, StatusBacked
<1>8. QED
  BY <1>3, <1>5, <1>6, <1>7 DEF Inv

LEMMA CallInv ==
    ASSUME Inv, NEW u \in Session, Call(u)
    PROVE  Inv'
<1>1. ASSUME NEW kind \in Kind, NEW r \in Nat, NEW a \in Nat, NEW by \in Worker \cup {NoWorker},
             CreateAndRun(u, kind, r, a, by) \/ CreateByHand(u, kind, r, a, by)
      PROVE  Inv'
  <2>1. CASE CreateAndRun(u, kind, r, a, by)
    <3>1. UNCHANGED <<tables, crashed>> /\ CountRun /\ Ask(u, <<NewJob(kind, r, a, by, TRUE)>>)
      BY <2>1 DEF CreateAndRun
    <3>2. PICK run \in BOOLEAN : run = TRUE
      OBVIOUS
    <3>3. Ask(u, <<NewJob(kind, r, a, by, run)>>)
      BY <3>1, <3>2
    <3>4. QED
      BY <3>1, <3>3, CreateInv
  <2>2. CASE CreateByHand(u, kind, r, a, by)
    <3>1. UNCHANGED <<tables, runs, crashed>> /\ Ask(u, <<NewJob(kind, r, a, by, FALSE)>>)
      BY <2>2 DEF CreateByHand
    <3>2. PICK run \in BOOLEAN : run = FALSE
      OBVIOUS
    <3>3. Ask(u, <<NewJob(kind, r, a, by, run)>>)
      BY <3>1, <3>2
    <3>4. QED
      BY <3>1, <3>3, CreateInv
  <2>3. QED
    BY <1>1, <2>1, <2>2
<1>2. /\ DOMAIN jobs = 1 .. Len(jobs) /\ DOMAIN audits = 1 .. Len(audits)
      /\ DOMAIN research = 1 .. Len(research)
      /\ \A a \in DOMAIN audits : a \in Nat /\ audits[a].research \in Nat
      /\ \A r \in DOMAIN research : r \in Nat
  BY TableDomains DEF Inv, Lineage
<1>3. Typed \subseteq Nat /\ Offered \subseteq Worker \cup {NoWorker} /\ 0 \in Nat
  BY NumberAssumption, OfferedAssumption
<1>4. /\ "Research" \in Kind /\ "Audit" \in Kind /\ "Library" \in Kind /\ "Other" \in Kind
      /\ "PX-R001" \in Worker \cup {NoWorker} /\ "PX-A001" \in Worker \cup {NoWorker}
      /\ "PX-L001" \in Worker \cup {NoWorker} /\ NoWorker \in Worker \cup {NoWorker}
  BY DEF Kind, Worker
<1>5. CASE \/ CreateAndRun(u, "Research", 0, 0, "PX-R001")
           \/ \E r \in DOMAIN research : CreateAndRun(u, "Audit", r, 0, "PX-A001")
           \/ \E a \in DOMAIN audits : CreateAndRun(u, "Library", audits[a].research, a, "PX-L001")
           \/ CreateAndRun(u, "Other", 0, 0, NoWorker)
  <2>1. CASE CreateAndRun(u, "Research", 0, 0, "PX-R001")
    BY <1>1, <1>3, <1>4, <2>1
  <2>2. CASE \E r \in DOMAIN research : CreateAndRun(u, "Audit", r, 0, "PX-A001")
    BY <1>1, <1>2, <1>3, <1>4, <2>2
  <2>3. CASE \E a \in DOMAIN audits : CreateAndRun(u, "Library", audits[a].research, a, "PX-L001")
    <3>1. PICK a \in DOMAIN audits : CreateAndRun(u, "Library", audits[a].research, a, "PX-L001")
      BY <2>3
    <3>2. PICK r \in Nat : r = audits[a].research
      BY <1>2
    <3>3. CreateAndRun(u, "Library", r, a, "PX-L001") /\ a \in Nat
      BY <1>2, <3>1, <3>2
    <3>4. QED
      BY <1>1, <1>4, <3>3
  <2>4. CASE CreateAndRun(u, "Other", 0, 0, NoWorker)
    BY <1>1, <1>3, <1>4, <2>4
  <2>5. QED
    BY <1>5, <2>1, <2>2, <2>3, <2>4
<1>6. CASE \E by \in Offered :
               \/ CreateByHand(u, "Research", 0, 0, by)
               \/ \E r \in Typed : CreateByHand(u, "Audit", r, 0, by)
               \/ \E r, a \in Typed : CreateByHand(u, "Library", r, a, by)
               \/ CreateByHand(u, "Other", 0, 0, by)
  <2>1. PICK by \in Worker \cup {NoWorker} :
               \/ CreateByHand(u, "Research", 0, 0, by)
               \/ \E r \in Typed : CreateByHand(u, "Audit", r, 0, by)
               \/ \E r, a \in Typed : CreateByHand(u, "Library", r, a, by)
               \/ CreateByHand(u, "Other", 0, 0, by)
    BY <1>3, <1>6
  <2>2. CASE CreateByHand(u, "Research", 0, 0, by) \/ CreateByHand(u, "Other", 0, 0, by)
    BY <1>1, <1>3, <1>4, <2>2
  <2>3. CASE \E r \in Typed : CreateByHand(u, "Audit", r, 0, by)
    BY <1>1, <1>3, <1>4, <2>3
  <2>4. CASE \E r, a \in Typed : CreateByHand(u, "Library", r, a, by)
    BY <1>1, <1>3, <1>4, <2>4
  <2>5. QED
    BY <2>1, <2>2, <2>3, <2>4
<1>7. CASE \E j \in DOMAIN jobs : Run(u, j) \/ Retry(u, j) \/ Cancel(u, j) \/ Resume(u, j)
  BY <1>2, <1>7, RunInv, AskOnJobInv
<1>8. CASE \E w \in Worker : RestartWorker(u, w)
  BY <1>8, RestartWorkerInv
<1>9. CASE \E a \in DOMAIN audits, decision \in Decision : UpdateDecision(u, a, decision)
  BY <1>9, UpdateDecisionInv
<1>10. QED
  BY <1>5, <1>6, <1>7, <1>8, <1>9 DEF Call

LEMMA StepInv ==
    ASSUME Inv, NEW u \in Session, Step(u)
    PROVE  Inv'
BY SetStatusInv, SpendRetryInv, SetWorkerInv, CompleteJobInv, DispatchResearchInv,
   DispatchAuditInv, DispatchLibraryInv, DispatchOtherInv, CountRowsInv, CollideInv,
   InsertJobInv, InsertResearchInv, InsertPackageInv, InsertAuditInv, InsertLibraryInv
   DEF Step

LEMMA NextInv == Inv /\ [Next]_vars => Inv'
<1>1. SUFFICES ASSUME Inv, [Next]_vars
               PROVE  Inv'
  OBVIOUS
<1>2. CASE Next
  BY <1>1, <1>2, CrashInv, CallInv, StepInv DEF Next
<1>3. CASE UNCHANGED vars
  <2>1. /\ jobs' = jobs /\ worker' = worker /\ research' = research /\ packages' = packages
        /\ audits' = audits /\ library' = library /\ todo' = todo
        /\ calls' = calls /\ runs' = runs /\ crashed' = crashed
    BY <1>3 DEF vars, tables
  <2>2. TypeInv' /\ Lineage' /\ StatusBacked'
    BY <1>1, <2>1 DEF Inv, TypeInv, Lineage, StatusBacked
  <2>3. ProgramsSound'
    <3>1. Grow
      BY <1>1, <2>1, TableSizes DEF Grow, Inv
    <3>2. ASSUME NEW u \in Session, NEW i \in 1 .. Len(todo'[u]), NEW s, s = todo'[u][i]
          PROVE  Sound(s)'
      <4>1. s = todo[u][i] /\ i \in 1 .. Len(todo[u])
        BY <2>1, <3>2
      <4>2. s \in Commit
        BY <1>1, <4>1, ElementOfSeq DEF Inv, TypeInv
      <4>3. Sound(s)
        BY <1>1, <4>1 DEF Inv, ProgramsSound
      <4>4. QED
        BY <1>1, <2>2, <3>1, <4>2, <4>3, SoundKept DEF Inv
    <3>3. QED
      BY <3>2 DEF ProgramsSound
  <2>4. ProgramsOrderly'
    BY <1>1, <2>1 DEF Inv, ProgramsOrderly
  <2>5. NothingLeftRunning'
    BY <1>1, <2>1 DEF Inv, NothingLeftRunning, WillEnd, WillFree
  <2>6. RetriesNearBudget'
    BY <1>1, <2>1 DEF Inv, RetriesNearBudget, Retrying, Requeue
  <2>7. QED
    BY <2>2, <2>3, <2>4, <2>5, <2>6 DEF Inv
<1>4. QED
  BY <1>1, <1>2, <1>3
---------------------------------------------------------------------------
(* The theorems.                                                           *)

LEMMA Invariance == Spec => []Inv
BY InitInv, NextInv, PTL DEF Spec

\* The tables hold rows of their schema, and what a session has still to do
\* names jobs that exist (eos.py, database.py): proved for any number of
\* sessions, calls and records.
THEOREM TypeCorrect == Spec => []TypeOK
<1>1. Inv => TypeOK
  <2>1. SUFFICES ASSUME Inv
                 PROVE  TypeOK
    OBVIOUS
  <2>2. \A u \in Session : DOMAIN todo[u] = 1 .. Len(todo[u])
    BY <2>1, LenProperties DEF Inv, TypeInv
  <2>3. DOMAIN todo = Session /\ DOMAIN jobs = 1 .. Len(jobs)
    BY <2>1, TableDomains DEF Inv, TypeInv
  <2>4. ASSUME NEW u \in Session, NEW i \in DOMAIN todo[u],
               todo[u][i].do \in {"status", "requeue", "dispatch", "complete"}
        PROVE  todo[u][i].job \in DOMAIN jobs
    <3>1. Sound(todo[u][i])
      BY <2>1, <2>2, <2>4 DEF Inv, ProgramsSound
    <3>2. QED
      BY <2>3, <2>4, <3>1 DEF Sound
  <2>5. QED
    BY <2>1, <2>3, <2>4 DEF TypeOK, Inv, TypeInv, AuditRow, LibraryRow
<1>2. QED
  BY <1>1, Invariance, PTL

\* However many sessions run, cancel, retry and restart at once, and whatever
\* raises in a nested job: while the process lives, a job shown Running will
\* be ended and an operator shown at work will be freed by the session that
\* started it (execute_job's handler, worker_run's two exits).
THEOREM RunsAreFinished == Spec => []NothingLeftRunning
<1>1. Inv => NothingLeftRunning
  BY DEF Inv
<1>2. QED
  BY <1>1, Invariance, PTL

\* The retry budget, read in one transaction and spent in another, is passed
\* by at most one retry for each further session (retry_job).
THEOREM RetriesStayNear == Spec => []RetriesNearBudget
<1>1. Inv => RetriesNearBudget
  BY DEF Inv
<1>2. QED
  BY <1>1, Invariance, PTL

\* Whatever the payloads of jobs name, an audit is of a research record that
\* exists, and a library record of an audit and a record that exist
\* (dispatch_job and the workers).
THEOREM LineageHolds == Spec => []Lineage
<1>1. Inv => Lineage
  BY DEF Inv
<1>2. QED
  BY <1>1, Invariance, PTL

\* Over the three writers of pipeline_status: a record's status is always
\* that of an audit that still decides so, or the library's (run_audit,
\* update_audit_decision, store_approved_record).
THEOREM StatusesAreBacked == Spec => []StatusBacked
<1>1. Inv => StatusBacked
  BY DEF Inv
<1>2. QED
  BY <1>1, Invariance, PTL
=============================================================================
