-------------------------- MODULE RbeExport_proofs --------------------------
(***************************************************************************)
(* A bundle is accounted for by its own log, and an export that has the    *)
(* directory to itself repairs what it finds there, for every number of    *)
(* exporters, commits and exports.                                         *)
(*                                                                         *)
(* The tables are consistent with the log in every committed state         *)
(* (Logged).  A copy is read before the log is, and the log only grows, so *)
(* what a copy holds is in the log by the time the log is read (Accounted);*)
(* a decision and a publication are written once, so that copies of them   *)
(* made at different times agree (Settled).  The files an undisturbed      *)
(* export has written so far are its own (Repairs).                        *)
(***************************************************************************)
EXTENDS RbeExport, SequenceTheorems, TLAPS

\* What a table may hold, and what the reads copy.
Scalar == States \cup Nat \cup {None}

LogEntry == [table : Table, value : Scalar]

Value == Scalar \cup Seq(LogEntry)

Path == {Paths[i] : i \in DOMAIN Paths}

Phase == {"idle", "reading", "writing", "done"}

Tables == [session : States, plans : Nat, candidate : Nat,
           decision : Nat \cup {None}, publication : Nat \cup {None},
           audit : Seq(LogEntry)]

TypeInv ==
    /\ tables \in Tables
    /\ DOMAIN files = Path
    /\ export \in [Exporter -> [phase : Phase, copies : Seq(Value), written : 0 .. 7,
                                alone : BOOLEAN]]

\* Where an export is in its reads and in its writes.
Progress(x) ==
    /\ Len(x.copies) <= 8
    /\ x.phase = "idle" => Len(x.copies) = 0
    /\ x.phase = "reading" => Len(x.copies) < 8 /\ x.written = 0
    /\ x.phase = "writing" => Len(x.copies) = 8 /\ x.written < 7
    /\ x.phase = "done" => Len(x.copies) = 8 /\ x.written = 7
---------------------------------------------------------------------------
(* The committed tables.                                                   *)

\* Every record the bundle is about has its entry in the log, and a status
\* that is reached with a record is reached after the record.
Logged(t) ==
    /\ t.session # "CONSOLIDATION" => Announces(t.audit, "session", t.session)
    /\ t.candidate # None => Announces(t.audit, "candidate", t.candidate)
    /\ t.decision # None => Announces(t.audit, "decision", t.decision)
    /\ t.publication # None => /\ Announces(t.audit, "publication", t.publication)
                               /\ t.decision # None
                               /\ t.publication = t.decision
    /\ t.session \in {"DECIDED", "PUBLISHED"} => t.decision # None
    /\ t.session = "PUBLISHED" => t.publication # None

\* How the tables of a session go on: the log grows, and the decision and
\* the publication are not replaced.
Grows(t, u) ==
    /\ \A table, value : Announces(t.audit, table, value) => Announces(u.audit, table, value)
    /\ t.decision # None => u.decision = t.decision
    /\ t.publication # None => u.publication = t.publication

\* The log after one commit.
LEMMA AppendAnnounces ==
    ASSUME NEW a \in Seq(LogEntry), NEW e \in LogEntry
    PROVE  /\ \A table, value : Announces(a, table, value) =>
                                Announces(Append(a, e), table, value)
           /\ Announces(Append(a, e), e.table, e.value)
<1> DEFINE b == Append(a, e)
<1>1. /\ DOMAIN a \subseteq DOMAIN b
      /\ \A i \in DOMAIN a : b[i] = a[i]
      /\ Len(a) + 1 \in DOMAIN b /\ b[Len(a) + 1] = e
  OBVIOUS
<1> HIDE DEF b
<1>2. ASSUME NEW table, NEW value, Announces(a, table, value)
      PROVE  Announces(b, table, value)
  BY <1>1, <1>2, Zenon DEF Announces
<1>3. Announces(b, e.table, e.value)
  BY <1>1, Zenon DEF Announces
<1>4. QED
  BY <1>2, <1>3 DEF b

Record == {"session", "plans", "candidate", "decision", "publication"}

Fits(table, value) ==
    /\ table = "session" => value \in States
    /\ table \in {"plans", "candidate"} => value \in Nat
    /\ table \in {"decision", "publication"} => value \in Nat \cup {None}

\* What a commit makes of the tables.
LEMMA CommitTables ==
    ASSUME TypeInv, NEW table \in Record, NEW value, Fits(table, value),
           Commit(table, value)
    PROVE  /\ \A t \in Record : tables'[t] = IF t = table THEN value ELSE tables[t]
           /\ tables' \in Tables
           /\ \A t, v : Announces(tables.audit, t, v) => Announces(tables'.audit, t, v)
           /\ Announces(tables'.audit, table, value)
           /\ UNCHANGED <<files, export>>
<1> DEFINE entry == [table |-> table, value |-> value]
<1>1. entry \in LogEntry /\ entry.table = table /\ entry.value = value
  BY DEF LogEntry, Table, Record, Scalar, Fits
<1>2. tables.audit \in Seq(LogEntry) /\ table # "audit"
  BY DEF TypeInv, Tables, Record
<1>3. tables' = [tables EXCEPT ![table] = value, !.audit = Append(tables.audit, entry)]
  BY <1>2 DEF Commit
<1>4. tables'.audit = Append(tables.audit, entry)
  BY <1>3 DEF TypeInv, Tables
<1>5. tables'.audit \in Seq(LogEntry)
  BY <1>1, <1>2, <1>4
<1> HIDE DEF entry
<1>6. ASSUME NEW t \in Record
      PROVE  tables'[t] = IF t = table THEN value ELSE tables[t]
  <2>1. t \in DOMAIN tables /\ t # "audit"
    BY DEF TypeInv, Tables, Record
  <2>2. QED
    BY <1>2, <1>3, <2>1
<1>7. tables' \in Tables
  BY <1>3, <1>5, <1>6 DEF TypeInv, Tables, Record, Fits
<1>8. QED
  BY <1>1, <1>2, <1>4, <1>6, <1>7, AppendAnnounces DEF Commit

\* Every command keeps the tables and the log together.
LEMMA CommandTables ==
    ASSUME TypeInv, Logged(tables), Command
    PROVE  /\ tables' \in Tables /\ UNCHANGED <<files, export>>
           /\ Logged(tables') /\ Grows(tables, tables')
<1> DEFINE t == tables
           u == tables'
<1>1. t \in Tables
  BY DEF TypeInv
<1>2. ASSUME NEW table \in Record, NEW value, Fits(table, value), Commit(table, value)
      PROVE  /\ u \in Tables /\ UNCHANGED <<files, export>>
             /\ \A x, v : Announces(t.audit, x, v) => Announces(u.audit, x, v)
             /\ Announces(u.audit, table, value)
             /\ u.session = IF table = "session" THEN value ELSE t.session
             /\ u.candidate = IF table = "candidate" THEN value ELSE t.candidate
             /\ u.decision = IF table = "decision" THEN value ELSE t.decision
             /\ u.publication = IF table = "publication" THEN value ELSE t.publication
  BY <1>2, CommitTables DEF Record
<1>3. CASE PrepareCandidate
  <2>1. Fits("candidate", t.candidate + 1) /\ Commit("candidate", t.candidate + 1)
    BY <1>1, <1>3 DEF PrepareCandidate, Tables, Fits
  <2> HIDE DEF t, u
  <2>2. Logged(u) /\ Grows(t, u) /\ u \in Tables /\ UNCHANGED <<files, export>>
    BY <2>1, <1>2 DEF Record, Logged, Grows, t
  <2>3. QED
    BY <2>2 DEF t, u
<1>4. CASE SubmitPlanLate
  <2>1. Fits("plans", t.plans + 1) /\ Commit("plans", t.plans + 1)
    BY <1>1, <1>4 DEF SubmitPlanLate, Tables, Fits
  <2> HIDE DEF t, u
  <2>2. Logged(u) /\ Grows(t, u) /\ u \in Tables /\ UNCHANGED <<files, export>>
    BY <2>1, <1>2 DEF Record, Logged, Grows, t
  <2>3. QED
    BY <2>2 DEF t, u
<1>5. CASE Ratify
  <2>1. Fits("decision", t.candidate) /\ Commit("decision", t.candidate)
        /\ t.decision = None
    BY <1>1, <1>5 DEF Ratify, Tables, Fits
  <2> HIDE DEF t, u
  <2>2. Logged(u) /\ Grows(t, u) /\ u \in Tables /\ UNCHANGED <<files, export>>
    BY <2>1, <1>2 DEF Record, Logged, Grows, t
  <2>3. QED
    BY <2>2 DEF t, u
<1>6. CASE Publish
  <2>1. Fits("publication", t.decision) /\ Commit("publication", t.decision)
        /\ t.publication = None /\ t.decision # None
    BY <1>1, <1>6 DEF Publish, Tables, Fits
  <2> HIDE DEF t, u
  <2>2. Logged(u) /\ Grows(t, u) /\ u \in Tables /\ UNCHANGED <<files, export>>
    BY <2>1, <1>2 DEF Record, Logged, Grows, t
  <2>3. QED
    BY <2>2 DEF t, u
<1>7. ASSUME NEW target \in States, Advance(target)
      PROVE  /\ u \in Tables /\ UNCHANGED <<files, export>>
             /\ Logged(u) /\ Grows(t, u)
  <2>1. Fits("session", target) /\ Commit("session", target)
        /\ (target = "DECIDED" => t.decision # None)
        /\ (target = "PUBLISHED" => t.publication # None)
    BY <1>1, <1>7 DEF Advance, Tables, Fits
  <2> HIDE DEF t, u
  <2>2. Logged(u) /\ Grows(t, u) /\ u \in Tables /\ UNCHANGED <<files, export>>
    BY <2>1, <1>2 DEF Record, Logged, Grows, t
  <2>3. QED
    BY <2>2
<1>8. QED
  BY <1>3, <1>4, <1>5, <1>6, <1>7 DEF Command
---------------------------------------------------------------------------
(* The copies of one export.                                               *)

\* What the copies c made so far have to do with the log: the log that is
\* copied seventh, or would be now, accounts for the copies made before it.
LogSeen(c, t) == IF Len(c) >= 7 THEN c[7] ELSE t.audit

Accounted(c, t) ==
    /\ Len(c) >= 1 =>
          /\ c[1] # "CONSOLIDATION" => Announces(LogSeen(c, t), "session", c[1])
          /\ c[1] \in {"DECIDED", "PUBLISHED"} =>
                IF Len(c) >= 4 THEN c[4] # None ELSE t.decision # None
          /\ c[1] = "PUBLISHED" =>
                IF Len(c) >= 6 THEN c[6] = c[4] ELSE t.publication # None
    /\ Len(c) >= 3 /\ c[3] # None =>
          Announces(LogSeen(c, t), "candidate", c[3])
    /\ Len(c) >= 4 /\ c[4] # None =>
          /\ Announces(LogSeen(c, t), "decision", c[4])
          /\ t.decision = c[4]
    /\ Len(c) >= 5 /\ c[4] # None => c[5] = c[4]
    /\ Len(c) >= 6 /\ c[6] # None =>
          Announces(LogSeen(c, t), "publication", c[6])

\* A commit does not disturb the copies.
LEMMA AccountedKept ==
    ASSUME NEW c \in Seq(Value), NEW t, NEW u, Accounted(c, t), Grows(t, u)
    PROVE  Accounted(c, u)
<1>1. \A table, value : Announces(LogSeen(c, t), table, value) =>
                        Announces(LogSeen(c, u), table, value)
  BY DEF Grows, LogSeen
<1>2. Len(c) \in Nat
  OBVIOUS
<1>3. QED
  BY <1>1, <1>2 DEF Accounted, Grows

\* What one read finds.
LEMMA SeenLemma ==
    /\ Seen(1) = tables.session /\ Seen(2) = tables.plans
    /\ Seen(3) = tables.candidate /\ Seen(4) = tables.decision
    /\ Seen(5) = tables.decision /\ Seen(6) = tables.publication
    /\ Seen(7) = tables.audit /\ Seen(8) = Len(tables.audit)
BY DEF Seen, Reads

\* A read of consistent tables keeps the account.
LEMMA AccountedRead ==
    ASSUME TypeInv, Logged(tables),
           NEW c \in Seq(Value), Len(c) < 8, Accounted(c, tables)
    PROVE  /\ Append(c, Seen(Len(c) + 1)) \in Seq(Value)
           /\ Accounted(Append(c, Seen(Len(c) + 1)), tables)
<1> DEFINE n == Len(c)
           v == Seen(n + 1)
           b == Append(c, v)
           t == tables
<1>1. n \in {0, 1, 2, 3, 4, 5, 6, 7}
  <2>1. n \in Nat /\ n < 8
    OBVIOUS
  <2> HIDE DEF n
  <2>2. QED
    BY <2>1
<1>2. v \in Value
  <2>1. /\ t.session \in Scalar /\ t.plans \in Scalar /\ t.candidate \in Scalar
        /\ t.decision \in Scalar /\ t.publication \in Scalar
        /\ t.audit \in Seq(LogEntry) /\ Len(t.audit) \in Scalar
    BY DEF TypeInv, Tables, Scalar
  <2>2. QED
    BY <1>1, <2>1, SeenLemma DEF Value
<1>3. /\ b \in Seq(Value) /\ Len(b) = n + 1 /\ b[n + 1] = v
      /\ \A i \in 1 .. n : b[i] = c[i]
  BY <1>2
<1> SUFFICES b \in Seq(Value) /\ Accounted(b, t)
  OBVIOUS
<1> HIDE DEF b
<1>4. CASE n = 0
  <2>1. Len(c) = 0 /\ Len(b) = 1 /\ b[1] = t.session
    BY <1>3, <1>4, SeenLemma
  <2>2. QED
    BY <1>3, <2>1 DEF Accounted, LogSeen, Logged
<1>5. CASE n = 1
  <2>1. Len(c) = 1 /\ Len(b) = 2 /\ b[2] = t.plans
    BY <1>3, <1>5, SeenLemma
  <2>2. b[1] = c[1]
    BY <1>3, <1>5
  <2>3. QED
    BY <1>3, <2>1, <2>2 DEF Accounted, LogSeen, Logged
<1>6. CASE n = 2
  <2>1. Len(c) = 2 /\ Len(b) = 3 /\ b[3] = t.candidate
    BY <1>3, <1>6, SeenLemma
  <2>2. b[1] = c[1] /\ b[2] = c[2]
    BY <1>3, <1>6
  <2>3. QED
    BY <1>3, <2>1, <2>2 DEF Accounted, LogSeen, Logged
<1>7. CASE n = 3
  <2>1. Len(c) = 3 /\ Len(b) = 4 /\ b[4] = t.decision
    BY <1>3, <1>7, SeenLemma
  <2>2. b[1] = c[1] /\ b[2] = c[2] /\ b[3] = c[3]
    BY <1>3, <1>7
  <2>3. QED
    BY <1>3, <2>1, <2>2 DEF Accounted, LogSeen, Logged
<1>8. CASE n = 4
  <2>1. Len(c) = 4 /\ Len(b) = 5 /\ b[5] = t.decision
    BY <1>3, <1>8, SeenLemma
  <2>2. b[1] = c[1] /\ b[2] = c[2] /\ b[3] = c[3] /\ b[4] = c[4]
    BY <1>3, <1>8
  <2>3. QED
    BY <1>3, <2>1, <2>2 DEF Accounted, LogSeen, Logged
<1>9. CASE n = 5
  <2>1. Len(c) = 5 /\ Len(b) = 6 /\ b[6] = t.publication
    BY <1>3, <1>9, SeenLemma
  <2>2. b[1] = c[1] /\ b[2] = c[2] /\ b[3] = c[3] /\ b[4] = c[4] /\ b[5] = c[5]
    BY <1>3, <1>9
  <2>3. QED
    BY <1>3, <2>1, <2>2 DEF Accounted, LogSeen, Logged
<1>10. CASE n = 6
  <2>1. Len(c) = 6 /\ Len(b) = 7 /\ b[7] = t.audit
    BY <1>3, <1>10, SeenLemma
  <2>2. /\ b[1] = c[1] /\ b[2] = c[2] /\ b[3] = c[3] /\ b[4] = c[4]
        /\ b[5] = c[5] /\ b[6] = c[6]
    BY <1>3, <1>10
  <2>3. QED
    BY <1>3, <2>1, <2>2 DEF Accounted, LogSeen, Logged
<1>11. CASE n = 7
  <2>1. Len(c) = 7 /\ Len(b) = 8 /\ b[8] = Len(t.audit)
    BY <1>3, <1>11, SeenLemma
  <2>2. /\ b[1] = c[1] /\ b[2] = c[2] /\ b[3] = c[3] /\ b[4] = c[4]
        /\ b[5] = c[5] /\ b[6] = c[6] /\ b[7] = c[7]
    BY <1>3, <1>11
  <2>3. QED
    BY <1>3, <2>1, <2>2 DEF Accounted, LogSeen, Logged
<1>12. QED
  BY <1>1, <1>4, <1>5, <1>6, <1>7, <1>8, <1>9, <1>10, <1>11
---------------------------------------------------------------------------
(* The bundle's files.                                                     *)

\* What an export writes at a path.
FileOf(e, path) ==
    IF path = "bundle-manifest.json" THEN Manifest(e) ELSE Content(e, path)

\* An export that began with nobody else at it has the directory to itself
\* until another begins, and what it has written is still there.
Undisturbed(e) ==
    export[e].alone =>
        /\ \A y \in Exporter \ {e} : ~Busy(y)
        /\ \A i \in 1 .. export[e].written : files[Paths[i]] = FileOf(e, Paths[i])

ExportInv(e) ==
    /\ Progress(export[e])
    /\ Accounted(export[e].copies, tables)
    /\ Undisturbed(e)

Inv == TypeInv /\ Logged(tables) /\ \A e \in Exporter : ExportInv(e)

\* Which copy is of which table.
LEMMA CopyLemma ==
    ASSUME NEW e \in Exporter
    PROVE  LET c == export[e].copies
           IN  /\ Copy(e, "session") = c[1] /\ Copy(e, "candidate") = c[3]
               /\ Copy(e, "decision") = c[4] /\ Copy(e, "ratification") = c[5]
               /\ Copy(e, "publication") = c[6] /\ Copy(e, "audit") = c[7]
<1>1. DOMAIN Reads = 1 .. 8
  BY DEF Reads
<1>2. /\ (CHOOSE i \in 1 .. 8 : Reads[i] = "session") = 1
      /\ (CHOOSE i \in 1 .. 8 : Reads[i] = "candidate") = 3
      /\ (CHOOSE i \in 1 .. 8 : Reads[i] = "decision") = 4
      /\ (CHOOSE i \in 1 .. 8 : Reads[i] = "ratification") = 5
      /\ (CHOOSE i \in 1 .. 8 : Reads[i] = "publication") = 6
      /\ (CHOOSE i \in 1 .. 8 : Reads[i] = "audit") = 7
  BY DEF Reads
<1>3. QED
  BY <1>1, <1>2 DEF Copy

\* A file depends on the export's copies alone.
LEMMA SameFiles ==
    ASSUME NEW e \in Exporter, export'[e].copies = export[e].copies
    PROVE  \A path : /\ Content(e, path)' = Content(e, path)
                     /\ FileOf(e, path)' = FileOf(e, path)
<1>1. \A table : Copy(e, table)' = Copy(e, table)
  BY DEF Copy
<1>2. \A path : Content(e, path)' = Content(e, path)
  <2>1. \A names : [t \in names |-> Copy(e, t)]' = [t \in names |-> Copy(e, t)]
    BY <1>1
  <2>2. QED
    BY <2>1, Zenon DEF Content
<1>3. Manifest(e)' = Manifest(e)
  BY <1>2 DEF Manifest
<1>4. QED
  BY <1>2, <1>3 DEF FileOf

\* A file that is written is not taken for a missing one.
LEMMA FilesExist ==
    ASSUME NEW e \in Exporter, NEW path \in Path
    PROVE  FileOf(e, path) # NoFile
<1>1. DOMAIN NoFile = {"missing"}
  BY DEF NoFile
<1>2. Artifact # {"missing"} /\ DOMAIN Manifest(e) = Artifact
  BY DEF Artifact, Paths, Manifest
<1>3. CASE path = "bundle-manifest.json"
  BY <1>1, <1>2, <1>3 DEF FileOf
<1>4. CASE path # "bundle-manifest.json"
  <2>1. \E names : Content(e, path) = [t \in names |-> Copy(e, t)] /\ "missing" \notin names
    BY <1>4 DEF Content, Path, Paths
  <2>2. QED
    BY <2>1, <1>1, <1>4 DEF FileOf
<1>5. QED
  BY <1>3, <1>4

\* The exporters other than the one that takes a step, when the directory
\* and their own state stay as they are.
LEMMA Bystander ==
    ASSUME Inv, NEW x \in Exporter,
           export'[x].copies = export[x].copies, export'[x].phase = export[x].phase,
           export'[x].written = export[x].written,
           export'[x].alone => export[x].alone /\ files' = files
                               /\ \A y \in Exporter \ {x} : ~Busy(y)',
           Grows(tables, tables')
    PROVE  ExportInv(x)'
<1>1. Progress(export'[x])
  BY DEF Inv, ExportInv, Progress
<1>2. Accounted(export'[x].copies, tables')
  <2>1. export[x].copies \in Seq(Value) /\ Accounted(export[x].copies, tables)
    BY DEF Inv, ExportInv, TypeInv
  <2>2. QED
    BY <2>1, AccountedKept
<1>3. Undisturbed(x)'
  BY SameFiles DEF Inv, ExportInv, Undisturbed
<1>4. QED
  BY <1>1, <1>2, <1>3 DEF ExportInv

LEMMA GrowsReflexive == Grows(tables, tables)
BY DEF Grows

LEMMA CommandInv ==
    ASSUME Inv, Command
    PROVE  Inv'
<1>1. /\ tables' \in Tables /\ UNCHANGED <<files, export>>
      /\ Logged(tables') /\ Grows(tables, tables')
  BY CommandTables DEF Inv
<1>2. TypeInv'
  BY <1>1 DEF Inv, TypeInv
<1>3. \A e \in Exporter : ExportInv(e)'
  BY <1>1, Bystander DEF Inv, ExportInv, Undisturbed, Busy
<1>4. QED
  BY <1>1, <1>2, <1>3 DEF Inv

LEMMA BeginInv ==
    ASSUME Inv, NEW e \in Exporter, Begin(e)
    PROVE  Inv'
<1> DEFINE free == \A z \in Exporter \ {e} : ~Busy(z)
           x(y) == IF y = e THEN [phase |-> "reading", copies |-> <<>>, written |-> 0,
                                  alone |-> free]
                   ELSE [export[y] EXCEPT !.alone = FALSE]
<1>f. free \in BOOLEAN /\ (free => \A z \in Exporter \ {e} : ~Busy(z))
  OBVIOUS
<1> HIDE DEF free
<1>1. export' = [y \in Exporter |-> x(y)] /\ tables' = tables /\ files' = files
  BY DEF Begin, free
<1>2. TypeInv'
  <2>1. ASSUME NEW y \in Exporter
        PROVE  x(y) \in [phase : Phase, copies : Seq(Value), written : 0 .. 7,
                         alone : BOOLEAN]
    <3>1. CASE y = e
      BY <1>f, <3>1 DEF Phase
    <3>2. CASE y # e
      BY <3>2 DEF Inv, TypeInv
    <3>3. QED
      BY <3>1, <3>2
  <2>2. QED
    BY <1>1, <2>1 DEF Inv, TypeInv
<1>3. ASSUME NEW y \in Exporter \ {e}
      PROVE  ExportInv(y)'
  <2>1. /\ export'[y].copies = export[y].copies /\ export'[y].phase = export[y].phase
        /\ export'[y].written = export[y].written /\ export'[y].alone = FALSE
    BY <1>1 DEF Inv, TypeInv
  <2>2. QED
    BY <1>1, <2>1, Bystander, GrowsReflexive
<1>4. ExportInv(e)'
  <2>1. /\ export'[e].copies = <<>> /\ export'[e].phase = "reading"
        /\ export'[e].written = 0
        /\ export'[e].alone = free
    BY <1>1
  <2>2. \A z \in Exporter \ {e} : Busy(z)' <=> Busy(z)
    BY <1>1 DEF Inv, TypeInv, Busy
  <2>3. Progress(export'[e]) /\ Accounted(export'[e].copies, tables')
    BY <2>1 DEF Progress, Accounted
  <2>4. Undisturbed(e)'
    BY <1>f, <2>1, <2>2 DEF Undisturbed
  <2>5. QED
    BY <2>3, <2>4 DEF ExportInv
<1>5. QED
  BY <1>1, <1>2, <1>3, <1>4 DEF Inv

LEMMA ReadInv ==
    ASSUME Inv, NEW e \in Exporter, ReadNext(e)
    PROVE  Inv'
<1> DEFINE c == export[e].copies
           b == Append(c, Seen(Len(c) + 1))
           phase == IF Len(c) + 1 = 8 THEN "writing" ELSE export[e].phase
<1>1. /\ export' = [export EXCEPT ![e].copies = b, ![e].phase = phase]
      /\ tables' = tables /\ files' = files /\ export[e].phase = "reading"
  BY DEF ReadNext, Reads
<1>2. /\ TypeInv /\ Logged(tables) /\ c \in Seq(Value) /\ Len(c) < 8
      /\ Accounted(c, tables) /\ export[e].written = 0
  BY <1>1 DEF Inv, ExportInv, TypeInv, Progress
<1>3. b \in Seq(Value) /\ Accounted(b, tables)
  BY <1>2, AccountedRead
<1>4. Len(b) = Len(c) + 1 /\ Len(b) \in Nat /\ Len(b) <= 8 /\ Len(c) \in Nat
  BY <1>2, <1>3
<1>5. phase \in {"reading", "writing"} /\ (phase = "writing" <=> Len(b) = 8)
  BY <1>1, <1>4
<1> HIDE DEF b, phase
<1>6. /\ export'[e].copies = b /\ export'[e].phase = phase
      /\ export'[e].written = 0 /\ export'[e].alone = export[e].alone
      /\ \A y \in Exporter \ {e} : export'[y] = export[y]
  BY <1>1, <1>2 DEF TypeInv
<1>7. TypeInv'
  BY <1>1, <1>2, <1>3, <1>5 DEF TypeInv, Phase
<1>8. Busy(e) /\ Busy(e)'
  BY <1>1, <1>5, <1>6 DEF Busy
<1>9. \A y \in Exporter \ {e} : Busy(y)' <=> Busy(y)
  BY <1>6 DEF Busy
<1>10. ASSUME NEW y \in Exporter \ {e}
       PROVE  ExportInv(y)'
  <2>1. ~export[y].alone
    BY <1>8 DEF Inv, ExportInv, Undisturbed
  <2>2. QED
    BY <1>1, <1>6, <2>1, Bystander, GrowsReflexive
<1>11. ExportInv(e)'
  <2>1. Progress(export'[e])
    <3>1. /\ Len(b) <= 8
          /\ phase = "reading" => Len(b) < 8
          /\ phase = "writing" => Len(b) = 8
      BY <1>4, <1>5
    <3>2. phase = "reading" \/ phase = "writing"
      BY <1>5
    <3>3. QED
      BY <1>6, <3>1, <3>2 DEF Progress
  <2>2. Undisturbed(e)'
    <3>1. export[e].alone => \A y \in Exporter \ {e} : ~Busy(y)
      BY DEF Inv, ExportInv, Undisturbed
    <3>2. 1 .. 0 = {}
      OBVIOUS
    <3>3. QED
      BY <1>6, <1>9, <3>1, <3>2 DEF Undisturbed
  <2>3. QED
    BY <1>1, <1>3, <1>6, <2>1, <2>2 DEF ExportInv
<1>12. QED
  BY <1>1, <1>2, <1>7, <1>10, <1>11 DEF Inv

LEMMA WriteInv ==
    ASSUME Inv, NEW e \in Exporter, WriteFile(e)
    PROVE  Inv'
<1> DEFINE n == export[e].written + 1
           path == Paths[n]
           phase == IF n = 7 THEN "done" ELSE export[e].phase
<1>1. /\ export' = [export EXCEPT ![e].written = n, ![e].phase = phase]
      /\ files' = [files EXCEPT ![path] = FileOf(e, path)]
      /\ tables' = tables /\ export[e].phase = "writing"
  BY DEF WriteFile, FileOf, Paths
<1>2. /\ TypeInv /\ Logged(tables) /\ Progress(export[e])
      /\ Accounted(export[e].copies, tables) /\ Undisturbed(e)
  BY DEF Inv, ExportInv
<1>3. n \in 1 .. 7 /\ export[e].written = n - 1 /\ Len(export[e].copies) = 8
  BY <1>1, <1>2 DEF TypeInv, Progress
<1>4. phase \in {"writing", "done"} /\ (phase = "done" <=> n = 7)
  BY <1>1
<1>5. DOMAIN Paths = 1 .. 7 /\ \A i, j \in 1 .. 7 : Paths[i] = Paths[j] => i = j
  BY DEF Paths
<1>6. path \in Path
  BY <1>3, <1>5 DEF Path
<1> HIDE DEF n, phase
<1>7. /\ export'[e].copies = export[e].copies /\ export'[e].phase = phase
      /\ export'[e].written = n /\ export'[e].alone = export[e].alone
      /\ \A y \in Exporter \ {e} : export'[y] = export[y]
  BY <1>1, <1>2 DEF TypeInv
<1>8. TypeInv'
  <2>1. n \in 0 .. 7 /\ phase \in Phase
    BY <1>3, <1>4 DEF Phase
  <2>2. export' \in [Exporter -> [phase : Phase, copies : Seq(Value), written : 0 .. 7,
                                  alone : BOOLEAN]]
    BY <1>1, <1>2, <2>1 DEF TypeInv
  <2>3. DOMAIN files' = Path
    BY <1>1, <1>2 DEF TypeInv
  <2>4. QED
    BY <1>1, <1>2, <2>2, <2>3 DEF TypeInv
<1>9. Busy(e)
  BY <1>1 DEF Busy
<1>10. \A y \in Exporter \ {e} : Busy(y)' <=> Busy(y)
  BY <1>7 DEF Busy
<1>11. ASSUME NEW y \in Exporter \ {e}
       PROVE  ExportInv(y)'
  <2>1. ~export[y].alone
    BY <1>9 DEF Inv, ExportInv, Undisturbed
  <2>2. QED
    BY <1>1, <1>7, <2>1, Bystander, GrowsReflexive
<1>12. ASSUME export[e].alone
       PROVE  \A i \in 1 .. n : files'[Paths[i]] = FileOf(e, Paths[i])
  <2> SUFFICES ASSUME NEW i \in 1 .. n
               PROVE  files'[Paths[i]] = FileOf(e, Paths[i])
    OBVIOUS
  <2>1. CASE i = n
    BY <1>1, <1>2, <1>6, <2>1 DEF TypeInv
  <2>2. CASE i # n
    <3>1. i \in 1 .. export[e].written /\ i \in 1 .. 7
      BY <1>3, <2>2
    <3>2. files[Paths[i]] = FileOf(e, Paths[i])
      BY <1>2, <1>12, <3>1 DEF Undisturbed
    <3>3. Paths[i] # path /\ Paths[i] \in Path
      BY <1>3, <1>5, <2>2, <3>1 DEF Path
    <3>4. QED
      BY <1>1, <1>2, <3>2, <3>3 DEF TypeInv
  <2>3. QED
    BY <2>1, <2>2
<1>13. Undisturbed(e)'
  BY <1>2, <1>7, <1>10, <1>12, SameFiles DEF Undisturbed
<1>14. ExportInv(e)'
  <2>1. Progress(export'[e])
    <3> DEFINE x == export'[e]
    <3>1. Len(x.copies) = 8 /\ x.written \in 1 .. 7
          /\ x.phase \in {"writing", "done"}
          /\ (x.phase = "done" <=> x.written = 7)
      BY <1>3, <1>4, <1>7
    <3> HIDE DEF x
    <3>2. Progress(x)
      BY <3>1 DEF Progress
    <3>3. QED
      BY <3>2 DEF x
  <2>2. QED
    BY <1>1, <1>2, <1>7, <1>13, <2>1 DEF ExportInv
<1>15. QED
  BY <1>1, <1>2, <1>8, <1>11, <1>14 DEF Inv

LEMMA CrashInv ==
    ASSUME Inv, NEW e \in Exporter, Crash(e)
    PROVE  Inv'
<1>1. /\ export' = [export EXCEPT ![e] = Idle] /\ Busy(e)
      /\ tables' = tables /\ files' = files
  BY DEF Crash
<1>2. export'[e] = Idle /\ \A y \in Exporter \ {e} : export'[y] = export[y]
  BY <1>1 DEF Inv, TypeInv
<1>3. TypeInv'
  BY <1>1 DEF Inv, TypeInv, Idle, Phase
<1>4. ASSUME NEW y \in Exporter \ {e}
      PROVE  ExportInv(y)'
  <2>1. ~export[y].alone
    BY <1>1 DEF Inv, ExportInv, Undisturbed
  <2>2. QED
    BY <1>1, <1>2, <2>1, Bystander, GrowsReflexive
<1>5. ExportInv(e)'
  BY <1>2 DEF ExportInv, Progress, Accounted, Undisturbed, Idle
<1>6. QED
  BY <1>1, <1>3, <1>4, <1>5 DEF Inv

\* A session that has a candidate, a candidate and a decision, or a decided one.
LEMMA UntilLemma ==
    ASSUME NEW s \in {"CONSOLIDATION", "GOVERNANCE_VALIDATION", "DECIDED"}
    PROVE  Until(s) \in Tables /\ Logged(Until(s))
<1> DEFINE log == <<Entry("candidate", 1), Entry("session", "GOVERNANCE_VALIDATION"),
                    Entry("decision", 1), Entry("session", "DECIDED")>>
           n == CASE s = "CONSOLIDATION" -> 1
                  [] s = "GOVERNANCE_VALIDATION" -> 2
                  [] s = "DECIDED" -> 4
           a == SubSeq(log, 1, n)
           t == [session |-> s, plans |-> 0, candidate |-> 1,
                 decision |-> IF s = "DECIDED" THEN 1 ELSE None, publication |-> None,
                 audit |-> a]
<1>1. Until(s) = t
  BY DEF Until
<1>2. \A status \in {"CONSOLIDATION", "GOVERNANCE_VALIDATION", "DECIDED"} : status \in States
  <2>1. <<"CONSOLIDATION", "GOVERNANCE_VALIDATION">> \in Transitions
        /\ <<"GOVERNANCE_VALIDATION", "DECIDED">> \in Transitions
    BY DEF Transitions
  <2>2. QED
    BY <2>1 DEF States
<1>3. \A i \in 1 .. 4 : log[i] \in LogEntry
  BY <1>2 DEF Entry, LogEntry, Table, Scalar
<1>4. n \in 1 .. 4
  OBVIOUS
<1>5. /\ a \in Seq(LogEntry) /\ Len(a) = n
      /\ \A i \in 1 .. n : a[i] = log[i]
  <2> HIDE DEF log, n
  <2>1. \A i \in 1 .. n : log[i] \in LogEntry
    BY <1>3, <1>4
  <2>2. /\ SubSeq(log, 1, n) \in Seq(LogEntry) /\ Len(SubSeq(log, 1, n)) = n
        /\ \A i \in 1 .. n : SubSeq(log, 1, n)[i] = log[i]
    BY <1>4, <2>1, SubSeqProperties
  <2>3. QED
    BY <2>2
<1>6. DOMAIN a = 1 .. n
  BY <1>5
<1>7. ASSUME NEW i \in 1 .. n
      PROVE  Announces(a, log[i].table, log[i].value)
  BY <1>5, <1>6 DEF Announces
<1>8. t \in Tables
  BY <1>2, <1>5 DEF Tables
<1>9. Announces(a, "candidate", 1)
  BY <1>4, <1>7 DEF Entry
<1>10. s # "CONSOLIDATION" => Announces(a, "session", s)
  BY <1>7 DEF Entry
<1>11. s = "DECIDED" => Announces(a, "decision", 1)
  BY <1>7 DEF Entry
<1> HIDE DEF a
<1>12. Logged(t)
  BY <1>9, <1>10, <1>11, NoneAssumption DEF Logged
<1>13. QED
  BY <1>1, <1>8, <1>12

LEMMA InitInv == Init => Inv
<1> SUFFICES ASSUME Init
             PROVE  Inv
  OBVIOUS
<1>1. tables \in Tables /\ Logged(tables)
  BY UntilLemma DEF Init
<1>2. TypeInv
  BY <1>1 DEF Init, TypeInv, Path, Idle, Phase
<1>3. ASSUME NEW e \in Exporter
      PROVE  ExportInv(e)
  BY DEF Init, Idle, ExportInv, Progress, Accounted, Undisturbed
<1>4. QED
  BY <1>1, <1>2, <1>3 DEF Inv

LEMMA NextInv == Inv /\ [Next]_vars => Inv'
<1> SUFFICES ASSUME Inv, [Next]_vars
             PROVE  Inv'
  OBVIOUS
<1>1. CASE Next
  BY <1>1, CommandInv, BeginInv, ReadInv, WriteInv, CrashInv DEF Next
<1>2. CASE UNCHANGED vars
  <2>1. /\ tables' = tables /\ files' = files /\ export' = export
    BY <1>2 DEF vars
  <2>2. TypeInv' /\ Logged(tables')
    BY <2>1 DEF Inv, TypeInv
  <2>3. \A e \in Exporter : ExportInv(e)'
    BY <2>1, Bystander, GrowsReflexive DEF Inv, ExportInv, Undisturbed, Busy
  <2>4. QED
    BY <2>2, <2>3 DEF Inv
<1>3. QED
  BY <1>1, <1>2

LEMMA Invariance == Spec => []Inv
BY InitInv, NextInv, PTL DEF Spec
---------------------------------------------------------------------------
\* The audit log in a bundle accounts for every record in it, a decision is
\* exported with its own ratification, and a status that needs a decision or
\* a publication is exported with it, whatever committed between the reads.
THEOREM BundlesAccounted == Spec => []BundleAccounted
<1>1. Inv => BundleAccounted
  <2> SUFFICES ASSUME Inv, NEW e \in Exporter, export[e].phase \in {"writing", "done"}
               PROVE  LET log == Copy(e, "audit")
                      IN  /\ \A t \in {"candidate", "decision", "publication"} :
                                Copy(e, t) # None => Announces(log, t, Copy(e, t))
                          /\ Copy(e, "decision") # None =>
                                Copy(e, "ratification") = Copy(e, "decision")
                          /\ Copy(e, "session") # "CONSOLIDATION" =>
                                Announces(log, "session", Copy(e, "session"))
                          /\ Copy(e, "session") \in {"DECIDED", "PUBLISHED"} =>
                                Copy(e, "decision") # None
                          /\ Copy(e, "session") = "PUBLISHED" =>
                                Copy(e, "publication") = Copy(e, "decision")
    BY DEF BundleAccounted
  <2> DEFINE c == export[e].copies
  <2>1. Len(c) = 8 /\ Accounted(c, tables)
    BY DEF Inv, ExportInv, Progress
  <2> HIDE DEF c
  <2>2. LogSeen(c, tables) = c[7]
    BY <2>1 DEF LogSeen
  <2>3. /\ Copy(e, "session") = c[1] /\ Copy(e, "candidate") = c[3]
        /\ Copy(e, "decision") = c[4] /\ Copy(e, "ratification") = c[5]
        /\ Copy(e, "publication") = c[6] /\ Copy(e, "audit") = c[7]
    BY CopyLemma DEF c
  <2>4. QED
    BY <2>1, <2>2, <2>3 DEF Accounted
<1>2. QED
  BY <1>1, Invariance, PTL

\* An export that had the directory to itself leaves a bundle that verifies
\* and is its own, whatever it found there.
THEOREM ReexportsRepair == Spec => []ReexportRepairs
<1>1. Inv => ReexportRepairs
  <2> SUFFICES ASSUME Inv, NEW e \in Exporter,
                      export[e].phase = "done" /\ export[e].alone
               PROVE  /\ Verifies
                      /\ \A path \in Artifact : files[path] = Content(e, path)
    BY DEF ReexportRepairs
  <2>1. \A i \in 1 .. 7 : files[Paths[i]] = FileOf(e, Paths[i])
    BY DEF Inv, ExportInv, Progress, Undisturbed
  <2>2. \A path \in Path : files[path] = FileOf(e, path)
    BY <2>1 DEF Path, Paths
  <2>3. "bundle-manifest.json" \in Path /\ Artifact = Path \ {"bundle-manifest.json"}
    BY DEF Path, Paths, Artifact
  <2>4. \A path \in Artifact : files[path] = Content(e, path) /\ files[path] # NoFile
    BY <2>2, <2>3, FilesExist DEF FileOf
  <2>5. /\ files["bundle-manifest.json"] = Manifest(e)
        /\ files["bundle-manifest.json"] # NoFile
    BY <2>2, <2>3, FilesExist DEF FileOf
  <2>6. QED
    BY <2>4, <2>5 DEF Verifies, Manifest
<1>2. QED
  BY <1>1, Invariance, PTL
=============================================================================
