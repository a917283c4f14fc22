------------------------- MODULE GoldenStudy_proofs -------------------------
(***************************************************************************)
(* A handler of the study checks in one transaction and writes in later    *)
(* ones, and goes on with the run it looked up first.  What keeps demo and *)
(* real evidence apart is what stays true of a row whoever commits in      *)
(* between: a run keeps its mode, a signal, a finding and an audit their   *)
(* run and their kind; and that a run is looked up before it is used.      *)
(* What bounds the races is that only a session that looked before an      *)
(* insert can add to it, and only once.                                    *)
(***************************************************************************)
EXTENDS GoldenStudy, FiniteSetTheorems, SequenceTheorems, WellFoundedInduction, TLAPS

\* A row is a demo row if and only if its run is a demo run; rs are the runs.
Faithful(rs, row) ==
    /\ row.run \in DOMAIN rs
    /\ row.demo <=> rs[row.run].mode = "demo"

\* A finding has signals, all of its run.
FindingSound(rs, signals, row) ==
    /\ Faithful(rs, row)
    /\ row.signals # {}
    /\ \A i \in row.signals : i \in DOMAIN signals /\ signals[i].run = row.run

\* A real audit that is promoted has approved.
Decided(audit) == ~audit.demo => audit.decision = "Approve Opportunity"

\* What is made of an audit is in its run and about its finding, and real
\* only if it is.
Promised(audits, row) ==
    /\ row.audit \in DOMAIN audits
    /\ audits[row.audit].run = row.run
    /\ audits[row.audit].finding = row.finding
    /\ ~row.demo => ~audits[row.audit].demo /\ audits[row.audit].decision = "Approve Opportunity"

TablesSound ==
    /\ \A i \in DOMAIN rows["signals"] : Faithful(runs, rows["signals"][i])
    /\ \A f \in DOMAIN rows["findings"] : FindingSound(runs, rows["signals"], rows["findings"][f])
    /\ \A a \in DOMAIN rows["audits"] : Faithful(runs, rows["audits"][a])
    /\ \A o \in DOMAIN rows["opportunities"] :
          /\ Faithful(runs, rows["opportunities"][o])
          /\ Promised(rows["audits"], rows["opportunities"][o])
    /\ 1 \in DOMAIN runs

\* What an element of a program is about to write, or was told to, is sound
\* whenever it is run.
Sound(rs, tb, s) ==
    /\ s.do \in {"upsert", "addFinding", "rewrite"} => FindingSound(rs, tb["signals"], s.row)
    /\ s.do = "record" => Faithful(rs, s.row)
    /\ s.do = "promote" => \A a \in s.left : a \in DOMAIN tb["audits"] /\ Decided(tb["audits"][a])
    /\ s.do = "insert" => Promised(tb["audits"], s.row)

ProgramsSound == \A u \in Session : \A i \in 1 .. Len(todo[u]) : Sound(runs, rows, todo[u][i])

\* The audits an element is to make opportunities of.
Promises(s) == CASE s.do = "promote" -> s.left
                 [] s.do = "insert"  -> {s.row.audit}
                 [] OTHER            -> {}

\* A check is followed at once by what it is for; audits are selected by the
\* last element; and no audit is promised twice.
Orderly(q) ==
    /\ \A i \in 1 .. Len(q) : q[i].do \in {"insertRun", "store"} => i = 1
    /\ \A i \in 1 .. Len(q) : q[i].do = "select" => i = Len(q)
    /\ \A i, j \in 1 .. Len(q) : i # j => Promises(q[i]) \cap Promises(q[j]) = {}

ProgramsOrderly == \A u \in Session : Orderly(todo[u])

\* The run a session saw is there, with the mode it saw; one that saw none is
\* about to look.  A signal that was admitted is of the kind of that run.
SeenSound ==
    \A u \in Session :
        /\ IF seen[u].id = 0
           THEN todo[u] # <<>> => todo[u][1].do \in {"resolve", "create", "insertRun"}
           ELSE seen[u].id \in DOMAIN runs /\ runs[seen[u].id].mode = seen[u].mode
        /\ todo[u] # <<>> /\ todo[u][1].do = "store" => (todo[u][1].demo <=> seen[u].mode = "demo")

\* The sessions that are to start a run, and those that are to promote audit a.
Starting == {u \in Session : todo[u] # <<>> /\ todo[u][1].do = "insertRun"}
Promoting(a) == {u \in Session : \E i \in 1 .. Len(todo[u]) : a \in Promises(todo[u][i])}
Made(a) == {o \in DOMAIN rows["opportunities"] : rows["opportunities"][o].audit = a}

StartsBounded == Cardinality(Active) + Cardinality(Starting) <= Cardinality(Session)
PromotionsBounded == \A a \in Nat : Cardinality(Made(a)) + Cardinality(Promoting(a)) <= Cardinality(Session)

\* What holds as long as nothing has been deleted.
Evidence == /\ TablesSound
            /\ ProgramsSound
            /\ ProgramsOrderly
            /\ SeenSound
            /\ StartsBounded
            /\ PromotionsBounded

\* What a row's status may say, and the rows of each table.
Status == {"active", "archived", "pending_audit", "Insufficient Evidence", "audited",
           "opportunity_approved", "Approved Opportunity", "Engineering Ready", "Demo Finding",
           "Demo Audited", "Demo Opportunity", "Demo Engineering Ready"}
SignalRow      == [run : Nat, demo : BOOLEAN, status : Status, source : Source]
FindingRow     == [run : Nat, demo : BOOLEAN, status : Status, signals : SUBSET Nat]
AuditRow       == [run : Nat, demo : BOOLEAN, status : Status, finding : Nat,
                   decision : Verdict \cup {"Demo Audited"}]
OpportunityRow == [run : Nat, demo : BOOLEAN, status : Status, audit : Nat, finding : Nat]
BriefRow       == [run : Nat, demo : BOOLEAN, status : Status]
NewOpportunity == [run : Nat, demo : BOOLEAN, audit : Nat, finding : Nat]

RowOf(t) == CASE t = "signals"       -> SignalRow
              [] t = "findings"      -> FindingRow
              [] t = "audits"        -> AuditRow
              [] t = "opportunities" -> OpportunityRow
              [] t = "briefs"        -> BriefRow

\* A table of rows R, finitely many and numbered.
Numbered(f, R) ==
    /\ IsFiniteSet(DOMAIN f)
    /\ DOMAIN f \subseteq Nat \ {0}
    /\ f \in [DOMAIN f -> R]

\* The elements of which programs are made.
PlainStep      == [do : {"resolve", "history", "close", "listDemo", "archiveDemoRuns", "restart",
                         "delete", "pull", "generate", "auditAll", "select", "brief"}]
ModeStep       == [do : {"create", "insertRun", "setMode", "switch", "collect", "listAuditable"},
                   mode : Mode]
ArchiveStep    == [do : {"archive"}, left : SUBSET (Table \X Nat)]
RetireStep     == [do : {"retire"}, run : Nat]
CandidatesStep == [do : {"candidates"}, left : SUBSET Source, run : Nat]
SignalStep     == [do : {"admit", "store"}, source : Source, demo : BOOLEAN]
BatchStep      == [do : {"batch"}, left : SUBSET Source]
FindingStep    == [do : {"upsert", "addFinding"}, row : FindingRow]
RewriteStep    == [do : {"rewrite"}, finding : Nat, row : FindingRow]
ListStep       == [do : {"audit", "promote"}, left : SUBSET Nat]
RecordStep     == [do : {"record"}, row : AuditRow]
InsertStep     == [do : {"insert"}, row : NewOpportunity]
ChainStep      == [do : {"chain"}, opportunity : Nat]
ReadyStep      == [do : {"markReady"}, opportunity : Nat, demo : BOOLEAN]

Element == PlainStep \cup ModeStep \cup ArchiveStep \cup RetireStep \cup CandidatesStep
           \cup SignalStep \cup BatchStep \cup FindingStep \cup RewriteStep \cup ListStep
           \cup RecordStep \cup InsertStep \cup ChainStep \cup ReadyStep

TypeInv ==
    /\ mode \in Mode
    /\ Numbered(runs, Run)
    /\ DOMAIN rows = Table
    /\ \A t \in Table : Numbered(rows[t], RowOf(t))
    /\ todo \in [Session -> Seq(Element)]
    /\ seen \in [Session -> [id : Nat, mode : Mode]]
    /\ calls \in 0 .. MaxCalls
    /\ erased \in BOOLEAN

Inv == TypeInv /\ (~erased => Evidence)
---------------------------------------------------------------------------
(* Elements and programs.                                                  *)

LEMMA ElementKinds ==
    ASSUME NEW s \in Element
    PROVE  /\ s.do \in {"create", "insertRun", "setMode", "switch", "collect", "listAuditable"}
                => s \in ModeStep
           /\ s.do = "archive" => s \in ArchiveStep
           /\ s.do = "retire" => s \in RetireStep
           /\ s.do = "candidates" => s \in CandidatesStep
           /\ s.do \in {"admit", "store"} => s \in SignalStep
           /\ s.do = "batch" => s \in BatchStep
           /\ s.do \in {"upsert", "addFinding"} => s \in FindingStep
           /\ s.do = "rewrite" => s \in RewriteStep
           /\ s.do \in {"audit", "promote"} => s \in ListStep
           /\ s.do = "record" => s \in RecordStep
           /\ s.do = "insert" => s \in InsertStep
           /\ s.do = "chain" => s \in ChainStep
           /\ s.do = "markReady" => s \in ReadyStep
<1>1. /\ s \in PlainStep =>
            s.do \in {"resolve", "history", "close", "listDemo", "archiveDemoRuns", "restart",
                      "delete", "pull", "generate", "auditAll", "select", "brief"}
      /\ s \in ModeStep =>
            s.do \in {"create", "insertRun", "setMode", "switch", "collect", "listAuditable"}
      /\ s \in ArchiveStep => s.do = "archive"
      /\ s \in RetireStep => s.do = "retire"
  BY DEF PlainStep, ModeStep, ArchiveStep, RetireStep
<1>2. /\ s \in CandidatesStep => s.do = "candidates"
      /\ s \in SignalStep => s.do \in {"admit", "store"}
      /\ s \in BatchStep => s.do = "batch"
      /\ s \in FindingStep => s.do \in {"upsert", "addFinding"}
      /\ s \in RewriteStep => s.do = "rewrite"
  BY DEF CandidatesStep, SignalStep, BatchStep, FindingStep, RewriteStep
<1>3. /\ s \in ListStep => s.do \in {"audit", "promote"}
      /\ s \in RecordStep => s.do = "record"
      /\ s \in InsertStep => s.do = "insert"
      /\ s \in ChainStep => s.do = "chain"
      /\ s \in ReadyStep => s.do = "markReady"
  BY DEF ListStep, RecordStep, InsertStep, ChainStep, ReadyStep
<1>4. QED
  BY <1>1, <1>2, <1>3 DEF Element

LEMMA PlainSteps ==
    /\ Resolve \in Element /\ History \in Element /\ Close \in Element
    /\ ListDemo \in Element /\ ArchiveDemoRuns \in Element /\ Restart \in Element
    /\ Delete \in Element /\ Pull \in Element /\ Generate \in Element
    /\ AuditAll \in Element /\ Select \in Element /\ Brief \in Element
BY DEF Element, PlainStep, Resolve, History, Close, ListDemo, ArchiveDemoRuns, Restart,
       Delete, Pull, Generate, AuditAll, Select, Brief

LEMMA ModeSteps ==
    ASSUME NEW m \in Mode
    PROVE  /\ Create(m) \in Element /\ InsertRun(m) \in Element /\ SetMode(m) \in Element
           /\ Switch(m) \in Element /\ Collect(m) \in Element /\ ListAuditable(m) \in Element
BY DEF Element, ModeStep, Create, InsertRun, SetMode, Switch, Collect, ListAuditable

LEMMA SignalSteps ==
    /\ \A s \in Source, demo \in BOOLEAN : Admit(s, demo) \in Element /\ Store(s, demo) \in Element
    /\ \A S \in SUBSET Source : Batch(S) \in Element
    /\ \A S \in SUBSET Source, r \in Nat : Candidates(S, r) \in Element
BY DEF Element, SignalStep, BatchStep, CandidatesStep, Admit, Store, Batch, Candidates

LEMMA RowSteps ==
    /\ \A X \in SUBSET (Table \X Nat) : ArchiveRows(X) \in Element
    /\ \A r \in Nat : Retire(r) \in Element
    /\ \A row \in FindingRow : Upsert(row) \in Element /\ AddFinding(row) \in Element
    /\ \A f \in Nat, row \in FindingRow : Rewrite(f, row) \in Element
BY DEF Element, ArchiveStep, RetireStep, FindingStep, RewriteStep,
       ArchiveRows, Retire, Upsert, AddFinding, Rewrite

LEMMA AuditSteps ==
    /\ \A F \in SUBSET Nat : Audit(F) \in Element /\ Promote(F) \in Element
    /\ \A row \in AuditRow : Record(row) \in Element
    /\ \A row \in NewOpportunity : Insert(row) \in Element
    /\ \A o \in Nat : Chain(o) \in Element
    /\ \A o \in Nat, demo \in BOOLEAN : MarkReady(o, demo) \in Element
BY DEF Element, ListStep, RecordStep, InsertStep, ChainStep, ReadyStep,
       Audit, Promote, Record, Insert, Chain, MarkReady

\* Short programs, element by element.
LEMMA Program0 == <<>> \in Seq(Element) /\ Len(<<>>) = 0
OBVIOUS

LEMMA Program1 ==
    ASSUME NEW a \in Element
    PROVE  <<a>> \in Seq(Element) /\ Len(<<a>>) = 1 /\ <<a>>[1] = a
OBVIOUS

LEMMA Program2 ==
    ASSUME NEW a \in Element, NEW b \in Element
    PROVE  /\ <<a, b>> \in Seq(Element) /\ Len(<<a, b>>) = 2
           /\ <<a, b>>[1] = a /\ <<a, b>>[2] = b
OBVIOUS

LEMMA Pair ==
    ASSUME NEW p, Len(p) = 2
    PROVE  \A i \in 1 .. Len(p) : i = 1 \/ i = 2
OBVIOUS

LEMMA Triple ==
    ASSUME NEW p, Len(p) = 3
    PROVE  \A i \in 1 .. Len(p) : i = 1 \/ i = 2 \/ i = 3
OBVIOUS

LEMMA Program3 ==
    ASSUME NEW a \in Element, NEW b \in Element, NEW c \in Element
    PROVE  /\ <<a, b, c>> \in Seq(Element) /\ Len(<<a, b, c>>) = 3
           /\ <<a, b, c>>[1] = a /\ <<a, b, c>>[2] = b /\ <<a, b, c>>[3] = c
OBVIOUS

LEMMA Program4 ==
    ASSUME NEW a \in Element, NEW b \in Element, NEW c \in Element, NEW d \in Element
    PROVE  /\ <<a, b, c, d>> \in Seq(Element) /\ Len(<<a, b, c, d>>) = 4
           /\ <<a, b, c, d>>[1] = a /\ <<a, b, c, d>>[2] = b
           /\ <<a, b, c, d>>[3] = c /\ <<a, b, c, d>>[4] = d
OBVIOUS

LEMMA Program5 ==
    ASSUME NEW a \in Element, NEW b \in Element, NEW c \in Element, NEW d \in Element,
           NEW e \in Element
    PROVE  /\ <<a, b, c, d, e>> \in Seq(Element) /\ Len(<<a, b, c, d, e>>) = 5
           /\ <<a, b, c, d, e>>[1] = a /\ <<a, b, c, d, e>>[2] = b
           /\ <<a, b, c, d, e>>[3] = c /\ <<a, b, c, d, e>>[4] = d
           /\ <<a, b, c, d, e>>[5] = e
OBVIOUS
---------------------------------------------------------------------------
(* A session's program after a commit: p, and then q without its head.     *)

Follows(q1, p, q) ==
    /\ p \in Seq(Element) /\ q \in Seq(Element) /\ q1 \in Seq(Element)
    /\ Len(q) >= 1
    /\ Len(q1) = Len(p) + (Len(q) - 1)
    /\ \A i \in 1 .. Len(p) : q1[i] = p[i]
    /\ \A i \in Len(p) + 1 .. Len(q1) :
          /\ (i - Len(p)) + 1 \in 2 .. Len(q)
          /\ q1[i] = q[(i - Len(p)) + 1]

LEMMA FollowsLemma ==
    ASSUME NEW p \in Seq(Element), NEW q \in Seq(Element), q # <<>>
    PROVE  Follows(p \o Tail(q), p, q)
<1> DEFINE t == Tail(q)
<1>1. Len(p) \in Nat /\ Len(q) \in Nat \ {0}
  BY EmptySeq, LenProperties
<1>2. /\ t \in Seq(Element) /\ Len(t) = Len(q) - 1
      /\ \A i \in 1 .. Len(q) - 1 : t[i] = q[i + 1]
  BY <1>1, HeadTailProperties
<1> HIDE DEF t
<1>3. /\ p \o t \in Seq(Element)
      /\ Len(p \o t) = Len(p) + Len(t)
      /\ \A i \in 1 .. Len(p) + Len(t) :
            (p \o t)[i] = IF i <= Len(p) THEN p[i] ELSE t[i - Len(p)]
  BY <1>2, ConcatProperties
<1>4. \A i \in 1 .. Len(p) : (p \o t)[i] = p[i]
  BY <1>1, <1>2, <1>3
<1>5. ASSUME NEW i \in Len(p) + 1 .. Len(p \o t)
      PROVE  /\ (i - Len(p)) + 1 \in 2 .. Len(q)
             /\ (p \o t)[i] = q[(i - Len(p)) + 1]
  <2>1. /\ i \in 1 .. Len(p) + Len(t)
        /\ ~ (i <= Len(p))
        /\ i - Len(p) \in 1 .. Len(q) - 1
        /\ (i - Len(p)) + 1 \in 2 .. Len(q)
    BY <1>1, <1>2, <1>3
  <2>2. QED
    BY <1>2, <1>3, <2>1
<1>6. Follows(p \o t, p, q)
  BY <1>1, <1>2, <1>3, <1>4, <1>5 DEF Follows
<1>7. QED
  BY <1>6 DEF t

\* Session u's program is now p and the rest of what it was; nobody else's
\* has changed.
Moves(u, p) ==
    /\ todo' \in [Session -> Seq(Element)]
    /\ Follows(todo'[u], p, todo[u])
    /\ \A v \in Session : v # u => todo'[v] = todo[v]

\* An exception: session u has nothing left to do.
Stops(u) ==
    /\ todo' \in [Session -> Seq(Element)]
    /\ todo'[u] = <<>>
    /\ \A v \in Session : v # u => todo'[v] = todo[v]

LEMMA ThenLemma ==
    ASSUME TypeInv, NEW u \in Session, todo[u] # <<>>, NEW p \in Seq(Element), Then(u, p)
    PROVE  Moves(u, p)
<1>1. todo[u] \in Seq(Element)
  BY DEF TypeInv
<1>2. Follows(p \o Tail(todo[u]), p, todo[u])
  BY <1>1, FollowsLemma
<1>3. p \o Tail(todo[u]) \in Seq(Element)
  BY <1>2 DEF Follows
<1>4. todo' = [todo EXCEPT ![u] = p \o Tail(todo[u])]
  BY DEF Then, TypeInv
<1>5. QED
  BY <1>2, <1>3, <1>4 DEF Moves, TypeInv

LEMMA RaiseLemma ==
    ASSUME TypeInv, NEW u \in Session, Raise(u)
    PROVE  Stops(u)
BY DEF TypeInv, Raise, Stops

LEMMA HeadLemma ==
    ASSUME TypeInv, NEW u \in Session, NEW do, Now(u, do)
    PROVE  /\ todo[u] # <<>> /\ todo[u] \in Seq(Element)
           /\ Len(todo[u]) \in Nat /\ 1 \in 1 .. Len(todo[u])
           /\ Step(u) = todo[u][1]
           /\ todo[u][1] \in Element /\ todo[u][1].do = do
<1>1. todo[u] # <<>> /\ todo[u] \in Seq(Element) /\ Head(todo[u]).do = do
  BY DEF Now, TypeInv
<1>2. Len(todo[u]) \in Nat \ {0}
  BY <1>1, EmptySeq, LenProperties
<1>3. 1 \in 1 .. Len(todo[u])
  BY <1>2
<1>4. Head(todo[u]) = todo[u][1]
  BY <1>1
<1>5. todo[u][1] \in Element
  BY <1>1, <1>3, ElementOfSeq
<1>6. QED
  BY <1>1, <1>2, <1>3, <1>4, <1>5 DEF Step
---------------------------------------------------------------------------
(* Tables.                                                                 *)

LEMMA LeastNumber ==
    ASSUME NEW T, T \subseteq Nat, T # {}
    PROVE  \E x \in T : \A y \in T : x <= y
<1> DEFINE below == OpToRel(<, Nat)
<1>1. IsWellFoundedOn(below, Nat)
  BY NatLessThanWellFounded
<1>2. \A x, y \in Nat : y < x => <<y, x>> \in below
  BY DEF OpToRel
<1> HIDE DEF below
<1>3. PICK x \in T : \A y \in T : ~ (<<y, x>> \in below)
  BY <1>1, WFMin
<1>4. \A y \in T : ~ (y < x)
  BY <1>2, <1>3
<1>5. QED
  BY <1>3, <1>4

\* A finite set of runs has a newest one.
LEMMA NewestLemma ==
    ASSUME NEW R, R \subseteq DOMAIN runs, IsFiniteSet(R), R # {},
           \A r \in DOMAIN runs : runs[r].made \in Nat
    PROVE  Newest(R) \in R
<1> DEFINE Tops(S) == \E r \in S : \A s \in S : runs[s].made <= runs[r].made
           T == {n \in Nat : \E S \in SUBSET R : S # {} /\ Cardinality(S) = n /\ ~Tops(S)}
<1>1. ASSUME T # {}
      PROVE  FALSE
  <2>1. T \subseteq Nat
    OBVIOUS
  <2>2. PICK n \in T : \A m \in T : n <= m
    BY <1>1, <2>1, LeastNumber
  <2>3. PICK S \in SUBSET R : S # {} /\ Cardinality(S) = n /\ ~Tops(S)
    BY <2>2
  <2>4. PICK x : x \in S
    BY <2>3
  <2> DEFINE Q == S \ {x}
  <2>5. IsFiniteSet(S) /\ Cardinality(S) \in Nat
    BY FS_Subset, FS_CardinalityType
  <2>6. /\ IsFiniteSet(Q) /\ Cardinality(Q) \in Nat
        /\ Cardinality(Q) = n - 1
    BY <2>3, <2>4, <2>5, FS_RemoveElement, FS_CardinalityType
  <2>7. Q \in SUBSET R
    OBVIOUS
  <2>8. Cardinality(Q) \notin T
    <3> HIDE DEF T, Q
    <3>1. SUFFICES ASSUME Cardinality(Q) \in T
                   PROVE  FALSE
      OBVIOUS
    <3>2. n <= Cardinality(Q)
      BY <2>2, <3>1
    <3>3. n \in Nat
      BY <2>1, <2>2
    <3>4. QED
      BY <2>6, <3>2, <3>3
  <2>9. CASE Q = {}
    <3>1. \A s \in S : s = x
      BY <2>9
    <3>2. runs[x].made <= runs[x].made
      BY <2>4
    <3>3. QED
      BY <2>3, <2>4, <3>1, <3>2
  <2>10. CASE Q # {}
    <3>1. Tops(Q)
      BY <2>6, <2>7, <2>8, <2>10
    <3>2. PICK r \in Q : \A s \in Q : runs[s].made <= runs[r].made
      BY <3>1
    <3>3. r \in S /\ x \in S /\ r \in DOMAIN runs /\ x \in DOMAIN runs
      BY <2>4
    <3>4. \A s \in S : s = x \/ s \in Q
      OBVIOUS
    <3>5. \A s \in S : runs[s].made \in Nat
      OBVIOUS
    <3>6. CASE runs[x].made <= runs[r].made
      BY <2>3, <3>2, <3>3, <3>4, <3>6
    <3>7. CASE runs[r].made <= runs[x].made
      BY <2>3, <3>2, <3>3, <3>4, <3>5, <3>7
    <3>8. QED
      BY <3>3, <3>5, <3>6, <3>7
  <2>11. QED
    BY <2>9, <2>10
<1>2. Cardinality(R) \in Nat
  BY FS_CardinalityType
<1>3. Tops(R)
  BY <1>1, <1>2
<1>4. QED
  BY <1>3 DEF Newest

LEMMA RunsLemma ==
    ASSUME TypeInv
    PROVE  /\ IsFiniteSet(DOMAIN runs) /\ DOMAIN runs \subseteq Nat \ {0}
           /\ \A r \in DOMAIN runs : /\ runs[r] \in Run /\ runs[r].mode \in Mode
                                     /\ runs[r].made \in Nat
           /\ IsFiniteSet(Active) /\ Active \subseteq DOMAIN runs
           /\ Active # {} => Newest(Active) \in Active
<1>1. /\ IsFiniteSet(DOMAIN runs) /\ DOMAIN runs \subseteq Nat \ {0}
      /\ \A r \in DOMAIN runs : runs[r] \in Run
  BY DEF TypeInv, Numbered
<1>2. \A r \in DOMAIN runs : runs[r].mode \in Mode /\ runs[r].made \in Nat
  BY <1>1 DEF Run
<1>3. Active \subseteq DOMAIN runs
  BY DEF Active
<1>4. IsFiniteSet(Active)
  BY <1>1, <1>3, FS_Subset
<1>5. Active # {} => Newest(Active) \in Active
  BY <1>2, <1>3, <1>4, NewestLemma
<1>6. QED
  BY <1>1, <1>2, <1>3, <1>4, <1>5

LEMMA NewRunLemma ==
    ASSUME TypeInv, NEW m \in Mode, NEW s \in {"active", "closed", "archived"}
    PROVE  /\ NewRun(m, s) \in Run
           /\ NewRun(m, s).mode = m /\ NewRun(m, s).status = s
<1> DEFINE made == IF DOMAIN runs = {} THEN 1 ELSE runs[Newest(DOMAIN runs)].made + 1
<1>1. DOMAIN runs # {} => Newest(DOMAIN runs) \in DOMAIN runs
  BY RunsLemma, NewestLemma
<1>2. made \in Nat
  BY <1>1, RunsLemma
<1>3. NewRun(m, s) = [mode |-> m, status |-> s, made |-> made]
  BY DEF NewRun
<1> HIDE DEF made
<1>4. QED
  BY <1>2, <1>3 DEF Run

LEMMA NextIdLemma ==
    ASSUME NEW f, IsFiniteSet(DOMAIN f)
    PROVE  NextId(f) \in Nat \ {0}
<1>1. Cardinality(DOMAIN f) \in Nat
  BY FS_CardinalityType
<1>2. QED
  BY <1>1 DEF NextId

\* Row i has been put into table f.
Added(f, g, i, row) ==
    /\ DOMAIN g = DOMAIN f \cup {i} /\ g[i] = row
    /\ \A j \in DOMAIN f : j # i => g[j] = f[j]

LEMMA WithLemma ==
    ASSUME NEW f, NEW R, Numbered(f, R), NEW i \in Nat \ {0}, NEW row \in R,
           NEW g, With(f, i, row) = g
    PROVE  Numbered(g, R) /\ Added(f, g, i, row)
<1>1. g = [j \in DOMAIN f \cup {i} |-> IF j = i THEN row ELSE f[j]]
  BY DEF With
<1>2. DOMAIN g = DOMAIN f \cup {i}
  BY <1>1
<1>3. IsFiniteSet(DOMAIN g)
  BY <1>2, FS_AddElement DEF Numbered
<1>4. QED
  BY <1>1, <1>2, <1>3 DEF Numbered, Added

LEMMA WithoutLemma ==
    ASSUME NEW f, NEW R, Numbered(f, R), NEW I
    PROVE  Numbered(Without(f, I), R)
<1> DEFINE g == Without(f, I)
<1>1. g = [j \in DOMAIN f \ I |-> f[j]]
  BY DEF Without
<1>2. DOMAIN g = DOMAIN f \ I
  BY <1>1
<1>3. IsFiniteSet(DOMAIN g)
  BY <1>2, FS_Subset DEF Numbered
<1>4. Numbered(g, R)
  BY <1>1, <1>2, <1>3 DEF Numbered
<1>5. QED
  BY <1>4

\* Rows of table f have been given other statuses, and nothing else.
Restated(f, g) ==
    /\ DOMAIN g = DOMAIN f
    /\ \A i \in DOMAIN f : g[i] = f[i] \/ \E s \in Status : g[i] = [f[i] EXCEPT !.status = s]

LEMMA MarkedLemma ==
    ASSUME NEW f, NEW R, Numbered(f, R), NEW i, NEW s \in Status,
           \A r \in R : [r EXCEPT !.status = s] \in R,
           NEW g, Marked(f, i, s) = g
    PROVE  Numbered(g, R) /\ Restated(f, g)
<1>1. CASE i \notin DOMAIN f
  BY <1>1 DEF Marked, Restated
<1>2. CASE i \in DOMAIN f
  <2> DEFINE row == [f[i] EXCEPT !.status = s]
  <2>1. g = [f EXCEPT ![i] = row]
    BY <1>2 DEF Marked
  <2>2. row \in R
    BY <1>2 DEF Numbered
  <2>3. row = [f[i] EXCEPT !.status = s]
    OBVIOUS
  <2> HIDE DEF row
  <2>4. DOMAIN g = DOMAIN f /\ g[i] = row /\ \A j \in DOMAIN f : j # i => g[j] = f[j]
    BY <1>2, <2>1
  <2>5. g \in [DOMAIN g -> R]
    BY <1>2, <2>1, <2>2, <2>4 DEF Numbered
  <2>6. Numbered(g, R)
    BY <2>4, <2>5 DEF Numbered
  <2>7. \A j \in DOMAIN f : g[j] = f[j] \/ g[j] = [f[j] EXCEPT !.status = s]
    BY <2>3, <2>4
  <2>8. QED
    BY <2>4, <2>6, <2>7 DEF Restated
<1>3. QED
  BY <1>1, <1>2

LEMMA RestatedRows ==
    ASSUME NEW s \in Status
    PROVE  /\ \A r \in SignalRow : LET q == [r EXCEPT !.status = s] IN
                 q \in SignalRow /\ q.run = r.run /\ q.demo = r.demo
           /\ \A r \in FindingRow : LET q == [r EXCEPT !.status = s] IN
                 q \in FindingRow /\ q.run = r.run /\ q.demo = r.demo /\ q.signals = r.signals
           /\ \A r \in AuditRow : LET q == [r EXCEPT !.status = s] IN
                 q \in AuditRow /\ q.run = r.run /\ q.demo = r.demo
                 /\ q.finding = r.finding /\ q.decision = r.decision
           /\ \A r \in OpportunityRow : LET q == [r EXCEPT !.status = s] IN
                 q \in OpportunityRow /\ q.run = r.run /\ q.demo = r.demo
                 /\ q.audit = r.audit /\ q.finding = r.finding
           /\ \A r \in BriefRow : [r EXCEPT !.status = s] \in BriefRow
BY DEF SignalRow, FindingRow, AuditRow, OpportunityRow, BriefRow

LEMMA RowsOf ==
    /\ RowOf("signals") = SignalRow /\ RowOf("findings") = FindingRow
    /\ RowOf("audits") = AuditRow /\ RowOf("opportunities") = OpportunityRow
    /\ RowOf("briefs") = BriefRow
    /\ Table = {"signals", "findings", "audits", "opportunities", "briefs"}
BY DEF RowOf, Table

LEMMA RestatedRow ==
    ASSUME NEW t \in Table, NEW s \in Status, NEW r \in RowOf(t)
    PROVE  [r EXCEPT !.status = s] \in RowOf(t)
BY RestatedRows, RowsOf

LEMMA RunRestated ==
    ASSUME NEW s \in {"active", "closed", "archived"}, NEW r \in Run
    PROVE  LET q == [r EXCEPT !.status = s] IN
           q \in Run /\ q.mode = r.mode /\ q.status = s
BY DEF Run
---------------------------------------------------------------------------
(* What no commit changes while nothing is deleted.                        *)

SameSignal(r, q)  == q.run = r.run /\ q.demo = r.demo
SameFinding(r, q) == q.run = r.run /\ q.demo = r.demo /\ q.signals = r.signals
SameAudit(r, q)   == q.run = r.run /\ q.demo = r.demo /\ q.finding = r.finding /\ q.decision = r.decision
SameOpportunity(r, q) == q.run = r.run /\ q.demo = r.demo /\ q.audit = r.audit /\ q.finding = r.finding

Keeps ==
    /\ \A r \in DOMAIN runs : r \in DOMAIN runs' /\ runs'[r].mode = runs[r].mode
    /\ \A i \in DOMAIN rows["signals"] :
          i \in DOMAIN rows'["signals"] /\ SameSignal(rows["signals"][i], rows'["signals"][i])
    /\ \A a \in DOMAIN rows["audits"] :
          a \in DOMAIN rows'["audits"] /\ SameAudit(rows["audits"][a], rows'["audits"][a])

LEMMA FaithfulKept ==
    ASSUME Keeps, NEW row, Faithful(runs, row), NEW row1, row1.run = row.run, row1.demo = row.demo
    PROVE  Faithful(runs', row1)
BY DEF Keeps, Faithful

LEMMA FindingKept ==
    ASSUME Keeps, NEW row, FindingSound(runs, rows["signals"], row), NEW row1, SameFinding(row, row1)
    PROVE  FindingSound(runs', rows'["signals"], row1)
<1>1. Faithful(runs', row1)
  BY FaithfulKept DEF FindingSound, SameFinding
<1>2. QED
  BY <1>1 DEF FindingSound, SameFinding, Keeps, SameSignal

LEMMA PromisedKept ==
    ASSUME Keeps, NEW row, Promised(rows["audits"], row), NEW row1, row1.run = row.run,
           row1.demo = row.demo, row1.audit = row.audit, row1.finding = row.finding
    PROVE  Promised(rows'["audits"], row1)
BY DEF Keeps, SameAudit, Promised

LEMMA SoundKept ==
    ASSUME Keeps, NEW s, Sound(runs, rows, s)
    PROVE  Sound(runs', rows', s)
<1>1. s.do \in {"upsert", "addFinding", "rewrite"} => FindingSound(runs', rows'["signals"], s.row)
  <2>1. SUFFICES ASSUME s.do \in {"upsert", "addFinding", "rewrite"}
                 PROVE  FindingSound(runs', rows'["signals"], s.row)
    OBVIOUS
  <2>2. PICK row : row = s.row
    OBVIOUS
  <2>3. FindingSound(runs, rows["signals"], row)
    BY <2>1, <2>2 DEF Sound
  <2>4. SameFinding(row, row)
    BY DEF SameFinding
  <2>5. QED
    BY <2>2, <2>3, <2>4, FindingKept
<1>2. s.do = "record" => Faithful(runs', s.row)
  BY FaithfulKept DEF Sound
<1>3. s.do = "promote" => \A a \in s.left : a \in DOMAIN rows'["audits"] /\ Decided(rows'["audits"][a])
  BY DEF Sound, Keeps, SameAudit, Decided
<1>4. s.do = "insert" => Promised(rows'["audits"], s.row)
  BY PromisedKept DEF Sound
<1>5. QED
  BY <1>1, <1>2, <1>3, <1>4 DEF Sound

\* The tables stay sound if each new or rewritten row is.
LEMMA TablesLemma ==
    ASSUME TablesSound, Keeps,
           \A i \in DOMAIN rows'["signals"] :
               i \in DOMAIN rows["signals"] \/ Faithful(runs', rows'["signals"][i]),
           \A f \in DOMAIN rows'["findings"] :
               \/ /\ f \in DOMAIN rows["findings"]
                  /\ SameFinding(rows["findings"][f], rows'["findings"][f])
               \/ FindingSound(runs', rows'["signals"], rows'["findings"][f]),
           \A a \in DOMAIN rows'["audits"] :
               a \in DOMAIN rows["audits"] \/ Faithful(runs', rows'["audits"][a]),
           \A o \in DOMAIN rows'["opportunities"] :
               \/ /\ o \in DOMAIN rows["opportunities"]
                  /\ SameOpportunity(rows["opportunities"][o], rows'["opportunities"][o])
               \/ /\ Faithful(runs', rows'["opportunities"][o])
                  /\ Promised(rows'["audits"], rows'["opportunities"][o])
    PROVE  TablesSound'
<1>1. ASSUME NEW i \in DOMAIN rows'["signals"]
      PROVE  Faithful(runs', rows'["signals"][i])
  <2>1. CASE i \in DOMAIN rows["signals"]
    <3>1. PICK r : r = rows["signals"][i]
      OBVIOUS
    <3>2. PICK q : q = rows'["signals"][i]
      OBVIOUS
    <3>3. Faithful(runs, r) /\ q.run = r.run /\ q.demo = r.demo
      BY <2>1, <3>1, <3>2 DEF TablesSound, Keeps, SameSignal
    <3>4. QED
      BY <3>2, <3>3, FaithfulKept
  <2>2. QED
    BY <2>1
<1>2. ASSUME NEW f \in DOMAIN rows'["findings"]
      PROVE  FindingSound(runs', rows'["signals"], rows'["findings"][f])
  <2>1. CASE /\ f \in DOMAIN rows["findings"]
             /\ SameFinding(rows["findings"][f], rows'["findings"][f])
    <3>1. PICK r : r = rows["findings"][f]
      OBVIOUS
    <3>2. PICK q : q = rows'["findings"][f]
      OBVIOUS
    <3>3. FindingSound(runs, rows["signals"], r) /\ SameFinding(r, q)
      BY <2>1, <3>1, <3>2 DEF TablesSound
    <3>4. QED
      BY <3>2, <3>3, FindingKept
  <2>2. QED
    BY <2>1
<1>3. ASSUME NEW a \in DOMAIN rows'["audits"]
      PROVE  Faithful(runs', rows'["audits"][a])
  <2>1. CASE a \in DOMAIN rows["audits"]
    <3>1. PICK r : r = rows["audits"][a]
      OBVIOUS
    <3>2. PICK q : q = rows'["audits"][a]
      OBVIOUS
    <3>3. Faithful(runs, r) /\ q.run = r.run /\ q.demo = r.demo
      BY <2>1, <3>1, <3>2 DEF TablesSound, Keeps, SameAudit
    <3>4. QED
      BY <3>2, <3>3, FaithfulKept
  <2>2. QED
    BY <2>1
<1>4. ASSUME NEW o \in DOMAIN rows'["opportunities"]
      PROVE  /\ Faithful(runs', rows'["opportunities"][o])
             /\ Promised(rows'["audits"], rows'["opportunities"][o])
  <2>1. CASE /\ o \in DOMAIN rows["opportunities"]
             /\ SameOpportunity(rows["opportunities"][o], rows'["opportunities"][o])
    <3>1. PICK r : r = rows["opportunities"][o]
      OBVIOUS
    <3>2. PICK q : q = rows'["opportunities"][o]
      OBVIOUS
    <3>3. /\ Faithful(runs, r) /\ Promised(rows["audits"], r)
          /\ q.run = r.run /\ q.demo = r.demo /\ q.audit = r.audit /\ q.finding = r.finding
      BY <2>1, <3>1, <3>2 DEF TablesSound, SameOpportunity
    <3>4. QED
      BY <3>2, <3>3, FaithfulKept, PromisedKept
  <2>2. QED
    BY <2>1
<1>5. 1 \in DOMAIN runs'
  BY DEF TablesSound, Keeps
<1>6. QED
  BY <1>1, <1>2, <1>3, <1>4, <1>5 DEF TablesSound
---------------------------------------------------------------------------
(* What a commit of one session has to show.                               *)

LEMMA PositionLemma ==
    ASSUME NEW q1, NEW p, NEW q, Follows(q1, p, q), NEW i \in 1 .. Len(q1)
    PROVE  \/ i \in 1 .. Len(p) /\ q1[i] = p[i]
           \/ \E k \in 2 .. Len(q) : i = Len(p) + (k - 1) /\ q1[i] = q[k]
<1>1. Len(p) \in Nat /\ Len(q) \in Nat /\ Len(q1) \in Nat
  BY LenProperties DEF Follows
<1>2. CASE i \in 1 .. Len(p)
  BY <1>2 DEF Follows
<1>3. CASE i \notin 1 .. Len(p)
  <2> DEFINE k == (i - Len(p)) + 1
  <2>1. i \in Len(p) + 1 .. Len(q1)
    BY <1>1, <1>3
  <2>2. k \in 2 .. Len(q) /\ q1[i] = q[k]
    BY <2>1 DEF Follows
  <2>3. i = Len(p) + (k - 1)
    BY <1>1
  <2> HIDE DEF k
  <2>4. QED
    BY <2>2, <2>3
<1>4. QED
  BY <1>2, <1>3

\* A program that may be put where element h was.
Apt(p, h) ==
    /\ \A i \in 1 .. Len(p) : p[i].do \in {"insertRun", "store"} => i = 1
    /\ \A i \in 1 .. Len(p) : p[i].do # "select"
    /\ \A i, j \in 1 .. Len(p) : i # j => Promises(p[i]) \cap Promises(p[j]) = {}
    /\ h.do = "select" \/ \A i \in 1 .. Len(p) : Promises(p[i]) \subseteq Promises(h)

LEMMA OrderlyMove ==
    ASSUME NEW q1, NEW p, NEW q, Follows(q1, p, q), Orderly(q), Apt(p, q[1])
    PROVE  Orderly(q1)
<1>0. ASSUME NEW i \in 1 .. Len(q1)
      PROVE  \/ i \in 1 .. Len(p) /\ q1[i] = p[i]
             \/ \E k \in 2 .. Len(q) : i = Len(p) + (k - 1) /\ q1[i] = q[k]
  BY PositionLemma
<1>1. Len(p) \in Nat /\ Len(q) \in Nat /\ Len(q1) \in Nat /\ Len(q) >= 1
      /\ Len(q1) = Len(p) + (Len(q) - 1)
  BY LenProperties DEF Follows
<1>2. ASSUME NEW i \in 1 .. Len(q1), q1[i].do \in {"insertRun", "store"}
      PROVE  i = 1
  <2>1. CASE i \in 1 .. Len(p) /\ q1[i] = p[i]
    BY <1>2, <2>1 DEF Apt
  <2>2. CASE \E k \in 2 .. Len(q) : i = Len(p) + (k - 1) /\ q1[i] = q[k]
    <3>1. PICK k \in 2 .. Len(q) : q1[i] = q[k]
      BY <2>2
    <3>2. k \in 1 .. Len(q) /\ k # 1
      BY <1>1
    <3>3. QED
      BY <1>2, <3>1, <3>2 DEF Orderly
  <2>3. QED
    BY <2>1, <2>2, PositionLemma
<1>3. ASSUME NEW i \in 1 .. Len(q1), q1[i].do = "select"
      PROVE  i = Len(q1)
  <2>1. CASE i \in 1 .. Len(p) /\ q1[i] = p[i]
    BY <1>3, <2>1 DEF Apt
  <2>2. CASE \E k \in 2 .. Len(q) : i = Len(p) + (k - 1) /\ q1[i] = q[k]
    <3>1. PICK k \in 2 .. Len(q) : i = Len(p) + (k - 1) /\ q1[i] = q[k]
      BY <2>2
    <3>2. k \in 1 .. Len(q)
      BY <1>1
    <3>3. k = Len(q)
      BY <1>3, <3>1, <3>2 DEF Orderly
    <3>4. QED
      BY <1>1, <3>1, <3>3
  <2>3. QED
    BY <2>1, <2>2, PositionLemma
<1>4. ASSUME NEW i \in 1 .. Len(p), NEW k \in 2 .. Len(q)
      PROVE  Promises(p[i]) \cap Promises(q[k]) = {}
  <2>1. k \in 1 .. Len(q) /\ 1 \in 1 .. Len(q) /\ k # 1
    BY <1>1
  <2>2. q[1].do # "select"
    <3>1. SUFFICES ASSUME q[1].do = "select"
                   PROVE  FALSE
      OBVIOUS
    <3>2. 1 = Len(q)
      BY <2>1, <3>1 DEF Orderly
    <3>3. k \in 2 .. 1
      BY <3>2
    <3>4. QED
      BY <3>3
  <2>3. Promises(p[i]) \subseteq Promises(q[1])
    BY <2>2 DEF Apt
  <2>4. Promises(q[1]) \cap Promises(q[k]) = {}
    BY <2>1 DEF Orderly
  <2>5. QED
    BY <2>3, <2>4
<1>5. ASSUME NEW i \in 1 .. Len(q1), NEW j \in 1 .. Len(q1), i # j
      PROVE  Promises(q1[i]) \cap Promises(q1[j]) = {}
  <2>1. CASE i \in 1 .. Len(p) /\ q1[i] = p[i] /\ j \in 1 .. Len(p) /\ q1[j] = p[j]
    BY <1>5, <2>1 DEF Apt
  <2>2. CASE i \in 1 .. Len(p) /\ q1[i] = p[i] /\ \E k \in 2 .. Len(q) : q1[j] = q[k]
    BY <1>4, <2>2
  <2>3. CASE j \in 1 .. Len(p) /\ q1[j] = p[j] /\ \E k \in 2 .. Len(q) : q1[i] = q[k]
    BY <1>4, <2>3
  <2>4. CASE /\ \E k \in 2 .. Len(q) : i = Len(p) + (k - 1) /\ q1[i] = q[k]
             /\ \E k \in 2 .. Len(q) : j = Len(p) + (k - 1) /\ q1[j] = q[k]
    <3>1. PICK k \in 2 .. Len(q) : i = Len(p) + (k - 1) /\ q1[i] = q[k]
      BY <2>4
    <3>2. PICK m \in 2 .. Len(q) : j = Len(p) + (m - 1) /\ q1[j] = q[m]
      BY <2>4
    <3>3. k \in 1 .. Len(q) /\ m \in 1 .. Len(q) /\ k # m
      BY <1>1, <1>5, <3>1, <3>2
    <3>4. QED
      BY <3>1, <3>2, <3>3 DEF Orderly
  <2>5. \/ i \in 1 .. Len(p) /\ q1[i] = p[i]
        \/ \E k \in 2 .. Len(q) : i = Len(p) + (k - 1) /\ q1[i] = q[k]
    BY <1>0
  <2>6. \/ j \in 1 .. Len(p) /\ q1[j] = p[j]
        \/ \E k \in 2 .. Len(q) : j = Len(p) + (k - 1) /\ q1[j] = q[k]
    BY <1>0
  <2>7. QED
    BY <2>1, <2>2, <2>3, <2>4, <2>5, <2>6
<1>6. QED
  BY <1>2, <1>3, <1>5 DEF Orderly

LEMMA ProgramsLemma ==
    ASSUME TypeInv, ProgramsSound, ProgramsOrderly, Keeps,
           NEW u \in Session, NEW p, Moves(u, p), Apt(p, todo[u][1]),
           \A i \in 1 .. Len(p) : Sound(runs', rows', p[i])
    PROVE  ProgramsSound' /\ ProgramsOrderly'
<1>1. ASSUME NEW v \in Session, NEW i \in 1 .. Len(todo[v])
      PROVE  Sound(runs', rows', todo[v][i])
  <2>1. PICK s : s = todo[v][i]
    OBVIOUS
  <2>2. Sound(runs, rows, s)
    BY <2>1 DEF ProgramsSound
  <2>3. QED
    BY <2>1, <2>2, SoundKept
<1>2. ASSUME NEW v \in Session, NEW i \in 1 .. Len(todo'[v])
      PROVE  Sound(runs', rows', todo'[v][i])
  <2>1. CASE v # u
    BY <1>1, <1>2, <2>1 DEF Moves
  <2>2. CASE v = u
    <3>1. Follows(todo'[u], p, todo[u])
      BY DEF Moves
    <3>2. \/ i \in 1 .. Len(p) /\ todo'[u][i] = p[i]
          \/ \E k \in 2 .. Len(todo[u]) : i = Len(p) + (k - 1) /\ todo'[u][i] = todo[u][k]
      BY <1>2, <2>2, <3>1, PositionLemma
    <3>3. CASE i \in 1 .. Len(p) /\ todo'[u][i] = p[i]
      BY <2>2, <3>3
    <3>4. CASE \E k \in 2 .. Len(todo[u]) : todo'[u][i] = todo[u][k]
      <4>1. PICK k \in 2 .. Len(todo[u]) : todo'[u][i] = todo[u][k]
        BY <3>4
      <4>2. k \in 1 .. Len(todo[u])
        BY LenProperties DEF TypeInv
      <4>3. QED
        BY <1>1, <2>2, <4>1, <4>2
    <3>5. QED
      BY <3>2, <3>3, <3>4
  <2>3. QED
    BY <2>1, <2>2
<1>3. Orderly(todo'[u])
  BY OrderlyMove DEF Moves, ProgramsOrderly
<1>4. \A v \in Session : Orderly(todo'[v])
  BY <1>3 DEF Moves, ProgramsOrderly
<1>5. ProgramsSound'
  BY <1>2 DEF ProgramsSound
<1>6. ProgramsOrderly'
  BY <1>4 DEF ProgramsOrderly
<1>7. QED
  BY <1>5, <1>6

\* What is at the head of a program after a move.
LEMMA NewHead ==
    ASSUME TypeInv, ProgramsOrderly, NEW u \in Session, NEW p, Moves(u, p), todo'[u] # <<>>
    PROVE  \/ Len(p) >= 1 /\ todo'[u][1] = p[1]
           \/ /\ Len(p) = 0
              /\ todo'[u][1].do \notin {"insertRun", "store"}
<1>1. Follows(todo'[u], p, todo[u])
  BY DEF Moves
<1>2. /\ Len(p) \in Nat /\ Len(todo[u]) \in Nat
      /\ todo'[u] \in Seq(Element) /\ Len(todo'[u]) \in Nat \ {0}
  BY <1>1, LenProperties, EmptySeq DEF Follows
<1>3. 1 \in 1 .. Len(todo'[u])
  BY <1>2
<1>4. CASE 1 \in 1 .. Len(p) /\ todo'[u][1] = p[1]
  BY <1>2, <1>4
<1>5. CASE \E k \in 2 .. Len(todo[u]) : 1 = Len(p) + (k - 1) /\ todo'[u][1] = todo[u][k]
  <2>1. PICK k \in 2 .. Len(todo[u]) : 1 = Len(p) + (k - 1) /\ todo'[u][1] = todo[u][k]
    BY <1>5
  <2>2. k \in 1 .. Len(todo[u]) /\ k # 1 /\ Len(p) = 0
    BY <1>2, <2>1
  <2>3. todo[u][k].do \notin {"insertRun", "store"}
    BY <2>2 DEF ProgramsOrderly, Orderly
  <2>4. QED
    BY <2>1, <2>2, <2>3
<1>6. QED
  BY <1>1, <1>3, <1>4, <1>5, PositionLemma

LEMMA SeenLemma ==
    ASSUME TypeInv, SeenSound, ProgramsOrderly, Keeps,
           NEW u \in Session, NEW p, Moves(u, p),
           \A v \in Session : v # u => seen'[v] = seen[v],
           IF seen'[u].id = 0
           THEN Len(p) >= 1 /\ p[1].do \in {"resolve", "create", "insertRun"}
           ELSE seen'[u].id \in DOMAIN runs' /\ runs'[seen'[u].id].mode = seen'[u].mode,
           Len(p) >= 1 /\ p[1].do = "store" => (p[1].demo <=> seen'[u].mode = "demo")
    PROVE  SeenSound'
<1>1. ASSUME NEW v \in Session, v # u
      PROVE  /\ IF seen'[v].id = 0
                THEN todo'[v] # <<>> => todo'[v][1].do \in {"resolve", "create", "insertRun"}
                ELSE seen'[v].id \in DOMAIN runs' /\ runs'[seen'[v].id].mode = seen'[v].mode
             /\ todo'[v] # <<>> /\ todo'[v][1].do = "store" =>
                    (todo'[v][1].demo <=> seen'[v].mode = "demo")
  <2>1. seen'[v] = seen[v] /\ todo'[v] = todo[v]
    BY <1>1 DEF Moves
  <2>2. QED
    BY <2>1 DEF SeenSound, Keeps
<1>2. /\ IF seen'[u].id = 0
         THEN todo'[u] # <<>> => todo'[u][1].do \in {"resolve", "create", "insertRun"}
         ELSE seen'[u].id \in DOMAIN runs' /\ runs'[seen'[u].id].mode = seen'[u].mode
      /\ todo'[u] # <<>> /\ todo'[u][1].do = "store" =>
             (todo'[u][1].demo <=> seen'[u].mode = "demo")
  <2>1. todo'[u] # <<>> => \/ Len(p) >= 1 /\ todo'[u][1] = p[1]
                           \/ Len(p) = 0 /\ todo'[u][1].do \notin {"insertRun", "store"}
    BY NewHead
  <2>2. Len(p) = 0 => ~(Len(p) >= 1)
    OBVIOUS
  <2>3. QED
    BY <2>1, <2>2
<1>3. QED
  BY <1>1, <1>2 DEF SeenSound

LEMMA SessionCount ==
    ASSUME NEW S, S \subseteq Session
    PROVE  /\ IsFiniteSet(S) /\ Cardinality(S) \in Nat
           /\ Cardinality(Session) \in Nat
           /\ Cardinality(S) <= Cardinality(Session)
BY StudySessions, FS_Subset, FS_CardinalityType

LEMMA StartsLemma ==
    ASSUME TypeInv, StartsBounded, ProgramsOrderly,
           NEW u \in Session, NEW p, Moves(u, p), Active' \subseteq Active,
           Len(p) >= 1 => p[1].do # "insertRun"
    PROVE  StartsBounded'
<1>1. Starting' \subseteq Starting
  <2>1. ASSUME NEW v \in Session, todo'[v] # <<>>, todo'[v][1].do = "insertRun"
        PROVE  todo[v] # <<>> /\ todo[v][1].do = "insertRun"
    <3>1. CASE v = u
      BY <2>1, <3>1, NewHead
    <3>2. CASE v # u
      BY <2>1, <3>2 DEF Moves
    <3>3. QED
      BY <3>1, <3>2
  <2>2. QED
    BY <2>1 DEF Starting
<1>2. Starting \subseteq Session
  BY DEF Starting
<1>3. /\ IsFiniteSet(Starting) /\ Cardinality(Starting) \in Nat
      /\ Cardinality(Starting') \in Nat /\ Cardinality(Starting') <= Cardinality(Starting)
      /\ Cardinality(Session) \in Nat
  BY <1>1, <1>2, SessionCount, FS_Subset, FS_CardinalityType
<1>4. /\ Cardinality(Active) \in Nat /\ Cardinality(Active') \in Nat
      /\ Cardinality(Active') <= Cardinality(Active)
  BY RunsLemma, FS_Subset, FS_CardinalityType
<1>5. QED
  BY <1>3, <1>4 DEF StartsBounded

LEMMA PromotingLemma ==
    ASSUME TypeInv, NEW u \in Session, NEW p, Moves(u, p), NEW a,
           \A i \in 1 .. Len(p) : a \in Promises(p[i]) => a \in Promises(todo[u][1])
    PROVE  Promoting(a)' \subseteq Promoting(a)
<1>1. ASSUME NEW v \in Session, NEW i \in 1 .. Len(todo'[v]), a \in Promises(todo'[v][i])
      PROVE  \E k \in 1 .. Len(todo[v]) : a \in Promises(todo[v][k])
  <2>1. CASE v # u
    BY <1>1, <2>1 DEF Moves
  <2>2. CASE v = u
    <3>1. Follows(todo'[u], p, todo[u])
      BY DEF Moves
    <3>2. Len(todo[u]) \in Nat /\ Len(todo[u]) >= 1
      BY <3>1, LenProperties DEF Follows
    <3>3. \/ i \in 1 .. Len(p) /\ todo'[u][i] = p[i]
          \/ \E k \in 2 .. Len(todo[u]) : i = Len(p) + (k - 1) /\ todo'[u][i] = todo[u][k]
      BY <1>1, <2>2, <3>1, PositionLemma
    <3>4. CASE i \in 1 .. Len(p) /\ todo'[u][i] = p[i]
      <4>1. 1 \in 1 .. Len(todo[u])
        BY <3>2
      <4>2. QED
        BY <1>1, <2>2, <3>4, <4>1
    <3>5. CASE \E k \in 2 .. Len(todo[u]) : todo'[u][i] = todo[u][k]
      <4>1. PICK k \in 2 .. Len(todo[u]) : todo'[u][i] = todo[u][k]
        BY <3>5
      <4>2. k \in 1 .. Len(todo[u])
        BY <3>2
      <4>3. QED
        BY <1>1, <2>2, <4>1, <4>2
    <3>6. QED
      BY <3>3, <3>4, <3>5
  <2>3. QED
    BY <2>1, <2>2
<1>2. \A s : Promises(s)' = Promises(s)
  BY DEF Promises
<1>3. QED
  BY <1>1, <1>2 DEF Promoting

LEMMA MadeFinite ==
    ASSUME TypeInv, NEW a
    PROVE  IsFiniteSet(Made(a)) /\ Cardinality(Made(a)) \in Nat
<1>1. IsFiniteSet(DOMAIN rows["opportunities"])
  BY RowsOf DEF TypeInv, Numbered
<1>2. Made(a) \subseteq DOMAIN rows["opportunities"]
  BY DEF Made
<1>3. QED
  BY <1>1, <1>2, FS_Subset, FS_CardinalityType

LEMMA PromotionsLemma ==
    ASSUME TypeInv, PromotionsBounded, NEW u \in Session, NEW p, Moves(u, p),
           \A i \in 1 .. Len(p) : Promises(p[i]) \subseteq Promises(todo[u][1]),
           \A a : Made(a)' \subseteq Made(a)
    PROVE  PromotionsBounded'
<1>1. SUFFICES ASSUME NEW a \in Nat
               PROVE  Cardinality(Made(a)') + Cardinality(Promoting(a)') <= Cardinality(Session)
  BY DEF PromotionsBounded
<1>2. Cardinality(Made(a)) + Cardinality(Promoting(a)) <= Cardinality(Session)
  BY DEF PromotionsBounded
<1>3. Promoting(a)' \subseteq Promoting(a)
  BY PromotingLemma
<1>4. Promoting(a) \subseteq Session
  BY DEF Promoting
<1>5. /\ Cardinality(Promoting(a)) \in Nat /\ Cardinality(Promoting(a)') \in Nat
      /\ Cardinality(Promoting(a)') <= Cardinality(Promoting(a))
      /\ Cardinality(Session) \in Nat
  BY <1>3, <1>4, SessionCount, FS_Subset, FS_CardinalityType
<1>6. /\ Cardinality(Made(a)) \in Nat /\ Cardinality(Made(a)') \in Nat
      /\ Cardinality(Made(a)') <= Cardinality(Made(a))
  BY MadeFinite, FS_Subset, FS_CardinalityType
<1>7. QED
  BY <1>2, <1>5, <1>6

LEMMA StepLemma ==
    ASSUME TypeInv, Evidence, NEW u \in Session, NEW p, Moves(u, p),
           Apt(p, todo[u][1]), todo[u][1].do # "select",
           Keeps, TablesSound',
           \A i \in 1 .. Len(p) : Sound(runs', rows', p[i]),
           Active' \subseteq Active, \A a : Made(a)' \subseteq Made(a),
           Len(p) >= 1 => p[1].do \notin {"insertRun", "store"},
           \A v \in Session : v # u => seen'[v] = seen[v],
           IF seen'[u].id = 0
           THEN Len(p) >= 1 /\ p[1].do \in {"resolve", "create", "insertRun"}
           ELSE seen'[u].id \in DOMAIN runs' /\ runs'[seen'[u].id].mode = seen'[u].mode
    PROVE  Evidence'
<1>1. ProgramsSound' /\ ProgramsOrderly'
  BY ProgramsLemma DEF Evidence
<1>2. SeenSound'
  BY SeenLemma DEF Evidence
<1>3. StartsBounded'
  BY StartsLemma DEF Evidence
<1>4. PromotionsBounded'
  <2>1. \A i \in 1 .. Len(p) : Promises(p[i]) \subseteq Promises(todo[u][1])
    BY DEF Apt
  <2>2. QED
    BY <2>1, PromotionsLemma DEF Evidence
<1>5. QED
  BY <1>1, <1>2, <1>3, <1>4 DEF Evidence

LEMMA SameTables ==
    ASSUME UNCHANGED <<runs, rows>>
    PROVE  /\ Keeps /\ TablesSound' = TablesSound
           /\ Active' = Active /\ \A a : Made(a)' = Made(a)
BY DEF Keeps, SameSignal, SameAudit, TablesSound, Active, Made, Faithful, FindingSound, Promised

\* A commit that only decides what is to be done.
LEMMA TalkLemma ==
    ASSUME Inv, NEW u \in Session, NEW p \in Seq(Element), todo[u] # <<>>, Then(u, p),
           UNCHANGED <<tables, seen, calls, erased>>,
           Apt(p, todo[u][1]), todo[u][1].do # "select",
           Evidence => \A i \in 1 .. Len(p) : Sound(runs, rows, p[i]),
           Len(p) >= 1 => p[1].do \notin {"insertRun", "store"},
           \/ todo[u][1].do \notin {"resolve", "create", "insertRun"}
           \/ Len(p) >= 1 /\ p[1].do = "create"
    PROVE  Inv'
<1>1. TypeInv /\ Moves(u, p)
  BY ThenLemma DEF Inv
<1>2. UNCHANGED <<mode, runs, rows, seen, calls, erased>>
  BY DEF tables
<1>3. TypeInv'
  BY <1>1, <1>2 DEF TypeInv, Moves
<1>4. ASSUME Evidence
      PROVE  Evidence'
  <2>1. Keeps /\ TablesSound' /\ Active' \subseteq Active /\ \A a : Made(a)' \subseteq Made(a)
    BY <1>2, <1>4, SameTables DEF Evidence
  <2>2. \A i \in 1 .. Len(p) : Sound(runs', rows', p[i])
    BY <1>2, <1>4
  <2>3. /\ seen' = seen
        /\ IF seen[u].id = 0
           THEN todo[u][1].do \in {"resolve", "create", "insertRun"}
           ELSE seen[u].id \in DOMAIN runs /\ runs[seen[u].id].mode = seen[u].mode
    BY <1>2, <1>4 DEF Evidence, SeenSound
  <2>4. IF seen'[u].id = 0
        THEN Len(p) >= 1 /\ p[1].do \in {"resolve", "create", "insertRun"}
        ELSE seen'[u].id \in DOMAIN runs' /\ runs'[seen'[u].id].mode = seen'[u].mode
    BY <1>2, <2>3
  <2>5. QED
    BY <1>1, <1>4, <2>1, <2>2, <2>3, <2>4, StepLemma
<1>5. QED
  BY <1>2, <1>3, <1>4 DEF Inv

\* Elements that promise and bring nothing.
Blank == {"resolve", "history", "create", "setMode", "close", "switch", "listDemo", "archive",
          "archiveDemoRuns", "restart", "retire", "delete", "pull", "candidates", "admit",
          "batch", "generate", "collect", "auditAll", "listAuditable", "audit", "chain",
          "markReady", "brief"}

LEMMA BlankApt ==
    ASSUME NEW p, NEW h, \A i \in 1 .. Len(p) : p[i].do \in Blank
    PROVE  /\ Apt(p, h)
           /\ \A rs, tb : \A i \in 1 .. Len(p) : Sound(rs, tb, p[i])
           /\ \A i \in 1 .. Len(p) : Promises(p[i]) = {} /\ p[i].do \notin {"insertRun", "store"}
<1>1. \A i \in 1 .. Len(p) : Promises(p[i]) = {}
  BY DEF Blank, Promises
<1>2. \A i \in 1 .. Len(p) : p[i].do \notin {"insertRun", "store", "select"}
  BY DEF Blank
<1>3. Apt(p, h)
  BY <1>1, <1>2 DEF Apt
<1>4. \A rs, tb : \A i \in 1 .. Len(p) : Sound(rs, tb, p[i])
  BY DEF Blank, Sound
<1>5. QED
  BY <1>1, <1>2, <1>3, <1>4

LEMMA BlankTalk ==
    ASSUME Inv, NEW u \in Session, NEW p \in Seq(Element), todo[u] # <<>>, Then(u, p),
           UNCHANGED <<tables, seen, calls, erased>>,
           \A i \in 1 .. Len(p) : p[i].do \in Blank,
           todo[u][1].do # "select",
           \/ todo[u][1].do \notin {"resolve", "create", "insertRun"}
           \/ Len(p) >= 1 /\ p[1].do = "create"
    PROVE  Inv'
<1>1. /\ Apt(p, todo[u][1])
      /\ \A i \in 1 .. Len(p) : Sound(runs, rows, p[i]) /\ p[i].do \notin {"insertRun", "store"}
  BY BlankApt
<1>2. Len(p) \in Nat
  BY LenProperties
<1>3. Len(p) >= 1 => p[1].do \notin {"insertRun", "store"}
  BY <1>1, <1>2
<1>4. QED
  BY <1>1, <1>3, TalkLemma

\* Programs are forgotten, by an exception or when the server ends.
LEMMA ForgetLemma ==
    ASSUME Inv, UNCHANGED <<tables, seen, calls, erased>>,
           todo' \in [Session -> Seq(Element)],
           \A v \in Session : todo'[v] = todo[v] \/ todo'[v] = <<>>
    PROVE  Inv'
<1>1. UNCHANGED <<mode, runs, rows, seen, calls, erased>>
  BY DEF tables
<1>2. TypeInv'
  BY <1>1 DEF TypeInv, Inv
<1>3. ASSUME Evidence
      PROVE  Evidence'
  <2>1. TablesSound' /\ Active' = Active /\ \A a : Made(a)' = Made(a)
    BY <1>1, <1>3, SameTables DEF Evidence
  <2>2. Len(<<>>) = 0
    OBVIOUS
  <2>3. \A v \in Session : \A i \in 1 .. Len(todo'[v]) : todo'[v] = todo[v]
    BY <2>2
  <2>4. ProgramsSound'
    BY <1>1, <1>3, <2>3 DEF Evidence, ProgramsSound
  <2>5. Orderly(<<>>)
    BY <2>2 DEF Orderly
  <2>6. \A v \in Session : Orderly(todo'[v])
    BY <1>3, <2>5 DEF Evidence, ProgramsOrderly
  <2>7. ProgramsOrderly'
    BY <2>6 DEF ProgramsOrderly
  <2>8. SeenSound'
    BY <1>1, <1>3 DEF Evidence, SeenSound
  <2>9. Starting' \subseteq Starting
    BY DEF Starting
  <2>10. \A s : Promises(s)' = Promises(s)
    BY DEF Promises
  <2>11. \A a : Promoting(a)' \subseteq Promoting(a)
    BY <2>3, <2>10 DEF Promoting
  <2>12. TypeInv
    BY DEF Inv
  <2>13. Starting \subseteq Session
    BY DEF Starting
  <2>14. Cardinality(Starting) \in Nat /\ IsFiniteSet(Starting)
    BY <2>13, SessionCount
  <2>15. Cardinality(Starting') \in Nat /\ Cardinality(Starting') <= Cardinality(Starting)
    BY <2>9, <2>14, FS_Subset, FS_CardinalityType
  <2>16. Cardinality(Active) \in Nat /\ Cardinality(Session) \in Nat
    BY <2>12, RunsLemma, FS_CardinalityType, StudySessions
  <2>17. StartsBounded'
    BY <1>3, <2>1, <2>14, <2>15, <2>16 DEF Evidence, StartsBounded
  <2>18. ASSUME NEW a \in Nat
         PROVE  Cardinality(Made(a)') + Cardinality(Promoting(a)') <= Cardinality(Session)
    <3>1. Promoting(a) \subseteq Session
      BY DEF Promoting
    <3>2. Cardinality(Promoting(a)) \in Nat /\ IsFiniteSet(Promoting(a))
      BY <3>1, SessionCount
    <3>3. /\ Cardinality(Promoting(a)') \in Nat
          /\ Cardinality(Promoting(a)') <= Cardinality(Promoting(a))
      BY <2>11, <3>2, FS_Subset, FS_CardinalityType
    <3>4. Cardinality(Made(a)) \in Nat
      BY <2>12, MadeFinite
    <3>5. Cardinality(Made(a)) + Cardinality(Promoting(a)) <= Cardinality(Session)
      BY <1>3 DEF Evidence, PromotionsBounded
    <3>6. QED
      BY <2>1, <2>16, <3>2, <3>3, <3>4, <3>5
  <2>19. PromotionsBounded'
    BY <2>18 DEF PromotionsBounded
  <2>20. QED
    BY <2>1, <2>4, <2>7, <2>8, <2>17, <2>19 DEF Evidence
<1>4. QED
  BY <1>1, <1>2, <1>3 DEF Inv

LEMMA StopLemma ==
    ASSUME Inv, NEW u \in Session, Raise(u), UNCHANGED <<tables, seen, calls, erased>>
    PROVE  Inv'
<1>1. Stops(u)
  BY RaiseLemma DEF Inv
<1>2. \A v \in Session : todo'[v] = todo[v] \/ todo'[v] = <<>>
  BY <1>1 DEF Stops
<1>3. QED
  BY <1>1, <1>2, ForgetLemma DEF Stops
---------------------------------------------------------------------------
(* Requests.                                                               *)

LEMMA SeededLemma ==
    ASSUME TypeInv
    PROVE  /\ Numbered(Seeded, Run)
           /\ Evidence => Seeded = runs
<1>1. CASE 1 \in DOMAIN runs
  BY <1>1 DEF Seeded, TypeInv
<1>2. CASE 1 \notin DOMAIN runs
  <2>1. NewRun("demo", "active") \in Run
    BY NewRunLemma DEF Mode
  <2>2. PICK row \in Run : row = NewRun("demo", "active")
    BY <2>1
  <2>3. PICK g : g = With(runs, 1, row)
    OBVIOUS
  <2>4. Numbered(runs, Run) /\ 1 \in Nat \ {0}
    BY DEF TypeInv
  <2>5. Numbered(g, Run)
    BY <2>3, <2>4, WithLemma
  <2>6. QED
    BY <1>2, <2>2, <2>3, <2>5 DEF Seeded, Evidence, TablesSound
<1>3. QED
  BY <1>1, <1>2

LEMMA AskLemma ==
    ASSUME Inv, NEW u \in Session, NEW program \in Seq(Element), Ask(u, program),
           \A i \in 1 .. Len(program) : program[i].do \in Blank \/ (i = Len(program) /\ program[i] = Select)
    PROVE  Inv'
<1> DEFINE q == <<Resolve>> \o program
<1>1. /\ todo[u] = <<>> /\ calls < MaxCalls /\ calls' = calls + 1 /\ runs' = Seeded
      /\ todo' = [todo EXCEPT ![u] = q]
      /\ UNCHANGED <<mode, rows, seen, erased>>
  BY DEF Ask
<1>2. TypeInv
  BY DEF Inv
<1>3. <<Resolve>> \in Seq(Element) /\ Len(<<Resolve>>) = 1 /\ <<Resolve>>[1] = Resolve
  BY PlainSteps, Program1
<1>4. Len(program) \in Nat
  BY LenProperties
<1>5. /\ q \in Seq(Element) /\ Len(q) = 1 + Len(program)
      /\ \A i \in 1 .. 1 + Len(program) :
            q[i] = IF i <= 1 THEN <<Resolve>>[i] ELSE program[i - 1]
  BY <1>3, ConcatProperties
<1>6. q[1] = Resolve /\ \A i \in 2 .. 1 + Len(program) : q[i] = program[i - 1]
  BY <1>3, <1>4, <1>5
<1> HIDE DEF q
<1>7. /\ todo' \in [Session -> Seq(Element)] /\ todo'[u] = q
      /\ \A v \in Session : v # u => todo'[v] = todo[v]
  BY <1>1, <1>2, <1>5 DEF TypeInv
<1>8. calls' \in 0 .. MaxCalls
  BY <1>1, <1>2, StudyMinima DEF TypeInv
<1>9. TypeInv'
  BY <1>1, <1>2, <1>7, <1>8, SeededLemma DEF TypeInv
<1>10. \A i \in 1 .. Len(q) : \/ q[i].do \in Blank
                              \/ i = Len(q) /\ q[i].do = "select"
  <2>1. SUFFICES ASSUME NEW i \in 1 .. Len(q)
                 PROVE  q[i].do \in Blank \/ (i = Len(q) /\ q[i].do = "select")
    OBVIOUS
  <2>2. CASE i = 1
    BY <1>6, <2>2 DEF Resolve, Blank
  <2>3. CASE i # 1
    <3>1. i \in 2 .. 1 + Len(program) /\ i - 1 \in 1 .. Len(program)
      BY <1>4, <1>5, <2>3
    <3>2. q[i] = program[i - 1]
      BY <1>6, <3>1
    <3>3. i - 1 = Len(program) => i = Len(q)
      BY <1>4, <1>5
    <3>4. Select.do = "select"
      BY DEF Select
    <3>5. QED
      BY <3>1, <3>2, <3>3, <3>4
  <2>4. QED
    BY <2>2, <2>3
<1>11. \A i \in 1 .. Len(q) : /\ Promises(q[i]) = {}
                              /\ q[i].do \notin {"insertRun", "store"}
                              /\ \A rs, tb : Sound(rs, tb, q[i])
  BY <1>10 DEF Blank, Promises, Sound
<1>12. Orderly(q)
  <2>1. \A i \in 1 .. Len(q) : q[i].do = "select" => i = Len(q)
    BY <1>10 DEF Blank
  <2>2. QED
    BY <1>11, <2>1 DEF Orderly
<1>13. ASSUME Evidence
       PROVE  Evidence'
  <2>1. runs' = runs /\ rows' = rows /\ seen' = seen
    BY <1>1, <1>2, <1>13, SeededLemma
  <2>2. TablesSound' /\ Active' = Active /\ \A a : Made(a)' = Made(a)
    BY <1>13, <2>1, SameTables DEF Evidence
  <2>3. ASSUME NEW v \in Session, NEW i \in 1 .. Len(todo'[v])
        PROVE  Sound(runs', rows', todo'[v][i])
    <3>1. CASE v = u
      BY <1>7, <1>11, <2>3, <3>1
    <3>2. CASE v # u
      BY <1>7, <1>13, <2>1, <2>3, <3>2 DEF Evidence, ProgramsSound
    <3>3. QED
      BY <3>1, <3>2
  <2>4. ProgramsSound'
    BY <2>3 DEF ProgramsSound
  <2>5. \A v \in Session : Orderly(todo'[v])
    BY <1>7, <1>12, <1>13 DEF Evidence, ProgramsOrderly
  <2>6. ProgramsOrderly'
    BY <2>5 DEF ProgramsOrderly
  <2>7. q[1].do = "resolve"
    BY <1>6 DEF Resolve
  <2>8. SeenSound'
    BY <1>1, <1>7, <1>13, <2>1, <2>7 DEF Evidence, SeenSound
  <2>9. Starting' = Starting
    <3>1. \A v \in Session : (todo'[v] # <<>> /\ todo'[v][1].do = "insertRun")
                               <=> (todo[v] # <<>> /\ todo[v][1].do = "insertRun")
      BY <1>1, <1>7, <2>7
    <3>2. QED
      BY <3>1 DEF Starting
  <2>10. StartsBounded'
    BY <1>13, <2>2, <2>9 DEF Evidence, StartsBounded
  <2>11. ASSUME NEW a
         PROVE  Promoting(a)' = Promoting(a)
    <3>1. \A i \in 1 .. Len(q) : a \notin Promises(q[i])
      BY <1>11
    <3>2. \A i \in 1 .. Len(todo[u]) : FALSE
      BY <1>1
    <3>3. \A s : Promises(s)' = Promises(s)
      BY DEF Promises
    <3>4. \A v \in Session : (\E i \in 1 .. Len(todo'[v]) : a \in Promises(todo'[v][i]))
                               <=> (\E i \in 1 .. Len(todo[v]) : a \in Promises(todo[v][i]))
      <4>1. SUFFICES ASSUME NEW v \in Session
                     PROVE  (\E i \in 1 .. Len(todo'[v]) : a \in Promises(todo'[v][i]))
                               <=> (\E i \in 1 .. Len(todo[v]) : a \in Promises(todo[v][i]))
        OBVIOUS
      <4>2. CASE v = u
        BY <1>7, <3>1, <3>2, <4>2
      <4>3. CASE v # u
        BY <1>7, <4>3
      <4>4. QED
        BY <4>2, <4>3
    <3>5. QED
      BY <3>3, <3>4 DEF Promoting
  <2>12. PromotionsBounded'
    BY <1>13, <2>2, <2>11 DEF Evidence, PromotionsBounded
  <2>13. QED
    BY <2>2, <2>4, <2>6, <2>8, <2>10, <2>12 DEF Evidence
<1>14. QED
  BY <1>1, <1>9, <1>13 DEF Inv
---------------------------------------------------------------------------
(* Programs of blank elements.                                             *)

BlankElement(a) == a \in Element /\ a.do \in Blank
BlankProgram(p) == p \in Seq(Element) /\ \A i \in 1 .. Len(p) : p[i].do \in Blank

LEMMA PlainBlank ==
    /\ BlankElement(Resolve) /\ BlankElement(History) /\ BlankElement(Close)
    /\ BlankElement(ListDemo) /\ BlankElement(ArchiveDemoRuns) /\ BlankElement(Restart)
    /\ BlankElement(Delete) /\ BlankElement(Pull) /\ BlankElement(Generate)
    /\ BlankElement(AuditAll) /\ BlankElement(Brief)
<1>1. /\ Resolve.do \in Blank /\ History.do \in Blank /\ Close.do \in Blank
      /\ ListDemo.do \in Blank /\ ArchiveDemoRuns.do \in Blank /\ Restart.do \in Blank
      /\ Delete.do \in Blank /\ Pull.do \in Blank /\ Generate.do \in Blank
      /\ AuditAll.do \in Blank /\ Brief.do \in Blank
  BY DEF Resolve, History, Close, ListDemo, ArchiveDemoRuns, Restart, Delete, Pull,
         Generate, AuditAll, Brief, Blank
<1>2. QED
  BY <1>1, PlainSteps DEF BlankElement

LEMMA ModeBlank ==
    ASSUME NEW m \in Mode
    PROVE  /\ BlankElement(Create(m)) /\ BlankElement(SetMode(m)) /\ BlankElement(Switch(m))
           /\ BlankElement(Collect(m)) /\ BlankElement(ListAuditable(m))
<1>1. /\ Create(m).do \in Blank /\ SetMode(m).do \in Blank /\ Switch(m).do \in Blank
      /\ Collect(m).do \in Blank /\ ListAuditable(m).do \in Blank
  BY DEF Create, SetMode, Switch, Collect, ListAuditable, Blank
<1>2. QED
  BY <1>1, ModeSteps DEF BlankElement

LEMMA SignalBlank ==
    /\ \A s \in Source, demo \in BOOLEAN : BlankElement(Admit(s, demo))
    /\ \A S \in SUBSET Source : BlankElement(Batch(S))
    /\ \A S \in SUBSET Source, r \in Nat : BlankElement(Candidates(S, r))
<1>1. /\ \A s, demo : Admit(s, demo).do \in Blank
      /\ \A S : Batch(S).do \in Blank
      /\ \A S, r : Candidates(S, r).do \in Blank
  BY DEF Admit, Batch, Candidates, Blank
<1>2. QED
  BY <1>1, SignalSteps DEF BlankElement

LEMMA RowBlank ==
    /\ \A X \in SUBSET (Table \X Nat) : BlankElement(ArchiveRows(X))
    /\ \A r \in Nat : BlankElement(Retire(r))
    /\ \A F \in SUBSET Nat : BlankElement(Audit(F))
    /\ \A o \in Nat : BlankElement(Chain(o))
    /\ \A o \in Nat, demo \in BOOLEAN : BlankElement(MarkReady(o, demo))
<1>1. /\ \A X : ArchiveRows(X).do \in Blank
      /\ \A r : Retire(r).do \in Blank
      /\ \A F : Audit(F).do \in Blank
      /\ \A o : Chain(o).do \in Blank
      /\ \A o, demo : MarkReady(o, demo).do \in Blank
  BY DEF ArchiveRows, Retire, Audit, Chain, MarkReady, Blank
<1>2. QED
  BY <1>1, RowSteps, AuditSteps DEF BlankElement

LEMMA Blank0 == BlankProgram(<<>>)
BY Program0 DEF BlankProgram

LEMMA Blank1 ==
    ASSUME NEW a, BlankElement(a)
    PROVE  BlankProgram(<<a>>)
<1>1. a \in Element /\ a.do \in Blank
  BY DEF BlankElement
<1>2. PICK p : p = <<a>>
  OBVIOUS
<1>3. p \in Seq(Element) /\ Len(p) = 1 /\ p[1] = a
  BY <1>1, <1>2, Program1
<1>4. \A i \in 1 .. Len(p) : i = 1
  BY <1>3
<1>5. QED
  BY <1>1, <1>2, <1>3, <1>4 DEF BlankProgram

LEMMA BlankConcat ==
    ASSUME NEW p, NEW q, BlankProgram(p), BlankProgram(q)
    PROVE  BlankProgram(p \o q)
<1>1. Len(p) \in Nat /\ Len(q) \in Nat
  BY LenProperties DEF BlankProgram
<1>2. /\ p \o q \in Seq(Element)
      /\ Len(p \o q) = Len(p) + Len(q)
      /\ \A i \in 1 .. Len(p) + Len(q) :
            (p \o q)[i] = IF i <= Len(p) THEN p[i] ELSE q[i - Len(p)]
  BY ConcatProperties DEF BlankProgram
<1>3. ASSUME NEW i \in 1 .. Len(p) + Len(q)
      PROVE  (p \o q)[i].do \in Blank
  <2>1. CASE i <= Len(p)
    <3>1. i \in 1 .. Len(p)
      BY <1>1, <2>1
    <3>2. QED
      BY <1>2, <2>1, <3>1 DEF BlankProgram
  <2>2. CASE ~(i <= Len(p))
    <3>1. i - Len(p) \in 1 .. Len(q)
      BY <1>1, <2>2
    <3>2. QED
      BY <1>2, <2>2, <3>1 DEF BlankProgram
  <2>3. QED
    BY <2>1, <2>2
<1>4. QED
  BY <1>2, <1>3 DEF BlankProgram

LEMMA Blank2 ==
    ASSUME NEW a, NEW b, BlankElement(a), BlankElement(b)
    PROVE  BlankProgram(<<a, b>>) /\ Len(<<a, b>>) = 2 /\ <<a, b>>[1] = a
<1>1. PICK p : p = <<a, b>>
  OBVIOUS
<1>2. a \in Element /\ b \in Element /\ a.do \in Blank /\ b.do \in Blank
  BY DEF BlankElement
<1>3. p \in Seq(Element) /\ Len(p) = 2 /\ p[1] = a /\ p[2] = b
  BY <1>1, <1>2, Program2
<1>4. \A i \in 1 .. Len(p) : i = 1 \/ i = 2
  BY <1>3
<1>5. QED
  BY <1>1, <1>2, <1>3, <1>4 DEF BlankProgram

LEMMA Blank3 ==
    ASSUME NEW a, NEW b, NEW c, BlankElement(a), BlankElement(b), BlankElement(c)
    PROVE  BlankProgram(<<a, b, c>>)
<1>1. PICK p : p = <<a, b, c>>
  OBVIOUS
<1>2. /\ a \in Element /\ b \in Element /\ c \in Element
      /\ a.do \in Blank /\ b.do \in Blank /\ c.do \in Blank
  BY DEF BlankElement
<1>3. p \in Seq(Element) /\ Len(p) = 3 /\ p[1] = a /\ p[2] = b /\ p[3] = c
  BY <1>1, <1>2, Program3
<1>4. \A i \in 1 .. Len(p) : i = 1 \/ i = 2 \/ i = 3
  BY <1>3
<1>5. QED
  BY <1>1, <1>2, <1>3, <1>4 DEF BlankProgram

LEMMA Blank4 ==
    ASSUME NEW a, NEW b, NEW c, NEW d, BlankElement(a), BlankElement(b), BlankElement(c),
           BlankElement(d)
    PROVE  BlankProgram(<<a, b, c, d>>)
<1>1. PICK p : p = <<a, b, c, d>>
  OBVIOUS
<1>2. /\ a \in Element /\ b \in Element /\ c \in Element /\ d \in Element
      /\ a.do \in Blank /\ b.do \in Blank /\ c.do \in Blank /\ d.do \in Blank
  BY DEF BlankElement
<1>3. p \in Seq(Element) /\ Len(p) = 4 /\ p[1] = a /\ p[2] = b /\ p[3] = c /\ p[4] = d
  BY <1>1, <1>2, Program4
<1>4. \A i \in 1 .. Len(p) : i = 1 \/ i = 2 \/ i = 3 \/ i = 4
  BY <1>3
<1>5. QED
  BY <1>1, <1>2, <1>3, <1>4 DEF BlankProgram

\* A commit that only decides, in terms of such programs.
LEMMA TalkBlank ==
    ASSUME Inv, NEW u \in Session, NEW do, Now(u, do), NEW p, BlankProgram(p), Then(u, p),
           UNCHANGED <<calls, erased>>, UNCHANGED <<tables, seen>>,
           do \notin {"select", "resolve", "create", "insertRun"}
    PROVE  Inv'
<1>1. todo[u] # <<>> /\ todo[u][1].do = do
  BY HeadLemma DEF Inv
<1>2. QED
  BY <1>1, BlankTalk DEF BlankProgram

LEMMA AskBlank ==
    ASSUME Inv, NEW u \in Session, NEW program, BlankProgram(program), Ask(u, program)
    PROVE  Inv'
BY AskLemma DEF BlankProgram

LEMMA RowsPaired ==
    ASSUME TypeInv
    PROVE  /\ Rows \subseteq Table \X Nat
           /\ \A t \in Table : DOMAIN rows[t] \subseteq Nat
           /\ \A t \in Table : \A i \in DOMAIN rows[t] : rows[t][i] \in RowOf(t)
<1>1. \A t \in Table : DOMAIN rows[t] \subseteq Nat
  BY DEF TypeInv, Numbered
<1>2. \A t \in Table : \A i \in DOMAIN rows[t] : rows[t][i] \in RowOf(t)
  BY DEF TypeInv, Numbered
<1>3. QED
  BY <1>1, <1>2 DEF Rows

LEMMA RequestInv ==
    ASSUME Inv, NEW u \in Session, Request(u)
    PROVE  Inv'
<1>1. TypeInv
  BY DEF Inv
<1>2. CASE Visit(u)
  BY <1>2, Blank0, AskBlank DEF Visit
<1>3. CASE LoadDemoBatch(u)
  <2>1. BlankElement(Batch(Source))
    BY SignalBlank
  <2>2. QED
    BY <1>3, <2>1, Blank1, AskBlank DEF LoadDemoBatch
<1>4. CASE \/ PullEvidence(u) \/ GenerateFindings(u) \/ RunAudits(u) \/ WriteBrief(u)
           \/ StartFresh(u) \/ DeleteArchived(u)
  BY <1>4, PlainBlank, Blank1, AskBlank
     DEF PullEvidence, GenerateFindings, RunAudits, WriteBrief, StartFresh, DeleteArchived
<1>5. CASE Approve(u)
  <2>1. PICK p : p = <<Select>>
    OBVIOUS
  <2>2. p \in Seq(Element) /\ Len(p) = 1 /\ p[1] = Select
    BY <2>1, PlainSteps, Program1
  <2>3. \A i \in 1 .. Len(p) : i = Len(p) /\ p[i] = Select
    BY <2>2
  <2>4. QED
    BY <1>5, <2>1, <2>2, <2>3, AskLemma DEF Approve
<1>6. CASE ClearDemo(u)
  BY <1>6, PlainBlank, Blank2, AskBlank DEF ClearDemo
<1>7. CASE StartProduction(u)
  <2>1. BlankElement(Switch("production"))
    BY ModeBlank DEF Mode
  <2>2. QED
    BY <1>7, <2>1, PlainBlank, Blank4, AskBlank DEF StartProduction
<1>8. CASE AuditOne(u)
  <2>1. PICK f \in Shown("findings") : Ask(u, <<Audit({f})>>)
    BY <1>8 DEF AuditOne
  <2>2. f \in Nat
    BY <1>1, RowsPaired, RowsOf DEF Shown
  <2>3. BlankElement(Audit({f}))
    BY <2>2, RowBlank
  <2>4. QED
    BY <2>1, <2>3, Blank1, AskBlank
<1>9. CASE EngineeringReady(u)
  <2>1. PICK o \in Shown("opportunities") : Ask(u, <<Chain(o)>>)
    BY <1>9 DEF EngineeringReady
  <2>2. o \in Nat
    BY <1>1, RowsPaired, RowsOf DEF Shown
  <2>3. BlankElement(Chain(o))
    BY <2>2, RowBlank
  <2>4. QED
    BY <2>1, <2>3, Blank1, AskBlank
<1>10. CASE ArchiveOne(u)
  <2>0. PICK t \in Counted : \E i \in Shown(t) : Ask(u, <<ArchiveRows({<<t, i>>})>>)
    BY <1>10 DEF ArchiveOne
  <2>1. PICK i \in Shown(t) : Ask(u, <<ArchiveRows({<<t, i>>})>>)
    BY <2>0
  <2>2. t \in Table /\ i \in Nat
    BY <1>1, RowsPaired DEF Shown, Counted
  <2>3. {<<t, i>>} \in SUBSET (Table \X Nat)
    BY <2>2
  <2>4. BlankElement(ArchiveRows({<<t, i>>}))
    BY <2>3, RowBlank
  <2>5. QED
    BY <2>1, <2>4, Blank1, AskBlank
<1>11. CASE \E s \in Source : CollectEvidence(u, s)
  <2>1. PICK s \in Source : Ask(u, <<Admit(s, FALSE)>>)
    BY <1>11 DEF CollectEvidence
  <2>2. BlankElement(Admit(s, FALSE))
    BY SignalBlank
  <2>3. QED
    BY <2>1, <2>2, Blank1, AskBlank
<1>12. QED
  BY <1>2, <1>3, <1>4, <1>5, <1>6, <1>7, <1>8, <1>9, <1>10, <1>11 DEF Request
---------------------------------------------------------------------------
(* Commits that only decide what is to be done.                            *)

LEMMA SeenTyped ==
    ASSUME TypeInv, NEW u \in Session
    PROVE  seen[u].id \in Nat /\ seen[u].mode \in Mode
BY DEF TypeInv

\* The element a commit is the work of.
LEMMA StepTyped ==
    ASSUME TypeInv, NEW u \in Session, NEW do, Now(u, do)
    PROVE  /\ do \in {"create", "insertRun", "setMode", "switch", "collect", "listAuditable"}
                => Step(u).mode \in Mode
           /\ do = "archive" => Step(u).left \in SUBSET (Table \X Nat)
           /\ do = "retire" => Step(u).run \in Nat
           /\ do = "candidates" => Step(u).left \in SUBSET Source /\ Step(u).run \in Nat
           /\ do \in {"admit", "store"} => Step(u).source \in Source /\ Step(u).demo \in BOOLEAN
           /\ do = "batch" => Step(u).left \in SUBSET Source
           /\ do \in {"upsert", "addFinding"} => Step(u).row \in FindingRow
           /\ do = "rewrite" => Step(u).finding \in Nat /\ Step(u).row \in FindingRow
           /\ do \in {"audit", "promote"} => Step(u).left \in SUBSET Nat
           /\ do = "record" => Step(u).row \in AuditRow
           /\ do = "insert" => Step(u).row \in NewOpportunity
           /\ do = "chain" => Step(u).opportunity \in Nat
           /\ do = "markReady" => Step(u).opportunity \in Nat /\ Step(u).demo \in BOOLEAN
<1>1. PICK s \in Element : s = Step(u) /\ s.do = do
  BY HeadLemma
<1>2. /\ s \in ModeStep => s.mode \in Mode
      /\ s \in ArchiveStep => s.left \in SUBSET (Table \X Nat)
      /\ s \in RetireStep => s.run \in Nat
      /\ s \in CandidatesStep => s.left \in SUBSET Source /\ s.run \in Nat
      /\ s \in SignalStep => s.source \in Source /\ s.demo \in BOOLEAN
      /\ s \in BatchStep => s.left \in SUBSET Source
  BY DEF ModeStep, ArchiveStep, RetireStep, CandidatesStep, SignalStep, BatchStep
<1>3. /\ s \in FindingStep => s.row \in FindingRow
      /\ s \in RewriteStep => s.finding \in Nat /\ s.row \in FindingRow
      /\ s \in ListStep => s.left \in SUBSET Nat
      /\ s \in RecordStep => s.row \in AuditRow
      /\ s \in InsertStep => s.row \in NewOpportunity
      /\ s \in ChainStep => s.opportunity \in Nat
      /\ s \in ReadyStep => s.opportunity \in Nat /\ s.demo \in BOOLEAN
  BY DEF FindingStep, RewriteStep, ListStep, RecordStep, InsertStep, ChainStep, ReadyStep
<1>4. QED
  BY <1>1, <1>2, <1>3, ElementKinds

LEMMA ListDemoRowsInv ==
    ASSUME Inv, NEW u \in Session, ListDemoRows(u)
    PROVE  Inv'
<1>1. PICK X : X = {x \in Rows : At(x).demo /\ Live(x)}
  OBVIOUS
<1>2. BlankElement(ArchiveRows(X))
  BY <1>1, RowsPaired, RowBlank DEF Inv
<1>3. /\ Now(u, "listDemo") /\ Then(u, <<ArchiveRows(X)>>)
      /\ UNCHANGED <<calls, erased>> /\ UNCHANGED <<tables, seen>>
  BY <1>1 DEF ListDemoRows, Quiet
<1>4. QED
  BY <1>2, <1>3, Blank1, TalkBlank

LEMMA SwitchRunInv ==
    ASSUME Inv, NEW u \in Session, SwitchRun(u)
    PROVE  Inv'
<1>1. PICK X : X = {x \in Rows : At(x).run = seen[u].id /\ At(x).demo /\ Live(x)}
  OBVIOUS
<1>2. PICK m : m = Step(u).mode
  OBVIOUS
<1>3. PICK first : first = IF seen[u].mode = "demo" THEN <<ArchiveRows(X)>> ELSE <<>>
  OBVIOUS
<1>4. PICK second : second = <<Resolve, Close, Create(m), SetMode(m)>>
  OBVIOUS
<1>5. /\ Now(u, "switch")
      /\ Then(u, IF seen[u].mode = m THEN <<>> ELSE first \o second)
      /\ UNCHANGED <<calls, erased>> /\ UNCHANGED <<tables, seen>>
  BY <1>1, <1>2, <1>3, <1>4 DEF SwitchRun, Quiet
<1>6. m \in Mode
  BY <1>2, <1>5, StepTyped DEF Inv
<1>7. BlankElement(ArchiveRows(X))
  BY <1>1, RowsPaired, RowBlank DEF Inv
<1>8. BlankProgram(first)
  BY <1>3, <1>7, Blank0, Blank1
<1>9. BlankProgram(second)
  BY <1>4, <1>6, PlainBlank, ModeBlank, Blank4
<1>10. BlankProgram(first \o second)
  BY <1>8, <1>9, BlankConcat
<1>11. PICK p : p = IF seen[u].mode = m THEN <<>> ELSE first \o second
  OBVIOUS
<1>12. BlankProgram(p) /\ Then(u, p)
  BY <1>5, <1>10, <1>11, Blank0
<1>13. QED
  BY <1>5, <1>12, TalkBlank

LEMMA RestartRunInv ==
    ASSUME Inv, NEW u \in Session, RestartRun(u)
    PROVE  Inv'
<1>1. PICK r : r = seen[u].id
  OBVIOUS
<1>2. PICK X : X = {x \in Rows : At(x).run = r /\ Live(x)}
  OBVIOUS
<1>3. PICK p : p = <<ArchiveRows(X), Retire(r), Create("production"), SetMode("production")>>
  OBVIOUS
<1>4. /\ Now(u, "restart")
      /\ Raise(u) \/ Then(u, p)
      /\ UNCHANGED <<calls, erased>> /\ UNCHANGED <<tables, seen>>
  BY <1>1, <1>2, <1>3 DEF RestartRun, Quiet
<1>5. BlankElement(ArchiveRows(X)) /\ BlankElement(Retire(r))
  BY <1>1, <1>2, SeenTyped, RowsPaired, RowBlank DEF Inv
<1>6. BlankElement(Create("production")) /\ BlankElement(SetMode("production"))
  BY ModeBlank DEF Mode
<1>7. BlankProgram(p)
  BY <1>3, <1>5, <1>6, Blank4
<1>8. UNCHANGED <<tables, seen, calls, erased>>
  BY <1>4
<1>9. CASE Raise(u)
  BY <1>8, <1>9, StopLemma
<1>10. CASE Then(u, p)
  BY <1>4, <1>7, <1>10, TalkBlank
<1>11. QED
  BY <1>4, <1>9, <1>10

LEMMA NextOfBatchInv ==
    ASSUME Inv, NEW u \in Session, NextOfBatch(u)
    PROVE  Inv'
<1>1. PICK S : S = Step(u).left
  OBVIOUS
<1>2. PICK s : s = CHOOSE t \in S : TRUE
  OBVIOUS
<1>3. /\ Now(u, "batch")
      /\ IF S = {} THEN Then(u, <<Resolve, Generate>>)
         ELSE Then(u, <<Resolve, Admit(s, TRUE), Batch(S \ {s})>>)
      /\ UNCHANGED <<calls, erased>> /\ UNCHANGED <<tables, seen>>
  BY <1>1, <1>2 DEF NextOfBatch, Quiet
<1>4. S \in SUBSET Source
  BY <1>1, <1>3, StepTyped DEF Inv
<1>5. CASE S = {}
  BY <1>3, <1>5, PlainBlank, Blank2, TalkBlank
<1>6. CASE S # {}
  <2>1. s \in Source /\ S \ {s} \in SUBSET Source
    BY <1>2, <1>4, <1>6
  <2>2. BlankElement(Admit(s, TRUE)) /\ BlankElement(Batch(S \ {s}))
    BY <2>1, SignalBlank
  <2>3. BlankProgram(<<Resolve, Admit(s, TRUE), Batch(S \ {s})>>)
    BY <2>2, PlainBlank, Blank3
  <2>4. QED
    BY <1>3, <1>6, <2>3, TalkBlank
<1>7. QED
  BY <1>5, <1>6

LEMMA StartPullInv ==
    ASSUME Inv, NEW u \in Session, StartPull(u)
    PROVE  Inv'
<1>1. /\ Now(u, "pull")
      /\ \/ Then(u, <<>>)
         \/ \E found \in SUBSET Source : Then(u, <<Candidates(found, seen[u].id)>>)
      /\ UNCHANGED <<calls, erased>> /\ UNCHANGED <<tables, seen>>
  BY DEF StartPull, Quiet
<1>2. CASE Then(u, <<>>)
  BY <1>1, <1>2, Blank0, TalkBlank
<1>3. CASE \E found \in SUBSET Source : Then(u, <<Candidates(found, seen[u].id)>>)
  <2>1. PICK found \in SUBSET Source : Then(u, <<Candidates(found, seen[u].id)>>)
    BY <1>3
  <2>2. BlankElement(Candidates(found, seen[u].id))
    BY SeenTyped, SignalBlank DEF Inv
  <2>3. QED
    BY <1>1, <2>1, <2>2, Blank1, TalkBlank
<1>4. QED
  BY <1>1, <1>2, <1>3

LEMMA NextCandidateInv ==
    ASSUME Inv, NEW u \in Session, NextCandidate(u)
    PROVE  Inv'
<1>1. PICK known : known = {rows["signals"][i].source : i \in {j \in DOMAIN rows["signals"] :
                               rows["signals"][j].run = Step(u).run}}
  OBVIOUS
<1>2. PICK left, run : left = Step(u).left /\ run = Step(u).run
  OBVIOUS
<1>3. /\ Now(u, "candidates")
      /\ \/ Then(u, <<>>)
         \/ \E s \in left : Then(u, (IF s \in known THEN <<>> ELSE <<Resolve, Admit(s, FALSE)>>)
                                    \o <<Candidates(left \ {s}, run)>>)
      /\ UNCHANGED <<calls, erased>> /\ UNCHANGED <<tables, seen>>
  BY <1>1, <1>2 DEF NextCandidate, Quiet
<1>4. left \in SUBSET Source /\ run \in Nat
  BY <1>2, <1>3, StepTyped DEF Inv
<1>5. CASE Then(u, <<>>)
  BY <1>3, <1>5, Blank0, TalkBlank
<1>6. ASSUME NEW s \in left,
             Then(u, (IF s \in known THEN <<>> ELSE <<Resolve, Admit(s, FALSE)>>)
                     \o <<Candidates(left \ {s}, run)>>)
      PROVE  Inv'
  <2>1. PICK first : first = IF s \in known THEN <<>> ELSE <<Resolve, Admit(s, FALSE)>>
    OBVIOUS
  <2>2. PICK second : second = <<Candidates(left \ {s}, run)>>
    OBVIOUS
  <2>3. Then(u, first \o second)
    BY <1>6, <2>1, <2>2
  <2>4. BlankElement(Admit(s, FALSE)) /\ BlankElement(Candidates(left \ {s}, run))
    <3>1. s \in Source /\ left \ {s} \in SUBSET Source
      BY <1>4
    <3>2. QED
      BY <1>4, <3>1, SignalBlank
  <2>5. BlankProgram(<<Resolve, Admit(s, FALSE)>>)
    BY <2>4, PlainBlank, Blank2
  <2>6. BlankProgram(first)
    BY <2>1, <2>5, Blank0
  <2>7. BlankProgram(second)
    BY <2>2, <2>4, Blank1
  <2>8. BlankProgram(first \o second)
    BY <2>6, <2>7, BlankConcat
  <2>9. QED
    BY <1>3, <2>3, <2>8, TalkBlank
<1>7. QED
  BY <1>3, <1>5, <1>6

LEMMA ListsInv ==
    ASSUME Inv, NEW u \in Session, GenerateStep(u) \/ AuditBatch(u) \/ ListFindings(u)
    PROVE  Inv'
<1>1. PICK m \in Mode : m = seen[u].mode
  BY SeenTyped DEF Inv
<1>2. CASE GenerateStep(u)
  <2>1. /\ Now(u, "generate") /\ Then(u, <<Resolve, Collect(m)>>)
        /\ UNCHANGED <<calls, erased>> /\ UNCHANGED <<tables, seen>>
    BY <1>1, <1>2 DEF GenerateStep, Quiet
  <2>2. QED
    BY <2>1, PlainBlank, ModeBlank, Blank2, TalkBlank
<1>3. CASE AuditBatch(u)
  <2>1. /\ Now(u, "auditAll") /\ Then(u, <<Resolve, ListAuditable(m)>>)
        /\ UNCHANGED <<calls, erased>> /\ UNCHANGED <<tables, seen>>
    BY <1>1, <1>3 DEF AuditBatch, Quiet
  <2>2. QED
    BY <2>1, PlainBlank, ModeBlank, Blank2, TalkBlank
<1>4. CASE ListFindings(u)
  <2>1. PICK F : F = {f \in DOMAIN rows["findings"] : LET row == rows["findings"][f] IN
                         /\ row.run = seen[u].id
                         /\ Auditable(row.status)
                         /\ row.demo => Step(u).mode = "demo"}
    OBVIOUS
  <2>2. /\ Now(u, "listAuditable") /\ Then(u, <<Audit(F)>>)
        /\ UNCHANGED <<calls, erased>> /\ UNCHANGED <<tables, seen>>
    BY <1>4, <2>1 DEF ListFindings, Quiet
  <2>3. F \in SUBSET Nat
    <3>1. DOMAIN rows["findings"] \subseteq Nat
      BY RowsPaired, RowsOf DEF Inv
    <3>2. F \subseteq DOMAIN rows["findings"]
      BY <2>1
    <3>3. QED
      BY <3>1, <3>2
  <2>4. BlankElement(Audit(F))
    BY <2>3, RowBlank
  <2>5. QED
    BY <2>2, <2>4, Blank1, TalkBlank
<1>5. QED
  BY <1>2, <1>3, <1>4

LEMMA CheckChainInv ==
    ASSUME Inv, NEW u \in Session, CheckChain(u)
    PROVE  Inv'
<1>1. PICK o : o = Step(u).opportunity
  OBVIOUS
<1>2. /\ Now(u, "chain")
      /\ UNCHANGED <<calls, erased>> /\ UNCHANGED <<tables, seen>>
      /\ \/ Raise(u)
         \/ Then(u, <<>>)
         \/ /\ o \in DOMAIN rows["opportunities"]
            /\ Then(u, <<MarkReady(o, rows["opportunities"][o].demo)>>)
  BY <1>1 DEF CheckChain, Quiet
<1>3. UNCHANGED <<tables, seen, calls, erased>>
  BY <1>2
<1>4. CASE Raise(u)
  BY <1>3, <1>4, StopLemma
<1>5. CASE Then(u, <<>>)
  BY <1>2, <1>5, Blank0, TalkBlank
<1>6. CASE /\ o \in DOMAIN rows["opportunities"]
           /\ Then(u, <<MarkReady(o, rows["opportunities"][o].demo)>>)
  <2>1. o \in Nat
    BY <1>1, <1>2, StepTyped DEF Inv
  <2>2. rows["opportunities"][o] \in OpportunityRow
    BY <1>6, RowsPaired, RowsOf DEF Inv
  <2>3. PICK d \in BOOLEAN : d = rows["opportunities"][o].demo
    BY <2>2 DEF OpportunityRow
  <2>4. BlankElement(MarkReady(o, d))
    BY <2>1, RowBlank
  <2>5. QED
    BY <1>2, <1>6, <2>3, <2>4, Blank1, TalkBlank
<1>7. QED
  BY <1>2, <1>4, <1>5, <1>6

\* A commit after which one element is to be run first.
LEMMA TalkOne ==
    ASSUME Inv, NEW u \in Session, NEW do, Now(u, do), NEW a \in Element, Then(u, <<a>>),
           UNCHANGED <<calls, erased>>, UNCHANGED <<tables, seen>>,
           do \notin {"select", "resolve", "create", "insertRun"},
           a.do \notin {"select", "insertRun", "store"},
           Promises(a) = {},
           Evidence => Sound(runs, rows, a)
    PROVE  Inv'
<1>1. PICK p : p = <<a>>
  OBVIOUS
<1>2. p \in Seq(Element) /\ Len(p) = 1 /\ p[1] = a
  BY <1>1, Program1
<1>3. \A i \in 1 .. Len(p) : i = 1 /\ p[i] = a
  BY <1>2
<1>4. todo[u] # <<>> /\ todo[u][1].do = do
  BY HeadLemma DEF Inv
<1>5. Apt(p, todo[u][1])
  BY <1>3 DEF Apt
<1>6. Evidence => \A i \in 1 .. Len(p) : Sound(runs, rows, p[i])
  BY <1>3
<1>7. UNCHANGED <<tables, seen, calls, erased>>
  OBVIOUS
<1>8. QED
  BY <1>1, <1>2, <1>4, <1>5, <1>6, <1>7, TalkLemma

\* A session that works for a run has seen it.
LEMMA SeenRun ==
    ASSUME TypeInv, Evidence, NEW u \in Session, NEW do, Now(u, do),
           do \notin {"resolve", "create", "insertRun"}
    PROVE  seen[u].id \in DOMAIN runs /\ runs[seen[u].id].mode = seen[u].mode
<1>1. todo[u] # <<>> /\ todo[u][1].do = do
  BY HeadLemma
<1>2. QED
  BY <1>1 DEF Evidence, SeenSound

LEMMA HeadSound ==
    ASSUME TypeInv, Evidence, NEW u \in Session, NEW do, Now(u, do)
    PROVE  Sound(runs, rows, Step(u))
<1>1. Step(u) = todo[u][1] /\ 1 \in 1 .. Len(todo[u])
  BY HeadLemma
<1>2. QED
  BY <1>1 DEF Evidence, ProgramsSound

LEMMA CollectSignalsInv ==
    ASSUME Inv, NEW u \in Session, CollectSignals(u)
    PROVE  Inv'
<1>1. PICK S : S = {i \in DOMAIN rows["signals"] : LET s == rows["signals"][i] IN
                       /\ s.run = seen[u].id
                       /\ s.status = "active"
                       /\ s.demo => Step(u).mode = "demo"}
  OBVIOUS
<1>2. PICK demo : demo = \E i \in S : rows["signals"][i].demo
  OBVIOUS
<1>3. PICK status : status = CASE demo -> "Demo Finding"
                               [] ~demo /\ Sufficient(S) -> "pending_audit"
                               [] OTHER -> "Insufficient Evidence"
  OBVIOUS
<1>4. PICK row : row = [run |-> seen[u].id, demo |-> demo, status |-> status, signals |-> S]
  OBVIOUS
<1>5. /\ Now(u, "collect")
      /\ UNCHANGED <<calls, erased>> /\ UNCHANGED <<tables, seen>>
      /\ Then(u, IF IF Step(u).mode = "demo" THEN Cardinality(S) >= 2 ELSE Sufficient(S)
                 THEN <<Upsert(row)>> ELSE <<>>)
  BY <1>1, <1>2, <1>3, <1>4 DEF CollectSignals, Quiet
<1>6. S \in SUBSET Nat
  <2>1. DOMAIN rows["signals"] \subseteq Nat
    BY RowsPaired, RowsOf DEF Inv
  <2>2. S \subseteq DOMAIN rows["signals"]
    BY <1>1
  <2>3. QED
    BY <2>1, <2>2
<1>7. row \in FindingRow
  <2>1. status \in Status
    <3>1. /\ demo => status = "Demo Finding"
          /\ ~demo /\ Sufficient(S) => status = "pending_audit"
          /\ ~demo /\ ~Sufficient(S) => status = "Insufficient Evidence"
      BY <1>3
    <3>2. QED
      BY <3>1 DEF Status
  <2>2. QED
    BY <1>2, <1>4, <1>6, <2>1, SeenTyped DEF FindingRow, Inv
<1>8. CASE Then(u, <<>>)
  BY <1>5, <1>8, Blank0, TalkBlank
<1>9. CASE /\ IF Step(u).mode = "demo" THEN Cardinality(S) >= 2 ELSE Sufficient(S)
           /\ Then(u, <<Upsert(row)>>)
  <2>1. S # {}
    <3>1. SUFFICES ASSUME S = {}
                   PROVE  FALSE
      OBVIOUS
    <3>2. Cardinality(S) = 0
      BY <3>1, FS_EmptySet
    <3>3. Cardinality(S) >= 2 \/ Cardinality(S) >= MinSignals
      BY <1>9 DEF Sufficient
    <3>4. QED
      BY <3>2, <3>3, StudyMinima
  <2>2. ASSUME Evidence
        PROVE  FindingSound(runs, rows["signals"], row)
    <3>1. seen[u].id \in DOMAIN runs
      BY <1>5, <2>2, SeenRun DEF Inv
    <3>2. \A i \in S : /\ i \in DOMAIN rows["signals"]
                       /\ rows["signals"][i].run = seen[u].id
                       /\ Faithful(runs, rows["signals"][i])
      BY <1>1, <2>2 DEF Evidence, TablesSound
    <3>3. /\ row.run = seen[u].id /\ row.signals = S
          /\ row.demo = \E i \in S : rows["signals"][i].demo
      BY <1>2, <1>4
    <3>4. \A i \in S : rows["signals"][i].demo <=> runs[seen[u].id].mode = "demo"
      BY <3>2 DEF Faithful
    <3>5. row.demo <=> runs[seen[u].id].mode = "demo"
      BY <2>1, <3>3, <3>4
    <3>6. QED
      BY <2>1, <3>1, <3>2, <3>3, <3>5 DEF FindingSound, Faithful
  <2>3. /\ Upsert(row) \in Element /\ Upsert(row).do = "upsert" /\ Upsert(row).row = row
        /\ Promises(Upsert(row)) = {}
    BY <1>7, RowSteps DEF Upsert, Promises
  <2>4. Evidence => Sound(runs, rows, Upsert(row))
    BY <2>2, <2>3 DEF Sound
  <2>5. QED
    BY <1>5, <1>9, <2>3, <2>4, TalkOne
<1>10. QED
  BY <1>5, <1>8, <1>9

LEMMA UpsertFindingInv ==
    ASSUME Inv, NEW u \in Session, UpsertFinding(u)
    PROVE  Inv'
<1>1. PICK row : row = Step(u).row
  OBVIOUS
<1>2. /\ Now(u, "upsert")
      /\ UNCHANGED <<calls, erased>> /\ UNCHANGED <<tables, seen>>
      /\ \/ Then(u, <<AddFinding(row)>>)
         \/ \E f \in DOMAIN rows["findings"] : Then(u, <<Rewrite(f, row)>>)
  BY <1>1 DEF UpsertFinding, Quiet
<1>3. row \in FindingRow
  BY <1>1, <1>2, StepTyped DEF Inv
<1>4. Evidence => FindingSound(runs, rows["signals"], row)
  <2>1. Step(u).do = "upsert"
    BY <1>2 DEF Now, Step
  <2>2. QED
    BY <1>1, <1>2, <2>1, HeadSound DEF Sound, Inv
<1>5. CASE Then(u, <<AddFinding(row)>>)
  <2>1. /\ AddFinding(row) \in Element /\ AddFinding(row).do = "addFinding"
        /\ AddFinding(row).row = row /\ Promises(AddFinding(row)) = {}
    BY <1>3, RowSteps DEF AddFinding, Promises
  <2>2. Evidence => Sound(runs, rows, AddFinding(row))
    BY <1>4, <2>1 DEF Sound
  <2>3. QED
    BY <1>2, <1>5, <2>1, <2>2, TalkOne
<1>6. CASE \E f \in DOMAIN rows["findings"] : Then(u, <<Rewrite(f, row)>>)
  <2>1. PICK f \in DOMAIN rows["findings"] : Then(u, <<Rewrite(f, row)>>)
    BY <1>6
  <2>2. f \in Nat
    BY RowsPaired, RowsOf DEF Inv
  <2>3. /\ Rewrite(f, row) \in Element /\ Rewrite(f, row).do = "rewrite"
        /\ Rewrite(f, row).row = row /\ Promises(Rewrite(f, row)) = {}
    BY <1>3, <2>2, RowSteps DEF Rewrite, Promises
  <2>4. Evidence => Sound(runs, rows, Rewrite(f, row))
    BY <1>4, <2>3 DEF Sound
  <2>5. QED
    BY <1>2, <2>1, <2>3, <2>4, TalkOne
<1>7. QED
  BY <1>2, <1>5, <1>6

\* The evidence of a finding is of its kind.
LEMMA EvidenceKind ==
    ASSUME Evidence, NEW f, Legible(f)
    PROVE  /\ Faithful(runs, rows["findings"][f])
           /\ DemoEvidence(f) <=> rows["findings"][f].demo
<1>1. /\ f \in DOMAIN rows["findings"]
      /\ FindingSound(runs, rows["signals"], rows["findings"][f])
  BY DEF Legible, Evidence, TablesSound
<1>2. \A i \in rows["findings"][f].signals :
          /\ rows["signals"][i].run = rows["findings"][f].run
          /\ Faithful(runs, rows["signals"][i])
  BY <1>1 DEF FindingSound, Evidence, TablesSound
<1>3. QED
  BY <1>1, <1>2 DEF FindingSound, Faithful, DemoEvidence

LEMMA AuditFindingInv ==
    ASSUME Inv, NEW u \in Session, AuditFinding(u)
    PROVE  Inv'
<1>1. PICK left : left = Step(u).left
  OBVIOUS
<1>2. /\ Now(u, "audit")
      /\ UNCHANGED <<calls, erased>> /\ UNCHANGED <<tables, seen>>
  BY DEF AuditFinding, Quiet
<1>3. \/ Then(u, <<>>)
      \/ Raise(u)
      \/ \E f \in left :
            /\ Legible(f)
            /\ \E v \in Verdict \cup {"Demo Audited"} :
                  Then(u, <<Record([run |-> rows["findings"][f].run, demo |-> DemoEvidence(f),
                                    status |-> IF DemoEvidence(f) THEN "Demo Audited" ELSE "active",
                                    finding |-> f, decision |-> v]),
                            Audit(left \ {f})>>)
  BY <1>1 DEF AuditFinding
<1>4. left \in SUBSET Nat
  BY <1>1, <1>2, StepTyped DEF Inv
<1>5. UNCHANGED <<tables, seen, calls, erased>>
  BY <1>2
<1>6. CASE Then(u, <<>>)
  BY <1>2, <1>6, Blank0, TalkBlank
<1>7. CASE Raise(u)
  BY <1>5, <1>7, StopLemma
<1>8. ASSUME NEW f \in left, Legible(f), NEW v \in Verdict \cup {"Demo Audited"},
             Then(u, <<Record([run |-> rows["findings"][f].run, demo |-> DemoEvidence(f),
                               status |-> IF DemoEvidence(f) THEN "Demo Audited" ELSE "active",
                               finding |-> f, decision |-> v]),
                       Audit(left \ {f})>>)
      PROVE  Inv'
  <2>1. PICK demo : demo = DemoEvidence(f)
    OBVIOUS
  <2>2. PICK status : status = IF DemoEvidence(f) THEN "Demo Audited" ELSE "active"
    OBVIOUS
  <2>3. PICK row : row = [run |-> rows["findings"][f].run, demo |-> demo, status |-> status,
                          finding |-> f, decision |-> v]
    OBVIOUS
  <2>4. PICK p : p = <<Record(row), Audit(left \ {f})>>
    OBVIOUS
  <2>5. Then(u, p)
    BY <1>8, <2>1, <2>2, <2>3, <2>4
  <2>6. rows["findings"][f].run \in Nat
    <3>1. rows["findings"][f] \in FindingRow
      BY <1>8, RowsPaired, RowsOf DEF Inv, Legible
    <3>2. QED
      BY <3>1 DEF FindingRow
  <2>7. row \in AuditRow /\ row.run = rows["findings"][f].run /\ row.demo = demo
    <3>1. status \in Status
      BY <2>2 DEF Status
    <3>2. demo \in BOOLEAN
      BY <2>1 DEF DemoEvidence
    <3>3. QED
      BY <1>4, <1>8, <2>3, <2>6, <3>1, <3>2 DEF AuditRow
  <2>8. /\ Record(row) \in Element /\ Record(row).do = "record" /\ Record(row).row = row
        /\ Audit(left \ {f}) \in Element /\ Audit(left \ {f}).do = "audit"
    BY <1>4, <2>7, AuditSteps DEF Record, Audit
  <2>9. /\ p \in Seq(Element) /\ Len(p) = 2
        /\ p[1] = Record(row) /\ p[2] = Audit(left \ {f})
    BY <2>4, <2>8, Program2
  <2>10. \A i \in 1 .. Len(p) : \/ p[i].do = "record" /\ p[i].row = row
                                \/ p[i].do = "audit"
    <3>1. \A i \in 1 .. Len(p) : i = 1 \/ i = 2
      BY <2>9, Pair
    <3>2. QED
      BY <2>8, <2>9, <3>1
  <2>11. Apt(p, todo[u][1])
    BY <2>10 DEF Apt, Promises
  <2>12. Evidence => Faithful(runs, row)
    <3>1. SUFFICES ASSUME Evidence
                   PROVE  Faithful(runs, row)
      OBVIOUS
    <3>2. /\ Faithful(runs, rows["findings"][f])
          /\ DemoEvidence(f) <=> rows["findings"][f].demo
      BY <1>8, <3>1, EvidenceKind
    <3>3. QED
      BY <2>1, <2>7, <3>2 DEF Faithful
  <2>13. Evidence => \A i \in 1 .. Len(p) : Sound(runs, rows, p[i])
    BY <2>10, <2>12 DEF Sound
  <2>14. p[1].do = "record"
    BY <2>8, <2>9
  <2>15. todo[u] # <<>> /\ todo[u][1].do = "audit"
    BY <1>2, HeadLemma DEF Inv
  <2>16. QED
    BY <1>5, <2>5, <2>9, <2>11, <2>13, <2>14, <2>15, TalkLemma
<1>9. QED
  BY <1>3, <1>6, <1>7, <1>8

LEMMA PromisesOf ==
    ASSUME NEW s
    PROVE  /\ s.do = "promote" => Promises(s) = s.left
           /\ s.do = "insert" => Promises(s) = {s.row.audit}
           /\ s.do \notin {"promote", "insert"} => Promises(s) = {}
BY DEF Promises

LEMMA PromoteAuditInv ==
    ASSUME Inv, NEW u \in Session, PromoteAudit(u)
    PROVE  Inv'
<1>1. PICK left : left = Step(u).left
  OBVIOUS
<1>2. /\ Now(u, "promote")
      /\ UNCHANGED <<calls, erased>> /\ UNCHANGED <<tables, seen>>
  BY DEF PromoteAudit, Quiet
<1>3. \/ Then(u, <<>>)
      \/ Raise(u)
      \/ \E a \in left :
            /\ a \in DOMAIN rows["audits"]
            /\ Then(u, <<Resolve,
                         Insert([run |-> rows["audits"][a].run,
                                 demo |-> rows["audits"][a].demo
                                          \/ DemoEvidence(rows["audits"][a].finding),
                                 audit |-> a, finding |-> rows["audits"][a].finding]),
                         Promote(left \ {a})>>)
  BY <1>1 DEF PromoteAudit
<1>4. left \in SUBSET Nat
  BY <1>1, <1>2, StepTyped DEF Inv
<1>5. UNCHANGED <<tables, seen, calls, erased>>
  BY <1>2
<1>6. CASE Then(u, <<>>)
  BY <1>2, <1>6, Blank0, TalkBlank
<1>7. CASE Raise(u)
  BY <1>5, <1>7, StopLemma
<1>8. ASSUME NEW a \in left, a \in DOMAIN rows["audits"],
             Then(u, <<Resolve,
                       Insert([run |-> rows["audits"][a].run,
                               demo |-> rows["audits"][a].demo
                                        \/ DemoEvidence(rows["audits"][a].finding),
                               audit |-> a, finding |-> rows["audits"][a].finding]),
                       Promote(left \ {a})>>)
      PROVE  Inv'
  <2>1. PICK audit : audit = rows["audits"][a]
    OBVIOUS
  <2>2. PICK demo : demo = (audit.demo \/ DemoEvidence(audit.finding))
    OBVIOUS
  <2>3. PICK row : row = [run |-> audit.run, demo |-> demo, audit |-> a,
                          finding |-> audit.finding]
    OBVIOUS
  <2>4. PICK p : p = <<Resolve, Insert(row), Promote(left \ {a})>>
    OBVIOUS
  <2>5. Then(u, p)
    BY <1>8, <2>1, <2>2, <2>3, <2>4
  <2>6. audit \in AuditRow
    BY <1>8, <2>1, RowsPaired, RowsOf DEF Inv
  <2>7. demo \in BOOLEAN /\ (~demo => ~audit.demo)
    BY <2>2
  <2>8. /\ row \in NewOpportunity
        /\ row.run = audit.run /\ row.demo = demo /\ row.audit = a /\ row.finding = audit.finding
    BY <1>4, <1>8, <2>3, <2>6, <2>7 DEF AuditRow, NewOpportunity
  <2>9. PICK rest : rest = left \ {a}
    OBVIOUS
  <2>10. /\ Insert(row) \in Element /\ Insert(row).do = "insert" /\ Insert(row).row = row
         /\ Promote(rest) \in Element /\ Promote(rest).do = "promote"
         /\ Promote(rest).left = rest
         /\ Resolve \in Element /\ Resolve.do = "resolve"
    BY <1>4, <2>8, <2>9, AuditSteps, PlainSteps DEF Insert, Promote, Resolve
  <2>11. /\ p \in Seq(Element) /\ Len(p) = 3
         /\ p[1] = Resolve /\ p[2] = Insert(row) /\ p[3] = Promote(rest)
    BY <2>4, <2>9, <2>10, Program3
  <2>12. \A i \in 1 .. Len(p) : i = 1 \/ i = 2 \/ i = 3
    BY <2>11, Triple
  <2>13. /\ p[1].do = "resolve" /\ Promises(p[1]) = {}
         /\ p[2].do = "insert" /\ p[2].row = row /\ Promises(p[2]) = {a}
         /\ p[3].do = "promote" /\ p[3].left = rest /\ Promises(p[3]) = rest
    BY <2>8, <2>10, <2>11, PromisesOf
  <2>14. /\ todo[u] # <<>> /\ todo[u][1].do = "promote" /\ Step(u) = todo[u][1]
         /\ Promises(todo[u][1]) = left
    BY <1>1, <1>2, HeadLemma, PromisesOf DEF Inv
  <2>15. Apt(p, todo[u][1])
    <3>1. \A i \in 1 .. Len(p) : p[i].do \notin {"insertRun", "store", "select"}
      BY <2>12, <2>13
    <3>2. {a} \cap rest = {}
      BY <2>9
    <3>3. \A i, j \in 1 .. Len(p) : i # j => Promises(p[i]) \cap Promises(p[j]) = {}
      BY <2>12, <2>13, <3>2
    <3>4. {a} \subseteq left /\ rest \subseteq left
      BY <1>8, <2>9
    <3>5. \A i \in 1 .. Len(p) : Promises(p[i]) \subseteq left
      BY <2>12, <2>13, <3>4
    <3>6. QED
      BY <2>14, <3>1, <3>3, <3>5 DEF Apt
  <2>16. ASSUME Evidence
         PROVE  \A i \in 1 .. Len(p) : Sound(runs, rows, p[i])
    <3>1. \A b \in left : b \in DOMAIN rows["audits"] /\ Decided(rows["audits"][b])
      BY <1>1, <1>2, <2>14, <2>16, HeadSound DEF Sound, Inv
    <3>2. Promised(rows["audits"], row)
      BY <1>8, <2>1, <2>7, <2>8, <3>1 DEF Promised, Decided
    <3>3. Sound(runs, rows, p[1])
      BY <2>13 DEF Sound
    <3>4. Sound(runs, rows, p[2])
      BY <2>13, <3>2 DEF Sound
    <3>5. Sound(runs, rows, p[3])
      BY <2>9, <2>13, <3>1 DEF Sound
    <3>6. QED
      BY <2>12, <3>3, <3>4, <3>5
  <2>17. QED
    BY <1>5, <2>5, <2>11, <2>13, <2>14, <2>15, <2>16, TalkLemma
<1>9. QED
  BY <1>3, <1>6, <1>7, <1>8

LEMMA ResolveRunInv ==
    ASSUME Inv, NEW u \in Session, ResolveRun(u)
    PROVE  Inv'
<1>1. /\ Now(u, "resolve")
      /\ UNCHANGED <<calls, erased>> /\ UNCHANGED tables
      /\ UNCHANGED <<mode, runs, rows>>
  BY DEF ResolveRun, Quiet, tables
<1>2. TypeInv
  BY DEF Inv
<1>3. /\ todo[u] # <<>> /\ todo[u][1].do = "resolve"
      /\ mode \in Mode
  BY <1>1, <1>2, HeadLemma DEF TypeInv
<1>4. CASE Active = {}
  <2>1. PICK m \in Mode : m = mode
    BY <1>3
  <2>2. /\ Then(u, <<Create(m)>>)
        /\ UNCHANGED <<tables, seen, calls, erased>>
    BY <1>1, <1>4, <2>1 DEF ResolveRun
  <2>3. PICK p : p = <<Create(m)>>
    OBVIOUS
  <2>4. Create(m) \in Element /\ Create(m).do = "create" /\ "create" \in Blank
    BY <2>1, ModeSteps DEF Create, Blank
  <2>5. p \in Seq(Element) /\ Len(p) = 1 /\ p[1] = Create(m)
    BY <2>3, <2>4, Program1
  <2>6. \A i \in 1 .. Len(p) : p[i].do \in Blank
    <3>1. \A i \in 1 .. Len(p) : i = 1
      BY <2>5
    <3>2. QED
      BY <2>4, <2>5, <3>1
  <2>7. Then(u, p) /\ UNCHANGED <<tables, seen, calls, erased>>
    BY <2>2, <2>3
  <2>8. Len(p) >= 1 /\ p[1].do = "create"
    BY <2>4, <2>5
  <2>9. todo[u][1].do # "select"
    BY <1>3
  <2>10. QED
    BY <1>3, <2>5, <2>6, <2>7, <2>8, <2>9, BlankTalk
<1>5. CASE Active # {}
  <2>1. PICK r : r = Newest(Active)
    OBVIOUS
  <2>2. r \in DOMAIN runs /\ r \in Nat \ {0} /\ runs[r].mode \in Mode
    BY <1>2, <1>5, <2>1, RunsLemma
  <2>3. PICK p : p = IF \E d \in DOMAIN runs : runs[d].mode = "demo" THEN <<>> ELSE <<History>>
    OBVIOUS
  <2>4. BlankProgram(p)
    BY <2>3, PlainBlank, Blank0, Blank1
  <2>5. Then(u, p) /\ seen' = [seen EXCEPT ![u] = [id |-> r, mode |-> runs[r].mode]]
    BY <1>5, <2>1, <2>3 DEF ResolveRun, See
  <2>6. Moves(u, p)
    BY <1>2, <1>3, <2>4, <2>5, ThenLemma DEF BlankProgram
  <2>7. /\ seen' \in [Session -> [id : Nat, mode : Mode]]
        /\ seen'[u].id = r /\ seen'[u].mode = runs[r].mode
        /\ \A v \in Session : v # u => seen'[v] = seen[v]
    BY <1>2, <2>2, <2>5 DEF TypeInv
  <2>8. TypeInv'
    BY <1>1, <1>2, <2>6, <2>7 DEF TypeInv, Moves
  <2>9. ASSUME Evidence
        PROVE  Evidence'
    <3>1. /\ Apt(p, todo[u][1])
          /\ \A i \in 1 .. Len(p) : /\ Sound(runs', rows', p[i])
                                    /\ p[i].do \notin {"insertRun", "store"}
      BY <2>4, BlankApt DEF BlankProgram
    <3>2. Len(p) \in Nat
      BY <2>4, LenProperties DEF BlankProgram
    <3>3. Len(p) >= 1 => p[1].do \notin {"insertRun", "store"}
      BY <3>1, <3>2
    <3>4. Keeps /\ TablesSound' /\ Active' \subseteq Active /\ \A a : Made(a)' \subseteq Made(a)
      BY <1>1, <2>9, SameTables DEF Evidence
    <3>5. IF seen'[u].id = 0
          THEN Len(p) >= 1 /\ p[1].do \in {"resolve", "create", "insertRun"}
          ELSE seen'[u].id \in DOMAIN runs' /\ runs'[seen'[u].id].mode = seen'[u].mode
      BY <1>1, <2>2, <2>7
    <3>6. QED
      BY <1>2, <1>3, <2>6, <2>7, <2>9, <3>1, <3>3, <3>4, <3>5, StepLemma
  <2>10. QED
    BY <1>1, <2>8, <2>9 DEF Inv
<1>6. QED
  BY <1>4, <1>5

\* Programs, and what the sessions saw, when a program is put first that
\* promises nothing; the parts that count are left to the action.
LEMMA PartsLemma ==
    ASSUME TypeInv, Evidence, NEW u \in Session, NEW a \in Element, Moves(u, <<a>>),
           UNCHANGED <<runs, rows, seen>>,
           a.do # "select", Promises(a) \subseteq Promises(todo[u][1]) \/ todo[u][1].do = "select",
           Sound(runs, rows, a),
           \/ todo[u][1].do \notin {"resolve", "create", "insertRun"}
           \/ a.do \in {"resolve", "create", "insertRun"},
           a.do = "store" => (a.demo <=> seen[u].mode = "demo")
    PROVE  ProgramsSound' /\ ProgramsOrderly' /\ SeenSound' /\ TablesSound'
<1>1. PICK p : p = <<a>>
  OBVIOUS
<1>2. p \in Seq(Element) /\ Len(p) = 1 /\ p[1] = a
  BY <1>1, Program1
<1>3. \A i \in 1 .. Len(p) : i = 1 /\ p[i] = a
  BY <1>2
<1>4. Keeps /\ TablesSound'
  BY SameTables DEF Evidence
<1>5. Apt(p, todo[u][1])
  BY <1>3 DEF Apt
<1>6. \A i \in 1 .. Len(p) : Sound(runs', rows', p[i])
  BY <1>3
<1>7. ProgramsSound' /\ ProgramsOrderly'
  BY <1>1, <1>4, <1>5, <1>6, ProgramsLemma DEF Evidence
<1>8. /\ Follows(todo'[u], p, todo[u])
      /\ todo[u] # <<>>
  <2>1. Follows(todo'[u], p, todo[u])
    BY <1>1 DEF Moves
  <2>2. Len(<<>>) = 0
    OBVIOUS
  <2>3. QED
    BY <2>1, <2>2 DEF Follows
<1>9. IF seen'[u].id = 0
      THEN Len(p) >= 1 /\ p[1].do \in {"resolve", "create", "insertRun"}
      ELSE seen'[u].id \in DOMAIN runs' /\ runs'[seen'[u].id].mode = seen'[u].mode
  <2>1. CASE seen[u].id = 0
    <3>1. todo[u][1].do \in {"resolve", "create", "insertRun"}
      BY <1>8, <2>1 DEF Evidence, SeenSound
    <3>2. QED
      BY <1>2, <2>1, <3>1
  <2>2. CASE seen[u].id # 0
    BY <2>2 DEF Evidence, SeenSound
  <2>3. QED
    BY <2>1, <2>2
<1>10. Len(p) >= 1 /\ p[1].do = "store" => (p[1].demo <=> seen'[u].mode = "demo")
  BY <1>2
<1>11. SeenSound'
  BY <1>1, <1>4, <1>9, <1>10, SeenLemma DEF Evidence
<1>12. QED
  BY <1>4, <1>7, <1>11

LEMMA OneMove ==
    ASSUME Inv, NEW u \in Session, NEW do, Now(u, do), NEW a \in Element, Then(u, <<a>>),
           UNCHANGED <<tables, seen>>, UNCHANGED <<calls, erased>>
    PROVE  /\ TypeInv /\ TypeInv' /\ Moves(u, <<a>>)
           /\ todo[u] # <<>> /\ todo[u][1].do = do
           /\ UNCHANGED <<mode, runs, rows, seen, calls, erased>>
<1>1. TypeInv
  BY DEF Inv
<1>2. todo[u] # <<>> /\ todo[u][1].do = do
  BY <1>1, HeadLemma
<1>3. PICK p : p = <<a>>
  OBVIOUS
<1>4. p \in Seq(Element)
  BY <1>3
<1>5. Moves(u, p)
  BY <1>1, <1>2, <1>3, <1>4, ThenLemma
<1>6. UNCHANGED <<mode, runs, rows, seen, calls, erased>>
  BY DEF tables
<1>7. TypeInv'
  BY <1>1, <1>5, <1>6 DEF TypeInv, Moves
<1>8. QED
  BY <1>1, <1>2, <1>3, <1>5, <1>6, <1>7

LEMMA CreateRunInv ==
    ASSUME Inv, NEW u \in Session, CreateRun(u)
    PROVE  Inv'
<1>1. PICK m : m = Step(u).mode
  OBVIOUS
<1>2. /\ Now(u, "create")
      /\ UNCHANGED <<calls, erased>> /\ UNCHANGED <<tables, seen>>
      /\ IF Active # {} THEN Raise(u) ELSE Then(u, <<InsertRun(m)>>)
  BY <1>1 DEF CreateRun, Quiet
<1>3. CASE Active # {}
  <2>1. UNCHANGED <<tables, seen, calls, erased>>
    BY <1>2
  <2>2. QED
    BY <1>2, <1>3, <2>1, StopLemma
<1>4. CASE Active = {}
  <2>1. m \in Mode
    BY <1>1, <1>2, StepTyped DEF Inv
  <2>2. PICK a : a = InsertRun(m)
    OBVIOUS
  <2>3. a \in Element /\ a.do = "insertRun" /\ Promises(a) = {}
    <3>1. a \in Element /\ a.do = "insertRun"
      BY <2>1, <2>2, ModeSteps DEF InsertRun
    <3>2. QED
      BY <3>1, PromisesOf
  <2>4. Then(u, <<a>>)
    BY <1>2, <1>4, <2>2
  <2>5. /\ TypeInv /\ TypeInv' /\ Moves(u, <<a>>)
        /\ todo[u] # <<>> /\ todo[u][1].do = "create"
        /\ UNCHANGED <<mode, runs, rows, seen, calls, erased>>
    BY <1>2, <2>3, <2>4, OneMove
  <2>6. ASSUME Evidence
        PROVE  Evidence'
    <3>1. Sound(runs, rows, a)
      BY <2>3 DEF Sound
    <3>2. ProgramsSound' /\ ProgramsOrderly' /\ SeenSound' /\ TablesSound'
      BY <2>3, <2>5, <2>6, <3>1, PartsLemma
    <3>3. Active' = Active /\ \A b : Made(b)' \subseteq Made(b)
      BY <2>5, SameTables
    <3>4. Starting' \subseteq Session
      BY DEF Starting
    <3>5. /\ Cardinality(Active') = 0
          /\ Cardinality(Starting') \in Nat
          /\ Cardinality(Starting') <= Cardinality(Session)
      BY <1>4, <3>3, <3>4, SessionCount, FS_EmptySet
    <3>6. StartsBounded'
      BY <3>5 DEF StartsBounded
    <3>7. PICK p : p = <<a>>
      OBVIOUS
    <3>8. \A i \in 1 .. Len(p) : Promises(p[i]) \subseteq Promises(todo[u][1])
      <4>1. Len(p) = 1 /\ p[1] = a
        BY <2>3, <3>7, Program1
      <4>2. \A i \in 1 .. Len(p) : p[i] = a
        BY <4>1
      <4>3. QED
        BY <2>3, <4>2
    <3>9. PromotionsBounded'
      BY <2>5, <2>6, <3>3, <3>7, <3>8, PromotionsLemma DEF Evidence
    <3>10. QED
      BY <3>2, <3>6, <3>9 DEF Evidence
  <2>7. QED
    BY <2>5, <2>6 DEF Inv
<1>5. QED
  BY <1>3, <1>4

LEMMA AdmitSignalInv ==
    ASSUME Inv, NEW u \in Session, AdmitSignal(u)
    PROVE  Inv'
<1>1. PICK s, d : s = Step(u).source /\ d = Step(u).demo
  OBVIOUS
<1>2. /\ Now(u, "admit")
      /\ UNCHANGED <<calls, erased>> /\ UNCHANGED <<tables, seen>>
      /\ \/ Raise(u)
         \/ (seen[u].mode = "demo") = d /\ Then(u, <<Store(s, d)>>)
  BY <1>1 DEF AdmitSignal, Quiet
<1>3. CASE Raise(u)
  <2>1. UNCHANGED <<tables, seen, calls, erased>>
    BY <1>2
  <2>2. QED
    BY <1>3, <2>1, StopLemma
<1>4. CASE (seen[u].mode = "demo") = d /\ Then(u, <<Store(s, d)>>)
  <2>1. s \in Source /\ d \in BOOLEAN
    BY <1>1, <1>2, StepTyped DEF Inv
  <2>2. PICK a : a = Store(s, d)
    OBVIOUS
  <2>3. a \in Element /\ a.do = "store" /\ a.demo = d /\ Promises(a) = {}
    <3>1. a \in Element /\ a.do = "store" /\ a.demo = d
      BY <2>1, <2>2, SignalSteps DEF Store
    <3>2. QED
      BY <3>1, PromisesOf
  <2>4. Then(u, <<a>>)
    BY <1>4, <2>2
  <2>5. /\ TypeInv /\ TypeInv' /\ Moves(u, <<a>>)
        /\ todo[u] # <<>> /\ todo[u][1].do = "admit"
        /\ UNCHANGED <<mode, runs, rows, seen, calls, erased>>
    BY <1>2, <2>3, <2>4, OneMove
  <2>6. a.demo <=> seen[u].mode = "demo"
    BY <1>4, <2>3
  <2>7. ASSUME Evidence
        PROVE  Evidence'
    <3>1. Sound(runs, rows, a)
      BY <2>3 DEF Sound
    <3>2. ProgramsSound' /\ ProgramsOrderly' /\ SeenSound' /\ TablesSound'
      BY <2>3, <2>5, <2>6, <2>7, <3>1, PartsLemma
    <3>3. Active' \subseteq Active /\ \A b : Made(b)' \subseteq Made(b)
      BY <2>5, SameTables
    <3>4. PICK p : p = <<a>>
      OBVIOUS
    <3>5. Len(p) = 1 /\ p[1] = a /\ Moves(u, p)
      BY <2>3, <2>5, <3>4, Program1
    <3>6. Len(p) >= 1 => p[1].do # "insertRun"
      BY <2>3, <3>5
    <3>7. StartsBounded'
      BY <2>5, <2>7, <3>3, <3>5, <3>6, StartsLemma DEF Evidence
    <3>8. \A i \in 1 .. Len(p) : Promises(p[i]) \subseteq Promises(todo[u][1])
      <4>1. \A i \in 1 .. Len(p) : p[i] = a
        BY <3>5
      <4>2. QED
        BY <2>3, <4>1
    <3>9. PromotionsBounded'
      BY <2>5, <2>7, <3>3, <3>5, <3>8, PromotionsLemma DEF Evidence
    <3>10. QED
      BY <3>2, <3>7, <3>9 DEF Evidence
  <2>8. QED
    BY <2>5, <2>7 DEF Inv
<1>5. QED
  BY <1>2, <1>3, <1>4

LEMMA SelectAuditsInv ==
    ASSUME Inv, NEW u \in Session, SelectAudits(u)
    PROVE  Inv'
<1>1. PICK A : A = {a \in DOMAIN rows["audits"] : LET row == rows["audits"][a] IN
                       /\ row.run = seen[u].id
                       /\ row.status # "archived"
                       /\ row.demo = (seen[u].mode = "demo")
                       /\ row.decision = IF seen[u].mode = "demo" THEN "Demo Audited"
                                         ELSE "Approve Opportunity"
                       /\ Unused(a)}
  OBVIOUS
<1>2. /\ Now(u, "select")
      /\ UNCHANGED <<calls, erased>> /\ UNCHANGED <<tables, seen>>
      /\ Then(u, <<Promote(A)>>)
  BY <1>1 DEF SelectAudits, Quiet
<1>3. A \in SUBSET Nat
  <2>1. DOMAIN rows["audits"] \subseteq Nat
    BY RowsPaired, RowsOf DEF Inv
  <2>2. A \subseteq DOMAIN rows["audits"]
    BY <1>1
  <2>3. QED
    BY <2>1, <2>2
<1>4. PICK a : a = Promote(A)
  OBVIOUS
<1>5. a \in Element /\ a.do = "promote" /\ a.left = A /\ Promises(a) = A
  <2>1. a \in Element /\ a.do = "promote" /\ a.left = A
    BY <1>3, <1>4, AuditSteps DEF Promote
  <2>2. QED
    BY <2>1, PromisesOf
<1>6. Then(u, <<a>>)
  BY <1>2, <1>4
<1>7. /\ TypeInv /\ TypeInv' /\ Moves(u, <<a>>)
      /\ todo[u] # <<>> /\ todo[u][1].do = "select"
      /\ UNCHANGED <<mode, runs, rows, seen, calls, erased>>
  BY <1>2, <1>5, <1>6, OneMove
<1>8. \A b \in A : /\ b \in DOMAIN rows["audits"] /\ Decided(rows["audits"][b])
                   /\ Made(b) = {}
  BY <1>1 DEF Decided, Unused, Made
<1>9. PICK p : p = <<a>>
  OBVIOUS
<1>10. Len(p) = 1 /\ p[1] = a /\ Moves(u, p)
  BY <1>5, <1>7, <1>9, Program1
<1>11. \A i \in 1 .. Len(p) : p[i] = a
  BY <1>10
<1>12. ASSUME Evidence
       PROVE  Evidence'
  <2>1. Sound(runs, rows, a)
    BY <1>5, <1>8 DEF Sound
  <2>2. ProgramsSound' /\ ProgramsOrderly' /\ SeenSound' /\ TablesSound'
    BY <1>5, <1>7, <1>12, <2>1, PartsLemma
  <2>3. Active' \subseteq Active /\ \A b : Made(b)' = Made(b)
    BY <1>7, SameTables
  <2>4. Len(p) >= 1 => p[1].do # "insertRun"
    BY <1>5, <1>10
  <2>5. StartsBounded'
    BY <1>7, <1>10, <1>12, <2>3, <2>4, StartsLemma DEF Evidence
  <2>6. ASSUME NEW b \in Nat
        PROVE  Cardinality(Made(b)') + Cardinality(Promoting(b)') <= Cardinality(Session)
    <3>1. /\ Cardinality(Made(b)) \in Nat
          /\ Cardinality(Session) \in Nat
      BY <1>7, MadeFinite, SessionCount
    <3>2. CASE b \in A
      <4>1. Cardinality(Made(b)') = 0
        BY <1>8, <2>3, <3>2, FS_EmptySet
      <4>2. Promoting(b)' \subseteq Session
        BY DEF Promoting
      <4>3. /\ Cardinality(Promoting(b)') \in Nat
            /\ Cardinality(Promoting(b)') <= Cardinality(Session)
        BY <4>2, SessionCount
      <4>4. QED
        BY <4>1, <4>3
    <3>3. CASE b \notin A
      <4>1. \A i \in 1 .. Len(p) : b \in Promises(p[i]) => b \in Promises(todo[u][1])
        BY <1>5, <1>11, <3>3
      <4>2. Promoting(b)' \subseteq Promoting(b)
        BY <1>7, <1>10, <4>1, PromotingLemma
      <4>3. Promoting(b) \subseteq Session
        BY DEF Promoting
      <4>4. /\ Cardinality(Promoting(b)) \in Nat
            /\ Cardinality(Promoting(b)') \in Nat
            /\ Cardinality(Promoting(b)') <= Cardinality(Promoting(b))
        BY <4>2, <4>3, SessionCount, FS_Subset, FS_CardinalityType
      <4>5. Cardinality(Made(b)) + Cardinality(Promoting(b)) <= Cardinality(Session)
        BY <1>12 DEF Evidence, PromotionsBounded
      <4>6. QED
        BY <2>3, <3>1, <4>4, <4>5
    <3>4. QED
      BY <3>2, <3>3
  <2>7. PromotionsBounded'
    BY <2>6 DEF PromotionsBounded
  <2>8. QED
    BY <2>2, <2>5, <2>7 DEF Evidence
<1>13. QED
  BY <1>7, <1>12 DEF Inv
---------------------------------------------------------------------------
(* Commits that write runs.                                                *)

\* Rows are as they were, and runs keep their mode.
LEMMA RunsKept ==
    ASSUME TablesSound, UNCHANGED rows,
           \A r \in DOMAIN runs : r \in DOMAIN runs' /\ runs'[r].mode = runs[r].mode
    PROVE  Keeps /\ TablesSound' /\ \A a : Made(a)' = Made(a)
<1>1. Keeps
  BY DEF Keeps, SameSignal, SameAudit
<1>2. /\ \A f \in DOMAIN rows'["findings"] :
            /\ f \in DOMAIN rows["findings"]
            /\ SameFinding(rows["findings"][f], rows'["findings"][f])
      /\ \A o \in DOMAIN rows'["opportunities"] :
            /\ o \in DOMAIN rows["opportunities"]
            /\ SameOpportunity(rows["opportunities"][o], rows'["opportunities"][o])
      /\ \A i \in DOMAIN rows'["signals"] : i \in DOMAIN rows["signals"]
      /\ \A a \in DOMAIN rows'["audits"] : a \in DOMAIN rows["audits"]
  BY DEF SameFinding, SameOpportunity
<1>3. TablesSound'
  BY <1>1, <1>2, TablesLemma
<1>4. \A a : Made(a)' = Made(a)
  BY DEF Made
<1>5. QED
  BY <1>1, <1>3, <1>4

\* A commit that changes runs, but neither their mode nor which are active
\* beyond ending some.
LEMMA RunsLine ==
    ASSUME Inv, NEW u \in Session, NEW do, Now(u, do), Then(u, <<>>),
           UNCHANGED <<calls, erased>>, UNCHANGED <<rows, seen>>,
           do \notin {"select", "resolve", "create", "insertRun"},
           mode' \in Mode, Numbered(runs', Run),
           \A r \in DOMAIN runs : r \in DOMAIN runs' /\ runs'[r].mode = runs[r].mode,
           Active' \subseteq Active
    PROVE  Inv'
<1>1. PICK p : p = <<>>
  OBVIOUS
<1>2. p \in Seq(Element) /\ Len(p) = 0 /\ BlankProgram(p)
  BY <1>1, Program0, Blank0
<1>3. TypeInv /\ todo[u] # <<>> /\ todo[u][1].do = do
  BY HeadLemma DEF Inv
<1>4. Moves(u, p)
  BY <1>1, <1>2, <1>3, ThenLemma
<1>5. TypeInv'
  BY <1>3, <1>4 DEF TypeInv, Moves
<1>6. ASSUME Evidence
      PROVE  Evidence'
  <2>1. Keeps /\ TablesSound' /\ \A a : Made(a)' \subseteq Made(a)
    BY <1>6, RunsKept DEF Evidence
  <2>2. Apt(p, todo[u][1]) /\ \A i \in 1 .. Len(p) : Sound(runs', rows', p[i])
    BY <1>2, BlankApt DEF BlankProgram
  <2>3. ~(Len(p) >= 1)
    BY <1>2
  <2>4. seen[u].id # 0 /\ seen[u].id \in DOMAIN runs /\ runs[seen[u].id].mode = seen[u].mode
    BY <1>3, <1>6 DEF Evidence, SeenSound
  <2>5. IF seen'[u].id = 0
        THEN Len(p) >= 1 /\ p[1].do \in {"resolve", "create", "insertRun"}
        ELSE seen'[u].id \in DOMAIN runs' /\ runs'[seen'[u].id].mode = seen'[u].mode
    BY <2>4
  <2>6. \A v \in Session : v # u => seen'[v] = seen[v]
    OBVIOUS
  <2>7. QED
    BY <1>3, <1>4, <1>6, <2>1, <2>2, <2>3, <2>5, <2>6, StepLemma
<1>7. QED
  BY <1>5, <1>6 DEF Inv

\* The run a row of runs is, for one that is marked.
LEMMA MarkedRun ==
    ASSUME TypeInv, NEW r, NEW s \in {"closed", "archived"}, runs' = Marked(runs, r, s)
    PROVE  /\ Numbered(runs', Run)
           /\ \A q \in DOMAIN runs : q \in DOMAIN runs' /\ runs'[q].mode = runs[q].mode
           /\ Active' \subseteq Active
<1>1. Numbered(runs, Run)
  BY DEF TypeInv
<1>2. CASE r \notin DOMAIN runs
  BY <1>1, <1>2 DEF Marked, Active
<1>3. CASE r \in DOMAIN runs
  <2>1. PICK row : row = [runs[r] EXCEPT !.status = s]
    OBVIOUS
  <2>2. runs[r] \in Run
    BY <1>1, <1>3 DEF Numbered
  <2>3. row \in Run /\ row.mode = runs[r].mode /\ row.status = s
    BY <2>1, <2>2, RunRestated
  <2>4. runs' = [runs EXCEPT ![r] = row]
    BY <1>3, <2>1 DEF Marked
  <2>5. /\ DOMAIN runs' = DOMAIN runs /\ runs'[r] = row
        /\ \A q \in DOMAIN runs : q # r => runs'[q] = runs[q]
    BY <1>1, <1>3, <2>4 DEF Numbered
  <2>6. runs' \in [DOMAIN runs' -> Run]
    BY <1>1, <2>3, <2>4, <2>5 DEF Numbered
  <2>7. Numbered(runs', Run)
    BY <1>1, <2>5, <2>6 DEF Numbered
  <2>8. Active' \subseteq Active
    BY <2>3, <2>5 DEF Active
  <2>9. QED
    BY <2>3, <2>5, <2>7, <2>8
<1>4. QED
  BY <1>2, <1>3

LEMMA MarkRunsInv ==
    ASSUME Inv, NEW u \in Session, CloseRun(u) \/ RetireRun(u)
    PROVE  Inv'
<1>1. TypeInv /\ mode \in Mode
  BY DEF Inv, TypeInv
<1>2. CASE CloseRun(u)
  <2>1. PICK r : r = seen[u].id
    OBVIOUS
  <2>2. /\ Now(u, "close") /\ Then(u, <<>>) /\ runs' = Marked(runs, r, "closed")
        /\ UNCHANGED <<calls, erased>> /\ UNCHANGED <<rows, seen>> /\ mode' = mode
    BY <1>2, <2>1 DEF CloseRun, Quiet
  <2>3. /\ Numbered(runs', Run) /\ Active' \subseteq Active
        /\ \A q \in DOMAIN runs : q \in DOMAIN runs' /\ runs'[q].mode = runs[q].mode
    BY <1>1, <2>2, MarkedRun
  <2>4. QED
    BY <1>1, <2>2, <2>3, RunsLine
<1>3. CASE RetireRun(u)
  <2>1. PICK r : r = Step(u).run
    OBVIOUS
  <2>2. /\ Now(u, "retire") /\ Then(u, <<>>) /\ runs' = Marked(runs, r, "archived")
        /\ UNCHANGED <<calls, erased>> /\ UNCHANGED <<rows, seen>> /\ mode' = mode
    BY <1>3, <2>1 DEF RetireRun, Quiet
  <2>3. /\ Numbered(runs', Run) /\ Active' \subseteq Active
        /\ \A q \in DOMAIN runs : q \in DOMAIN runs' /\ runs'[q].mode = runs[q].mode
    BY <1>1, <2>2, MarkedRun
  <2>4. QED
    BY <1>1, <2>2, <2>3, RunsLine
<1>4. QED
  BY <1>2, <1>3

LEMMA SetStudyModeInv ==
    ASSUME Inv, NEW u \in Session, SetStudyMode(u)
    PROVE  Inv'
<1>1. /\ Now(u, "setMode") /\ Then(u, <<>>) /\ mode' = Step(u).mode
      /\ UNCHANGED <<calls, erased>> /\ UNCHANGED <<rows, seen>> /\ runs' = runs
  BY DEF SetStudyMode, Quiet
<1>2. mode' \in Mode
  BY <1>1, StepTyped DEF Inv
<1>3. Numbered(runs', Run) /\ Active' \subseteq Active
  BY <1>1 DEF Inv, TypeInv, Active
<1>4. QED
  BY <1>1, <1>2, <1>3, RunsLine

LEMMA ArchiveAllDemoRunsInv ==
    ASSUME Inv, NEW u \in Session, ArchiveAllDemoRuns(u)
    PROVE  Inv'
<1>1. /\ Now(u, "archiveDemoRuns") /\ Then(u, <<>>)
      /\ runs' = [r \in DOMAIN runs |-> IF runs[r].mode = "demo"
                                        THEN [runs[r] EXCEPT !.status = "archived"] ELSE runs[r]]
      /\ UNCHANGED <<calls, erased>> /\ UNCHANGED <<rows, seen>> /\ mode' = mode
  BY DEF ArchiveAllDemoRuns, Quiet
<1>2. Numbered(runs, Run) /\ mode \in Mode
  BY DEF Inv, TypeInv
<1>3. DOMAIN runs' = DOMAIN runs
  BY <1>1
<1>4. ASSUME NEW r \in DOMAIN runs
      PROVE  /\ runs'[r] \in Run /\ runs'[r].mode = runs[r].mode
             /\ runs'[r].status = "active" => runs[r].status = "active"
  <2>1. runs[r] \in Run
    BY <1>2 DEF Numbered
  <2>2. PICK row : row = [runs[r] EXCEPT !.status = "archived"]
    OBVIOUS
  <2>3. row \in Run /\ row.mode = runs[r].mode /\ row.status = "archived"
    BY <2>1, <2>2, RunRestated
  <2>4. runs'[r] = row \/ runs'[r] = runs[r]
    BY <1>1, <2>2
  <2>5. QED
    BY <2>1, <2>3, <2>4
<1>5. runs' \in [DOMAIN runs' -> Run]
  <2>1. PICK g : g = [r \in DOMAIN runs |-> IF runs[r].mode = "demo"
                                            THEN [runs[r] EXCEPT !.status = "archived"]
                                            ELSE runs[r]]
    OBVIOUS
  <2>2. runs' = g /\ DOMAIN g = DOMAIN runs /\ g = [r \in DOMAIN g |-> g[r]]
    BY <1>1, <2>1
  <2>3. QED
    BY <1>4, <2>2
<1>6. Numbered(runs', Run)
  BY <1>2, <1>3, <1>5 DEF Numbered
<1>7. Active' \subseteq Active
  BY <1>3, <1>4 DEF Active
<1>8. QED
  BY <1>1, <1>2, <1>3, <1>4, <1>6, <1>7, RunsLine

LEMMA AddedRun ==
    ASSUME TypeInv, NEW m \in Mode, NEW s \in {"active", "archived"}, ~Collides(runs),
           NEW i, i = NextId(runs), runs' = With(runs, NextId(runs), NewRun(m, s))
    PROVE  /\ Numbered(runs', Run) /\ i \in Nat \ {0} /\ i \notin DOMAIN runs
           /\ DOMAIN runs' = DOMAIN runs \cup {i}
           /\ runs'[i].mode = m /\ runs'[i].status = s
           /\ \A r \in DOMAIN runs : runs'[r] = runs[r]
<1>1. Numbered(runs, Run)
  BY DEF TypeInv
<1>2. i \in Nat \ {0} /\ i \notin DOMAIN runs
  BY <1>1, NextIdLemma DEF Numbered, Collides
<1>3. PICK row : row = NewRun(m, s)
  OBVIOUS
<1>4. row \in Run /\ row.mode = m /\ row.status = s
  BY <1>3, NewRunLemma
<1>5. PICK f, g : f = runs /\ g = runs'
  OBVIOUS
<1>6. PICK R, n : R = Run /\ n = i
  OBVIOUS
<1>7. /\ Numbered(f, R) /\ row \in R /\ With(f, n, row) = g
      /\ n \in Nat \ {0}
  BY <1>1, <1>2, <1>3, <1>4, <1>5, <1>6
<1>8. Numbered(g, R) /\ Added(f, g, n, row)
  BY <1>7, WithLemma
<1>9. QED
  BY <1>2, <1>4, <1>5, <1>6, <1>8 DEF Added

LEMMA InsertHistoryInv ==
    ASSUME Inv, NEW u \in Session, InsertHistory(u)
    PROVE  Inv'
<1>1. /\ Now(u, "history")
      /\ UNCHANGED <<calls, erased>> /\ UNCHANGED <<rows, seen>> /\ mode' = mode
      /\ \/ Raise(u) /\ runs' = runs
         \/ /\ ~Collides(runs) /\ Then(u, <<>>)
            /\ runs' = With(runs, NextId(runs), NewRun("demo", "archived"))
  BY DEF InsertHistory, Quiet
<1>2. CASE Raise(u) /\ runs' = runs
  <2>1. UNCHANGED <<tables, seen, calls, erased>>
    BY <1>1, <1>2 DEF tables
  <2>2. QED
    BY <1>2, <2>1, StopLemma
<1>3. CASE /\ ~Collides(runs) /\ Then(u, <<>>)
           /\ runs' = With(runs, NextId(runs), NewRun("demo", "archived"))
  <2>1. PICK i : i = NextId(runs)
    OBVIOUS
  <2>2. "demo" \in Mode /\ TypeInv /\ mode \in Mode
    BY DEF Mode, Inv, TypeInv
  <2>3. /\ Numbered(runs', Run)
        /\ DOMAIN runs' = DOMAIN runs \cup {i} /\ runs'[i].status = "archived"
        /\ \A r \in DOMAIN runs : runs'[r] = runs[r]
    BY <1>3, <2>1, <2>2, AddedRun
  <2>4. Active' \subseteq Active
    BY <2>3 DEF Active
  <2>5. \A r \in DOMAIN runs : r \in DOMAIN runs' /\ runs'[r].mode = runs[r].mode
    BY <2>3
  <2>6. QED
    BY <1>1, <1>3, <2>2, <2>3, <2>4, <2>5, RunsLine
<1>4. QED
  BY <1>1, <1>2, <1>3

LEMMA InsertNewRunInv ==
    ASSUME Inv, NEW u \in Session, InsertNewRun(u)
    PROVE  Inv'
<1>1. PICK m, i : m = Step(u).mode /\ i = NextId(runs)
  OBVIOUS
<1>2. /\ Now(u, "insertRun")
      /\ UNCHANGED <<calls, erased>> /\ rows' = rows /\ mode' = mode
      /\ \/ Raise(u) /\ UNCHANGED <<runs, seen>>
         \/ /\ ~Collides(runs) /\ Then(u, <<>>)
            /\ runs' = With(runs, NextId(runs), NewRun(m, "active"))
            /\ seen' = [seen EXCEPT ![u] = [id |-> i, mode |-> m]]
  BY <1>1 DEF InsertNewRun, Quiet, See
<1>3. CASE Raise(u) /\ UNCHANGED <<runs, seen>>
  <2>1. UNCHANGED <<tables, seen, calls, erased>>
    BY <1>2, <1>3 DEF tables
  <2>2. QED
    BY <1>3, <2>1, StopLemma
<1>4. CASE /\ ~Collides(runs) /\ Then(u, <<>>)
           /\ runs' = With(runs, NextId(runs), NewRun(m, "active"))
           /\ seen' = [seen EXCEPT ![u] = [id |-> i, mode |-> m]]
  <2>1. TypeInv /\ todo[u] # <<>> /\ todo[u][1].do = "insertRun"
    BY <1>2, HeadLemma DEF Inv
  <2>2. m \in Mode
    BY <1>1, <1>2, <2>1, StepTyped
  <2>3. /\ Numbered(runs', Run) /\ i \in Nat \ {0} /\ i \notin DOMAIN runs
        /\ DOMAIN runs' = DOMAIN runs \cup {i}
        /\ runs'[i].mode = m /\ runs'[i].status = "active"
        /\ \A r \in DOMAIN runs : runs'[r] = runs[r]
    <3>1. /\ ~Collides(runs) /\ i = NextId(runs)
          /\ runs' = With(runs, NextId(runs), NewRun(m, "active"))
      BY <1>1, <1>4
    <3>2. TypeInv
      BY <2>1
    <3>3. QED
      BY <2>2, <3>1, <3>2, AddedRun
  <2>4. PICK p : p = <<>>
    OBVIOUS
  <2>5. p \in Seq(Element) /\ Len(p) = 0 /\ BlankProgram(p)
    BY <2>4, Program0, Blank0
  <2>6. Moves(u, p)
    BY <1>4, <2>1, <2>4, <2>5, ThenLemma
  <2>7. /\ seen' \in [Session -> [id : Nat, mode : Mode]]
        /\ seen'[u].id = i /\ seen'[u].mode = m
        /\ \A v \in Session : v # u => seen'[v] = seen[v]
    BY <1>4, <2>1, <2>2, <2>3 DEF TypeInv
  <2>8. TypeInv'
    BY <1>2, <2>1, <2>3, <2>6, <2>7 DEF TypeInv, Moves
  <2>9. ASSUME Evidence
        PROVE  Evidence'
    <3>1. \A r \in DOMAIN runs : r \in DOMAIN runs' /\ runs'[r].mode = runs[r].mode
      BY <2>3
    <3>2. Keeps /\ TablesSound' /\ \A a : Made(a)' \subseteq Made(a)
      BY <1>2, <2>9, <3>1, RunsKept DEF Evidence
    <3>3. /\ Apt(p, todo[u][1]) /\ \A k \in 1 .. Len(p) : Sound(runs', rows', p[k])
          /\ \A k \in 1 .. Len(p) : Promises(p[k]) = {}
      BY <2>5, BlankApt DEF BlankProgram
    <3>4. ProgramsSound' /\ ProgramsOrderly'
      BY <2>1, <2>6, <2>9, <3>2, <3>3, ProgramsLemma DEF Evidence
    <3>5. ~(Len(p) >= 1)
      BY <2>5
    <3>6. IF seen'[u].id = 0
          THEN Len(p) >= 1 /\ p[1].do \in {"resolve", "create", "insertRun"}
          ELSE seen'[u].id \in DOMAIN runs' /\ runs'[seen'[u].id].mode = seen'[u].mode
      BY <2>3, <2>7
    <3>7. SeenSound'
      BY <2>1, <2>6, <2>7, <2>9, <3>2, <3>5, <3>6, SeenLemma DEF Evidence
    <3>8. \A k \in 1 .. Len(p) : Promises(p[k]) \subseteq Promises(todo[u][1])
      BY <3>3
    <3>9. PromotionsBounded'
      BY <2>1, <2>6, <2>9, <3>2, <3>8, PromotionsLemma DEF Evidence
    <3>10. Active' \subseteq Active \cup {i}
      BY <2>3 DEF Active
    <3>11. u \in Starting /\ Starting \subseteq Session
      BY <2>1 DEF Starting
    <3>12. Starting' \subseteq Starting \ {u}
      <4>1. ASSUME todo'[u] # <<>>
            PROVE  todo'[u][1].do # "insertRun"
        BY <2>1, <2>6, <2>9, <3>5, <4>1, NewHead DEF Evidence
      <4>2. \A v \in Session : v # u => todo'[v] = todo[v]
        BY <2>6 DEF Moves
      <4>3. QED
        BY <4>1, <4>2 DEF Starting
    <3>13. /\ IsFiniteSet(Starting) /\ Cardinality(Starting) \in Nat
           /\ Cardinality(Session) \in Nat
      BY <3>11, SessionCount
    <3>14. /\ IsFiniteSet(Starting \ {u}) /\ Cardinality(Starting \ {u}) = Cardinality(Starting) - 1
      BY <3>11, <3>13, FS_RemoveElement
    <3>15. /\ Cardinality(Starting') \in Nat
           /\ Cardinality(Starting') <= Cardinality(Starting) - 1
      BY <3>12, <3>14, FS_Subset, FS_CardinalityType
    <3>16. IsFiniteSet(Active) /\ Cardinality(Active) \in Nat
      BY <2>1, RunsLemma, FS_CardinalityType
    <3>17. /\ IsFiniteSet(Active \cup {i})
           /\ Cardinality(Active \cup {i}) \in Nat
           /\ Cardinality(Active \cup {i}) <= Cardinality(Active) + 1
      <4>1. IsFiniteSet(Active \cup {i})
        BY <3>16, FS_AddElement
      <4>2. i \notin Active
        BY <2>3 DEF Active
      <4>3. Cardinality(Active \cup {i}) = Cardinality(Active) + 1
        BY <3>16, <4>2, FS_AddElement
      <4>4. QED
        BY <3>16, <4>1, <4>3
    <3>18. /\ Cardinality(Active') \in Nat
           /\ Cardinality(Active') <= Cardinality(Active \cup {i})
      BY <3>10, <3>17, FS_Subset, FS_CardinalityType
    <3>19. Cardinality(Active) + Cardinality(Starting) <= Cardinality(Session)
      BY <2>9 DEF Evidence, StartsBounded
    <3>20. Cardinality(Active') + Cardinality(Starting') <= Cardinality(Session)
      BY <3>13, <3>15, <3>16, <3>17, <3>18, <3>19
    <3>21. StartsBounded'
      BY <3>20 DEF StartsBounded
    <3>22. QED
      BY <3>2, <3>4, <3>7, <3>9, <3>21 DEF Evidence
  <2>10. erased' = erased
    BY <1>2
  <2>11. QED
    BY <2>8, <2>9, <2>10 DEF Inv
<1>5. QED
  BY <1>2, <1>3, <1>4

\* After a deletion only the types are left to show.
LEMMA DeleteArchivedDemoInv ==
    ASSUME Inv, NEW u \in Session, DeleteArchivedDemo(u)
    PROVE  Inv'
<1>1. PICK I : I = [t \in Table |-> {i \in DOMAIN rows[t] :
                       rows[t][i].demo /\ rows[t][i].status = "archived"}]
  OBVIOUS
<1>2. PICK R : R = {r \in DOMAIN runs : runs[r].mode = "demo" /\ runs[r].status = "archived"}
  OBVIOUS
<1>3. /\ Now(u, "delete") /\ Then(u, <<>>) /\ erased' = TRUE
      /\ mode' = mode /\ seen' = seen /\ calls' = calls
      /\ runs' = Without(runs, R)
  BY <1>2 DEF DeleteArchivedDemo
<1>4. rows' = [t \in Table |-> Without(rows[t], I[t])]
  BY <1>1 DEF DeleteArchivedDemo
<1>5. TypeInv /\ todo[u] # <<>>
  BY <1>3, HeadLemma DEF Inv
<1>6. PICK p : p = <<>>
  OBVIOUS
<1>7. p \in Seq(Element)
  BY <1>6, Program0
<1>8. Moves(u, p)
  BY <1>3, <1>5, <1>6, <1>7, ThenLemma
<1>9. Numbered(Without(runs, R), Run)
  BY <1>5, WithoutLemma DEF TypeInv
<1>10. ASSUME NEW t \in Table
       PROVE  Numbered(rows'[t], RowOf(t))
  <2>1. Numbered(rows[t], RowOf(t))
    BY <1>5 DEF TypeInv
  <2>2. Numbered(Without(rows[t], I[t]), RowOf(t))
    BY <2>1, WithoutLemma
  <2>3. QED
    BY <1>4, <2>2
<1>11. DOMAIN rows' = Table
  BY <1>4
<1>12. Numbered(runs', Run)
  BY <1>3, <1>9
<1>13. TypeInv'
  BY <1>3, <1>5, <1>8, <1>10, <1>11, <1>12 DEF TypeInv, Moves
<1>14. QED
  BY <1>3, <1>13 DEF Inv
---------------------------------------------------------------------------
(* Commits that write rows.                                                *)

\* Table g has every row of f, some of them with another status.
Grown(f, g) ==
    \A i \in DOMAIN f : /\ i \in DOMAIN g
                        /\ g[i] = f[i] \/ \E s \in Status : g[i] = [f[i] EXCEPT !.status = s]

LEMMA GrownSame ==
    ASSUME NEW f, NEW g, Grown(f, g)
    PROVE  /\ Numbered(f, SignalRow) =>
                \A i \in DOMAIN f : i \in DOMAIN g /\ SameSignal(f[i], g[i])
           /\ Numbered(f, FindingRow) =>
                \A i \in DOMAIN f : i \in DOMAIN g /\ SameFinding(f[i], g[i])
           /\ Numbered(f, AuditRow) =>
                \A i \in DOMAIN f : i \in DOMAIN g /\ SameAudit(f[i], g[i])
           /\ Numbered(f, OpportunityRow) =>
                \A i \in DOMAIN f : i \in DOMAIN g /\ SameOpportunity(f[i], g[i])
<1>1. ASSUME NEW i \in DOMAIN f
      PROVE  /\ i \in DOMAIN g
             /\ f[i] \in SignalRow => SameSignal(f[i], g[i])
             /\ f[i] \in FindingRow => SameFinding(f[i], g[i])
             /\ f[i] \in AuditRow => SameAudit(f[i], g[i])
             /\ f[i] \in OpportunityRow => SameOpportunity(f[i], g[i])
  <2>1. PICK r, q : r = f[i] /\ q = g[i]
    OBVIOUS
  <2>2. i \in DOMAIN g /\ (q = r \/ \E s \in Status : q = [r EXCEPT !.status = s])
    BY <2>1 DEF Grown
  <2>3. CASE q = r
    BY <2>1, <2>2, <2>3 DEF SameSignal, SameFinding, SameAudit, SameOpportunity
  <2>4. CASE \E s \in Status : q = [r EXCEPT !.status = s]
    <3>1. /\ r \in SignalRow => SameSignal(r, q)
          /\ r \in FindingRow => SameFinding(r, q)
          /\ r \in AuditRow => SameAudit(r, q)
          /\ r \in OpportunityRow => SameOpportunity(r, q)
      BY <2>4, RestatedRows DEF SameSignal, SameFinding, SameAudit, SameOpportunity
    <3>2. QED
      BY <2>1, <2>2, <3>1
  <2>5. QED
    BY <2>2, <2>3, <2>4
<1>2. QED
  BY <1>1 DEF Numbered

\* Tables in which each new row is sound.
LEMMA GrownTables ==
    ASSUME TypeInv, TablesSound, runs' = runs,
           \A t \in {"signals", "audits", "opportunities"} : Grown(rows[t], rows'[t]),
           \A i \in DOMAIN rows'["signals"] :
               i \in DOMAIN rows["signals"] \/ Faithful(runs, rows'["signals"][i]),
           \A f \in DOMAIN rows'["findings"] :
               \/ /\ f \in DOMAIN rows["findings"]
                  /\ SameFinding(rows["findings"][f], rows'["findings"][f])
               \/ FindingSound(runs, rows["signals"], rows'["findings"][f]),
           \A a \in DOMAIN rows'["audits"] :
               a \in DOMAIN rows["audits"] \/ Faithful(runs, rows'["audits"][a]),
           \A o \in DOMAIN rows'["opportunities"] :
               \/ o \in DOMAIN rows["opportunities"]
               \/ /\ Faithful(runs, rows'["opportunities"][o])
                  /\ Promised(rows["audits"], rows'["opportunities"][o])
    PROVE  Keeps /\ TablesSound'
<1>1. /\ Numbered(rows["signals"], SignalRow) /\ Numbered(rows["audits"], AuditRow)
      /\ Numbered(rows["opportunities"], OpportunityRow)
  BY RowsOf DEF TypeInv
<1>2. \A i \in DOMAIN rows["signals"] :
         i \in DOMAIN rows'["signals"] /\ SameSignal(rows["signals"][i], rows'["signals"][i])
  BY <1>1, GrownSame
<1>3. \A a \in DOMAIN rows["audits"] :
         a \in DOMAIN rows'["audits"] /\ SameAudit(rows["audits"][a], rows'["audits"][a])
  BY <1>1, GrownSame
<1>4. \A o \in DOMAIN rows["opportunities"] :
         SameOpportunity(rows["opportunities"][o], rows'["opportunities"][o])
  BY <1>1, GrownSame
<1>5. Keeps
  BY <1>2, <1>3 DEF Keeps
<1>6. ASSUME NEW f \in DOMAIN rows'["findings"]
      PROVE  \/ /\ f \in DOMAIN rows["findings"]
                /\ SameFinding(rows["findings"][f], rows'["findings"][f])
             \/ FindingSound(runs', rows'["signals"], rows'["findings"][f])
  <2>1. CASE FindingSound(runs, rows["signals"], rows'["findings"][f])
    <3>1. PICK r : r = rows'["findings"][f]
      OBVIOUS
    <3>2. SameFinding(r, r)
      BY DEF SameFinding
    <3>3. FindingSound(runs', rows'["signals"], r)
      BY <1>5, <2>1, <3>1, <3>2, FindingKept
    <3>4. QED
      BY <3>1, <3>3
  <2>2. QED
    BY <2>1
<1>7. ASSUME NEW o \in DOMAIN rows'["opportunities"]
      PROVE  \/ /\ o \in DOMAIN rows["opportunities"]
                /\ SameOpportunity(rows["opportunities"][o], rows'["opportunities"][o])
             \/ /\ Faithful(runs', rows'["opportunities"][o])
                /\ Promised(rows'["audits"], rows'["opportunities"][o])
  <2>1. CASE /\ Faithful(runs, rows'["opportunities"][o])
             /\ Promised(rows["audits"], rows'["opportunities"][o])
    <3>1. PICK r : r = rows'["opportunities"][o]
      OBVIOUS
    <3>2. Promised(rows'["audits"], r)
      BY <1>5, <2>1, <3>1, PromisedKept
    <3>3. QED
      BY <2>1, <3>1, <3>2
  <2>2. QED
    BY <1>4, <2>1
<1>8. TablesSound'
  BY <1>5, <1>6, <1>7, TablesLemma
<1>9. QED
  BY <1>5, <1>8

\* What a commit that writes rows has to show.
LEMMA RowsLine ==
    ASSUME Inv, NEW u \in Session, NEW do, Now(u, do), NEW p, BlankProgram(p), Then(u, p),
           UNCHANGED <<calls, erased>>, UNCHANGED <<mode, runs, seen>>,
           do \notin {"select", "resolve", "create", "insertRun"},
           DOMAIN rows' = Table, \A t \in Table : Numbered(rows'[t], RowOf(t)),
           Evidence => Keeps /\ TablesSound' /\ \A a : Made(a)' \subseteq Made(a)
    PROVE  Inv'
<1>1. TypeInv /\ todo[u] # <<>> /\ todo[u][1].do = do
  BY HeadLemma DEF Inv
<1>2. Moves(u, p)
  BY <1>1, ThenLemma DEF BlankProgram
<1>3. TypeInv'
  BY <1>1, <1>2 DEF TypeInv, Moves
<1>4. ASSUME Evidence
      PROVE  Evidence'
  <2>1. /\ Apt(p, todo[u][1])
        /\ \A i \in 1 .. Len(p) : Sound(runs', rows', p[i]) /\ p[i].do \notin {"insertRun", "store"}
    BY BlankApt DEF BlankProgram
  <2>2. Len(p) \in Nat
    BY LenProperties DEF BlankProgram
  <2>3. Len(p) >= 1 => p[1].do \notin {"insertRun", "store"}
    BY <2>1, <2>2
  <2>4. seen[u].id # 0 /\ seen[u].id \in DOMAIN runs /\ runs[seen[u].id].mode = seen[u].mode
    BY <1>1, <1>4 DEF Evidence, SeenSound
  <2>5. IF seen'[u].id = 0
        THEN Len(p) >= 1 /\ p[1].do \in {"resolve", "create", "insertRun"}
        ELSE seen'[u].id \in DOMAIN runs' /\ runs'[seen'[u].id].mode = seen'[u].mode
    BY <2>4
  <2>6. Active' \subseteq Active /\ \A v \in Session : v # u => seen'[v] = seen[v]
    BY DEF Active
  <2>7. QED
    BY <1>1, <1>2, <1>4, <2>1, <2>3, <2>5, <2>6, StepLemma
<1>5. QED
  BY <1>3, <1>4 DEF Inv

\* One table is written, or two.
LEMMA OneTable ==
    ASSUME TypeInv, NEW t \in Table, NEW h, rows' = [rows EXCEPT ![t] = h], Numbered(h, RowOf(t))
    PROVE  /\ DOMAIN rows' = Table /\ rows'[t] = h
           /\ \A s \in Table : s # t => rows'[s] = rows[s]
           /\ \A s \in Table : Numbered(rows'[s], RowOf(s))
BY DEF TypeInv

LEMMA TwoTables ==
    ASSUME TypeInv, NEW h, NEW k, NEW t \in Table, t # "findings",
           rows' = [rows EXCEPT ![t] = h, !["findings"] = k],
           Numbered(h, RowOf(t)), Numbered(k, RowOf("findings"))
    PROVE  /\ DOMAIN rows' = Table /\ rows'[t] = h /\ rows'["findings"] = k
           /\ \A s \in Table : s # t /\ s # "findings" => rows'[s] = rows[s]
           /\ \A s \in Table : Numbered(rows'[s], RowOf(s))
<1>1. "findings" \in Table /\ DOMAIN rows = Table
  BY RowsOf DEF TypeInv
<1>2. QED
  BY <1>1 DEF TypeInv

LEMMA InsertedLemma ==
    ASSUME TypeInv, NEW t \in Table, NEW row \in RowOf(t), ~Collides(rows[t]),
           NEW h, With(rows[t], NextId(rows[t]), row) = h
    PROVE  /\ Numbered(h, RowOf(t)) /\ Grown(rows[t], h)
           /\ \E i \in Nat \ {0} : i \notin DOMAIN rows[t] /\ Added(rows[t], h, i, row)
<1>1. PICK f, R, i : f = rows[t] /\ R = RowOf(t) /\ i = NextId(rows[t])
  OBVIOUS
<1>2. Numbered(f, R) /\ row \in R
  BY <1>1 DEF TypeInv
<1>3. i \in Nat \ {0} /\ i \notin DOMAIN f
  BY <1>1, <1>2, NextIdLemma DEF Numbered, Collides
<1>4. With(f, i, row) = h
  BY <1>1
<1>5. Numbered(h, R) /\ Added(f, h, i, row)
  BY <1>2, <1>3, <1>4, WithLemma
<1>6. Grown(f, h)
  BY <1>3, <1>5 DEF Added, Grown
<1>7. QED
  BY <1>1, <1>3, <1>5, <1>6

LEMMA MadeKept ==
    ASSUME rows'["opportunities"] = rows["opportunities"]
    PROVE  \A a : Made(a)' \subseteq Made(a)
BY DEF Made

LEMMA GrownRefl ==
    ASSUME NEW f
    PROVE  Grown(f, f)
BY DEF Grown

LEMMA RestatedTable ==
    ASSUME TypeInv, NEW t \in Table, NEW i, NEW s \in Status, NEW h, Marked(rows[t], i, s) = h
    PROVE  Numbered(h, RowOf(t)) /\ Grown(rows[t], h) /\ DOMAIN h = DOMAIN rows[t]
<1>1. PICK f, R : f = rows[t] /\ R = RowOf(t)
  OBVIOUS
<1>2. Numbered(f, R) /\ Marked(f, i, s) = h
  BY <1>1 DEF TypeInv
<1>3. \A r \in R : [r EXCEPT !.status = s] \in R
  BY <1>1, RestatedRow
<1>4. Numbered(h, R) /\ Restated(f, h)
  BY <1>2, <1>3, MarkedLemma
<1>5. Grown(f, h) /\ DOMAIN h = DOMAIN f
  BY <1>4 DEF Grown, Restated
<1>6. QED
  BY <1>1, <1>4, <1>5

LEMMA StoreSignalInv ==
    ASSUME Inv, NEW u \in Session, StoreSignal(u)
    PROVE  Inv'
<1>1. PICK row : row = [run |-> seen[u].id, demo |-> Step(u).demo, status |-> "active",
                        source |-> Step(u).source]
  OBVIOUS
<1>2. PICK h : With(rows["signals"], NextId(rows["signals"]), row) = h
  OBVIOUS
<1>3. /\ Now(u, "store")
      /\ UNCHANGED <<calls, erased>> /\ UNCHANGED <<mode, runs, seen>>
      /\ \/ Raise(u) /\ rows' = rows
         \/ /\ ~Collides(rows["signals"]) /\ Then(u, <<>>)
            /\ rows' = [rows EXCEPT !["signals"] = h]
  BY <1>1, <1>2 DEF StoreSignal, Quiet, Inserting, InsertRow
<1>4. CASE Raise(u) /\ rows' = rows
  <2>1. UNCHANGED <<tables, seen, calls, erased>>
    BY <1>3, <1>4 DEF tables
  <2>2. QED
    BY <1>4, <2>1, StopLemma
<1>5. CASE /\ ~Collides(rows["signals"]) /\ Then(u, <<>>)
           /\ rows' = [rows EXCEPT !["signals"] = h]
  <2>1. TypeInv /\ "signals" \in Table
    BY RowsOf DEF Inv
  <2>2. Step(u).demo \in BOOLEAN /\ Step(u).source \in Source /\ seen[u].id \in Nat
    BY <1>3, <2>1, StepTyped, SeenTyped
  <2>3. row \in RowOf("signals")
    BY <1>1, <2>2, RowsOf DEF SignalRow, Status
  <2>4. /\ Numbered(h, RowOf("signals")) /\ Grown(rows["signals"], h)
        /\ \E i \in Nat \ {0} : Added(rows["signals"], h, i, row)
    BY <1>2, <1>5, <2>1, <2>3, InsertedLemma
  <2>5. /\ DOMAIN rows' = Table /\ rows'["signals"] = h
        /\ \A s \in Table : s # "signals" => rows'[s] = rows[s]
        /\ \A s \in Table : Numbered(rows'[s], RowOf(s))
    BY <1>5, <2>1, <2>4, OneTable
  <2>6. /\ rows'["findings"] = rows["findings"] /\ rows'["audits"] = rows["audits"]
        /\ rows'["opportunities"] = rows["opportunities"]
    BY <2>5, RowsOf
  <2>7. ASSUME Evidence
        PROVE  Keeps /\ TablesSound' /\ \A a : Made(a)' \subseteq Made(a)
    <3>1. /\ Step(u) = todo[u][1] /\ todo[u] # <<>> /\ todo[u][1].do = "store"
          /\ seen[u].id \in DOMAIN runs /\ runs[seen[u].id].mode = seen[u].mode
      BY <1>3, <2>1, <2>7, HeadLemma, SeenRun
    <3>2. Step(u).demo <=> seen[u].mode = "demo"
      BY <2>7, <3>1 DEF Evidence, SeenSound
    <3>3. Faithful(runs, row)
      BY <1>1, <3>1, <3>2 DEF Faithful
    <3>4. \A i \in DOMAIN rows'["signals"] :
             i \in DOMAIN rows["signals"] \/ Faithful(runs, rows'["signals"][i])
      BY <2>4, <2>5, <3>3 DEF Added
    <3>5. \A t \in {"signals", "audits", "opportunities"} : Grown(rows[t], rows'[t])
      BY <2>4, <2>5, <2>6, GrownRefl
    <3>6. \A f \in DOMAIN rows'["findings"] :
             f \in DOMAIN rows["findings"] /\ SameFinding(rows["findings"][f], rows'["findings"][f])
      BY <2>6 DEF SameFinding
    <3>7. TablesSound /\ runs' = runs
      BY <1>3, <2>7 DEF Evidence
    <3>8. Keeps /\ TablesSound'
      BY <2>1, <2>6, <3>4, <3>5, <3>6, <3>7, GrownTables
    <3>9. QED
      BY <2>6, <3>8, MadeKept
  <2>8. QED
    BY <1>3, <1>5, <2>5, <2>7, Blank0, RowsLine
<1>6. QED
  BY <1>3, <1>4, <1>5

LEMMA InsertBriefInv ==
    ASSUME Inv, NEW u \in Session, InsertBrief(u)
    PROVE  Inv'
<1>1. PICK row : row = [run |-> seen[u].id, demo |-> TRUE, status |-> "active"]
  OBVIOUS
<1>2. PICK h : With(rows["briefs"], NextId(rows["briefs"]), row) = h
  OBVIOUS
<1>3. /\ Now(u, "brief")
      /\ UNCHANGED <<calls, erased>> /\ UNCHANGED <<mode, runs, seen>>
      /\ \/ Raise(u) /\ rows' = rows
         \/ /\ ~Collides(rows["briefs"]) /\ Then(u, <<>>)
            /\ rows' = [rows EXCEPT !["briefs"] = h]
  BY <1>1, <1>2 DEF InsertBrief, Quiet, Inserting, InsertRow
<1>4. CASE Raise(u) /\ rows' = rows
  <2>1. UNCHANGED <<tables, seen, calls, erased>>
    BY <1>3, <1>4 DEF tables
  <2>2. QED
    BY <1>4, <2>1, StopLemma
<1>5. CASE /\ ~Collides(rows["briefs"]) /\ Then(u, <<>>)
           /\ rows' = [rows EXCEPT !["briefs"] = h]
  <2>1. TypeInv /\ "briefs" \in Table
    BY RowsOf DEF Inv
  <2>2. seen[u].id \in Nat
    BY <2>1, SeenTyped
  <2>3. row \in RowOf("briefs")
    BY <1>1, <2>2, RowsOf DEF BriefRow, Status
  <2>4. Numbered(h, RowOf("briefs"))
    BY <1>2, <1>5, <2>1, <2>3, InsertedLemma
  <2>5. /\ DOMAIN rows' = Table
        /\ \A s \in Table : s # "briefs" => rows'[s] = rows[s]
        /\ \A s \in Table : Numbered(rows'[s], RowOf(s))
    BY <1>5, <2>1, <2>4, OneTable
  <2>6. /\ rows'["signals"] = rows["signals"]
        /\ rows'["findings"] = rows["findings"] /\ rows'["audits"] = rows["audits"]
        /\ rows'["opportunities"] = rows["opportunities"]
    BY <2>5, RowsOf
  <2>7. ASSUME Evidence
        PROVE  Keeps /\ TablesSound' /\ \A a : Made(a)' \subseteq Made(a)
    <3>1. \A t \in {"signals", "audits", "opportunities"} : Grown(rows[t], rows'[t])
      BY <2>6, GrownRefl
    <3>2. \A f \in DOMAIN rows'["findings"] :
             f \in DOMAIN rows["findings"] /\ SameFinding(rows["findings"][f], rows'["findings"][f])
      BY <2>6 DEF SameFinding
    <3>3. TablesSound /\ runs' = runs
      BY <1>3, <2>7 DEF Evidence
    <3>4. Keeps /\ TablesSound'
      BY <2>1, <2>6, <3>1, <3>2, <3>3, GrownTables
    <3>5. QED
      BY <2>6, <3>4, MadeKept
  <2>8. QED
    BY <1>3, <1>5, <2>5, <2>7, Blank0, RowsLine
<1>6. QED
  BY <1>3, <1>4, <1>5

\* A finding is written, anew or over itself; nothing refers to what it was.
LEMMA WriteFindingsInv ==
    ASSUME Inv, NEW u \in Session, InsertFinding(u) \/ RewriteFinding(u)
    PROVE  Inv'
<1>1. PICK row : row = Step(u).row
  OBVIOUS
<1>2. /\ UNCHANGED <<calls, erased>> /\ UNCHANGED <<mode, runs, seen>>
      /\ Now(u, "addFinding") \/ Now(u, "rewrite")
  BY DEF InsertFinding, RewriteFinding, Quiet
<1>3. TypeInv /\ "findings" \in Table /\ RowOf("findings") = FindingRow
  BY RowsOf DEF Inv
<1>4. row \in FindingRow
  BY <1>1, <1>2, <1>3, StepTyped
<1>5. Evidence => FindingSound(runs, rows["signals"], row)
  <2>1. Step(u).do \in {"addFinding", "rewrite"}
    BY <1>2 DEF Now, Step
  <2>2. Evidence => Sound(runs, rows, Step(u))
    BY <1>2, <1>3, HeadSound
  <2>3. QED
    BY <1>1, <2>1, <2>2 DEF Sound
<1>6. ASSUME NEW h, rows' = [rows EXCEPT !["findings"] = h], Numbered(h, FindingRow),
             Then(u, <<>>),
             \A f \in DOMAIN h : h[f] = row \/ (f \in DOMAIN rows["findings"] /\ h[f] = rows["findings"][f])
      PROVE  Inv'
  <2>1. /\ DOMAIN rows' = Table /\ rows'["findings"] = h
        /\ \A s \in Table : s # "findings" => rows'[s] = rows[s]
        /\ \A s \in Table : Numbered(rows'[s], RowOf(s))
    BY <1>3, <1>6, OneTable
  <2>2. /\ rows'["signals"] = rows["signals"] /\ rows'["audits"] = rows["audits"]
        /\ rows'["opportunities"] = rows["opportunities"]
    BY <2>1, RowsOf
  <2>3. ASSUME Evidence
        PROVE  Keeps /\ TablesSound' /\ \A a : Made(a)' \subseteq Made(a)
    <3>1. \A t \in {"signals", "audits", "opportunities"} : Grown(rows[t], rows'[t])
      BY <2>2, GrownRefl
    <3>2. \A f \in DOMAIN rows'["findings"] :
             \/ /\ f \in DOMAIN rows["findings"]
                /\ SameFinding(rows["findings"][f], rows'["findings"][f])
             \/ FindingSound(runs, rows["signals"], rows'["findings"][f])
      BY <1>5, <1>6, <2>1, <2>3 DEF SameFinding
    <3>3. TablesSound /\ runs' = runs
      BY <1>2, <2>3 DEF Evidence
    <3>4. Keeps /\ TablesSound'
      BY <1>3, <2>2, <3>1, <3>2, <3>3, GrownTables
    <3>5. QED
      BY <2>2, <3>4, MadeKept
  <2>4. PICK do : Now(u, do) /\ do \in {"addFinding", "rewrite"}
    BY <1>2
  <2>5. QED
    BY <1>2, <1>6, <2>1, <2>3, <2>4, Blank0, RowsLine
<1>7. ASSUME Raise(u), rows' = rows
      PROVE  Inv'
  <2>1. UNCHANGED <<tables, seen, calls, erased>>
    BY <1>2, <1>7 DEF tables
  <2>2. QED
    BY <1>7, <2>1, StopLemma
<1>8. CASE InsertFinding(u)
  <2>1. PICK h : With(rows["findings"], NextId(rows["findings"]), row) = h
    OBVIOUS
  <2>2. \/ Raise(u) /\ rows' = rows
        \/ /\ ~Collides(rows["findings"]) /\ Then(u, <<>>)
           /\ rows' = [rows EXCEPT !["findings"] = h]
    BY <1>1, <1>8, <2>1 DEF InsertFinding, Inserting, InsertRow
  <2>3. CASE /\ ~Collides(rows["findings"]) /\ Then(u, <<>>)
             /\ rows' = [rows EXCEPT !["findings"] = h]
    <3>1. /\ Numbered(h, FindingRow)
          /\ \E i \in Nat \ {0} : Added(rows["findings"], h, i, row)
      BY <1>3, <1>4, <2>1, <2>3, InsertedLemma
    <3>2. \A f \in DOMAIN h :
             h[f] = row \/ (f \in DOMAIN rows["findings"] /\ h[f] = rows["findings"][f])
      BY <3>1 DEF Added
    <3>3. QED
      BY <1>6, <2>3, <3>1, <3>2
  <2>4. QED
    BY <1>7, <2>2, <2>3
<1>9. CASE RewriteFinding(u)
  <2>1. PICK f : f = Step(u).finding
    OBVIOUS
  <2>2. PICK h : h = [rows["findings"] EXCEPT ![f] = row]
    OBVIOUS
  <2>3. \/ Raise(u) /\ rows' = rows
        \/ /\ f \in DOMAIN rows["findings"] /\ Then(u, <<>>)
           /\ rows' = [rows EXCEPT !["findings"] = h]
    BY <1>1, <1>9, <2>1, <2>2 DEF RewriteFinding
  <2>4. CASE /\ f \in DOMAIN rows["findings"] /\ Then(u, <<>>)
             /\ rows' = [rows EXCEPT !["findings"] = h]
    <3>1. Numbered(rows["findings"], FindingRow)
      BY <1>3 DEF TypeInv
    <3>2. Numbered(h, FindingRow)
      BY <1>4, <2>2, <3>1 DEF Numbered
    <3>3. \A g \in DOMAIN h :
             h[g] = row \/ (g \in DOMAIN rows["findings"] /\ h[g] = rows["findings"][g])
      BY <2>2
    <3>4. QED
      BY <1>6, <2>4, <3>2, <3>3
  <2>5. QED
    BY <1>7, <2>3, <2>4
<1>10. QED
  BY <1>8, <1>9

\* A row of table t is marked.
Marks(t) == \E i : \E s \in Status : \E h : /\ Marked(rows[t], i, s) = h
                                             /\ rows' = [rows EXCEPT ![t] = h]

LEMMA MarkLine ==
    ASSUME Inv, NEW u \in Session, NEW do, Now(u, do), NEW p, BlankProgram(p), Then(u, p),
           UNCHANGED <<calls, erased>>, UNCHANGED <<mode, runs, seen>>,
           do \notin {"select", "resolve", "create", "insertRun"},
           NEW t \in Table, Marks(t)
    PROVE  Inv'
<1>1. PICK i : \E s \in Status : \E h : Marked(rows[t], i, s) = h /\ rows' = [rows EXCEPT ![t] = h]
  BY DEF Marks
<1>2. PICK s \in Status : \E h : Marked(rows[t], i, s) = h /\ rows' = [rows EXCEPT ![t] = h]
  BY <1>1
<1>3. PICK h : Marked(rows[t], i, s) = h /\ rows' = [rows EXCEPT ![t] = h]
  BY <1>2
<1>4. TypeInv /\ Table \subseteq DOMAIN rows
  BY DEF Inv, TypeInv
<1>5. Numbered(h, RowOf(t)) /\ Grown(rows[t], h) /\ DOMAIN h = DOMAIN rows[t]
  BY <1>3, <1>4, RestatedTable
<1>6. /\ DOMAIN rows' = Table /\ rows'[t] = h
      /\ \A q \in Table : q # t => rows'[q] = rows[q]
      /\ \A q \in Table : Numbered(rows'[q], RowOf(q))
  BY <1>3, <1>4, <1>5, OneTable
<1>7. \A q \in Table : Grown(rows[q], rows'[q]) /\ DOMAIN rows'[q] = DOMAIN rows[q]
  BY <1>5, <1>6, GrownRefl
<1>8. ASSUME Evidence
      PROVE  Keeps /\ TablesSound' /\ \A a : Made(a)' \subseteq Made(a)
  <2>1. \A q \in {"signals", "audits", "opportunities"} : Grown(rows[q], rows'[q])
    BY <1>7, RowsOf
  <2>2. /\ DOMAIN rows'["signals"] = DOMAIN rows["signals"]
        /\ DOMAIN rows'["findings"] = DOMAIN rows["findings"]
        /\ DOMAIN rows'["audits"] = DOMAIN rows["audits"]
        /\ DOMAIN rows'["opportunities"] = DOMAIN rows["opportunities"]
        /\ Grown(rows["findings"], rows'["findings"])
        /\ Grown(rows["opportunities"], rows'["opportunities"])
    BY <1>7, RowsOf
  <2>3. Numbered(rows["findings"], FindingRow) /\ Numbered(rows["opportunities"], OpportunityRow)
    BY <1>4, RowsOf DEF TypeInv
  <2>4. \A f \in DOMAIN rows'["findings"] :
           f \in DOMAIN rows["findings"] /\ SameFinding(rows["findings"][f], rows'["findings"][f])
    BY <2>2, <2>3, GrownSame
  <2>5. \A o \in DOMAIN rows["opportunities"] :
           SameOpportunity(rows["opportunities"][o], rows'["opportunities"][o])
    BY <2>2, <2>3, GrownSame
  <2>6. TablesSound /\ runs' = runs
    BY <1>8 DEF Evidence
  <2>7. Keeps /\ TablesSound'
    BY <1>4, <2>1, <2>2, <2>4, <2>6, GrownTables
  <2>8. \A a : Made(a)' \subseteq Made(a)
    BY <2>2, <2>5 DEF Made, SameOpportunity
  <2>9. QED
    BY <2>7, <2>8
<1>9. QED
  BY <1>6, <1>8, RowsLine

LEMMA ArchiveRowInv ==
    ASSUME Inv, NEW u \in Session, ArchiveRow(u)
    PROVE  Inv'
<1>1. PICK left : left = Step(u).left
  OBVIOUS
<1>2. /\ Now(u, "archive")
      /\ UNCHANGED <<calls, erased>> /\ UNCHANGED <<mode, runs, seen>>
      /\ \/ Then(u, <<>>) /\ rows' = rows
         \/ Raise(u) /\ rows' = rows
         \/ \E x \in left :
               /\ x \in Rows
               /\ rows' = [rows EXCEPT ![x[1]][x[2]].status = "archived"]
               /\ Then(u, IF left = {x} THEN <<>> ELSE <<ArchiveRows(left \ {x})>>)
  BY <1>1 DEF ArchiveRow, Quiet
<1>3. left \in SUBSET (Table \X Nat)
  BY <1>1, <1>2, StepTyped DEF Inv
<1>4. CASE Then(u, <<>>) /\ rows' = rows
  <2>1. UNCHANGED <<tables, seen>>
    BY <1>2, <1>4 DEF tables
  <2>2. QED
    BY <1>2, <1>4, <2>1, Blank0, TalkBlank
<1>5. CASE Raise(u) /\ rows' = rows
  <2>1. UNCHANGED <<tables, seen, calls, erased>>
    BY <1>2, <1>5 DEF tables
  <2>2. QED
    BY <1>5, <2>1, StopLemma
<1>6. ASSUME NEW x \in left, x \in Rows,
             rows' = [rows EXCEPT ![x[1]][x[2]].status = "archived"],
             Then(u, IF left = {x} THEN <<>> ELSE <<ArchiveRows(left \ {x})>>)
      PROVE  Inv'
  <2>1. PICK t, i : t = x[1] /\ i = x[2]
    OBVIOUS
  <2>2. t \in Table /\ i \in DOMAIN rows[t]
    BY <1>6, <2>1 DEF Rows
  <2>3. PICK h : Marked(rows[t], i, "archived") = h
    OBVIOUS
  <2>4. h = [rows[t] EXCEPT ![i].status = "archived"]
    BY <2>2, <2>3 DEF Marked
  <2>5. rows' = [rows EXCEPT ![t] = h]
    <3>1. rows' = [rows EXCEPT ![t][i].status = "archived"]
      BY <1>6, <2>1
    <3>2. QED
      BY <2>4, <3>1
  <2>6. PICK p : p = IF left = {x} THEN <<>> ELSE <<ArchiveRows(left \ {x})>>
    OBVIOUS
  <2>7. left \ {x} \in SUBSET (Table \X Nat)
    BY <1>3
  <2>8. BlankProgram(p)
    BY <2>6, <2>7, RowBlank, Blank0, Blank1
  <2>9. Then(u, p) /\ "archived" \in Status
    BY <1>6, <2>6 DEF Status
  <2>10. Marks(t)
    BY <2>3, <2>5, <2>9 DEF Marks
  <2>11. QED
    BY <1>2, <2>2, <2>8, <2>9, <2>10, MarkLine
<1>7. QED
  BY <1>2, <1>4, <1>5, <1>6

LEMMA MarkEngineeringReadyInv ==
    ASSUME Inv, NEW u \in Session, MarkEngineeringReady(u)
    PROVE  Inv'
<1>1. PICK o : o = Step(u).opportunity
  OBVIOUS
<1>2. PICK s : s = IF Step(u).demo THEN "Demo Engineering Ready" ELSE "Engineering Ready"
  OBVIOUS
<1>3. PICK h : Marked(rows["opportunities"], o, s) = h
  OBVIOUS
<1>4. /\ Now(u, "markReady") /\ Then(u, <<>>)
      /\ UNCHANGED <<calls, erased>> /\ UNCHANGED <<mode, runs, seen>>
      /\ rows' = [rows EXCEPT !["opportunities"] = h]
  BY <1>1, <1>2, <1>3 DEF MarkEngineeringReady, Quiet
<1>5. s \in Status /\ "opportunities" \in Table
  BY <1>2, RowsOf DEF Status
<1>6. Marks("opportunities")
  BY <1>3, <1>4, <1>5 DEF Marks
<1>7. QED
  BY <1>4, <1>5, <1>6, Blank0, MarkLine

LEMMA RecordAuditInv ==
    ASSUME Inv, NEW u \in Session, RecordAudit(u)
    PROVE  Inv'
<1>1. PICK row : row = Step(u).row
  OBVIOUS
<1>2. PICK s : s = IF row.demo THEN "Demo Audited" ELSE "audited"
  OBVIOUS
<1>3. PICK h : With(rows["audits"], NextId(rows["audits"]), row) = h
  OBVIOUS
<1>4. PICK k : Marked(rows["findings"], row.finding, s) = k
  OBVIOUS
<1>5. TypeInv /\ "audits" \in Table /\ "findings" \in Table /\ DOMAIN rows = Table
  BY RowsOf DEF Inv, TypeInv
<1>6. /\ Now(u, "record")
      /\ UNCHANGED <<calls, erased>> /\ UNCHANGED <<mode, runs, seen>>
      /\ \/ Raise(u) /\ rows' = rows
         \/ /\ ~Collides(rows["audits"]) /\ Then(u, <<>>)
            /\ rows' = [rows EXCEPT !["audits"] = With(@, NextId(@), row),
                                    !["findings"] = Marked(@, row.finding, s)]
  BY <1>1, <1>2 DEF RecordAudit, Quiet
<1>7. CASE Raise(u) /\ rows' = rows
  <2>1. UNCHANGED <<tables, seen, calls, erased>>
    BY <1>6, <1>7 DEF tables
  <2>2. QED
    BY <1>7, <2>1, StopLemma
<1>8. CASE /\ ~Collides(rows["audits"]) /\ Then(u, <<>>)
           /\ rows' = [rows EXCEPT !["audits"] = With(@, NextId(@), row),
                                   !["findings"] = Marked(@, row.finding, s)]
  <2>1. rows' = [rows EXCEPT !["audits"] = h, !["findings"] = k]
    BY <1>3, <1>4, <1>5, <1>8
  <2>2. row \in RowOf("audits") /\ s \in Status
    BY <1>1, <1>2, <1>5, <1>6, StepTyped, RowsOf DEF Status
  <2>3. /\ Numbered(h, RowOf("audits")) /\ Grown(rows["audits"], h)
        /\ \E i \in Nat \ {0} : Added(rows["audits"], h, i, row)
    BY <1>3, <1>5, <1>8, <2>2, InsertedLemma
  <2>4. /\ Numbered(k, RowOf("findings")) /\ Grown(rows["findings"], k)
        /\ DOMAIN k = DOMAIN rows["findings"]
    BY <1>4, <1>5, <2>2, RestatedTable
  <2>5. /\ DOMAIN rows' = Table /\ rows'["audits"] = h /\ rows'["findings"] = k
        /\ \A q \in Table : q # "audits" /\ q # "findings" => rows'[q] = rows[q]
        /\ \A q \in Table : Numbered(rows'[q], RowOf(q))
    BY <1>5, <2>1, <2>3, <2>4, TwoTables
  <2>6. /\ rows'["signals"] = rows["signals"]
        /\ rows'["opportunities"] = rows["opportunities"]
    BY <2>5, RowsOf
  <2>7. ASSUME Evidence
        PROVE  Keeps /\ TablesSound' /\ \A a : Made(a)' \subseteq Made(a)
    <3>1. Faithful(runs, row)
      <4>1. Step(u).do = "record"
        BY <1>6 DEF Now, Step
      <4>2. Sound(runs, rows, Step(u))
        BY <1>5, <1>6, <2>7, HeadSound
      <4>3. QED
        BY <1>1, <4>1, <4>2 DEF Sound
    <3>2. \A a \in DOMAIN rows'["audits"] :
             a \in DOMAIN rows["audits"] \/ Faithful(runs, rows'["audits"][a])
      BY <2>3, <2>5, <3>1 DEF Added
    <3>3. \A t \in {"signals", "audits", "opportunities"} : Grown(rows[t], rows'[t])
      BY <2>3, <2>5, <2>6, GrownRefl
    <3>4. Numbered(rows["findings"], FindingRow)
      BY <1>5, RowsOf DEF TypeInv
    <3>5. \A f \in DOMAIN rows'["findings"] :
             f \in DOMAIN rows["findings"] /\ SameFinding(rows["findings"][f], rows'["findings"][f])
      BY <2>4, <2>5, <3>4, GrownSame
    <3>6. TablesSound /\ runs' = runs
      BY <1>6, <2>7 DEF Evidence
    <3>7. Keeps /\ TablesSound'
      BY <1>5, <2>6, <3>2, <3>3, <3>5, <3>6, GrownTables
    <3>8. QED
      BY <2>6, <3>7, MadeKept
  <2>8. QED
    BY <1>6, <1>8, <2>5, <2>7, Blank0, RowsLine
<1>9. QED
  BY <1>6, <1>7, <1>8

LEMMA InsertOpportunityInv ==
    ASSUME Inv, NEW u \in Session, InsertOpportunity(u)
    PROVE  Inv'
<1>1. PICK o : o = Step(u).row
  OBVIOUS
<1>2. PICK row : row = [run |-> o.run, demo |-> o.demo, audit |-> o.audit, finding |-> o.finding,
                        status |-> IF o.demo THEN "Demo Opportunity" ELSE "Approved Opportunity"]
  OBVIOUS
<1>3. PICK s : s = IF o.demo THEN "Demo Opportunity" ELSE "opportunity_approved"
  OBVIOUS
<1>4. PICK h : With(rows["opportunities"], NextId(rows["opportunities"]), row) = h
  OBVIOUS
<1>5. PICK k : Marked(rows["findings"], o.finding, s) = k
  OBVIOUS
<1>6. /\ TypeInv /\ "opportunities" \in Table /\ "findings" \in Table /\ DOMAIN rows = Table
  BY RowsOf DEF Inv, TypeInv
<1>7. /\ Now(u, "insert")
      /\ UNCHANGED <<calls, erased>> /\ UNCHANGED <<mode, runs, seen>>
      /\ \/ Raise(u) /\ rows' = rows
         \/ /\ ~Collides(rows["opportunities"])
            /\ ~(o.demo /\ seen[u] # [id |-> o.run, mode |-> "demo"])
            /\ Then(u, <<>>)
            /\ rows' = [rows EXCEPT !["opportunities"] = With(@, NextId(@), row),
                                    !["findings"] = Marked(@, o.finding, s)]
  BY <1>1, <1>2, <1>3 DEF InsertOpportunity, Quiet
<1>8. CASE Raise(u) /\ rows' = rows
  <2>1. UNCHANGED <<tables, seen, calls, erased>>
    BY <1>7, <1>8 DEF tables
  <2>2. QED
    BY <1>8, <2>1, StopLemma
<1>9. CASE /\ ~Collides(rows["opportunities"])
           /\ ~(o.demo /\ seen[u] # [id |-> o.run, mode |-> "demo"])
           /\ Then(u, <<>>)
           /\ rows' = [rows EXCEPT !["opportunities"] = With(@, NextId(@), row),
                                   !["findings"] = Marked(@, o.finding, s)]
  <2>1. rows' = [rows EXCEPT !["opportunities"] = h, !["findings"] = k]
    BY <1>4, <1>5, <1>6, <1>9
  <2>2. /\ o \in NewOpportunity /\ Step(u) = todo[u][1] /\ 1 \in 1 .. Len(todo[u])
        /\ todo[u] # <<>> /\ todo[u][1].do = "insert"
    BY <1>1, <1>6, <1>7, StepTyped, HeadLemma
  <2>3. s \in Status
    BY <1>3 DEF Status
  <2>4. /\ row \in RowOf("opportunities")
        /\ row.run = o.run /\ row.demo = o.demo /\ row.audit = o.audit /\ row.finding = o.finding
    <3>1. PICK q : q = IF o.demo THEN "Demo Opportunity" ELSE "Approved Opportunity"
      OBVIOUS
    <3>2. q \in Status
      BY <3>1 DEF Status
    <3>3. row = [run |-> o.run, demo |-> o.demo, audit |-> o.audit, finding |-> o.finding,
                 status |-> q]
      BY <1>2, <3>1
    <3>4. row \in OpportunityRow
      BY <2>2, <3>2, <3>3 DEF NewOpportunity, OpportunityRow
    <3>5. QED
      BY <3>3, <3>4, RowsOf
  <2>5. /\ Numbered(h, RowOf("opportunities")) /\ Grown(rows["opportunities"], h)
        /\ \E i \in Nat \ {0} : i \notin DOMAIN rows["opportunities"]
                                /\ Added(rows["opportunities"], h, i, row)
    BY <1>4, <1>6, <1>9, <2>4, InsertedLemma
  <2>6. PICK i \in Nat \ {0} : i \notin DOMAIN rows["opportunities"]
                               /\ Added(rows["opportunities"], h, i, row)
    BY <2>5
  <2>7. /\ Numbered(k, RowOf("findings")) /\ Grown(rows["findings"], k)
        /\ DOMAIN k = DOMAIN rows["findings"]
    BY <1>5, <1>6, <2>3, RestatedTable
  <2>8. /\ DOMAIN rows' = Table /\ rows'["opportunities"] = h /\ rows'["findings"] = k
        /\ \A q \in Table : q # "opportunities" /\ q # "findings" => rows'[q] = rows[q]
        /\ \A q \in Table : Numbered(rows'[q], RowOf(q))
    BY <1>6, <2>1, <2>5, <2>7, TwoTables
  <2>9. rows'["signals"] = rows["signals"] /\ rows'["audits"] = rows["audits"]
    BY <2>8, RowsOf
  <2>10. PICK p : p = <<>>
    OBVIOUS
  <2>11. p \in Seq(Element) /\ Len(p) = 0 /\ BlankProgram(p)
    BY <2>10, Program0, Blank0
  <2>12. Moves(u, p)
    BY <1>6, <1>9, <2>2, <2>10, <2>11, ThenLemma
  <2>13. TypeInv'
    BY <1>6, <1>7, <2>8, <2>12 DEF TypeInv, Moves
  <2>14. ASSUME Evidence
         PROVE  Evidence'
    <3>1. Promised(rows["audits"], row)
      <4>1. Promised(rows["audits"], o)
        BY <1>1, <1>6, <1>7, <2>2, <2>14, HeadSound DEF Sound
      <4>2. QED
        BY <2>4, <4>1 DEF Promised
    <3>2. seen[u].id # 0 /\ seen[u].id \in DOMAIN runs /\ runs[seen[u].id].mode = seen[u].mode
      BY <2>2, <2>14 DEF Evidence, SeenSound
    <3>3. Faithful(runs, row)
      <4>1. Faithful(runs, rows["audits"][row.audit])
        BY <2>14, <3>1 DEF Promised, Evidence, TablesSound
      <4>2. CASE row.demo
        <5>1. seen[u] = [id |-> row.run, mode |-> "demo"]
          BY <1>9, <2>4, <4>2
        <5>2. seen[u].id = row.run /\ seen[u].mode = "demo"
          BY <5>1
        <5>3. QED
          BY <3>2, <4>2, <5>2 DEF Faithful
      <4>3. CASE ~row.demo
        BY <3>1, <4>1, <4>3 DEF Promised, Faithful
      <4>4. QED
        BY <4>2, <4>3
    <3>4. \A t \in {"signals", "audits", "opportunities"} : Grown(rows[t], rows'[t])
      BY <2>5, <2>8, <2>9, GrownRefl
    <3>5. Numbered(rows["findings"], FindingRow)
      BY <1>6, RowsOf DEF TypeInv
    <3>6. \A f \in DOMAIN rows'["findings"] :
             f \in DOMAIN rows["findings"] /\ SameFinding(rows["findings"][f], rows'["findings"][f])
      BY <2>7, <2>8, <3>5, GrownSame
    <3>7. \A j \in DOMAIN rows'["opportunities"] :
             \/ j \in DOMAIN rows["opportunities"]
             \/ /\ Faithful(runs, rows'["opportunities"][j])
                /\ Promised(rows["audits"], rows'["opportunities"][j])
      BY <2>6, <2>8, <3>1, <3>3 DEF Added
    <3>8. TablesSound /\ runs' = runs
      BY <1>7, <2>14 DEF Evidence
    <3>9. Keeps /\ TablesSound'
      BY <1>6, <2>9, <3>4, <3>6, <3>7, <3>8, GrownTables
    <3>10. /\ Apt(p, todo[u][1]) /\ \A j \in 1 .. Len(p) : Sound(runs', rows', p[j])
           /\ \A j \in 1 .. Len(p) : Promises(p[j]) = {}
      BY <2>11, BlankApt DEF BlankProgram
    <3>11. ProgramsSound' /\ ProgramsOrderly'
      BY <1>6, <2>12, <2>14, <3>9, <3>10, ProgramsLemma DEF Evidence
    <3>12. ~(Len(p) >= 1)
      BY <2>11
    <3>13. IF seen'[u].id = 0
           THEN Len(p) >= 1 /\ p[1].do \in {"resolve", "create", "insertRun"}
           ELSE seen'[u].id \in DOMAIN runs' /\ runs'[seen'[u].id].mode = seen'[u].mode
      BY <1>7, <3>2
    <3>14. \A v \in Session : v # u => seen'[v] = seen[v]
      BY <1>7
    <3>15. SeenSound'
      BY <1>6, <2>12, <2>14, <3>9, <3>12, <3>13, <3>14, SeenLemma DEF Evidence
    <3>16. Active' \subseteq Active
      BY <1>7 DEF Active
    <3>17. StartsBounded'
      BY <1>6, <2>12, <2>14, <3>12, <3>16, StartsLemma DEF Evidence
    <3>18. ASSUME NEW b \in Nat
           PROVE  Cardinality(Made(b)') + Cardinality(Promoting(b)') <= Cardinality(Session)
      <4>1. Cardinality(Made(b)) + Cardinality(Promoting(b)) <= Cardinality(Session)
        BY <2>14 DEF Evidence, PromotionsBounded
      <4>2. Promoting(b) \subseteq Session
        BY DEF Promoting
      <4>3. /\ IsFiniteSet(Promoting(b)) /\ Cardinality(Promoting(b)) \in Nat
            /\ Cardinality(Session) \in Nat
        BY <4>2, SessionCount
      <4>4. IsFiniteSet(Made(b)) /\ Cardinality(Made(b)) \in Nat
        BY <1>6, MadeFinite
      <4>5. \A j \in 1 .. Len(p) : b \in Promises(p[j]) => b \in Promises(todo[u][1])
        BY <3>10
      <4>6. Promoting(b)' \subseteq Promoting(b)
        BY <1>6, <2>12, <4>5, PromotingLemma
      <4>7. Made(b)' = {j \in DOMAIN h : h[j].audit = b}
        BY <2>8 DEF Made
      <4>8. CASE b # o.audit
        <5>1. Made(b)' \subseteq Made(b)
          BY <2>4, <2>6, <4>7, <4>8 DEF Made, Added
        <5>2. /\ Cardinality(Made(b)') \in Nat /\ Cardinality(Made(b)') <= Cardinality(Made(b))
              /\ Cardinality(Promoting(b)') \in Nat
              /\ Cardinality(Promoting(b)') <= Cardinality(Promoting(b))
          BY <4>3, <4>4, <4>6, <5>1, FS_Subset, FS_CardinalityType
        <5>3. QED
          BY <4>1, <4>3, <4>4, <5>2
      <4>9. CASE b = o.audit
        <5>1. Made(b)' \subseteq Made(b) \cup {i}
          BY <2>6, <4>7 DEF Made, Added
        <5>2. i \notin Made(b)
          BY <2>6 DEF Made
        <5>3. /\ IsFiniteSet(Made(b) \cup {i})
              /\ Cardinality(Made(b) \cup {i}) = Cardinality(Made(b)) + 1
          BY <4>4, <5>2, FS_AddElement
        <5>4. /\ Cardinality(Made(b)') \in Nat
              /\ Cardinality(Made(b)') <= Cardinality(Made(b)) + 1
          BY <5>1, <5>3, FS_Subset, FS_CardinalityType
        <5>5. Promises(todo[u][1]) = {b}
          BY <1>1, <2>2, <4>9, PromisesOf
        <5>6. u \in Promoting(b)
          BY <2>2, <5>5 DEF Promoting
        <5>7. ASSUME NEW j \in 1 .. Len(todo'[u])
              PROVE  b \notin Promises(todo'[u][j])
          <6>1. Follows(todo'[u], p, todo[u])
            BY <2>12 DEF Moves
          <6>2. \/ j \in 1 .. Len(p) /\ todo'[u][j] = p[j]
                \/ \E n \in 2 .. Len(todo[u]) : j = Len(p) + (n - 1) /\ todo'[u][j] = todo[u][n]
            BY <6>1, PositionLemma
          <6>3. ~(j \in 1 .. Len(p))
            BY <2>11
          <6>4. PICK n \in 2 .. Len(todo[u]) : todo'[u][j] = todo[u][n]
            BY <6>2, <6>3
          <6>5. Len(todo[u]) \in Nat
            BY <1>6, LenProperties DEF TypeInv
          <6>6. n \in 1 .. Len(todo[u]) /\ n # 1
            BY <6>5
          <6>7. Promises(todo[u][1]) \cap Promises(todo[u][n]) = {}
            BY <2>2, <2>14, <6>6 DEF Evidence, ProgramsOrderly, Orderly
          <6>8. QED
            BY <5>5, <6>4, <6>7
        <5>8. u \notin Promoting(b)'
          <6>1. \A q : Promises(q)' = Promises(q)
            BY DEF Promises
          <6>2. QED
            BY <5>7, <6>1 DEF Promoting
        <5>9. Promoting(b)' \subseteq Promoting(b) \ {u}
          BY <4>6, <5>8
        <5>10. /\ IsFiniteSet(Promoting(b) \ {u})
               /\ Cardinality(Promoting(b) \ {u}) = Cardinality(Promoting(b)) - 1
          BY <4>3, <5>6, FS_RemoveElement
        <5>11. /\ Cardinality(Promoting(b)') \in Nat
               /\ Cardinality(Promoting(b)') <= Cardinality(Promoting(b)) - 1
          BY <5>9, <5>10, FS_Subset, FS_CardinalityType
        <5>12. QED
          BY <4>1, <4>3, <4>4, <5>4, <5>11
      <4>10. QED
        BY <4>8, <4>9
    <3>19. PromotionsBounded'
      BY <3>18 DEF PromotionsBounded
    <3>20. QED
      BY <3>9, <3>11, <3>15, <3>17, <3>19 DEF Evidence
  <2>15. erased' = erased
    BY <1>7
  <2>16. QED
    BY <2>13, <2>14, <2>15 DEF Inv
<1>10. QED
  BY <1>7, <1>8, <1>9

LEMMA CommitInv ==
    ASSUME Inv, NEW u \in Session, Commit(u)
    PROVE  Inv'
BY ResolveRunInv, InsertHistoryInv, CreateRunInv, InsertNewRunInv, SwitchRunInv, MarkRunsInv,
   SetStudyModeInv, RestartRunInv, ListDemoRowsInv, ArchiveRowInv, ArchiveAllDemoRunsInv,
   DeleteArchivedDemoInv, AdmitSignalInv, StoreSignalInv, NextOfBatchInv, StartPullInv,
   NextCandidateInv, ListsInv, CollectSignalsInv, UpsertFindingInv, WriteFindingsInv,
   AuditFindingInv, RecordAuditInv, SelectAuditsInv, PromoteAuditInv, InsertOpportunityInv,
   CheckChainInv, MarkEngineeringReadyInv, InsertBriefInv
   DEF Commit

LEMMA CrashInv ==
    ASSUME Inv, Crash
    PROVE  Inv'
<1>1. todo' = [v \in Session |-> <<>>] /\ UNCHANGED <<tables, seen, calls, erased>>
  BY DEF Crash
<1>2. <<>> \in Seq(Element)
  BY Program0
<1>3. /\ todo' \in [Session -> Seq(Element)]
      /\ \A v \in Session : todo'[v] = todo[v] \/ todo'[v] = <<>>
  BY <1>1, <1>2
<1>4. QED
  BY <1>1, <1>3, ForgetLemma

LEMMA NextInv ==
    ASSUME Inv, [Next]_vars
    PROVE  Inv'
<1>1. CASE Crash
  BY <1>1, CrashInv
<1>2. CASE \E u \in Session : Request(u) \/ Commit(u)
  BY <1>2, RequestInv, CommitInv
<1>3. CASE UNCHANGED vars
  <2>1. UNCHANGED <<tables, seen, calls, erased>> /\ todo' = todo
    BY <1>3 DEF vars
  <2>2. todo' \in [Session -> Seq(Element)]
    BY <2>1 DEF Inv, TypeInv
  <2>3. QED
    BY <2>1, <2>2, ForgetLemma
<1>4. QED
  BY <1>1, <1>2, <1>3 DEF Next
---------------------------------------------------------------------------
(* The initial states.                                                     *)

\* When nobody has anything to do, what is left to check is the tables.
LEMMA IdleEvidence ==
    ASSUME todo = [u \in Session |-> <<>>], seen = Nobody, TablesSound,
           \E r : Active = {r}, \A a \in Nat : Made(a) = {}
    PROVE  Evidence
<1>1. \A u \in Session : todo[u] = <<>> /\ Len(todo[u]) = 0 /\ seen[u].id = 0
  BY DEF Nobody
<1>2. \A u \in Session : \A i \in 1 .. Len(todo[u]) : FALSE
  BY <1>1
<1>3. ProgramsSound
  BY <1>2 DEF ProgramsSound
<1>4. ProgramsOrderly
  BY <1>2 DEF ProgramsOrderly, Orderly
<1>5. SeenSound
  BY <1>1 DEF SeenSound
<1>6. Starting = {} /\ \A a : Promoting(a) = {}
  BY <1>1, <1>2 DEF Starting, Promoting
<1>7. Cardinality({}) = 0 /\ Cardinality(Active) = 1
  BY FS_EmptySet, FS_Singleton
<1>8. Cardinality(Session) \in Nat /\ Cardinality(Session) # 0
  BY StudySessions, FS_CardinalityType, FS_EmptySet
<1>9. Cardinality(Session) >= 1
  BY <1>8
<1>10. StartsBounded
  BY <1>6, <1>7, <1>9 DEF StartsBounded
<1>11. PromotionsBounded
  <2>1. SUFFICES ASSUME NEW a \in Nat
                 PROVE  Cardinality(Made(a)) + Cardinality(Promoting(a)) <= Cardinality(Session)
    BY DEF PromotionsBounded
  <2>2. Cardinality(Made(a)) = 0 /\ Cardinality(Promoting(a)) = 0
    BY <1>6, <1>7
  <2>3. QED
    BY <1>9, <2>2, <1>8
<1>12. QED
  BY <1>3, <1>4, <1>5, <1>10, <1>11 DEF Evidence

\* The variables that are the same in every initial state.
LEMMA IdleTypes ==
    ASSUME Init
    PROVE  /\ mode \in Mode
           /\ todo \in [Session -> Seq(Element)]
           /\ seen \in [Session -> [id : Nat, mode : Mode]]
           /\ calls \in 0 .. MaxCalls
           /\ erased \in BOOLEAN
<1>1. mode \in Mode
  BY DEF Init, Fresh, Underway, Mode
<1>2. todo \in [Session -> Seq(Element)]
  BY Program0 DEF Init
<1>3. seen \in [Session -> [id : Nat, mode : Mode]]
  BY DEF Init, Nobody, Mode
<1>4. calls \in 0 .. MaxCalls
  BY StudyMinima DEF Init
<1>5. erased \in BOOLEAN
  BY DEF Init
<1>6. QED
  BY <1>1, <1>2, <1>3, <1>4, <1>5

LEMMA NoRowsNumbered ==
    /\ DOMAIN NoRows = Table
    /\ \A t \in Table : DOMAIN NoRows[t] = {} /\ Numbered(NoRows[t], RowOf(t))
<1>1. DOMAIN NoRows = Table /\ \A t \in Table : NoRows[t] = [i \in {} |-> {}]
  BY DEF NoRows
<1>2. \A t \in Table : DOMAIN NoRows[t] = {} /\ NoRows[t] \in [{} -> RowOf(t)]
  BY <1>1
<1>3. IsFiniteSet({})
  BY FS_EmptySet
<1>4. QED
  BY <1>1, <1>2, <1>3 DEF Numbered

LEMMA FreshInv ==
    ASSUME Init, Fresh
    PROVE  Inv
<1>1. /\ runs = [r \in {1} |-> [mode |-> "demo", status |-> "active", made |-> 1]]
      /\ rows = NoRows
  BY DEF Fresh
<1>2. /\ DOMAIN runs = {1} /\ runs[1].status = "active"
      /\ runs \in [{1} -> Run]
  BY <1>1 DEF Run, Mode
<1>3. Numbered(runs, Run)
  <2>1. IsFiniteSet({1})
    BY FS_Singleton
  <2>2. QED
    BY <1>2, <2>1 DEF Numbered
<1>4. TypeInv
  BY <1>1, <1>3, IdleTypes, NoRowsNumbered DEF TypeInv
<1>5. \A t \in Table : DOMAIN rows[t] = {}
  BY <1>1, NoRowsNumbered
<1>6. TablesSound
  BY <1>2, <1>5, RowsOf DEF TablesSound
<1>7. Active = {1} /\ \A a \in Nat : Made(a) = {}
  BY <1>2, <1>5, RowsOf DEF Active, Made
<1>8. Evidence
  BY <1>6, <1>7, IdleEvidence DEF Init
<1>9. QED
  BY <1>4, <1>8 DEF Inv

LEMMA UnderwayInv ==
    ASSUME Init, Underway
    PROVE  Inv
<1>1. runs = [r \in {1, 2} |-> IF r = 1 THEN [mode |-> "demo", status |-> "archived", made |-> 1]
                               ELSE [mode |-> "production", status |-> "active", made |-> 2]]
  BY DEF Underway
<1>2. /\ DOMAIN runs = {1, 2} /\ runs \in [{1, 2} -> Run]
      /\ runs[1].status = "archived" /\ runs[2].status = "active" /\ runs[2].mode = "production"
  BY <1>1 DEF Run, Mode
<1>3. Numbered(runs, Run)
  <2>1. IsFiniteSet({1} \cup {2})
    BY FS_Singleton, FS_AddElement
  <2>2. {1} \cup {2} = {1, 2}
    OBVIOUS
  <2>3. QED
    BY <1>2, <2>1, <2>2 DEF Numbered
<1>4. Active = {2}
  BY <1>2 DEF Active
<1> DEFINE Collected(f) == [i \in DOMAIN f |-> [run |-> 2, demo |-> FALSE, status |-> "active",
                                                 source |-> f[i]]]
           Found(f) == [run |-> 2, demo |-> FALSE, status |-> "audited", signals |-> DOMAIN f]
           approved == [run |-> 2, demo |-> FALSE, status |-> "active", finding |-> 1,
                        decision |-> "Approve Opportunity"]
<1>5. PICK f \in [1 .. Cardinality(Source) -> Source] :
         \/ rows = [NoRows EXCEPT !["signals"] = Collected(f)]
         \/ /\ rows = [[NoRows EXCEPT !["signals"] = Collected(f)]
                          EXCEPT !["findings"] = [i \in {1} |-> Found(f)],
                                 !["audits"] = [i \in {1} |-> approved]]
            /\ Sufficient(DOMAIN f)
  BY DEF Underway
<1>6. PICK sig : sig = Collected(f)
  OBVIOUS
<1>7. PICK found : found = Found(f)
  OBVIOUS
<1>8. PICK appr : appr = approved
  OBVIOUS
<1>9. /\ DOMAIN sig = DOMAIN f
      /\ \A i \in DOMAIN f : /\ sig[i] \in SignalRow
                             /\ sig[i].run = 2 /\ sig[i].demo = FALSE
  BY <1>6 DEF SignalRow, Status
<1>10. /\ DOMAIN f = 1 .. Cardinality(Source) /\ DOMAIN f \subseteq Nat \ {0}
       /\ IsFiniteSet(DOMAIN f)
  <2>1. Cardinality(Source) \in Nat
    BY StudySources, FS_CardinalityType
  <2>2. DOMAIN f = 1 .. Cardinality(Source)
    OBVIOUS
  <2>3. PICK n : n = Cardinality(Source)
    OBVIOUS
  <2>4. n \in Int /\ 1 \in Int /\ 1 .. n \subseteq Nat \ {0}
    BY <2>1, <2>3
  <2>5. IsFiniteSet(1 .. n)
    BY <2>4, FS_Interval
  <2>6. QED
    BY <2>2, <2>3, <2>4, <2>5
<1>11. /\ found \in FindingRow
       /\ found.run = 2 /\ found.demo = FALSE /\ found.signals = DOMAIN f
  BY <1>7, <1>10 DEF FindingRow, Status
<1>12. appr \in AuditRow /\ appr.run = 2 /\ appr.demo = FALSE
  BY <1>8, StudyVerdicts DEF AuditRow, Status
<1>13. Numbered(sig, SignalRow)
  <2>1. sig \in [DOMAIN f -> SignalRow]
    BY <1>6, <1>9
  <2>2. QED
    BY <1>9, <1>10, <2>1 DEF Numbered
<1> HIDE DEF Collected, Found, approved
<1>14. Sufficient(DOMAIN f) => DOMAIN f # {}
  <2>1. SUFFICES ASSUME Cardinality(DOMAIN f) >= MinSignals, DOMAIN f = {}
                 PROVE  FALSE
    BY DEF Sufficient
  <2>2. Cardinality(DOMAIN f) = 0
    BY <2>1, FS_EmptySet
  <2>3. QED
    BY <2>1, <2>2, StudyMinima
<1>15. /\ DOMAIN rows = Table /\ rows["signals"] = sig
       /\ rows["opportunities"] = NoRows["opportunities"] /\ rows["briefs"] = NoRows["briefs"]
       /\ \/ rows["findings"] = NoRows["findings"] /\ rows["audits"] = NoRows["audits"]
          \/ /\ rows["findings"] = [i \in {1} |-> found] /\ rows["audits"] = [i \in {1} |-> appr]
             /\ DOMAIN f # {}
  BY <1>5, <1>6, <1>7, <1>8, <1>14, NoRowsNumbered, RowsOf
<1>16. /\ DOMAIN NoRows["findings"] = {} /\ Numbered(NoRows["findings"], FindingRow)
       /\ DOMAIN NoRows["audits"] = {} /\ Numbered(NoRows["audits"], AuditRow)
       /\ DOMAIN NoRows["opportunities"] = {} /\ Numbered(NoRows["opportunities"], OpportunityRow)
       /\ Numbered(NoRows["briefs"], BriefRow)
  BY NoRowsNumbered, RowsOf
<1>17. PICK finds : finds = [i \in {1} |-> found]
  OBVIOUS
<1>18. PICK audits : audits = [i \in {1} |-> appr]
  OBVIOUS
<1>19. /\ DOMAIN finds = {1} /\ finds[1] = found /\ finds \in [{1} -> FindingRow]
       /\ DOMAIN audits = {1} /\ audits[1] = appr /\ audits \in [{1} -> AuditRow]
  BY <1>11, <1>12, <1>17, <1>18
<1>20. Numbered(finds, FindingRow) /\ Numbered(audits, AuditRow)
  <2>1. IsFiniteSet({1})
    BY FS_Singleton
  <2>2. QED
    BY <1>19, <2>1 DEF Numbered
<1>21. \A t \in Table : Numbered(rows[t], RowOf(t))
  BY <1>13, <1>15, <1>16, <1>17, <1>18, <1>20, RowsOf
<1>22. TypeInv
  BY <1>3, <1>15, <1>21, IdleTypes DEF TypeInv
<1>23. \A row : row.run = 2 /\ row.demo = FALSE => Faithful(runs, row)
  BY <1>2 DEF Faithful
<1>24. \A i \in DOMAIN rows["signals"] : Faithful(runs, rows["signals"][i]) /\ rows["signals"][i].run = 2
  BY <1>9, <1>15, <1>23
<1>25. \A g \in DOMAIN rows["findings"] : FindingSound(runs, rows["signals"], rows["findings"][g])
  <2>1. ASSUME DOMAIN f # {}
        PROVE  FindingSound(runs, rows["signals"], found)
    BY <1>9, <1>11, <1>15, <1>23, <1>24, <2>1 DEF FindingSound
  <2>2. QED
    BY <1>15, <1>16, <1>17, <1>19, <2>1
<1>26. \A a \in DOMAIN rows["audits"] : Faithful(runs, rows["audits"][a])
  BY <1>12, <1>15, <1>16, <1>18, <1>19, <1>23
<1>27. TablesSound
  BY <1>2, <1>15, <1>16, <1>24, <1>25, <1>26 DEF TablesSound
<1>28. \A a \in Nat : Made(a) = {}
  BY <1>15, <1>16 DEF Made
<1>29. Evidence
  BY <1>4, <1>27, <1>28, IdleEvidence DEF Init
<1>30. QED
  BY <1>22, <1>29 DEF Inv

LEMMA InitInv == Init => Inv
BY FreshInv, UnderwayInv DEF Init

LEMMA Invariance == Spec => []Inv
BY InitInv, NextInv, PTL DEF Spec
---------------------------------------------------------------------------
(* The theorems.                                                           *)

\* Every table, run, program and look keeps its type, and rows and runs stay
\* numbered, for any sources, verdicts and minima (golden_study.py, its
\* CREATE TABLE statements and the dictionaries its handlers insert).
THEOREM TypeCorrect == Spec => []TypeOK
<1>1. ASSUME Inv
      PROVE  TypeOK
  <2>1. TypeInv
    BY <1>1 DEF Inv
  <2>2. \A r \in DOMAIN runs : r \in Nat \ {0} /\ runs[r] \in Run
    BY <2>1, RunsLemma
  <2>3. ASSUME NEW x \in Rows
        PROVE  DOMAIN At(x) = RowIn(x[1]) /\ At(x).run \in Nat /\ At(x).demo \in BOOLEAN
    <3>1. PICK t \in Table : x \in {t} \X DOMAIN rows[t]
      BY <2>3 DEF Rows
    <3>2. x[1] = t /\ x[2] \in DOMAIN rows[t] /\ At(x) = rows[t][x[2]]
      BY <3>1 DEF At
    <3>3. PICK row : row = At(x)
      OBVIOUS
    <3>4. row \in RowOf(t)
      BY <2>1, <3>2, <3>3, RowsPaired
    <3>5. /\ RowIn("signals") = {"run", "demo", "status", "source"}
          /\ RowIn("findings") = {"run", "demo", "status", "signals"}
          /\ RowIn("audits") = {"run", "demo", "status", "finding", "decision"}
          /\ RowIn("opportunities") = {"run", "demo", "status", "audit", "finding"}
          /\ RowIn("briefs") = {"run", "demo", "status"}
      BY DEF RowIn
    <3>6. /\ t = "signals" => row \in SignalRow
          /\ t = "findings" => row \in FindingRow
          /\ t = "audits" => row \in AuditRow
          /\ t = "opportunities" => row \in OpportunityRow
          /\ t = "briefs" => row \in BriefRow
          /\ t \in {"signals", "findings", "audits", "opportunities", "briefs"}
      BY <3>4, RowsOf
    <3>7. DOMAIN row = RowIn(t)
      BY <3>5, <3>6 DEF SignalRow, FindingRow, AuditRow, OpportunityRow, BriefRow
    <3>8. row.run \in Nat /\ row.demo \in BOOLEAN
      BY <3>6 DEF SignalRow, FindingRow, AuditRow, OpportunityRow, BriefRow
    <3>9. QED
      BY <3>2, <3>3, <3>7, <3>8
  <2>4. QED
    BY <2>1, <2>2, <2>3 DEF TypeOK, TypeInv
<1>2. QED
  BY <1>1, Invariance, PTL

\* Until archived demo data is deleted, a demo signal, finding, audit or
\* opportunity is in a demo run, whatever the sessions do: the mode create_signal
\* checks and the run its INSERT names are those of one look, and what a
\* finding, an audit and an opportunity copy of both never changes.
THEOREM NoDemoMixing == Spec => []NoDemoInProduction
<1>1. ASSUME Inv
      PROVE  NoDemoInProduction
  <2>1. SUFFICES ASSUME ~erased, NEW x \in Rows, x[1] \in Counted, At(x).demo
                 PROVE  At(x).run \in DOMAIN runs /\ runs[At(x).run].mode = "demo"
    BY DEF NoDemoInProduction
  <2>2. TablesSound
    BY <1>1, <2>1 DEF Inv, Evidence
  <2>3. PICK t \in Table : x \in {t} \X DOMAIN rows[t]
    BY <2>1 DEF Rows
  <2>4. x[1] = t /\ x[2] \in DOMAIN rows[t] /\ At(x) = rows[t][x[2]]
    BY <2>3 DEF At
  <2>5. t \in {"signals", "findings", "audits", "opportunities"}
    BY <2>1, <2>4, RowsOf DEF Counted
  <2>6. Faithful(runs, rows[t][x[2]])
    BY <2>2, <2>4, <2>5 DEF TablesSound, FindingSound
  <2>7. QED
    BY <2>1, <2>4, <2>6 DEF Faithful
<1>2. QED
  BY <1>1, Invariance, PTL

\* Until then, an opportunity that is not demo has an audit that approved it,
\* of its own finding and run, and its run is a production run, however
\* approve_audited_opportunities, audits and run switches interleave.
THEOREM OpportunitiesAreReal == Spec => []RealOpportunity
<1>1. ASSUME Inv
      PROVE  RealOpportunity
  <2>1. SUFFICES ASSUME ~erased, NEW o \in DOMAIN rows["opportunities"], NEW row,
                        row = rows["opportunities"][o], ~row.demo
                 PROVE  /\ row.audit \in DOMAIN rows["audits"]
                        /\ rows["audits"][row.audit].decision = "Approve Opportunity"
                        /\ ~rows["audits"][row.audit].demo
                        /\ rows["audits"][row.audit].finding = row.finding
                        /\ rows["audits"][row.audit].run = row.run
                        /\ runs[row.run].mode = "production"
    BY DEF RealOpportunity
  <2>2. Faithful(runs, row) /\ Promised(rows["audits"], row)
    BY <1>1, <2>1 DEF Inv, Evidence, TablesSound
  <2>3. runs[row.run].mode \in Mode
    BY <1>1, <2>2, RunsLemma DEF Inv, Faithful
  <2>4. runs[row.run].mode = "production"
    BY <2>1, <2>2, <2>3 DEF Faithful, Mode
  <2>5. QED
    BY <2>1, <2>2, <2>4 DEF Promised
<1>2. QED
  BY <1>1, Invariance, PTL

\* No audit gives more opportunities than there are sessions: only a session
\* whose query saw none can still insert one, once (the LEFT JOIN of
\* approve_audited_opportunities and the insert of create_opportunity_from_audit).
THEOREM FewOpportunities == Spec => []OppsPerAudit
<1>1. ASSUME Inv
      PROVE  OppsPerAudit
  <2>1. SUFFICES ASSUME ~erased, NEW a \in DOMAIN rows["audits"]
                 PROVE  Cardinality(Made(a)) <= Cardinality(Session)
    BY DEF OppsPerAudit, Made
  <2>2. TypeInv /\ PromotionsBounded
    BY <1>1, <2>1 DEF Inv, Evidence
  <2>3. a \in Nat
    BY <2>1, <2>2, RowsPaired, RowsOf
  <2>4. Promoting(a) \subseteq Session
    BY DEF Promoting
  <2>5. Cardinality(Promoting(a)) \in Nat /\ Cardinality(Session) \in Nat
    BY <2>4, SessionCount
  <2>6. Cardinality(Made(a)) \in Nat
    BY <2>2, MadeFinite
  <2>7. Cardinality(Made(a)) + Cardinality(Promoting(a)) <= Cardinality(Session)
    BY <2>2, <2>3 DEF PromotionsBounded
  <2>8. QED
    BY <2>5, <2>6, <2>7
<1>2. QED
  BY <1>1, Invariance, PTL

\* At most one run for each session is active at a time: create_study_run looks
\* for an active run before its transaction, so each session can add one.
THEOREM FewActiveRuns == Spec => []ActiveRunsNearOne
<1>1. ASSUME Inv
      PROVE  ActiveRunsNearOne
  <2>1. SUFFICES ASSUME ~erased
                 PROVE  Cardinality(Active) <= Cardinality(Session)
    BY DEF ActiveRunsNearOne
  <2>2. TypeInv /\ StartsBounded
    BY <1>1, <2>1 DEF Inv, Evidence
  <2>3. Starting \subseteq Session
    BY DEF Starting
  <2>4. Cardinality(Starting) \in Nat /\ Cardinality(Session) \in Nat
    BY <2>3, SessionCount
  <2>5. Cardinality(Active) \in Nat
    BY <2>2, RunsLemma, FS_CardinalityType
  <2>6. QED
    BY <2>2, <2>4, <2>5 DEF StartsBounded
<1>2. QED
  BY <1>1, Invariance, PTL
=============================================================================
