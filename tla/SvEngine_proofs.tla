-------------------------- MODULE SvEngine_proofs --------------------------
(***************************************************************************)
(* What an evaluation may say and how edits may move it, proved for every  *)
(* handoff from_dict admits and every history of edits.                    *)
(*                                                                         *)
(* The invariant is not hard: an execution is grounded when it is stored.  *)
(* The work is in the rules.  DetermineLemma to RankMonotone say what each *)
(* verdict takes and that a handoff whose assessment is no worse has no    *)
(* worse verdict; the sums of a score are then compared term by term; and  *)
(* an edit is followed through the states of the claims, the gates and the *)
(* categories (DenialStates, CorroboratedStates, ConfidenceGrows).         *)
(***************************************************************************)
EXTENDS SvEngine, FiniteSetTheorems, SequenceTheorems, WellFoundedInduction, TLAPS
---------------------------------------------------------------------------
(* The verdict of an assessment.                                           *)

Outcome == {BUILD_PROTOTYPE, VALIDATE_FURTHER, DO_NOT_BUILD}

LEMMA OutcomesDiffer ==
    /\ BUILD_PROTOTYPE # VALIDATE_FURTHER
    /\ BUILD_PROTOTYPE # DO_NOT_BUILD
    /\ VALIDATE_FURTHER # DO_NOT_BUILD
BY Zenon DEF BUILD_PROTOTYPE, VALIDATE_FURTHER, DO_NOT_BUILD

Refuses(a) == a.failed # {} \/ a.global = "NEGATIVE"

Clear(a) == a.failed = {} /\ a.open = {} /\ a.global = "SUPPORTED" /\ a.weak = {}

Scoped(h) == h.solution.scope /\ h.solution.measurable

\* What an assessment refuses is not built, and what is built has nothing
\* open, unsupported, weak or below the score.
LEMMA DetermineLemma ==
    ASSUME NEW h, NEW a, NEW score
    PROVE  LET v == DetermineVerdict(h, a, score).value
           IN  /\ v \in Outcome
               /\ v = DO_NOT_BUILD <=> Refuses(a)
               /\ v = BUILD_PROTOTYPE <=> Clear(a) /\ Scoped(h) /\ ~ (score < BuildScore)
BY OutcomesDiffer DEF DetermineVerdict, Verdict, Outcome, Refuses, Clear, Scoped

\* A scenario's cost is known, positive and within what is learnt.
Pays(m) ==
    /\ m.cost # None /\ m.learning # None
    /\ ~ (m.cost <= 0 \/ m.learning <= 0 \/ m.cost > m.learning)

Overpriced(m) ==
    /\ m.cost # None /\ m.learning # None
    /\ m.cost <= 0 \/ m.learning <= 0 \/ m.cost > m.learning

LEMMA ScenarioLemma ==
    ASSUME NEW h, NEW a, NEW s
    PROVE  LET v == ScenarioVerdict(h, a, s)
               m == h.scenarios[s]
           IN  /\ v \in Outcome
               /\ v = DO_NOT_BUILD <=> Overpriced(m) \/ Refuses(a)
               /\ v = BUILD_PROTOTYPE <=>
                     /\ Clear(a) /\ Scoped(h) /\ Pays(m)
                     /\ ~ (a.score + 100 * m.adjustment < BuildScore)
<1>1. PICK x : x = a.score + 100 * h.scenarios[s].adjustment
  OBVIOUS
<1>2. PICK v : v = DetermineVerdict(h, a, x).value
  OBVIOUS
<1>3. /\ v \in Outcome
      /\ v = DO_NOT_BUILD <=> Refuses(a)
      /\ v = BUILD_PROTOTYPE <=> Clear(a) /\ Scoped(h) /\ ~ (x < BuildScore)
  BY <1>2, DetermineLemma
<1>4. PICK m : m = h.scenarios[s]
  OBVIOUS
<1>5. ScenarioVerdict(h, a, s) =
        IF m.cost = None \/ m.learning = None
        THEN IF v = BUILD_PROTOTYPE THEN VALIDATE_FURTHER ELSE v
        ELSE IF m.cost <= 0 \/ m.learning <= 0 \/ m.cost > m.learning THEN DO_NOT_BUILD
        ELSE v
  BY <1>1, <1>2, <1>4 DEF ScenarioVerdict
<1>6. Refuses(a) => ~ Clear(a)
  BY DEF Refuses, Clear
<1>7. QED
  BY <1>1, <1>3, <1>4, <1>5, <1>6, OutcomesDiffer DEF Outcome, Pays, Overpriced

\* The verdicts of the three scenarios.
Verdicts(h) == [s \in Scenarios |-> ScenarioVerdict(h, Assessment(h), s)]

LEMMA ReconcileLemma ==
    ASSUME NEW v, v.value \in Outcome, NEW verdicts, verdicts["base"] \in Outcome
    PROVE  LET r == Reconcile(v, verdicts).value
           IN  /\ r \in Outcome
               /\ r = DO_NOT_BUILD <=> v.value = DO_NOT_BUILD \/ verdicts["base"] = DO_NOT_BUILD
               /\ r = BUILD_PROTOTYPE <=>
                     v.value = BUILD_PROTOTYPE /\ verdicts["base"] = BUILD_PROTOTYPE
<1>1. CASE v.value = DO_NOT_BUILD
  BY <1>1, OutcomesDiffer DEF Reconcile, Outcome
<1>2. CASE v.value # DO_NOT_BUILD /\ verdicts["base"] = DO_NOT_BUILD
  BY <1>2, OutcomesDiffer DEF Reconcile, Outcome, Verdict
<1>3. CASE v.value # DO_NOT_BUILD /\ verdicts["base"] = VALIDATE_FURTHER
  BY <1>3, OutcomesDiffer DEF Reconcile, Outcome, Verdict
<1>4. CASE v.value # DO_NOT_BUILD /\ verdicts["base"] = BUILD_PROTOTYPE
  <2>1. {s \in Scenarios : verdicts[s] = BUILD_PROTOTYPE} # {"upside"}
    <3>1. "base" \in {s \in Scenarios : verdicts[s] = BUILD_PROTOTYPE}
      BY <1>4 DEF Scenarios
    <3>2. "base" \notin {"upside"}
      OBVIOUS
    <3>3. QED
      BY <3>1, <3>2, Zenon
  <2>2. Reconcile(v, verdicts) = v
    BY <1>4, <2>1, OutcomesDiffer DEF Reconcile
  <2>3. QED
    BY <1>4, <2>2, OutcomesDiffer DEF Outcome
<1>5. QED
  BY <1>1, <1>2, <1>3, <1>4 DEF Outcome

\* What decides the verdict of a handoff.
LEMMA EvaluateLemma ==
    ASSUME NEW h
    PROVE  LET v == evaluate(h).value
               a == Assessment(h)
           IN  /\ v \in Outcome
               /\ v = DO_NOT_BUILD <=> Refuses(a) \/ Overpriced(h.scenarios["base"])
               /\ v = BUILD_PROTOTYPE <=>
                     /\ Clear(a) /\ Scoped(h) /\ ~ (a.score < BuildScore)
                     /\ Verdicts(h)["base"] = BUILD_PROTOTYPE
                     /\ ~ Material(h, Verdicts(h))
               /\ evaluate(h).score = a.score
<1>1. PICK a : a = Assessment(h)
  OBVIOUS
<1>2. PICK vs : vs = Verdicts(h)
  OBVIOUS
<1>3. vs = [s \in Scenarios |-> ScenarioVerdict(h, a, s)]
  BY <1>1, <1>2 DEF Verdicts
<1>4. PICK d : d = DetermineVerdict(h, a, a.score)
  OBVIOUS
<1>5. PICK v : v = Reconcile(d, vs)
  OBVIOUS
<1>6. PICK b : b = Material(h, vs)
  OBVIOUS
<1>7. /\ d.value \in Outcome
      /\ d.value = DO_NOT_BUILD <=> Refuses(a)
      /\ d.value = BUILD_PROTOTYPE <=> Clear(a) /\ Scoped(h) /\ ~ (a.score < BuildScore)
  BY <1>4, DetermineLemma
<1>8. "base" \in Scenarios
  BY DEF Scenarios
<1>9. vs["base"] = ScenarioVerdict(h, a, "base")
  BY <1>3, <1>8
<1>10. /\ vs["base"] \in Outcome
       /\ vs["base"] = DO_NOT_BUILD <=> Overpriced(h.scenarios["base"]) \/ Refuses(a)
  BY <1>9, ScenarioLemma
<1>11. /\ v.value \in Outcome
       /\ v.value = DO_NOT_BUILD <=> d.value = DO_NOT_BUILD \/ vs["base"] = DO_NOT_BUILD
       /\ v.value = BUILD_PROTOTYPE <=>
             d.value = BUILD_PROTOTYPE /\ vs["base"] = BUILD_PROTOTYPE
  BY <1>5, <1>7, <1>10, ReconcileLemma
<1>12. /\ evaluate(h).value = IF v.value = BUILD_PROTOTYPE /\ b THEN VALIDATE_FURTHER ELSE v.value
       /\ evaluate(h).score = a.score
  BY <1>1, <1>3, <1>4, <1>5, <1>6 DEF evaluate
<1>13. b \in BOOLEAN /\ (b <=> Material(h, vs))
  BY <1>6 DEF Material
<1>14. QED
  BY <1>1, <1>2, <1>7, <1>10, <1>11, <1>12, <1>13, OutcomesDiffer DEF Outcome

\* The smaller of two numbers.
LEMMA MinLemma ==
    ASSUME NEW x \in Int, NEW y \in Int
    PROVE  Min({x, y}) = IF x <= y THEN x ELSE y
<1>1. CASE x <= y
  <2>1. (CHOOSE m \in {x, y} : \A z \in {x, y} : m <= z) = x
    BY <1>1
  <2>2. QED
    BY <1>1, <2>1 DEF Min
<1>2. CASE ~ (x <= y)
  <2>1. (CHOOSE m \in {x, y} : \A z \in {x, y} : m <= z) = y
    BY <1>2
  <2>2. QED
    BY <1>2, <2>1 DEF Min
<1>3. QED
  BY <1>1, <1>2

LEMMA MaxLemma ==
    ASSUME NEW x \in Int, NEW y \in Int
    PROVE  Max({x, y}) = IF x >= y THEN x ELSE y
<1>1. CASE x >= y
  <2>1. (CHOOSE m \in {x, y} : \A z \in {x, y} : m >= z) = x
    BY <1>1
  <2>2. QED
    BY <1>1, <2>1 DEF Max
<1>2. CASE ~ (x >= y)
  <2>1. (CHOOSE m \in {x, y} : \A z \in {x, y} : m >= z) = y
    BY <1>2
  <2>2. QED
    BY <1>2, <2>1 DEF Max
<1>3. QED
  BY <1>1, <1>2

\* How far a scenario's adjustment is from the base's.
Shift(h, s) == Magnitude(h.scenarios[s].adjustment - h.scenarios["base"].adjustment)

LEMMA ShiftType ==
    ASSUME NEW h, h.scenarios \in [Scenarios -> Scenario]
    PROVE  /\ \A s \in Scenarios : Shift(h, s) \in Nat
           /\ Shift(h, "base") = 0
<1>1. \A s \in Scenarios : h.scenarios[s].adjustment \in Int
  BY DEF Scenario
<1>2. "base" \in Scenarios
  BY DEF Scenarios
<1>3. QED
  BY <1>1, <1>2 DEF Shift, Magnitude

\* Nothing material: the verdicts agree, or neither scenario is near the base.
LEMMA MaterialLemma ==
    ASSUME NEW h, h.scenarios \in [Scenarios -> Scenario], NEW vs
    PROVE  Material(h, vs) <=>
             /\ vs["downside"] # vs["base"] \/ vs["upside"] # vs["base"]
             /\ Shift(h, "downside") <= BorderlineTolerance \/ Shift(h, "upside") <= BorderlineTolerance
<1>1. PICK x : x = Shift(h, "downside")
  OBVIOUS
<1>2. PICK y : y = Shift(h, "upside")
  OBVIOUS
<1>3. x \in Int /\ y \in Int
  BY <1>1, <1>2, ShiftType DEF Scenarios
<1>4. Min({x, y}) = IF x <= y THEN x ELSE y
  BY <1>3, MinLemma
<1>5. Material(h, vs) <=> /\ vs["downside"] # vs["base"] \/ vs["upside"] # vs["base"]
                          /\ Min({x, y}) <= BorderlineTolerance
  BY <1>1, <1>2 DEF Material, Shift
<1>6. QED
  BY <1>1, <1>2, <1>3, <1>4, <1>5 DEF BorderlineTolerance

\* A handoff n whose assessment is no worse than that of h, with the same
\* scenarios and solution, has no worse verdict.
LEMMA RankMonotone ==
    ASSUME NEW h, NEW n, h.scenarios \in [Scenarios -> Scenario],
           n.scenarios = h.scenarios, n.solution = h.solution,
           Assessment(h).score \in Int, Assessment(n).score \in Int,
           Refuses(Assessment(n)) => Refuses(Assessment(h)),
           Clear(Assessment(h)) =>
               Clear(Assessment(n)) /\ Assessment(h).score <= Assessment(n).score
    PROVE  Rank(h) <= Rank(n)
<1>1. PICK a : a = Assessment(h)
  OBVIOUS
<1>2. PICK b : b = Assessment(n)
  OBVIOUS
<1>3. /\ a.score \in Int /\ b.score \in Int /\ BuildScore \in Int
      /\ Refuses(b) => Refuses(a)
      /\ Clear(a) => Clear(b) /\ a.score <= b.score
  BY <1>1, <1>2 DEF BuildScore
<1>4. Scoped(h) <=> Scoped(n)
  BY DEF Scoped
<1>5. ASSUME evaluate(h).value = BUILD_PROTOTYPE
      PROVE  evaluate(n).value = BUILD_PROTOTYPE
  <2>1. /\ Clear(a) /\ Scoped(h) /\ ~ (a.score < BuildScore)
        /\ Verdicts(h)["base"] = BUILD_PROTOTYPE
        /\ ~ Material(h, Verdicts(h))
    BY <1>1, <1>5, EvaluateLemma
  <2>2. Clear(b) /\ Scoped(n) /\ ~ (b.score < BuildScore)
    <3>1. Clear(b) /\ a.score <= b.score
      BY <1>3, <2>1
    <3>2. ~ (b.score < BuildScore)
      <4>1. a.score \in Int /\ b.score \in Int /\ BuildScore \in Int
        BY <1>3
      <4>2. a.score <= b.score /\ ~ (a.score < BuildScore)
        BY <2>1, <3>1
      <4>3. QED
        BY <4>1, <4>2
    <3>3. QED
      BY <1>4, <2>1, <3>1, <3>2
  <2>3. \A s \in Scenarios : /\ Verdicts(h)[s] = ScenarioVerdict(h, a, s)
                             /\ Verdicts(n)[s] = ScenarioVerdict(n, b, s)
    BY <1>1, <1>2 DEF Verdicts
  <2>4. ASSUME NEW s \in Scenarios, Verdicts(h)[s] = BUILD_PROTOTYPE
        PROVE  Verdicts(n)[s] = BUILD_PROTOTYPE
    <3>1. PICK m : m = h.scenarios[s]
      OBVIOUS
    <3>2. m.adjustment \in Int /\ n.scenarios[s] = m
      BY <3>1 DEF Scenario
    <3>3. Pays(m) /\ ~ (a.score + 100 * m.adjustment < BuildScore)
      <4>1. PICK v : v = ScenarioVerdict(h, a, s)
        OBVIOUS
      <4>2. v = BUILD_PROTOTYPE
        BY <2>3, <2>4, <4>1
      <4>3. v = BUILD_PROTOTYPE <=>
              /\ Clear(a) /\ Scoped(h) /\ Pays(h.scenarios[s])
              /\ ~ (a.score + 100 * h.scenarios[s].adjustment < BuildScore)
        BY <4>1, ScenarioLemma
      <4>4. QED
        BY <3>1, <4>2, <4>3
    <3>4. a.score <= b.score
      BY <1>3, <2>1
    <3>5. ~ (b.score + 100 * m.adjustment < BuildScore)
      BY <1>3, <3>2, <3>3, <3>4
    <3>6. QED
      BY <2>2, <2>3, <3>2, <3>3, <3>5, ScenarioLemma
  <2>5. {"downside", "base", "upside"} = Scenarios
    BY DEF Scenarios
  <2>6. Verdicts(n)["base"] = BUILD_PROTOTYPE
    BY <2>1, <2>4, <2>5
  <2>7. ~ Material(n, Verdicts(n))
    <3>1. \A s : Shift(n, s) = Shift(h, s)
      BY DEF Shift
    <3>2. \/ /\ Verdicts(h)["downside"] = BUILD_PROTOTYPE
             /\ Verdicts(h)["upside"] = BUILD_PROTOTYPE
          \/ /\ ~ (Shift(h, "downside") <= BorderlineTolerance)
             /\ ~ (Shift(h, "upside") <= BorderlineTolerance)
      BY <2>1, MaterialLemma
    <3>3. n.scenarios \in [Scenarios -> Scenario]
      OBVIOUS
    <3>4. Material(n, Verdicts(n)) <=>
             /\ Verdicts(n)["downside"] # Verdicts(n)["base"] \/ Verdicts(n)["upside"] # Verdicts(n)["base"]
             /\ Shift(n, "downside") <= BorderlineTolerance \/ Shift(n, "upside") <= BorderlineTolerance
      BY <3>3, MaterialLemma
    <3>5. QED
      BY <2>4, <2>5, <2>6, <3>1, <3>2, <3>4
  <2>8. QED
    BY <1>2, <2>2, <2>6, <2>7, EvaluateLemma
<1>6. ASSUME evaluate(n).value = DO_NOT_BUILD
      PROVE  evaluate(h).value = DO_NOT_BUILD
  <2>1. Refuses(b) \/ Overpriced(n.scenarios["base"])
    BY <1>2, <1>6, EvaluateLemma
  <2>2. Refuses(a) \/ Overpriced(h.scenarios["base"])
    BY <1>3, <2>1
  <2>3. QED
    BY <1>1, <2>2, EvaluateLemma
<1>7. evaluate(h).value \in Outcome /\ evaluate(n).value \in Outcome
  BY EvaluateLemma
<1>8. PICK v : v = evaluate(h).value
  OBVIOUS
<1>9. PICK w : w = evaluate(n).value
  OBVIOUS
<1>10. /\ v \in Outcome /\ w \in Outcome
       /\ v = BUILD_PROTOTYPE => w = BUILD_PROTOTYPE
       /\ w = DO_NOT_BUILD => v = DO_NOT_BUILD
  BY <1>5, <1>6, <1>7, <1>8, <1>9
<1>11. /\ Rank(h) = IF v = BUILD_PROTOTYPE THEN 2 ELSE IF v = VALIDATE_FURTHER THEN 1 ELSE 0
       /\ Rank(n) = IF w = BUILD_PROTOTYPE THEN 2 ELSE IF w = VALIDATE_FURTHER THEN 1 ELSE 0
  BY <1>8, <1>9, OutcomesDiffer DEF Rank
<1>12. PICK p : p = Rank(h)
  OBVIOUS
<1>13. PICK q : q = Rank(n)
  OBVIOUS
<1>14. \/ p = 0 /\ q \in {0, 1, 2}
       \/ p = 1 /\ q \in {1, 2}
       \/ p = 2 /\ q = 2
  BY <1>10, <1>11, <1>12, <1>13, OutcomesDiffer DEF Outcome
<1>15. p <= q
  BY <1>14
<1>16. QED
  BY <1>12, <1>13, <1>15
---------------------------------------------------------------------------
(* Totals.                                                                 *)

\* h is the table of the sums of f over the subsets of S, as the fold of the
\* community modules fills it: an arbitrary element first.
Chosen(s) == CHOOSE x \in s : TRUE

IsSum(h, f, S) ==
    h = [s \in SUBSET S |-> IF s = {} THEN 0 ELSE f[Chosen(s)] + h[s \ {Chosen(s)}]]

LEMMA LeastNumber ==
    ASSUME NEW T, T \subseteq Nat, T # {}
    PROVE  \E x \in T : \A y \in T : x <= y
<1> DEFINE below == OpToRel(<, Nat)
<1>1. IsWellFoundedOn(below, Nat)
  BY NatLessThanWellFounded
<1>2. \A x, y \in Nat : y < x => <<y, x>> \in below
  BY DEF OpToRel
<1> HIDE DEF below
<1>3. PICK x \in T : \A y \in T : ~ (<<y, x>> \in below)
  BY <1>1, WFMin
<1>4. \A y \in T : ~ (y < x)
  BY <1>2, <1>3
<1>5. QED
  BY <1>3, <1>4

\* Induction over the subsets of a finite set, with the set G of those for
\* which the claim holds in the place of the claim.
LEMMA SubsetInduction ==
    ASSUME NEW S, IsFiniteSet(S), NEW G,
           \A s \in SUBSET S : (\A x \in s : s \ {x} \in G) => s \in G
    PROVE  SUBSET S \subseteq G
<1> DEFINE Sizes0 == {n \in Nat : \E s \in SUBSET S : Cardinality(s) = n /\ s \notin G}
<1>1. SUFFICES ASSUME NEW s0 \in SUBSET S, s0 \notin G
               PROVE  FALSE
  OBVIOUS
<1>2. \A s \in SUBSET S : IsFiniteSet(s) /\ Cardinality(s) \in Nat
  BY FS_Subset, FS_CardinalityType
<1>3. Sizes0 \subseteq Nat /\ Sizes0 # {}
  BY <1>1, <1>2
<1>4. PICK n \in Sizes0 : \A m \in Sizes0 : n <= m
  BY <1>3, LeastNumber
<1>5. PICK s \in SUBSET S : Cardinality(s) = n /\ s \notin G
  BY <1>4
<1>6. ASSUME NEW x \in s
      PROVE  s \ {x} \in G
  <2>1. SUFFICES ASSUME s \ {x} \notin G
                 PROVE  FALSE
    OBVIOUS
  <2>2. PICK q : q = s \ {x}
    OBVIOUS
  <2>3. q \in SUBSET S /\ q \notin G
    BY <2>1, <2>2
  <2>4. Cardinality(q) = Cardinality(s) - 1
    BY <1>2, <1>6, <2>2, FS_RemoveElement
  <2>5. Cardinality(q) \in Sizes0
    BY <1>2, <2>3
  <2>6. n <= Cardinality(q) /\ n \in Nat /\ Cardinality(q) = n - 1
    BY <1>3, <1>4, <1>5, <2>4, <2>5
  <2>7. QED
    BY <2>6
<1>7. QED
  BY <1>5, <1>6

LEMMA ChosenLemma ==
    ASSUME NEW s, s # {}
    PROVE  Chosen(s) \in s
BY DEF Chosen

LEMMA SumExists ==
    ASSUME NEW S, IsFiniteSet(S), NEW f
    PROVE  \E h : IsSum(h, f, S)
<1> DEFINE Small(n) == {s \in SUBSET S : Cardinality(s) <= n}
           Row(g, s) == IF s = {} THEN 0 ELSE f[Chosen(s)] + g[s \ {Chosen(s)}]
           Good(n, g) == g = [s \in Small(n) |-> Row(g, s)]
           Without0 == {n \in Nat : \A g : ~ Good(n, g)}
<1>1. \A s \in SUBSET S : IsFiniteSet(s) /\ Cardinality(s) \in Nat
  BY FS_Subset, FS_CardinalityType
<1>2. \A s \in SUBSET S : s # {} =>
         /\ Chosen(s) \in s /\ s \ {Chosen(s)} \in SUBSET S
         /\ Cardinality(s \ {Chosen(s)}) = Cardinality(s) - 1
  BY <1>1, ChosenLemma, FS_RemoveElement
<1>3. Without0 = {}
  <2>1. SUFFICES ASSUME Without0 # {}
                 PROVE  FALSE
    OBVIOUS
  <2>2. PICK n \in Without0 : \A m \in Without0 : n <= m
    BY <2>1, LeastNumber
  <2>3. CASE n = 0
    <3> DEFINE g == [s \in Small(0) |-> 0]
    <3>1. \A s \in Small(0) : s = {}
      BY <1>1, FS_EmptySet
    <3>2. g = [s \in Small(0) |-> Row(g, s)]
      BY <3>1
    <3>3. Good(0, g)
      BY <3>2
    <3>4. QED
      BY <2>2, <2>3, <3>3
  <2>4. CASE n # 0
    <3>1. n \in Nat
      BY <2>2
    <3>2. n - 1 \in Nat /\ n - 1 \notin Without0
      <4> HIDE DEF Without0
      <4>1. n - 1 \in Nat /\ ~ (n <= n - 1)
        BY <2>4, <3>1
      <4>2. QED
        BY <2>2, <4>1
    <3>3. PICK g : Good(n - 1, g)
      BY <3>2
    <3> DEFINE k == [s \in Small(n) |-> Row(g, s)]
    <3>4. \A s \in Small(n - 1) : g[s] = Row(g, s)
      BY <3>3
    <3>5. \A s \in Small(n) : s # {} => s \ {Chosen(s)} \in Small(n - 1)
      BY <1>1, <1>2, <2>2
    <3>6. \A s \in Small(n - 1) : s \in Small(n) /\ k[s] = g[s]
      BY <1>1, <2>2, <3>4
    <3>7. \A s \in Small(n) : Row(g, s) = Row(k, s)
      BY <3>5, <3>6
    <3>8. k = [s \in Small(n) |-> Row(k, s)]
      BY <3>7
    <3>9. Good(n, k)
      BY <3>8
    <3>10. QED
      BY <2>2, <3>9
  <2>5. QED
    BY <2>3, <2>4
<1>4. PICK g : Good(Cardinality(S), g)
  <2>1. PICK n \in Nat : n = Cardinality(S)
    BY <1>1
  <2>2. n \notin Without0
    BY <1>3
  <2> HIDE DEF Good
  <2>3. \E g : Good(n, g)
    BY <2>1, <2>2
  <2>4. QED
    BY <2>1, <2>3
<1>5. Small(Cardinality(S)) = SUBSET S
  BY <1>1, FS_Subset
<1>6. QED
  BY <1>4, <1>5 DEF IsSum

LEMMA SumStep ==
    ASSUME NEW h, NEW f, NEW S, IsSum(h, f, S)
    PROVE  /\ h[{}] = 0
           /\ \A s \in SUBSET S : s # {} =>
                 Chosen(s) \in s /\ h[s] = f[Chosen(s)] + h[s \ {Chosen(s)}]
BY ChosenLemma DEF IsSum

\* A sum of numbers that are all at least low.
LEMMA SumBound ==
    ASSUME NEW h, NEW S, IsFiniteSet(S), NEW f, NEW low \in Nat,
           \A i \in S : f[i] \in Nat /\ f[i] >= low, IsSum(h, f, S)
    PROVE  \A s \in SUBSET S : h[s] \in Nat /\ h[s] >= low * Cardinality(s)
<1> DEFINE G == {s \in SUBSET S : h[s] \in Nat /\ h[s] >= low * Cardinality(s)}
<1>1. ASSUME NEW s \in SUBSET S, \A x \in s : s \ {x} \in G
      PROVE  s \in G
  <2>1. CASE s = {}
    <3>1. h[s] = 0 /\ Cardinality(s) = 0
      BY <2>1, SumStep, FS_EmptySet
    <3>2. QED
      BY <3>1
  <2>2. CASE s # {}
    <3>1. PICK x : x = Chosen(s)
      OBVIOUS
    <3>2. x \in s /\ h[s] = f[x] + h[s \ {x}]
      BY <2>2, <3>1, SumStep
    <3>3. /\ h[s \ {x}] \in Nat
          /\ h[s \ {x}] >= low * Cardinality(s \ {x})
      BY <1>1, <3>2
    <3>4. f[x] \in Nat /\ f[x] >= low
      BY <3>2
    <3>5. Cardinality(s \ {x}) = Cardinality(s) - 1 /\ Cardinality(s) \in Nat
      BY <3>2, FS_Subset, FS_RemoveElement, FS_CardinalityType
    <3>6. low * (Cardinality(s) - 1) = low * Cardinality(s) - low
      BY <3>5
    <3>7. low * Cardinality(s) \in Nat
      BY <3>5
    <3>8. h[s] \in Nat /\ h[s] >= low * Cardinality(s)
      BY <3>2, <3>3, <3>4, <3>5, <3>6, <3>7
    <3>9. QED
      BY <3>8
  <2>3. QED
    BY <2>1, <2>2
<1> HIDE DEF G
<1>2. SUBSET S \subseteq G
  BY <1>1, SubsetInduction
<1>3. QED
  BY <1>2 DEF G

\* It does not matter which element the fold takes first.
LEMMA SumExchange ==
    ASSUME NEW h, NEW S, IsFiniteSet(S), NEW f, \A i \in S : f[i] \in Nat, IsSum(h, f, S)
    PROVE  \A s \in SUBSET S : \A y \in s : h[s] = f[y] + h[s \ {y}]
<1> DEFINE G == {s \in SUBSET S : \A y \in s : h[s] = f[y] + h[s \ {y}]}
<1>1. \A s \in SUBSET S : h[s] \in Nat
  BY SumBound
<1>2. ASSUME NEW s \in SUBSET S, \A x \in s : s \ {x} \in G
      PROVE  s \in G
  <2>1. SUFFICES ASSUME NEW y \in s
                 PROVE  h[s] = f[y] + h[s \ {y}]
    OBVIOUS
  <2>2. PICK x : x = Chosen(s)
    OBVIOUS
  <2>3. x \in s /\ h[s] = f[x] + h[s \ {x}]
    <3> HIDE DEF G
    <3>1. s # {}
      OBVIOUS
    <3>2. Chosen(s) \in s /\ h[s] = f[Chosen(s)] + h[s \ {Chosen(s)}]
      BY <3>1, SumStep
    <3>3. QED
      BY <2>2, <3>2
  <2>4. CASE x = y
    BY <2>3, <2>4
  <2>5. CASE x # y
    <3>1. PICK r : r = (s \ {x}) \ {y}
      OBVIOUS
    <3>2. h[s \ {x}] = f[y] + h[r]
      BY <1>2, <2>3, <2>5, <3>1
    <3>3. (s \ {y}) \ {x} = r
      BY <3>1
    <3>4. h[s \ {y}] = f[x] + h[r]
      BY <1>2, <2>3, <2>5, <3>3
    <3>5. h[r] \in Nat /\ f[x] \in Nat /\ f[y] \in Nat
      BY <1>1, <2>3, <3>1
    <3>6. QED
      BY <2>3, <3>2, <3>4, <3>5
  <2>6. QED
    BY <2>4, <2>5
<1> HIDE DEF G
<1>3. SUBSET S \subseteq G
  BY <1>2, SubsetInduction
<1>4. QED
  BY <1>3 DEF G

\* Two tables agree where their summands do.
LEMMA SumAgree ==
    ASSUME NEW h, NEW f, NEW S, NEW k, NEW g, NEW T, IsFiniteSet(S), S \subseteq T,
           \A i \in S : f[i] = g[i], IsSum(h, f, S), IsSum(k, g, T)
    PROVE  h[S] = k[S]
<1> DEFINE G == {s \in SUBSET S : h[s] = k[s]}
<1>1. ASSUME NEW s \in SUBSET S, \A x \in s : s \ {x} \in G
      PROVE  s \in G
  <2>1. CASE s = {}
    BY <2>1, SumStep
  <2>2. CASE s # {}
    <3>1. PICK x : x = Chosen(s)
      OBVIOUS
    <3>2. x \in s /\ h[s] = f[x] + h[s \ {x}]
      <4> HIDE DEF G
      <4>1. Chosen(s) \in s /\ h[s] = f[Chosen(s)] + h[s \ {Chosen(s)}]
        BY <2>2, SumStep
      <4>2. QED
        BY <3>1, <4>1
    <3>3. k[s] = g[x] + k[s \ {x}]
      <4> HIDE DEF G
      <4>1. s \in SUBSET T
        OBVIOUS
      <4>2. k[s] = g[Chosen(s)] + k[s \ {Chosen(s)}]
        BY <2>2, <4>1, SumStep
      <4>3. QED
        BY <3>1, <4>2
    <3>4. h[s \ {x}] = k[s \ {x}] /\ f[x] = g[x]
      BY <1>1, <3>2
    <3>5. QED
      BY <3>2, <3>3, <3>4
  <2>3. QED
    BY <2>1, <2>2
<1> HIDE DEF G
<1>2. SUBSET S \subseteq G
  BY <1>1, SubsetInduction
<1>3. QED
  BY <1>2 DEF G

\* A total of the numbers f over S.
IsTotal(total, f, S) == \E h : IsSum(h, f, S) /\ total = h[S]

LEMMA TotalNat ==
    ASSUME NEW total, NEW f, NEW S, IsFiniteSet(S), IsTotal(total, f, S),
           \A i \in S : f[i] \in Nat
    PROVE  total \in Nat
<1>1. PICK h : IsSum(h, f, S) /\ total = h[S]
  BY DEF IsTotal
<1>2. \A i \in S : f[i] \in Nat /\ f[i] >= 0
  OBVIOUS
<1>3. 0 \in Nat /\ S \in SUBSET S
  OBVIOUS
<1>4. h[S] \in Nat
  BY <1>1, <1>2, <1>3, SumBound
<1>5. QED
  BY <1>1, <1>4

\* Numbers that are no less have a total that is no less.
LEMMA TotalMonotone ==
    ASSUME NEW S, IsFiniteSet(S), NEW f, NEW g,
           \A i \in S : f[i] \in Nat /\ g[i] \in Nat /\ f[i] <= g[i],
           NEW t, NEW u, IsTotal(t, f, S), IsTotal(u, g, S)
    PROVE  t <= u
<1>1. PICK h : IsSum(h, f, S) /\ t = h[S]
  BY DEF IsTotal
<1>2. PICK k : IsSum(k, g, S) /\ u = k[S]
  BY DEF IsTotal
<1>3. \A i \in S : f[i] \in Nat /\ f[i] >= 0 /\ g[i] \in Nat /\ g[i] >= 0
  OBVIOUS
<1>4. 0 \in Nat
  OBVIOUS
<1>5. \A s \in SUBSET S : h[s] \in Nat
  BY <1>1, <1>3, <1>4, SumBound
<1>6. \A s \in SUBSET S : k[s] \in Nat
  BY <1>2, <1>3, <1>4, SumBound
<1> DEFINE G == {s \in SUBSET S : h[s] <= k[s]}
<1>7. ASSUME NEW s \in SUBSET S, \A x \in s : s \ {x} \in G
      PROVE  s \in G
  <2>1. CASE s = {}
    <3>1. h[s] = 0 /\ k[s] = 0
      BY <1>1, <1>2, <2>1, SumStep
    <3>2. QED
      BY <3>1
  <2>2. CASE s # {}
    <3>1. PICK x : x = Chosen(s)
      OBVIOUS
    <3> HIDE DEF G
    <3>2. x \in s /\ h[s] = f[x] + h[s \ {x}]
      BY <1>1, <2>2, <3>1, SumStep
    <3>3. k[s] = g[x] + k[s \ {x}]
      BY <1>2, <2>2, <3>1, SumStep
    <3>4. s \ {x} \in SUBSET S
      OBVIOUS
    <3> USE DEF G
    <3>5. h[s \ {x}] <= k[s \ {x}]
      BY <1>7, <3>2
    <3>6. h[s \ {x}] \in Nat /\ k[s \ {x}] \in Nat
      BY <1>5, <1>6, <3>4
    <3>7. f[x] \in Nat /\ g[x] \in Nat /\ f[x] <= g[x]
      BY <3>2
    <3>8. h[s] <= k[s]
      BY <3>2, <3>3, <3>5, <3>6, <3>7
    <3>9. QED
      BY <3>8
  <2>3. QED
    BY <2>1, <2>2
<1> HIDE DEF G
<1>8. SUBSET S \subseteq G
  BY <1>7, SubsetInduction
<1>9. S \in G
  BY <1>8
<1>10. h[S] <= k[S]
  BY <1>9 DEF G
<1>11. QED
  BY <1>1, <1>2, <1>10

\* One more element adds its number.
LEMMA TotalAdd ==
    ASSUME NEW S, IsFiniteSet(S), NEW f, NEW x, x \notin S, NEW T, T = S \cup {x}, NEW g,
           \A i \in S : f[i] = g[i], \A i \in T : g[i] \in Nat,
           NEW t, NEW u, IsTotal(t, f, S), IsTotal(u, g, T)
    PROVE  u = g[x] + t
<1>1. PICK h : IsSum(h, f, S) /\ t = h[S]
  BY DEF IsTotal
<1>2. PICK k : IsSum(k, g, T) /\ u = k[T]
  BY DEF IsTotal
<1>3. IsFiniteSet(T)
  BY FS_AddElement
<1>4. T \in SUBSET T /\ x \in T /\ T \ {x} = S /\ S \subseteq T
  OBVIOUS
<1>5. k[T] = g[x] + k[T \ {x}]
  BY <1>2, <1>3, <1>4, SumExchange
<1>6. h[S] = k[S]
  BY <1>1, <1>2, <1>4, SumAgree
<1>7. QED
  BY <1>1, <1>2, <1>4, <1>5, <1>6

\* The same numbers have the same total.
LEMMA TotalSame ==
    ASSUME NEW S, IsFiniteSet(S), NEW f, NEW g, \A i \in S : f[i] = g[i],
           NEW t, NEW u, IsTotal(t, f, S), IsTotal(u, g, S)
    PROVE  t = u
<1>1. PICK h : IsSum(h, f, S) /\ t = h[S]
  BY DEF IsTotal
<1>2. PICK k : IsSum(k, g, S) /\ u = k[S]
  BY DEF IsTotal
<1>3. h[S] = k[S]
  BY <1>1, <1>2, SumAgree
<1>4. QED
  BY <1>1, <1>2, <1>3
---------------------------------------------------------------------------
(* The totals of the engine.                                               *)

CreditTotal(h, k) ==
    MapThenSumSet(LAMBDA i : Credit(h.evidence[i]), CategoryEvidence(h, k))

LEMMA CreditIsTotal ==
    ASSUME NEW h, NEW k, NEW S, S = CategoryEvidence(h, k), IsFiniteSet(S),
           NEW f, f = [i \in S |-> Credit(h.evidence[i])]
    PROVE  IsTotal(CreditTotal(h, k), f, S)
<1> DEFINE P(t) == t = [s \in SUBSET S |->
                          IF s = {} THEN 0
                          ELSE Credit(h.evidence[CHOOSE x \in s : TRUE])
                                 + t[s \ {CHOOSE x \in s : TRUE}]]
<1>1. \A t : IsSum(t, f, S) <=> P(t)
  BY DEF IsSum, Chosen
<1>2. CreditTotal(h, k) = (CHOOSE t : P(t))[S]
  BY DEF CreditTotal, MapThenSumSet, MapThenFoldSet
<1> HIDE DEF P
<1>3. P(CHOOSE t : P(t))
  <2>1. \E t : P(t)
    BY <1>1, SumExists
  <2>2. PICK t : P(t)
    BY <2>1
  <2>3. QED
    BY <2>2, Zenon
<1>4. QED
  BY <1>1, <1>2, <1>3 DEF IsTotal

WeightedTotal(h) ==
    MapThenSumSet(LAMBDA k : RawScore(h, k) * Confidence(h, k) * Weight[k], Categories)

LEMMA WeightedIsTotal ==
    ASSUME NEW h, NEW S, S = Categories, IsFiniteSet(S),
           NEW f, f = [k \in S |-> RawScore(h, k) * Confidence(h, k) * Weight[k]]
    PROVE  IsTotal(WeightedTotal(h), f, S)
<1> DEFINE P(t) == t = [s \in SUBSET S |->
                          IF s = {} THEN 0
                          ELSE RawScore(h, CHOOSE x \in s : TRUE)
                                  * Confidence(h, CHOOSE x \in s : TRUE)
                                  * Weight[CHOOSE x \in s : TRUE]
                                 + t[s \ {CHOOSE x \in s : TRUE}]]
<1>1. \A t : IsSum(t, f, S) <=> P(t)
  BY DEF IsSum, Chosen
<1>2. WeightedTotal(h) = (CHOOSE t : P(t))[S]
  BY DEF WeightedTotal, MapThenSumSet, MapThenFoldSet
<1> HIDE DEF P
<1>3. P(CHOOSE t : P(t))
  <2>1. \E t : P(t)
    BY <1>1, SumExists
  <2>2. PICK t : P(t)
    BY <2>1
  <2>3. QED
    BY <2>2, Zenon
<1>4. QED
  BY <1>1, <1>2, <1>3 DEF IsTotal

ConfidenceTotal(h) == MapThenSumSet(LAMBDA k : Confidence(h, k) * Weight[k], Categories)

LEMMA ConfidenceIsTotal ==
    ASSUME NEW h, NEW S, S = Categories, IsFiniteSet(S),
           NEW f, f = [k \in S |-> Confidence(h, k) * Weight[k]]
    PROVE  IsTotal(ConfidenceTotal(h), f, S)
<1> DEFINE P(t) == t = [s \in SUBSET S |->
                          IF s = {} THEN 0
                          ELSE Confidence(h, CHOOSE x \in s : TRUE)
                                  * Weight[CHOOSE x \in s : TRUE]
                                 + t[s \ {CHOOSE x \in s : TRUE}]]
<1>1. \A t : IsSum(t, f, S) <=> P(t)
  BY DEF IsSum, Chosen
<1>2. ConfidenceTotal(h) = (CHOOSE t : P(t))[S]
  BY DEF ConfidenceTotal, MapThenSumSet, MapThenFoldSet
<1> HIDE DEF P
<1>3. P(CHOOSE t : P(t))
  <2>1. \E t : P(t)
    BY <1>1, SumExists
  <2>2. PICK t : P(t)
    BY <2>1
  <2>3. QED
    BY <2>2, Zenon
<1>4. QED
  BY <1>1, <1>2, <1>3 DEF IsTotal
---------------------------------------------------------------------------
(* What the scores are.                                                    *)

LEMMA FourAreFinite ==
    ASSUME NEW a, NEW b, NEW c, NEW d
    PROVE  IsFiniteSet({a, b, c, d})
<1>1. IsFiniteSet({})
  BY FS_EmptySet
<1>2. IsFiniteSet({} \cup {a})
  BY <1>1, FS_AddElement
<1>3. IsFiniteSet(({} \cup {a}) \cup {b})
  BY <1>2, FS_AddElement
<1>4. IsFiniteSet((({} \cup {a}) \cup {b}) \cup {c})
  BY <1>3, FS_AddElement
<1>5. IsFiniteSet(((({} \cup {a}) \cup {b}) \cup {c}) \cup {d})
  BY <1>4, FS_AddElement
<1>6. ((({} \cup {a}) \cup {b}) \cup {c}) \cup {d} = {a, b, c, d}
  OBVIOUS
<1>7. QED
  BY <1>5, <1>6

LEMMA CategoriesFinite == IsFiniteSet(Categories)
<1>1. PICK A : A = {"C1", "C2", "C3", "C4"}
  OBVIOUS
<1>2. PICK B : B = {"C5", "C6", "C7", "C8"}
  OBVIOUS
<1>3. PICK C : C = {"C9", "C10", "C11", "C12"}
  OBVIOUS
<1>4. IsFiniteSet(A) /\ IsFiniteSet(B) /\ IsFiniteSet(C)
  BY <1>1, <1>2, <1>3, FourAreFinite
<1>5. IsFiniteSet(A \cup B)
  BY <1>4, FS_Union
<1>6. IsFiniteSet((A \cup B) \cup C)
  BY <1>4, <1>5, FS_Union
<1>7. Categories = (A \cup B) \cup C
  BY <1>1, <1>2, <1>3 DEF Categories
<1>8. QED
  BY <1>6, <1>7

Classes == {"E1", "E2", "E3", "E4", "E5", "E6", "E7"}

LEMMA ClassesFinite == IsFiniteSet(Classes)
<1>1. PICK A : A = {"E1", "E2", "E3", "E4"}
  OBVIOUS
<1>2. PICK B : B = {"E5", "E6", "E7", "E7"}
  OBVIOUS
<1>3. IsFiniteSet(A) /\ IsFiniteSet(B)
  BY <1>1, <1>2, FourAreFinite
<1>4. IsFiniteSet(A \cup B)
  BY <1>3, FS_Union
<1>5. Classes = A \cup B
  BY <1>1, <1>2 DEF Classes
<1>6. QED
  BY <1>4, <1>5

LEMMA WeightType == \A k \in Categories : Weight[k] \in Nat
BY DEF Weight, Categories

\* What is counted is finite.
LEMMA CountsFinite ==
    ASSUME NEW h, IsHandoff(h), NEW k
    PROVE  /\ IsFiniteSet(CategoryEvidence(h, k))
           /\ Cardinality(CategoryEvidence(h, k)) \in Nat
           /\ \A state : /\ IsFiniteSet(ClaimsIn(h, k, state))
                         /\ Cardinality(ClaimsIn(h, k, state)) \in Nat
<1>1. IsFiniteSet(DOMAIN h.evidence) /\ IsFiniteSet(DOMAIN h.claims)
  BY DEF IsHandoff
<1>2. CategoryEvidence(h, k) \subseteq DOMAIN h.evidence
  BY DEF CategoryEvidence
<1>3. \A state : ClaimsIn(h, k, state) \subseteq DOMAIN h.claims
  BY DEF ClaimsIn
<1>4. IsFiniteSet(CategoryEvidence(h, k))
  BY <1>1, <1>2, FS_Subset
<1>5. \A state : IsFiniteSet(ClaimsIn(h, k, state))
  BY <1>1, <1>3, FS_Subset
<1>6. QED
  BY <1>4, <1>5, FS_CardinalityType

\* The points of a category before its negative claims are taken off.
ClassesIn(h, k) == {h.evidence[i].class : i \in CategoryEvidence(h, k)}

Point(condition) == IF condition THEN 1 ELSE 0

Earned(h, k) ==
    IF CategoryEvidence(h, k) = {} \/ ClaimsIn(h, k, "SUPPORTED") = {} THEN 0
    ELSE 1 + Point(Cardinality(CategoryEvidence(h, k)) >= 2)
           + Point(Cardinality(ClassesIn(h, k)) >= 2)
           + Point(ClassesIn(h, k) \cap DirectClasses # {})
           + Point(/\ Cardinality(CategoryEvidence(h, k)) >= 4
                   /\ Cardinality(ClaimsIn(h, k, "SUPPORTED")) >= 2)

Penalty(h, k) == Min({2, Cardinality(ClaimsIn(h, k, "NEGATIVE"))})

LEMMA PointType ==
    ASSUME NEW condition
    PROVE  Point(condition) \in 0..1
BY DEF Point

LEMMA EarnedType ==
    ASSUME NEW h, NEW k
    PROVE  Earned(h, k) \in Nat
<1>1. PICK p : p = Point(Cardinality(CategoryEvidence(h, k)) >= 2)
  OBVIOUS
<1>2. PICK q : q = Point(Cardinality(ClassesIn(h, k)) >= 2)
  OBVIOUS
<1>3. PICK r : r = Point(ClassesIn(h, k) \cap DirectClasses # {})
  OBVIOUS
<1>4. PICK s : s = Point(/\ Cardinality(CategoryEvidence(h, k)) >= 4
                         /\ Cardinality(ClaimsIn(h, k, "SUPPORTED")) >= 2)
  OBVIOUS
<1>5. p \in 0..1 /\ q \in 0..1 /\ r \in 0..1 /\ s \in 0..1
  BY <1>1, <1>2, <1>3, <1>4, PointType
<1>6. Earned(h, k) = 0 \/ Earned(h, k) = 1 + p + q + r + s
  BY <1>1, <1>2, <1>3, <1>4 DEF Earned
<1>7. QED
  BY <1>5, <1>6

LEMMA PenaltyLemma ==
    ASSUME NEW h, IsHandoff(h), NEW k
    PROVE  LET n == Cardinality(ClaimsIn(h, k, "NEGATIVE"))
           IN  /\ n \in Nat
               /\ Penalty(h, k) = IF 2 <= n THEN 2 ELSE n
<1>1. PICK n : n = Cardinality(ClaimsIn(h, k, "NEGATIVE"))
  OBVIOUS
<1>2. n \in Nat
  BY <1>1, CountsFinite
<1>3. Min({2, n}) = IF 2 <= n THEN 2 ELSE n
  BY <1>2, MinLemma
<1>4. QED
  BY <1>1, <1>2, <1>3 DEF Penalty

LEMMA RawLemma ==
    ASSUME NEW h, IsHandoff(h), NEW k
    PROVE  RawScore(h, k) = IF 0 >= Earned(h, k) - Penalty(h, k) THEN 0
                            ELSE Earned(h, k) - Penalty(h, k)
<1>1. RawScore(h, k) = Max({0, Earned(h, k) - Penalty(h, k)})
  BY DEF RawScore, Earned, Penalty, Point, ClassesIn
<1>2. PICK x : x = Earned(h, k) - Penalty(h, k)
  OBVIOUS
<1>3. Earned(h, k) \in Nat /\ Penalty(h, k) \in Nat
  BY EarnedType, PenaltyLemma
<1>4. x \in Int
  BY <1>2, <1>3
<1>5. Max({0, x}) = IF 0 >= x THEN 0 ELSE x
  BY <1>4, MaxLemma
<1>6. QED
  BY <1>1, <1>2, <1>5

LEMMA RawType ==
    ASSUME NEW h, IsHandoff(h), NEW k
    PROVE  RawScore(h, k) \in Nat
<1>1. Earned(h, k) \in Nat /\ Penalty(h, k) \in Nat
  BY EarnedType, PenaltyLemma
<1>2. QED
  BY <1>1, RawLemma

LEMMA CreditType ==
    ASSUME NEW e \in EvidenceItem
    PROVE  Credit(e) \in Nat
<1>1. PICK x : x = e.confidence
  OBVIOUS
<1>2. x \in Nat
  BY <1>1 DEF EvidenceItem
<1>3. Min({x, EstimateCap}) = IF x <= EstimateCap THEN x ELSE EstimateCap
  BY <1>2, MinLemma DEF EstimateCap
<1>4. QED
  BY <1>1, <1>2, <1>3 DEF Credit, EstimateCap

LEMMA CreditTotalType ==
    ASSUME NEW h, IsHandoff(h), NEW k
    PROVE  CreditTotal(h, k) \in Nat
<1>1. PICK S : S = CategoryEvidence(h, k)
  OBVIOUS
<1>2. PICK f : f = [i \in S |-> Credit(h.evidence[i])]
  OBVIOUS
<1>3. IsFiniteSet(S)
  BY <1>1, CountsFinite
<1>4. IsTotal(CreditTotal(h, k), f, S)
  BY <1>1, <1>2, <1>3, CreditIsTotal
<1>5. \A i \in S : h.evidence[i] \in EvidenceItem
  BY <1>1 DEF CategoryEvidence, IsHandoff
<1>6. \A i \in S : f[i] \in Nat
  BY <1>2, <1>5, CreditType
<1>7. QED
  BY <1>3, <1>4, <1>6, TotalNat

\* A rounded mean, of a total t of n numbers.
Mean(t, n) == (200 * t + n) \div (2 * n)

LEMMA MeanType ==
    ASSUME NEW t \in Nat, NEW n \in Nat, n > 0
    PROVE  Mean(t, n) \in Nat
<1>1. PICK a : a = 200 * t + n
  OBVIOUS
<1>2. PICK b : b = 2 * n
  OBVIOUS
<1>3. a \in Nat /\ b \in Nat /\ b > 0
  BY <1>1, <1>2
<1>4. a \div b \in Nat
  BY <1>3
<1>5. QED
  BY <1>1, <1>2, <1>4 DEF Mean

LEMMA ConfidenceLemma ==
    ASSUME NEW h, IsHandoff(h), NEW k
    PROVE  LET n == Cardinality(CategoryEvidence(h, k))
           IN  Confidence(h, k) = IF n = 0 THEN 0 ELSE Mean(CreditTotal(h, k), n)
BY DEF Confidence, Mean, CreditTotal, MapThenSumSet, MapThenFoldSet

LEMMA ConfidenceType ==
    ASSUME NEW h, IsHandoff(h), NEW k
    PROVE  Confidence(h, k) \in Nat
<1>1. PICK n : n = Cardinality(CategoryEvidence(h, k))
  OBVIOUS
<1>2. PICK t : t = CreditTotal(h, k)
  OBVIOUS
<1>3. n \in Nat /\ t \in Nat
  BY <1>1, <1>2, CountsFinite, CreditTotalType
<1>4. n # 0 => Mean(t, n) \in Nat
  BY <1>3, MeanType
<1>5. Confidence(h, k) = IF n = 0 THEN 0 ELSE Mean(t, n)
  BY <1>1, <1>2, ConfidenceLemma
<1>6. QED
  BY <1>4, <1>5

LEMMA RoundedLemma ==
    ASSUME NEW x \in Nat, NEW y \in Nat, x <= y
    PROVE  Rounded(x) \in Nat /\ Rounded(x) <= Rounded(y)
BY DEF Rounded

\* Scores and confidences that are no less in every category weigh no less.
LEMMA ScoresGrow ==
    ASSUME NEW h, IsHandoff(h), NEW n, IsHandoff(n),
           \A k \in Categories : RawScore(h, k) <= RawScore(n, k)
                                 /\ Confidence(h, k) <= Confidence(n, k)
    PROVE  /\ WeightedAdjustedScore(h) \in Int
           /\ WeightedAdjustedScore(h) <= WeightedAdjustedScore(n)
           /\ OverallConfidence(h) \in Int
           /\ OverallConfidence(h) <= OverallConfidence(n)
<1>1. PICK S : S = Categories
  OBVIOUS
<1>2. IsFiniteSet(S)
  BY <1>1, CategoriesFinite
<1>3. PICK f : f = [k \in S |-> RawScore(h, k) * Confidence(h, k) * Weight[k]]
  OBVIOUS
<1>4. PICK g : g = [k \in S |-> RawScore(n, k) * Confidence(n, k) * Weight[k]]
  OBVIOUS
<1>5. PICK p : p = [k \in S |-> Confidence(h, k) * Weight[k]]
  OBVIOUS
<1>6. PICK q : q = [k \in S |-> Confidence(n, k) * Weight[k]]
  OBVIOUS
<1>7. ASSUME NEW k \in S
      PROVE  /\ f[k] \in Nat /\ g[k] \in Nat /\ f[k] <= g[k]
             /\ p[k] \in Nat /\ q[k] \in Nat /\ p[k] <= q[k]
  <2>1. PICK r : r = RawScore(h, k)
    OBVIOUS
  <2>2. PICK s : s = RawScore(n, k)
    OBVIOUS
  <2>3. PICK c : c = Confidence(h, k)
    OBVIOUS
  <2>4. PICK d : d = Confidence(n, k)
    OBVIOUS
  <2>5. PICK w : w = Weight[k]
    OBVIOUS
  <2>6. r \in Nat /\ s \in Nat /\ c \in Nat /\ d \in Nat /\ w \in Nat
    BY <1>1, <2>1, <2>2, <2>3, <2>4, <2>5, RawType, ConfidenceType, WeightType
  <2>7. r <= s /\ c <= d
    BY <1>1, <2>1, <2>2, <2>3, <2>4
  <2>8. r * c <= s * c /\ s * c <= s * d
    BY <2>6, <2>7
  <2>9. PICK a : a = r * c
    OBVIOUS
  <2>10. PICK b : b = s * d
    OBVIOUS
  <2>11. a \in Nat /\ b \in Nat /\ a <= b
    BY <2>6, <2>8, <2>9, <2>10
  <2>12. a * w <= b * w /\ a * w \in Nat /\ b * w \in Nat
    BY <2>6, <2>11
  <2>13. c * w <= d * w /\ c * w \in Nat /\ d * w \in Nat
    BY <2>6, <2>7
  <2>14. f[k] = a * w /\ g[k] = b * w
    BY <1>3, <1>4, <2>1, <2>2, <2>3, <2>4, <2>5, <2>9, <2>10
  <2>15. p[k] = c * w /\ q[k] = d * w
    BY <1>5, <1>6, <2>3, <2>4, <2>5
  <2>16. QED
    BY <2>12, <2>13, <2>14, <2>15
<1>8. PICK t : t = WeightedTotal(h)
  OBVIOUS
<1>9. PICK u : u = WeightedTotal(n)
  OBVIOUS
<1>10. PICK v : v = ConfidenceTotal(h)
  OBVIOUS
<1>11. PICK w : w = ConfidenceTotal(n)
  OBVIOUS
<1>12. IsTotal(t, f, S) /\ IsTotal(u, g, S)
  BY <1>1, <1>2, <1>3, <1>4, <1>8, <1>9, WeightedIsTotal
<1>13. IsTotal(v, p, S) /\ IsTotal(w, q, S)
  BY <1>1, <1>2, <1>5, <1>6, <1>10, <1>11, ConfidenceIsTotal
<1>14. t \in Nat /\ u \in Nat /\ t <= u
  BY <1>2, <1>7, <1>12, TotalNat, TotalMonotone
<1>15. v \in Nat /\ w \in Nat /\ v <= w
  BY <1>2, <1>7, <1>13, TotalNat, TotalMonotone
<1>16. WeightedAdjustedScore(h) = Rounded(t) /\ WeightedAdjustedScore(n) = Rounded(u)
  BY <1>8, <1>9 DEF WeightedAdjustedScore, WeightedTotal, MapThenSumSet, MapThenFoldSet
<1>17. OverallConfidence(h) = Rounded(v) /\ OverallConfidence(n) = Rounded(w)
  BY <1>10, <1>11 DEF OverallConfidence, ConfidenceTotal, MapThenSumSet, MapThenFoldSet
<1>18. Rounded(t) \in Nat /\ Rounded(t) <= Rounded(u)
  BY <1>14, RoundedLemma
<1>19. Rounded(v) \in Nat /\ Rounded(v) <= Rounded(w)
  BY <1>15, RoundedLemma
<1>20. QED
  BY <1>16, <1>17, <1>18, <1>19

LEMMA ScoreType ==
    ASSUME NEW h, IsHandoff(h)
    PROVE  Assessment(h).score \in Int
<1>1. \A k \in Categories : /\ RawScore(h, k) <= RawScore(h, k)
                            /\ Confidence(h, k) <= Confidence(h, k)
  BY RawType, ConfidenceType
<1>2. WeightedAdjustedScore(h) \in Int
  BY <1>1, ScoresGrow
<1>3. QED
  BY <1>2 DEF Assessment
---------------------------------------------------------------------------
(* Gates and claims.                                                       *)

LEMMA SupportLemma ==
    ASSUME NEW h, NEW c, NEW g
    PROVE  /\ SupportState(h, c, g) = "SUPPORTED" <=>
                /\ c \in DOMAIN h.claims
                /\ h.claims[c].value = "true" /\ h.claims[c].kind \notin {"UNKNOWN", "CONTRADICTION"}
                /\ ApprovedEvidence(h, h.claims[c], g) # {}
           /\ SupportState(h, c, g) = "NEGATIVE" <=>
                /\ c \in DOMAIN h.claims
                /\ h.claims[c].value # None /\ h.claims[c].kind # "UNKNOWN"
                /\ Denied(h.claims[c])
                /\ ApprovedEvidence(h, h.claims[c], g) # {}
<1>1. None # "true"
  BY NoneAssumption
<1>2. CASE c \notin DOMAIN h.claims
  BY <1>2 DEF SupportState
<1>3. CASE c \in DOMAIN h.claims
  <2>1. PICK claim : claim = h.claims[c]
    OBVIOUS
  <2>2. PICK linked : linked = ApprovedEvidence(h, claim, g)
    OBVIOUS
  <2>3. SupportState(h, c, g) =
          IF claim.value = None \/ claim.kind = "UNKNOWN" THEN "UNKNOWN"
          ELSE IF Denied(claim)
               THEN IF linked # {} THEN "NEGATIVE" ELSE "UNSUPPORTED_NEGATIVE"
               ELSE IF claim.value = "true" /\ linked # {} THEN "SUPPORTED"
                    ELSE "UNSUPPORTED_POSITIVE"
    BY <1>3, <2>1, <2>2 DEF SupportState
  <2>4. Denied(claim) <=> claim.kind = "CONTRADICTION" \/ claim.value = "false"
    BY DEF Denied
  <2>5. QED
    BY <1>1, <1>3, <2>1, <2>2, <2>3, <2>4
<1>4. QED
  BY <1>2, <1>3

\* A supported claim cites an item that backs it.
LEMMA SupportedIsBacked ==
    ASSUME NEW h, NEW c, NEW g, SupportState(h, c, g) = "SUPPORTED"
    PROVE  Backed(h, c, g)
<1>1. /\ h.claims[c].value = "true" /\ h.claims[c].kind # "CONTRADICTION"
      /\ ApprovedEvidence(h, h.claims[c], g) # {}
  BY SupportLemma
<1>2. ~ Denied(h.claims[c])
  BY <1>1 DEF Denied
<1>3. PICK i : i \in ApprovedEvidence(h, h.claims[c], g)
  BY <1>1
<1>4. QED
  BY <1>2, <1>3 DEF ApprovedEvidence, Backed

LEMMA RefusesLemma ==
    ASSUME NEW h
    PROVE  Refuses(Assessment(h)) <=>
             \/ \E g \in Gates : GateFails(h, g)
             \/ SupportState(h, GlobalBuildClaim, None) = "NEGATIVE"
<1>1. Assessment(h).failed = {g \in Gates : GateStatus(h, g) = "FAIL"}
  BY DEF Assessment
<1>2. Assessment(h).global = SupportState(h, GlobalBuildClaim, None)
  BY DEF Assessment
<1>3. \A g : GateStatus(h, g) = "FAIL" <=> GateFails(h, g)
  BY DEF GateStatus
<1>4. QED
  BY <1>1, <1>2, <1>3 DEF Refuses

LEMMA ClearLemma ==
    ASSUME NEW h
    PROVE  Clear(Assessment(h)) <=>
             /\ \A g \in Gates : ~ GateFails(h, g) /\ ~ GateOpen(h, g)
             /\ ~ Contradicted(h)
             /\ SupportState(h, GlobalBuildClaim, None) = "SUPPORTED"
             /\ WeakCategories(h) = {}
             /\ ~ (OverallConfidence(h) < BuildConfidence)
<1>1. PICK a : a = Assessment(h)
  OBVIOUS
<1>2. /\ a.failed = {g \in Gates : GateStatus(h, g) = "FAIL"}
      /\ a.open = {g \in Gates : GateStatus(h, g) = "UNRESOLVED"}
                     \cup (IF Contradicted(h) THEN {"CONTRADICTION"} ELSE {})
      /\ a.global = SupportState(h, GlobalBuildClaim, None)
      /\ a.weak = WeakCategories(h)
                     \cup (IF OverallConfidence(h) < BuildConfidence THEN {"CONFIDENCE"} ELSE {})
  BY <1>1 DEF Assessment
<1>3. \A g : /\ GateStatus(h, g) = "FAIL" <=> GateFails(h, g)
             /\ GateStatus(h, g) = "UNRESOLVED" <=> ~ GateFails(h, g) /\ GateOpen(h, g)
  BY DEF GateStatus
<1>4. a.failed = {} <=> \A g \in Gates : ~ GateFails(h, g)
  BY <1>2, <1>3
<1>5. a.open = {} <=> /\ \A g \in Gates : ~ (~ GateFails(h, g) /\ GateOpen(h, g))
                      /\ ~ Contradicted(h)
  BY <1>2, <1>3
<1>6. a.weak = {} <=> WeakCategories(h) = {} /\ ~ (OverallConfidence(h) < BuildConfidence)
  BY <1>2
<1>7. Clear(a) <=> /\ a.failed = {} /\ a.open = {} /\ a.weak = {}
                   /\ SupportState(h, GlobalBuildClaim, None) = "SUPPORTED"
  BY <1>2 DEF Clear
<1>8. QED
  BY <1>1, <1>4, <1>5, <1>6, <1>7

\* A gate that neither fails nor stays open has all its claims supported.
LEMMA GateLemma ==
    ASSUME NEW h, NEW g, ~ GateFails(h, g), ~ GateOpen(h, g), NEW c \in RequiredTrueClaims[g]
    PROVE  SupportState(h, c, g) = "SUPPORTED"
<1>1. SupportState(h, c, g) # "NEGATIVE"
  BY DEF GateFails
<1>2. SupportState(h, c, g) \in {"SUPPORTED", "NEGATIVE"}
  BY DEF GateOpen
<1>3. QED
  BY <1>1, <1>2
---------------------------------------------------------------------------
(* A verdict to build.                                                     *)

\* What VerdictGrounded says of one execution.
Grounded(r) ==
    LET h == r.handoff
    IN  /\ \A g \in Gates : \A c \in RequiredTrueClaims[g] : Backed(h, c, g)
        /\ Backed(h, GlobalBuildClaim, None)
        /\ ~ \E i \in DOMAIN h.evidence : h.evidence[i].flagged
        /\ ~ \E c \in DOMAIN h.claims : h.claims[c].kind = "CONTRADICTION"
        /\ \A s \in Scenarios :
               Magnitude(h.scenarios[s].adjustment - h.scenarios["base"].adjustment)
                   <= BorderlineTolerance
               => /\ h.scenarios[s].cost # None
                  /\ h.scenarios[s].cost \in 1..h.scenarios[s].learning
                  /\ r.result.score + 100 * h.scenarios[s].adjustment >= BuildScore

LEMMA PaysLemma ==
    ASSUME NEW m \in Scenario, Pays(m)
    PROVE  m.cost # None /\ m.cost \in 1..m.learning
<1>1. PICK x : x = m.cost
  OBVIOUS
<1>2. PICK y : y = m.learning
  OBVIOUS
<1>3. /\ x \in Int \cup {None} /\ y \in Int \cup {None} /\ x # None /\ y # None
      /\ ~ (x <= 0) /\ ~ (x > y)
  BY <1>1, <1>2 DEF Scenario, Pays
<1>4. x \in Int /\ y \in Int /\ x > 0 /\ x <= y
  BY <1>3
<1>5. x \in 1..y
  BY <1>4
<1>6. QED
  BY <1>1, <1>2, <1>3, <1>5

LEMMA NotLess ==
    ASSUME NEW x \in Int, NEW y \in Int, ~ (x < y)
    PROVE  x >= y
OBVIOUS

LEMMA ScenarioGrounded ==
    ASSUME NEW h, h.scenarios \in [Scenarios -> Scenario], NEW a, a.score \in Int,
           NEW s \in Scenarios, ScenarioVerdict(h, a, s) = BUILD_PROTOTYPE
    PROVE  /\ h.scenarios[s].cost # None
           /\ h.scenarios[s].cost \in 1..h.scenarios[s].learning
           /\ a.score + 100 * h.scenarios[s].adjustment >= BuildScore
<1>1. PICK m : m = h.scenarios[s]
  OBVIOUS
<1>2. m \in Scenario
  BY <1>1
<1>3. PICK v : v = ScenarioVerdict(h, a, s)
  OBVIOUS
<1>4. v = BUILD_PROTOTYPE <=>
        /\ Clear(a) /\ Scoped(h) /\ Pays(h.scenarios[s])
        /\ ~ (a.score + 100 * h.scenarios[s].adjustment < BuildScore)
  BY <1>3, ScenarioLemma
<1>5. Pays(m) /\ ~ (a.score + 100 * m.adjustment < BuildScore)
  BY <1>1, <1>3, <1>4
<1>6. m.cost # None /\ m.cost \in 1..m.learning
  BY <1>2, <1>5, PaysLemma
<1>7. PICK x : x = a.score
  OBVIOUS
<1>8. PICK y : y = m.adjustment
  OBVIOUS
<1>9. x \in Int /\ y \in Int /\ ~ (x + 100 * y < BuildScore)
  BY <1>2, <1>5, <1>7, <1>8 DEF Scenario
<1>10. x + 100 * y \in Int /\ BuildScore \in Int
  BY <1>9 DEF BuildScore
<1>11. x + 100 * y >= BuildScore
  BY <1>9, <1>10, NotLess
<1>12. QED
  BY <1>1, <1>6, <1>7, <1>8, <1>11

LEMMA EvaluateGrounded ==
    ASSUME NEW h, IsHandoff(h), evaluate(h).value = BUILD_PROTOTYPE
    PROVE  Grounded([handoff |-> h, result |-> evaluate(h)])
<1>1. PICK a : a = Assessment(h)
  OBVIOUS
<1>2. /\ Clear(a) /\ Scoped(h) /\ ~ (a.score < BuildScore)
      /\ Verdicts(h)["base"] = BUILD_PROTOTYPE
      /\ ~ Material(h, Verdicts(h))
      /\ evaluate(h).score = a.score
  BY <1>1, EvaluateLemma
<1>3. /\ \A g \in Gates : ~ GateFails(h, g) /\ ~ GateOpen(h, g)
      /\ ~ Contradicted(h)
      /\ SupportState(h, GlobalBuildClaim, None) = "SUPPORTED"
  BY <1>1, <1>2, ClearLemma
<1>4. \A g \in Gates : \A c \in RequiredTrueClaims[g] : Backed(h, c, g)
  BY <1>3, GateLemma, SupportedIsBacked
<1>5. Backed(h, GlobalBuildClaim, None)
  BY <1>3, SupportedIsBacked
<1>6. /\ ~ \E i \in DOMAIN h.evidence : h.evidence[i].flagged
      /\ ~ \E c \in DOMAIN h.claims : h.claims[c].kind = "CONTRADICTION"
  BY <1>3 DEF Contradicted
<1>7. h.scenarios \in [Scenarios -> Scenario]
  BY DEF IsHandoff
<1>8. ASSUME NEW s \in Scenarios, Shift(h, s) <= BorderlineTolerance
      PROVE  /\ h.scenarios[s].cost # None
             /\ h.scenarios[s].cost \in 1..h.scenarios[s].learning
             /\ a.score + 100 * h.scenarios[s].adjustment >= BuildScore
  <2>1. Verdicts(h)[s] = BUILD_PROTOTYPE
    <3>1. Scenarios = {"downside", "base", "upside"}
      BY DEF Scenarios
    <3>2. CASE s = "base"
      BY <1>2, <3>2
    <3>3. CASE s # "base"
      <4>1. \/ Shift(h, "downside") <= BorderlineTolerance
            \/ Shift(h, "upside") <= BorderlineTolerance
        BY <1>8, <3>1, <3>3
      <4>2. /\ Verdicts(h)["downside"] = BUILD_PROTOTYPE
            /\ Verdicts(h)["upside"] = BUILD_PROTOTYPE
        BY <1>2, <1>7, <4>1, MaterialLemma
      <4>3. QED
        BY <3>1, <3>3, <4>2
    <3>4. QED
      BY <3>2, <3>3
  <2>2. ScenarioVerdict(h, a, s) = BUILD_PROTOTYPE
    BY <1>1, <2>1 DEF Verdicts
  <2>3. a.score \in Int
    BY <1>1, ScoreType
  <2>4. QED
    BY <1>7, <2>2, <2>3, ScenarioGrounded
<1>9. PICK r : r = [handoff |-> h, result |-> evaluate(h)]
  OBVIOUS
<1>10. r.handoff = h /\ r.result.score = a.score
  BY <1>2, <1>9
<1>11. Grounded(r)
  BY <1>4, <1>5, <1>6, <1>8, <1>10 DEF Grounded, Shift
<1>12. QED
  BY <1>9, <1>11
---------------------------------------------------------------------------
(* Sections no edit of evidence or claims touches.                         *)

SameBusiness(h, n) ==
    /\ n.problem = h.problem /\ n.solution = h.solution
    /\ n.current = h.current /\ n.proposed = h.proposed
    /\ n.buyer_explicit = h.buyer_explicit /\ n.competitors = h.competitors
    /\ n.customer = h.customer /\ n.provena = h.provena
    /\ n.operability = h.operability /\ n.sources = h.sources
    /\ n.scenarios = h.scenarios

BusinessFails(h, g) ==
    \/ g = "G5" /\ (Regresses(h) \/ CustomerFails(h.customer))
    \/ g = "G6" /\ (OperabilityFails(h.operability) \/ ProvenaFails(h.provena))

BusinessOpen(h, g) ==
    \/ g = "G1" /\ (h.problem.families < 2 \/ h.problem.confidence < 50)
    \/ g = "G2" /\ (h.current.steps = 0 \/ ~h.current.measured)
    \/ g = "G4" /\ ~h.buyer_explicit
    \/ g = "G5" /\ (~Measurable(h) \/ ~Improves(h) \/ CustomerOpen(h.customer))
    \/ g = "G6" /\ (h.operability.confidence < 50 \/ ProvenaOpen(h.provena))
    \/ g = "G7" /\ h.competitors = 0

Undecided(h, g) ==
    \E c \in RequiredTrueClaims[g] : SupportState(h, c, g) \notin {"SUPPORTED", "NEGATIVE"}

Ethical == "ethical_legal_regulatory_acceptable"

EvidenceOpen(h, g) ==
    \/ g = "G4" /\ \A i \in GateEvidence(h, g) : h.evidence[i].class # "E2"
    \/ g = "G8" /\ (\/ Ethical \notin DOMAIN h.claims
                    \/ \A i \in ApprovedEvidence(h, h.claims[Ethical], g) :
                           h.evidence[i].class # "E4" \/ h.evidence[i].flagged)

LEMMA GateParts ==
    ASSUME NEW h, NEW g
    PROVE  /\ GateFails(h, g) <=>
                \/ \E c \in RequiredTrueClaims[g] : SupportState(h, c, g) = "NEGATIVE"
                \/ BusinessFails(h, g)
           /\ GateOpen(h, g) <=> Undecided(h, g) \/ BusinessOpen(h, g) \/ EvidenceOpen(h, g)
<1>1. GateFails(h, g) <=>
        \/ \E c \in RequiredTrueClaims[g] : SupportState(h, c, g) = "NEGATIVE"
        \/ BusinessFails(h, g)
  BY DEF GateFails, BusinessFails
<1>2. GateOpen(h, g) <=> Undecided(h, g) \/ BusinessOpen(h, g) \/ EvidenceOpen(h, g)
  BY Zenon DEF GateOpen, Undecided, BusinessOpen, EvidenceOpen, Ethical
<1>3. QED
  BY <1>1, <1>2

LEMMA SameParts ==
    ASSUME NEW h, NEW n, SameBusiness(h, n), NEW g
    PROVE  /\ BusinessFails(n, g) <=> BusinessFails(h, g)
           /\ BusinessOpen(n, g) <=> BusinessOpen(h, g)
<1>1. /\ n.problem = h.problem /\ n.current = h.current /\ n.proposed = h.proposed
      /\ n.buyer_explicit = h.buyer_explicit /\ n.competitors = h.competitors
      /\ n.customer = h.customer /\ n.provena = h.provena /\ n.operability = h.operability
  BY DEF SameBusiness
<1>2. Shared(n) = Shared(h)
  BY <1>1 DEF Shared
<1>3. /\ Regresses(n) <=> Regresses(h)
      /\ Improves(n) <=> Improves(h)
      /\ Measurable(n) <=> Measurable(h)
  BY <1>1, <1>2 DEF Regresses, Improves, Measurable
<1>4. BusinessFails(n, g) <=> BusinessFails(h, g)
  BY <1>1, <1>3 DEF BusinessFails
<1>5. BusinessOpen(n, g) <=> BusinessOpen(h, g)
  BY <1>1, <1>3 DEF BusinessOpen
<1>6. QED
  BY <1>4, <1>5
---------------------------------------------------------------------------
(* Two handoffs compared.                                                  *)

\* More evidence of the same classes, more claims supported and fewer denied
\* earn a category no less.
LEMMA RawMonotone ==
    ASSUME NEW h, IsHandoff(h), NEW n, IsHandoff(n), NEW k,
           CategoryEvidence(h, k) \subseteq CategoryEvidence(n, k),
           \A i \in CategoryEvidence(h, k) : n.evidence[i].class = h.evidence[i].class,
           ClaimsIn(h, k, "SUPPORTED") \subseteq ClaimsIn(n, k, "SUPPORTED"),
           ClaimsIn(n, k, "NEGATIVE") \subseteq ClaimsIn(h, k, "NEGATIVE")
    PROVE  RawScore(h, k) <= RawScore(n, k)
<1>1. /\ Cardinality(CategoryEvidence(h, k)) \in Nat /\ Cardinality(CategoryEvidence(n, k)) \in Nat
      /\ Cardinality(CategoryEvidence(h, k)) <= Cardinality(CategoryEvidence(n, k))
  BY CountsFinite, FS_Subset
<1>2. /\ Cardinality(ClaimsIn(h, k, "SUPPORTED")) \in Nat
      /\ Cardinality(ClaimsIn(n, k, "SUPPORTED")) \in Nat
      /\ Cardinality(ClaimsIn(h, k, "SUPPORTED")) <= Cardinality(ClaimsIn(n, k, "SUPPORTED"))
  BY CountsFinite, FS_Subset
<1>3. /\ Cardinality(ClaimsIn(h, k, "NEGATIVE")) \in Nat
      /\ Cardinality(ClaimsIn(n, k, "NEGATIVE")) \in Nat
      /\ Cardinality(ClaimsIn(n, k, "NEGATIVE")) <= Cardinality(ClaimsIn(h, k, "NEGATIVE"))
  BY CountsFinite, FS_Subset
<1>4. ClassesIn(h, k) \subseteq ClassesIn(n, k)
  BY DEF ClassesIn
<1>5. ClassesIn(n, k) \subseteq Classes
  <2>1. \A i \in CategoryEvidence(n, k) : n.evidence[i] \in EvidenceItem
    BY DEF CategoryEvidence, IsHandoff
  <2>2. \A i \in CategoryEvidence(n, k) : n.evidence[i].class \in Classes
    BY <2>1 DEF EvidenceItem, Classes
  <2>3. QED
    BY <2>2 DEF ClassesIn
<1>6. /\ Cardinality(ClassesIn(h, k)) \in Nat /\ Cardinality(ClassesIn(n, k)) \in Nat
      /\ Cardinality(ClassesIn(h, k)) <= Cardinality(ClassesIn(n, k))
  <2>1. IsFiniteSet(ClassesIn(n, k))
    BY <1>5, ClassesFinite, FS_Subset
  <2>2. IsFiniteSet(ClassesIn(h, k)) /\ Cardinality(ClassesIn(h, k)) <= Cardinality(ClassesIn(n, k))
    BY <1>4, <2>1, FS_Subset
  <2>3. QED
    BY <2>1, <2>2, FS_CardinalityType
<1>7. Earned(h, k) <= Earned(n, k)
  <2>1. CASE CategoryEvidence(h, k) = {} \/ ClaimsIn(h, k, "SUPPORTED") = {}
    <3>1. Earned(h, k) = 0
      BY <2>1 DEF Earned
    <3>2. QED
      BY <3>1, EarnedType
  <2>2. CASE ~ (CategoryEvidence(h, k) = {} \/ ClaimsIn(h, k, "SUPPORTED") = {})
    <3>1. ~ (CategoryEvidence(n, k) = {} \/ ClaimsIn(n, k, "SUPPORTED") = {})
      BY <2>2
    <3>2. PICK a : a = Cardinality(CategoryEvidence(h, k))
      OBVIOUS
    <3>3. PICK b : b = Cardinality(CategoryEvidence(n, k))
      OBVIOUS
    <3>4. PICK c : c = Cardinality(ClaimsIn(h, k, "SUPPORTED"))
      OBVIOUS
    <3>5. PICK d : d = Cardinality(ClaimsIn(n, k, "SUPPORTED"))
      OBVIOUS
    <3>6. PICK e : e = Cardinality(ClassesIn(h, k))
      OBVIOUS
    <3>7. PICK f : f = Cardinality(ClassesIn(n, k))
      OBVIOUS
    <3>8. PICK p \in BOOLEAN : p <=> ClassesIn(h, k) \cap DirectClasses # {}
      BY <1>4
    <3>9. PICK q \in BOOLEAN : q <=> ClassesIn(n, k) \cap DirectClasses # {}
      BY <1>4
    <3>10. p => q
      BY <1>4, <3>8, <3>9
    <3>11. /\ a \in Nat /\ b \in Nat /\ c \in Nat /\ d \in Nat /\ e \in Nat /\ f \in Nat
           /\ a <= b /\ c <= d /\ e <= f
      BY <1>1, <1>2, <1>6, <3>2, <3>3, <3>4, <3>5, <3>6, <3>7
    <3>12. Earned(h, k) = 1 + Point(a >= 2) + Point(e >= 2) + Point(p) + Point(a >= 4 /\ c >= 2)
      BY <2>2, <3>2, <3>4, <3>6, <3>8 DEF Earned, Point
    <3>13. Earned(n, k) = 1 + Point(b >= 2) + Point(f >= 2) + Point(q) + Point(b >= 4 /\ d >= 2)
      BY <3>1, <3>3, <3>5, <3>7, <3>9 DEF Earned, Point
    <3>14. /\ Point(a >= 2) \in 0..1 /\ Point(b >= 2) \in 0..1
           /\ Point(a >= 2) <= Point(b >= 2)
      BY <3>11 DEF Point
    <3>15. /\ Point(e >= 2) \in 0..1 /\ Point(f >= 2) \in 0..1
           /\ Point(e >= 2) <= Point(f >= 2)
      BY <3>11 DEF Point
    <3>16. /\ Point(p) \in 0..1 /\ Point(q) \in 0..1 /\ Point(p) <= Point(q)
      BY <3>10 DEF Point
    <3>17. /\ Point(a >= 4 /\ c >= 2) \in 0..1 /\ Point(b >= 4 /\ d >= 2) \in 0..1
           /\ Point(a >= 4 /\ c >= 2) <= Point(b >= 4 /\ d >= 2)
      BY <3>11 DEF Point
    <3>18. QED
      BY <3>12, <3>13, <3>14, <3>15, <3>16, <3>17
  <2>3. QED
    BY <2>1, <2>2
<1>8. Penalty(n, k) <= Penalty(h, k)
  BY <1>3, PenaltyLemma
<1>9. PICK x : x = Earned(h, k)
  OBVIOUS
<1>10. PICK y : y = Earned(n, k)
  OBVIOUS
<1>11. PICK u : u = Penalty(h, k)
  OBVIOUS
<1>12. PICK v : v = Penalty(n, k)
  OBVIOUS
<1>13. x \in Nat /\ y \in Nat /\ u \in Nat /\ v \in Nat /\ x <= y /\ v <= u
  BY <1>7, <1>8, <1>9, <1>10, <1>11, <1>12, EarnedType, PenaltyLemma
<1>14. /\ RawScore(h, k) = IF 0 >= x - u THEN 0 ELSE x - u
       /\ RawScore(n, k) = IF 0 >= y - v THEN 0 ELSE y - v
  BY <1>9, <1>10, <1>11, <1>12, RawLemma
<1>15. QED
  BY <1>13, <1>14

\* What is refused stays refused where no denied claim loses its evidence.
LEMMA RefusalStays ==
    ASSUME NEW h, NEW n, SameBusiness(h, n),
           \A c, g : SupportState(h, c, g) = "NEGATIVE" => SupportState(n, c, g) = "NEGATIVE"
    PROVE  Refuses(Assessment(h)) => Refuses(Assessment(n))
<1>1. ASSUME NEW g, GateFails(h, g)
      PROVE  GateFails(n, g)
  BY <1>1, GateParts, SameParts
<1>2. QED
  BY <1>1, RefusesLemma

\* What a gate needs is kept: its claims stay supported, by at least the same
\* items, of the same classes.
LEMMA GateStays ==
    ASSUME NEW h, NEW n, SameBusiness(h, n), NEW g \in Gates,
           ~ GateFails(h, g), ~ GateOpen(h, g),
           \A c \in RequiredTrueClaims[g] :
               SupportState(h, c, g) = "SUPPORTED" =>
                   /\ SupportState(n, c, g) = "SUPPORTED"
                   /\ \A i \in ApprovedEvidence(h, h.claims[c], g) :
                          /\ i \in ApprovedEvidence(n, n.claims[c], g)
                          /\ n.evidence[i].class = h.evidence[i].class
    PROVE  ~ GateFails(n, g) /\ ~ GateOpen(n, g)
<1>1. \A c \in RequiredTrueClaims[g] :
          SupportState(h, c, g) = "SUPPORTED" /\ SupportState(n, c, g) = "SUPPORTED"
  BY GateLemma
<1>2. /\ ~ BusinessFails(h, g) /\ ~ BusinessOpen(h, g) /\ ~ EvidenceOpen(h, g)
  BY GateParts
<1>3. ~ BusinessFails(n, g) /\ ~ BusinessOpen(n, g)
  BY <1>2, SameParts
<1>4. ~ GateFails(n, g)
  BY <1>1, <1>3, GateParts
<1>5. ~ Undecided(n, g)
  BY <1>1 DEF Undecided
<1>6. ~ EvidenceOpen(n, g)
  <2>1. CASE g = "G4"
    <3>1. PICK i \in GateEvidence(h, g) : h.evidence[i].class = "E2"
      BY <1>2, <2>1 DEF EvidenceOpen
    <3>2. PICK c \in RequiredTrueClaims[g] : i \in ApprovedEvidence(h, h.claims[c], g)
      BY <3>1 DEF GateEvidence
    <3>3. i \in ApprovedEvidence(n, n.claims[c], g) /\ n.evidence[i].class = "E2"
      BY <1>1, <3>1, <3>2
    <3>4. i \in GateEvidence(n, g)
      BY <1>1, <3>2, <3>3 DEF GateEvidence
    <3>5. QED
      BY <2>1, <3>3, <3>4 DEF EvidenceOpen
  <2>2. CASE g = "G8"
    <3>1. Ethical \in RequiredTrueClaims[g]
      BY <2>2 DEF RequiredTrueClaims, Gates, Ethical
    <3>2. PICK i \in ApprovedEvidence(h, h.claims[Ethical], g) :
              h.evidence[i].class = "E4"
      BY <1>2, <2>2 DEF EvidenceOpen
    <3>3. i \in ApprovedEvidence(n, n.claims[Ethical], g) /\ n.evidence[i].class = "E4"
      BY <1>1, <3>1, <3>2
    <3>4. /\ Ethical \in DOMAIN n.claims /\ n.claims[Ethical].value = "true"
          /\ n.claims[Ethical].kind # "CONTRADICTION"
      BY <1>1, <3>1, SupportLemma
    <3>5. ~ n.evidence[i].flagged
      BY <3>3, <3>4 DEF ApprovedEvidence, Denied
    <3>6. QED
      BY <2>2, <3>3, <3>4, <3>5 DEF EvidenceOpen
  <2>3. CASE g \notin {"G4", "G8"}
    BY <2>3 DEF EvidenceOpen
  <2>4. QED
    BY <2>1, <2>2, <2>3
<1>7. QED
  BY <1>3, <1>4, <1>5, <1>6, GateParts

\* A handoff that is clear and is bettered stays clear and scores no less.
LEMMA ClearStays ==
    ASSUME NEW h, IsHandoff(h), NEW n, IsHandoff(n), Clear(Assessment(h)),
           \A k \in Categories : RawScore(h, k) <= RawScore(n, k)
                                 /\ Confidence(h, k) <= Confidence(n, k),
           \A g \in Gates : ~ GateFails(n, g) /\ ~ GateOpen(n, g),
           ~ Contradicted(n),
           SupportState(n, GlobalBuildClaim, None) = "SUPPORTED"
    PROVE  Clear(Assessment(n)) /\ Assessment(h).score <= Assessment(n).score
<1>1. WeakCategories(h) = {} /\ ~ (OverallConfidence(h) < BuildConfidence)
  BY ClearLemma
<1>2. \A k \in Categories : ~ (RawScore(h, k) < MinimumBuildScore[k] \/ Confidence(h, k) < 5000)
  BY <1>1 DEF WeakCategories
<1>3. \A k \in Categories : MinimumBuildScore[k] \in Nat
  BY DEF MinimumBuildScore
<1>4. ASSUME NEW k \in Categories
      PROVE  ~ (RawScore(n, k) < MinimumBuildScore[k] \/ Confidence(n, k) < 5000)
  <2>1. PICK a : a = RawScore(h, k)
    OBVIOUS
  <2>2. PICK b : b = RawScore(n, k)
    OBVIOUS
  <2>3. PICK c : c = Confidence(h, k)
    OBVIOUS
  <2>4. PICK d : d = Confidence(n, k)
    OBVIOUS
  <2>5. PICK m : m = MinimumBuildScore[k]
    OBVIOUS
  <2>6. a \in Nat /\ b \in Nat /\ c \in Nat /\ d \in Nat /\ m \in Nat
    BY <1>3, <2>1, <2>2, <2>3, <2>4, <2>5, RawType, ConfidenceType
  <2>7. a <= b /\ c <= d /\ ~ (a < m) /\ ~ (c < 5000)
    BY <1>2, <2>1, <2>2, <2>3, <2>4, <2>5
  <2>8. ~ (b < m) /\ ~ (d < 5000)
    BY <2>6, <2>7
  <2>9. QED
    BY <2>2, <2>4, <2>5, <2>8
<1>5. WeakCategories(n) = {}
  BY <1>4 DEF WeakCategories
<1>6. /\ OverallConfidence(h) \in Int /\ OverallConfidence(h) <= OverallConfidence(n)
      /\ WeightedAdjustedScore(h) <= WeightedAdjustedScore(n)
  BY ScoresGrow
<1>7. OverallConfidence(n) \in Int
  <2>1. \A k \in Categories : /\ RawScore(n, k) <= RawScore(n, k)
                              /\ Confidence(n, k) <= Confidence(n, k)
    BY RawType, ConfidenceType
  <2>2. QED
    BY <2>1, ScoresGrow
<1>8. ~ (OverallConfidence(n) < BuildConfidence)
  <2>1. PICK x : x = OverallConfidence(h)
    OBVIOUS
  <2>2. PICK y : y = OverallConfidence(n)
    OBVIOUS
  <2>3. x \in Int /\ y \in Int /\ x <= y /\ ~ (x < BuildConfidence) /\ BuildConfidence \in Int
    BY <1>1, <1>6, <1>7, <2>1, <2>2 DEF BuildConfidence
  <2>4. ~ (y < BuildConfidence)
    BY <2>3
  <2>5. QED
    BY <2>2, <2>4
<1>9. Clear(Assessment(n))
  BY <1>5, <1>8, ClearLemma
<1>10. /\ Assessment(h).score = WeightedAdjustedScore(h)
       /\ Assessment(n).score = WeightedAdjustedScore(n)
  BY DEF Assessment
<1>11. QED
  BY <1>6, <1>9, <1>10
---------------------------------------------------------------------------
(* Doubt: an item is flagged, or a claim denied.                           *)

LEMMA FlagIsWorse ==
    ASSUME NEW h, IsHandoff(h), NEW n, IsHandoff(n), NEW i \in DOMAIN h.evidence,
           n = [h EXCEPT !.evidence[i].flagged = TRUE]
    PROVE  Rank(n) <= Rank(h)
<1>1. DOMAIN h = Sections
  BY DEF IsHandoff
<1>2. SameBusiness(h, n) /\ n.claims = h.claims
  BY <1>1 DEF Sections, SameBusiness
<1>3. n.evidence = [h.evidence EXCEPT ![i] = [h.evidence[i] EXCEPT !.flagged = TRUE]]
  BY <1>1 DEF Sections
<1>4. h.evidence[i] \in EvidenceItem
  BY DEF IsHandoff
<1>5. n.evidence[i].flagged
  BY <1>3, <1>4 DEF EvidenceItem
<1>6. \A j \in DOMAIN h.evidence :
          /\ j \in DOMAIN n.evidence
          /\ n.evidence[j].review = h.evidence[j].review
          /\ n.evidence[j].categories = h.evidence[j].categories
          /\ n.evidence[j].gates = h.evidence[j].gates
  BY <1>3, <1>4 DEF EvidenceItem
<1>7. Contradicted(n)
  BY <1>5, <1>6 DEF Contradicted
<1>8. ~ Clear(Assessment(n))
  BY <1>7, ClearLemma
<1>9. ASSUME NEW c, NEW g, SupportState(h, c, g) = "NEGATIVE"
      PROVE  SupportState(n, c, g) = "NEGATIVE"
  <2>1. /\ c \in DOMAIN h.claims
        /\ h.claims[c].value # None /\ h.claims[c].kind # "UNKNOWN"
        /\ Denied(h.claims[c])
        /\ ApprovedEvidence(h, h.claims[c], g) # {}
    BY <1>9, SupportLemma
  <2>2. PICK j : j \in ApprovedEvidence(h, h.claims[c], g)
    BY <2>1
  <2>3. j \in ApprovedEvidence(n, n.claims[c], g)
    BY <1>2, <1>6, <2>1, <2>2 DEF ApprovedEvidence
  <2>4. QED
    BY <1>2, <2>1, <2>3, SupportLemma
<1>10. Refuses(Assessment(h)) => Refuses(Assessment(n))
  BY <1>2, <1>9, RefusalStays
<1>11. /\ n.scenarios \in [Scenarios -> Scenario]
       /\ h.scenarios = n.scenarios /\ h.solution = n.solution
  BY <1>2 DEF SameBusiness, IsHandoff
<1>12. Assessment(h).score \in Int /\ Assessment(n).score \in Int
  BY ScoreType
<1>13. QED
  BY <1>8, <1>10, <1>11, <1>12, RankMonotone

\* How a denied claim differs, and that nothing else does.
DeniedFrom(h, n, c) ==
    /\ SameBusiness(h, n) /\ n.evidence = h.evidence
    /\ DOMAIN n.claims = DOMAIN h.claims
    /\ \A d \in DOMAIN h.claims : d # c => n.claims[d] = h.claims[d]
    /\ c \in DOMAIN h.claims
    /\ n.claims[c].value = "false"
    /\ n.claims[c].kind = h.claims[c].kind \/ n.claims[c].kind = "CONTRADICTION"
    /\ n.claims[c].category = h.claims[c].category
    /\ n.claims[c].evidence = h.claims[c].evidence

LEMMA DenialDiffers ==
    ASSUME NEW h, IsHandoff(h), NEW c \in DOMAIN h.claims,
           NEW kind \in {h.claims[c].kind, "CONTRADICTION"},
           NEW n, n = [h EXCEPT !.claims[c].value = "false", !.claims[c].kind = kind]
    PROVE  DeniedFrom(h, n, c)
<1>1. DOMAIN h = Sections
  BY DEF IsHandoff
<1>2. SameBusiness(h, n) /\ n.evidence = h.evidence
  BY <1>1 DEF Sections, SameBusiness
<1>3. PICK claim : claim = [[h.claims[c] EXCEPT !.value = "false"] EXCEPT !.kind = kind]
  OBVIOUS
<1>4. n.claims = [h.claims EXCEPT ![c] = claim]
  BY <1>1, <1>3 DEF Sections
<1>5. h.claims[c] \in ValidationClaim
  BY DEF IsHandoff
<1>6. /\ claim.value = "false" /\ claim.kind = kind
      /\ claim.category = h.claims[c].category
      /\ claim.evidence = h.claims[c].evidence
  BY <1>3, <1>5 DEF ValidationClaim
<1>7. QED
  BY <1>2, <1>4, <1>6 DEF DeniedFrom

\* What a denial does to the states of the claims.
LEMMA DenialStates ==
    ASSUME NEW h, NEW n, NEW c, DeniedFrom(h, n, c), NEW d, NEW g
    PROVE  /\ SupportState(h, d, g) = "NEGATIVE" => SupportState(n, d, g) = "NEGATIVE"
           /\ SupportState(n, d, g) = "SUPPORTED" =>
                 /\ SupportState(h, d, g) = "SUPPORTED"
                 /\ h.claims[d] = n.claims[d]
                 /\ ApprovedEvidence(h, h.claims[d], g) = ApprovedEvidence(n, n.claims[d], g)
<1>1. \A claim : ApprovedEvidence(n, claim, g) = ApprovedEvidence(h, claim, g)
  BY DEF ApprovedEvidence, DeniedFrom
<1>2. CASE d # c
  <2>1. d \in DOMAIN h.claims <=> d \in DOMAIN n.claims
    BY DEF DeniedFrom
  <2>2. d \in DOMAIN h.claims => n.claims[d] = h.claims[d]
    BY <1>2 DEF DeniedFrom
  <2>3. SupportState(n, d, g) = SupportState(h, d, g)
    BY <1>1, <2>1, <2>2 DEF SupportState
  <2>4. SupportState(h, d, g) = "SUPPORTED" => d \in DOMAIN h.claims
    BY SupportLemma
  <2>5. QED
    BY <1>1, <2>2, <2>3, <2>4
<1>3. CASE d = c
  <2>1. /\ c \in DOMAIN n.claims /\ n.claims[c].value = "false"
        /\ n.claims[c].kind = h.claims[c].kind \/ n.claims[c].kind = "CONTRADICTION"
        /\ n.claims[c].category = h.claims[c].category
        /\ n.claims[c].evidence = h.claims[c].evidence
    BY DEF DeniedFrom
  <2>2. Denied(n.claims[c])
    BY <2>1 DEF Denied
  <2>3. SupportState(n, c, g) # "SUPPORTED"
    BY <2>1, SupportLemma
  <2>4. ASSUME SupportState(h, c, g) = "NEGATIVE"
        PROVE  SupportState(n, c, g) = "NEGATIVE"
    <3>1. /\ h.claims[c].kind # "UNKNOWN" /\ Denied(h.claims[c])
          /\ ApprovedEvidence(h, h.claims[c], g) # {}
      BY <2>4, SupportLemma
    <3>2. "false" # None /\ n.claims[c].kind # "UNKNOWN"
      BY <2>1, <3>1, NoneAssumption
    <3>3. ApprovedEvidence(h, n.claims[c], g) = ApprovedEvidence(h, h.claims[c], g)
      BY <2>1, <2>2, <3>1 DEF ApprovedEvidence
    <3>4. QED
      BY <1>1, <2>1, <2>2, <3>1, <3>2, <3>3, SupportLemma
  <2>5. QED
    BY <1>3, <2>3, <2>4
<1>4. QED
  BY <1>2, <1>3

LEMMA DenialIsWorse ==
    ASSUME NEW h, IsHandoff(h), NEW n, IsHandoff(n), NEW c, DeniedFrom(h, n, c)
    PROVE  Rank(n) <= Rank(h)
<1>1. SameBusiness(h, n) /\ SameBusiness(n, h)
  BY DEF DeniedFrom, SameBusiness
<1>2. Refuses(Assessment(h)) => Refuses(Assessment(n))
  BY <1>1, DenialStates, RefusalStays
<1>3. ASSUME NEW k
      PROVE  RawScore(n, k) <= RawScore(h, k) /\ Confidence(n, k) <= Confidence(h, k)
  <2>1. CategoryEvidence(n, k) = CategoryEvidence(h, k)
    BY DEF CategoryEvidence, DeniedFrom
  <2>2. \A d \in DOMAIN h.claims : /\ d \in DOMAIN n.claims
                                   /\ n.claims[d].category = h.claims[d].category
    BY DEF DeniedFrom
  <2>3. DOMAIN n.claims = DOMAIN h.claims
    BY DEF DeniedFrom
  <2>4. ClaimsIn(n, k, "SUPPORTED") \subseteq ClaimsIn(h, k, "SUPPORTED")
    BY <2>2, <2>3, DenialStates DEF ClaimsIn
  <2>5. ClaimsIn(h, k, "NEGATIVE") \subseteq ClaimsIn(n, k, "NEGATIVE")
    BY <2>2, DenialStates DEF ClaimsIn
  <2>6. \A i \in CategoryEvidence(n, k) : h.evidence[i].class = n.evidence[i].class
    BY DEF DeniedFrom
  <2>7. RawScore(n, k) <= RawScore(h, k)
    BY <2>1, <2>4, <2>5, <2>6, RawMonotone
  <2>8. Confidence(n, k) = Confidence(h, k)
    <3>1. n.evidence = h.evidence
      BY DEF DeniedFrom
    <3>2. CreditTotal(n, k) = CreditTotal(h, k)
      BY <2>1, <3>1 DEF CreditTotal
    <3>3. QED
      BY <2>1, <3>2, ConfidenceLemma
  <2>9. Confidence(h, k) \in Nat
    BY ConfidenceType
  <2>10. QED
    BY <2>7, <2>8, <2>9
<1>4. ASSUME Clear(Assessment(n))
      PROVE  Clear(Assessment(h)) /\ Assessment(n).score <= Assessment(h).score
  <2>1. /\ \A g \in Gates : ~ GateFails(n, g) /\ ~ GateOpen(n, g)
        /\ ~ Contradicted(n)
        /\ SupportState(n, GlobalBuildClaim, None) = "SUPPORTED"
    BY <1>4, ClearLemma
  <2>2. SupportState(h, GlobalBuildClaim, None) = "SUPPORTED"
    BY <2>1, DenialStates
  <2>3. ~ Contradicted(h)
    <3>1. ~ \E i \in DOMAIN h.evidence : h.evidence[i].flagged
      BY <2>1 DEF Contradicted, DeniedFrom
    <3>2. ASSUME NEW d \in DOMAIN h.claims, h.claims[d].kind = "CONTRADICTION"
          PROVE  FALSE
      <4>1. d \in DOMAIN n.claims /\ n.claims[d].kind = "CONTRADICTION"
        BY <3>2 DEF DeniedFrom
      <4>2. QED
        BY <2>1, <4>1 DEF Contradicted
    <3>3. QED
      BY <3>1, <3>2 DEF Contradicted
  <2>4. ASSUME NEW g \in Gates
        PROVE  ~ GateFails(h, g) /\ ~ GateOpen(h, g)
    <3>1. ASSUME NEW d \in RequiredTrueClaims[g], SupportState(n, d, g) = "SUPPORTED"
          PROVE  /\ SupportState(h, d, g) = "SUPPORTED"
                 /\ \A i \in ApprovedEvidence(n, n.claims[d], g) :
                        /\ i \in ApprovedEvidence(h, h.claims[d], g)
                        /\ h.evidence[i].class = n.evidence[i].class
      BY <3>1, DenialStates DEF DeniedFrom
    <3>2. QED
      BY <1>1, <2>1, <3>1, GateStays
  <2>5. QED
    BY <1>3, <1>4, <2>2, <2>3, <2>4, ClearStays
<1>5. /\ n.scenarios \in [Scenarios -> Scenario]
      /\ h.scenarios = n.scenarios /\ h.solution = n.solution
  BY <1>1 DEF SameBusiness, IsHandoff
<1>6. Assessment(h).score \in Int /\ Assessment(n).score \in Int
  BY ScoreType
<1>7. QED
  BY <1>2, <1>4, <1>5, <1>6, RankMonotone

LEMMA DoubtIsWorse ==
    ASSUME NEW h, IsHandoff(h), NEW n, IsHandoff(n), Doubted(h, n)
    PROVE  Rank(n) <= Rank(h)
<1>1. CASE \E i \in DOMAIN h.evidence :
               ~ h.evidence[i].flagged /\ n = [h EXCEPT !.evidence[i].flagged = TRUE]
  BY <1>1, FlagIsWorse
<1>2. CASE \E c \in DOMAIN h.claims : \E kind \in {h.claims[c].kind, "CONTRADICTION"} :
               n = [h EXCEPT !.claims[c].value = "false", !.claims[c].kind = kind]
  <2>1. PICK c \in DOMAIN h.claims : \E kind \in {h.claims[c].kind, "CONTRADICTION"} :
            n = [h EXCEPT !.claims[c].value = "false", !.claims[c].kind = kind]
    BY <1>2
  <2>2. PICK kind \in {h.claims[c].kind, "CONTRADICTION"} :
            n = [h EXCEPT !.claims[c].value = "false", !.claims[c].kind = kind]
    BY <2>1
  <2>3. DeniedFrom(h, n, c)
    BY <2>2, DenialDiffers
  <2>4. QED
    BY <2>3, DenialIsWorse
<1>3. QED
  BY <1>1, <1>2 DEF Doubted
---------------------------------------------------------------------------
(* Evidence: an item becomes approved, or is added.                        *)

LEMMA Quotient ==
    ASSUME NEW m \in Nat, NEW d \in Nat \ {0}, NEW q \in Nat, d * q <= m
    PROVE  q <= m \div d
<1>1. PICK p : p = m \div d
  OBVIOUS
<1>2. PICK r : r = m % d
  OBVIOUS
<1>3. p \in Nat /\ r \in Nat /\ r < d /\ m = d * p + r
  BY <1>1, <1>2
<1>4. ASSUME p + 1 <= q
      PROVE  FALSE
  <2>1. d * (p + 1) <= d * q
    BY <1>3, <1>4
  <2>2. d * (p + 1) = d * p + d
    BY <1>3
  <2>3. QED
    BY <1>3, <2>1, <2>2
<1>5. q <= p
  BY <1>3, <1>4
<1>6. QED
  BY <1>1, <1>5

\* An item credited at least the mean does not lower it.
LEMMA MeanGrows ==
    ASSUME NEW t \in Nat, NEW n \in Nat, n > 0, NEW c \in Nat, 100 * c >= Mean(t, n)
    PROVE  Mean(t, n) <= Mean(t + c, n + 1)
<1>1. PICK a : a = 200 * t + n
  OBVIOUS
<1>2. PICK q : q = a \div (2 * n)
  OBVIOUS
<1>3. a \in Nat /\ q \in Nat /\ q = Mean(t, n)
  BY <1>1, <1>2, MeanType DEF Mean
<1>4. (2 * n) * q <= a
  <2>1. PICK d : d = 2 * n
    OBVIOUS
  <2>2. d \in Nat /\ d > 0 /\ q = a \div d
    BY <1>2, <2>1
  <2>3. a = d * (a \div d) + (a % d) /\ a % d \in Nat /\ a \div d \in Nat
    BY <1>3, <2>2
  <2>4. d * q <= a
    BY <1>3, <2>2, <2>3
  <2>5. QED
    BY <2>1, <2>4
<1>5. PICK m : m = 200 * (t + c) + (n + 1)
  OBVIOUS
<1>6. PICK d : d = 2 * (n + 1)
  OBVIOUS
<1>7. m \in Nat /\ d \in Nat \ {0}
  BY <1>5, <1>6
<1>8. d * q = (2 * n) * q + 2 * q
  BY <1>3, <1>6
<1>9. 2 * q <= 200 * c
  BY <1>3
<1>10. PICK x : x = (2 * n) * q
  OBVIOUS
<1>11. x \in Nat /\ x <= 200 * t + n
  BY <1>1, <1>3, <1>4, <1>10
<1>12. d * q <= m
  BY <1>3, <1>5, <1>8, <1>9, <1>10, <1>11
<1>13. q <= m \div d
  BY <1>3, <1>7, <1>12, Quotient
<1>14. Mean(t + c, n + 1) = m \div d
  BY <1>5, <1>6 DEF Mean
<1>15. QED
  BY <1>3, <1>13, <1>14

\* How a handoff differs in which item i is approved anew.
Corroborated(h, n, i) ==
    /\ SameBusiness(h, n)
    /\ DOMAIN n.claims = DOMAIN h.claims
    /\ \A c \in DOMAIN h.claims :
           /\ n.claims[c].category = h.claims[c].category
           /\ n.claims[c].value = h.claims[c].value
           /\ n.claims[c].kind = h.claims[c].kind
           /\ n.claims[c].evidence \ {i} = h.claims[c].evidence \ {i}
           /\ i \in n.claims[c].evidence => ~ Denied(h.claims[c])
    /\ DOMAIN n.evidence = DOMAIN h.evidence \cup {i}
    /\ \A j \in DOMAIN h.evidence : j # i => n.evidence[j] = h.evidence[j]
    /\ i \in DOMAIN h.evidence => h.evidence[i].review # "APPROVED"
    /\ n.evidence[i].review = "APPROVED" /\ ~ n.evidence[i].flagged
    /\ \A k \in n.evidence[i].categories : 100 * Credit(n.evidence[i]) >= Confidence(h, k)

LEMMA CorroboratedItems ==
    ASSUME NEW h, NEW n, NEW i, Corroborated(h, n, i), NEW c \in DOMAIN h.claims, NEW g
    PROVE  /\ Denied(n.claims[c]) <=> Denied(h.claims[c])
           /\ i \notin ApprovedEvidence(h, h.claims[c], g)
           /\ ApprovedEvidence(h, h.claims[c], g) \subseteq ApprovedEvidence(n, n.claims[c], g)
           /\ Denied(h.claims[c]) =>
                 ApprovedEvidence(n, n.claims[c], g) \subseteq ApprovedEvidence(h, h.claims[c], g)
<1>1. /\ n.claims[c].category = h.claims[c].category
      /\ n.claims[c].value = h.claims[c].value
      /\ n.claims[c].kind = h.claims[c].kind
      /\ n.claims[c].evidence \ {i} = h.claims[c].evidence \ {i}
      /\ i \in n.claims[c].evidence => ~ Denied(h.claims[c])
  BY DEF Corroborated
<1>2. Denied(n.claims[c]) <=> Denied(h.claims[c])
  BY <1>1 DEF Denied
<1>3. i \in DOMAIN h.evidence => h.evidence[i].review # "APPROVED"
  BY DEF Corroborated
<1>4. i \notin ApprovedEvidence(h, h.claims[c], g)
  BY <1>3 DEF ApprovedEvidence
<1>5. \A j : j # i => /\ j \in DOMAIN h.evidence <=> j \in DOMAIN n.evidence
                      /\ j \in h.claims[c].evidence <=> j \in n.claims[c].evidence
                      /\ j \in DOMAIN h.evidence => n.evidence[j] = h.evidence[j]
  <2>1. DOMAIN n.evidence = DOMAIN h.evidence \cup {i}
    BY DEF Corroborated
  <2>2. \A j \in DOMAIN h.evidence : j # i => n.evidence[j] = h.evidence[j]
    BY DEF Corroborated
  <2>3. QED
    BY <1>1, <2>1, <2>2
<1>6. ApprovedEvidence(h, h.claims[c], g) \subseteq ApprovedEvidence(n, n.claims[c], g)
  <2>1. SUFFICES ASSUME NEW j \in ApprovedEvidence(h, h.claims[c], g)
                 PROVE  j \in ApprovedEvidence(n, n.claims[c], g)
    OBVIOUS
  <2>2. j # i
    BY <1>4
  <2>3. QED
    BY <1>1, <1>2, <1>5, <2>2 DEF ApprovedEvidence
<1>7. ASSUME Denied(h.claims[c])
      PROVE  ApprovedEvidence(n, n.claims[c], g) \subseteq ApprovedEvidence(h, h.claims[c], g)
  <2>1. SUFFICES ASSUME NEW j \in ApprovedEvidence(n, n.claims[c], g)
                 PROVE  j \in ApprovedEvidence(h, h.claims[c], g)
    OBVIOUS
  <2>2. j # i
    BY <1>1, <1>7 DEF ApprovedEvidence
  <2>3. QED
    BY <1>1, <1>2, <1>5, <2>2 DEF ApprovedEvidence
<1>8. QED
  BY <1>2, <1>4, <1>6, <1>7

LEMMA CorroboratedStates ==
    ASSUME NEW h, NEW n, NEW i, Corroborated(h, n, i), NEW c, NEW g
    PROVE  /\ SupportState(h, c, g) = "SUPPORTED" => SupportState(n, c, g) = "SUPPORTED"
           /\ SupportState(n, c, g) = "NEGATIVE" => SupportState(h, c, g) = "NEGATIVE"
<1>1. CASE c \notin DOMAIN h.claims
  <2>1. c \notin DOMAIN n.claims
    BY <1>1 DEF Corroborated
  <2>2. QED
    BY <1>1, <2>1, SupportLemma
<1>2. CASE c \in DOMAIN h.claims
  <2>1. /\ c \in DOMAIN n.claims
        /\ n.claims[c].value = h.claims[c].value
        /\ n.claims[c].kind = h.claims[c].kind
    BY <1>2 DEF Corroborated
  <2>2. /\ Denied(n.claims[c]) <=> Denied(h.claims[c])
        /\ ApprovedEvidence(h, h.claims[c], g) \subseteq ApprovedEvidence(n, n.claims[c], g)
        /\ Denied(h.claims[c]) =>
              ApprovedEvidence(n, n.claims[c], g) \subseteq ApprovedEvidence(h, h.claims[c], g)
    BY <1>2, CorroboratedItems
  <2>3. SupportState(h, c, g) = "SUPPORTED" => SupportState(n, c, g) = "SUPPORTED"
    BY <1>2, <2>1, <2>2, SupportLemma
  <2>4. SupportState(n, c, g) = "NEGATIVE" => SupportState(h, c, g) = "NEGATIVE"
    BY <1>2, <2>1, <2>2, SupportLemma
  <2>5. QED
    BY <2>3, <2>4
<1>3. QED
  BY <1>1, <1>2

LEMMA CorroboratedCategory ==
    ASSUME NEW h, IsHandoff(h), NEW n, IsHandoff(n), NEW i, Corroborated(h, n, i), NEW k
    PROVE  /\ i \notin CategoryEvidence(h, k)
           /\ CategoryEvidence(n, k) = CategoryEvidence(h, k)
                 \cup (IF k \in n.evidence[i].categories THEN {i} ELSE {})
           /\ \A j \in CategoryEvidence(h, k) : n.evidence[j] = h.evidence[j]
<1>1. /\ DOMAIN n.evidence = DOMAIN h.evidence \cup {i}
      /\ \A j \in DOMAIN h.evidence : j # i => n.evidence[j] = h.evidence[j]
      /\ i \in DOMAIN h.evidence => h.evidence[i].review # "APPROVED"
      /\ n.evidence[i].review = "APPROVED" /\ ~ n.evidence[i].flagged
  BY DEF Corroborated
<1>2. i \notin CategoryEvidence(h, k)
  BY <1>1 DEF CategoryEvidence
<1>3. \A j \in CategoryEvidence(h, k) : j \in DOMAIN h.evidence /\ n.evidence[j] = h.evidence[j]
  BY <1>1, <1>2 DEF CategoryEvidence
<1>4. \A j : j # i => (j \in CategoryEvidence(n, k) <=> j \in CategoryEvidence(h, k))
  BY <1>1 DEF CategoryEvidence
<1>5. i \in CategoryEvidence(n, k) <=> k \in n.evidence[i].categories
  BY <1>1 DEF CategoryEvidence
<1>6. QED
  BY <1>2, <1>3, <1>4, <1>5

LEMMA ConfidenceGrows ==
    ASSUME NEW h, IsHandoff(h), NEW n, IsHandoff(n), NEW i, Corroborated(h, n, i), NEW k
    PROVE  Confidence(h, k) <= Confidence(n, k)
<1>1. PICK S : S = CategoryEvidence(h, k)
  OBVIOUS
<1>2. PICK T : T = CategoryEvidence(n, k)
  OBVIOUS
<1>3. PICK f : f = [j \in S |-> Credit(h.evidence[j])]
  OBVIOUS
<1>4. PICK g : g = [j \in T |-> Credit(n.evidence[j])]
  OBVIOUS
<1>5. PICK t : t = CreditTotal(h, k)
  OBVIOUS
<1>6. PICK u : u = CreditTotal(n, k)
  OBVIOUS
<1>7. IsFiniteSet(S) /\ IsFiniteSet(T)
  BY <1>1, <1>2, CountsFinite
<1>8. IsTotal(t, f, S) /\ IsTotal(u, g, T)
  BY <1>1, <1>2, <1>3, <1>4, <1>5, <1>6, <1>7, CreditIsTotal
<1>9. /\ i \notin S
      /\ T = S \cup (IF k \in n.evidence[i].categories THEN {i} ELSE {})
      /\ \A j \in S : n.evidence[j] = h.evidence[j]
  BY <1>1, <1>2, CorroboratedCategory
<1>10. \A j \in S : f[j] = g[j]
  BY <1>3, <1>4, <1>9
<1>11. \A j \in T : g[j] \in Nat
  <2>1. \A j \in T : n.evidence[j] \in EvidenceItem
    BY <1>2 DEF CategoryEvidence, IsHandoff
  <2>2. QED
    BY <1>4, <2>1, CreditType
<1>12. PICK a : a = Cardinality(S)
  OBVIOUS
<1>13. PICK b : b = Cardinality(T)
  OBVIOUS
<1>14. a \in Nat /\ b \in Nat /\ t \in Nat /\ u \in Nat
  BY <1>1, <1>2, <1>5, <1>6, <1>12, <1>13, CountsFinite, CreditTotalType
<1>15. /\ Confidence(h, k) = IF a = 0 THEN 0 ELSE Mean(t, a)
       /\ Confidence(n, k) = IF b = 0 THEN 0 ELSE Mean(u, b)
  BY <1>1, <1>2, <1>5, <1>6, <1>12, <1>13, ConfidenceLemma
<1>16. CASE k \notin n.evidence[i].categories
  <2>1. T = S
    BY <1>9, <1>16
  <2>2. t = u
    BY <1>7, <1>8, <1>10, <2>1, TotalSame
  <2>3. Confidence(h, k) = Confidence(n, k)
    BY <1>12, <1>13, <1>15, <2>1, <2>2
  <2>4. Confidence(h, k) \in Nat
    BY ConfidenceType
  <2>5. QED
    BY <2>3, <2>4
<1>17. CASE k \in n.evidence[i].categories
  <2>1. T = S \cup {i}
    BY <1>9, <1>17
  <2>2. b = a + 1
    BY <1>7, <1>9, <1>12, <1>13, <1>14, <2>1, FS_AddElement
  <2>3. u = g[i] + t
    <3>1. IsFiniteSet(S) /\ i \notin S
      BY <1>7, <1>9
    <3>2. IsTotal(t, f, S) /\ IsTotal(u, g, T)
      BY <1>8
    <3>3. QED
      BY <1>10, <1>11, <2>1, <3>1, <3>2, TotalAdd
  <2>4. PICK c : c = g[i]
    OBVIOUS
  <2>5. c \in Nat /\ u = t + c
    BY <1>11, <1>14, <2>1, <2>3, <2>4
  <2>6. c = Credit(n.evidence[i])
    BY <1>4, <2>1, <2>4
  <2>7. 100 * c >= Confidence(h, k)
    BY <1>17, <2>6 DEF Corroborated
  <2>8. CASE a = 0
    <3>1. Confidence(h, k) = 0
      BY <1>15, <2>8
    <3>2. Confidence(n, k) \in Nat
      BY ConfidenceType
    <3>3. QED
      BY <3>1, <3>2
  <2>9. CASE a # 0
    <3>1. Confidence(h, k) = Mean(t, a)
      BY <1>15, <2>9
    <3>2. Mean(t, a) <= Mean(t + c, a + 1)
      BY <1>14, <2>5, <2>7, <2>9, <3>1, MeanGrows
    <3>3. Confidence(n, k) = Mean(t + c, a + 1)
      BY <1>14, <1>15, <2>2, <2>5
    <3>4. QED
      BY <3>1, <3>2, <3>3
  <2>10. QED
    BY <2>8, <2>9
<1>18. QED
  BY <1>16, <1>17

LEMMA CorroboratedIsBetter ==
    ASSUME NEW h, IsHandoff(h), NEW n, IsHandoff(n), NEW i, Corroborated(h, n, i)
    PROVE  Rank(h) <= Rank(n)
<1>1. SameBusiness(h, n) /\ SameBusiness(n, h)
  BY DEF Corroborated, SameBusiness
<1>2. Refuses(Assessment(n)) => Refuses(Assessment(h))
  BY <1>1, CorroboratedStates, RefusalStays
<1>3. ASSUME NEW k
      PROVE  RawScore(h, k) <= RawScore(n, k)
  <2>1. /\ CategoryEvidence(h, k) \subseteq CategoryEvidence(n, k)
        /\ \A j \in CategoryEvidence(h, k) : n.evidence[j].class = h.evidence[j].class
    BY CorroboratedCategory
  <2>2. /\ DOMAIN n.claims = DOMAIN h.claims
        /\ \A c \in DOMAIN h.claims : n.claims[c].category = h.claims[c].category
    BY DEF Corroborated
  <2>3. ClaimsIn(h, k, "SUPPORTED") \subseteq ClaimsIn(n, k, "SUPPORTED")
    BY <2>2, CorroboratedStates DEF ClaimsIn
  <2>4. ClaimsIn(n, k, "NEGATIVE") \subseteq ClaimsIn(h, k, "NEGATIVE")
    BY <2>2, CorroboratedStates DEF ClaimsIn
  <2>5. QED
    BY <2>1, <2>3, <2>4, RawMonotone
<1>4. ASSUME Clear(Assessment(h))
      PROVE  Clear(Assessment(n)) /\ Assessment(h).score <= Assessment(n).score
  <2>1. /\ \A g \in Gates : ~ GateFails(h, g) /\ ~ GateOpen(h, g)
        /\ ~ Contradicted(h)
        /\ SupportState(h, GlobalBuildClaim, None) = "SUPPORTED"
    BY <1>4, ClearLemma
  <2>2. SupportState(n, GlobalBuildClaim, None) = "SUPPORTED"
    BY <2>1, CorroboratedStates
  <2>3. ~ Contradicted(n)
    <3>1. /\ DOMAIN n.evidence = DOMAIN h.evidence \cup {i}
          /\ \A j \in DOMAIN h.evidence : j # i => n.evidence[j] = h.evidence[j]
          /\ ~ n.evidence[i].flagged
          /\ DOMAIN n.claims = DOMAIN h.claims
          /\ \A c \in DOMAIN h.claims : n.claims[c].kind = h.claims[c].kind
      BY DEF Corroborated
    <3>2. QED
      BY <2>1, <3>1 DEF Contradicted
  <2>4. ASSUME NEW g \in Gates
        PROVE  ~ GateFails(n, g) /\ ~ GateOpen(n, g)
    <3>1. ASSUME NEW c \in RequiredTrueClaims[g], SupportState(h, c, g) = "SUPPORTED"
          PROVE  /\ SupportState(n, c, g) = "SUPPORTED"
                 /\ \A j \in ApprovedEvidence(h, h.claims[c], g) :
                        /\ j \in ApprovedEvidence(n, n.claims[c], g)
                        /\ n.evidence[j].class = h.evidence[j].class
      <4>1. c \in DOMAIN h.claims
        BY <3>1, SupportLemma
      <4>2. /\ i \notin ApprovedEvidence(h, h.claims[c], g)
            /\ ApprovedEvidence(h, h.claims[c], g) \subseteq ApprovedEvidence(n, n.claims[c], g)
        BY <4>1, CorroboratedItems
      <4>3. \A j \in ApprovedEvidence(h, h.claims[c], g) : j \in DOMAIN h.evidence
        BY DEF ApprovedEvidence
      <4>4. \A j \in DOMAIN h.evidence : j # i => n.evidence[j] = h.evidence[j]
        BY DEF Corroborated
      <4>5. QED
        BY <3>1, <4>2, <4>3, <4>4, CorroboratedStates
    <3>2. QED
      BY <1>1, <2>1, <3>1, GateStays
  <2>5. QED
    BY <1>3, <1>4, <2>2, <2>3, <2>4, ConfidenceGrows, ClearStays
<1>5. /\ h.scenarios \in [Scenarios -> Scenario]
      /\ n.scenarios = h.scenarios /\ n.solution = h.solution
  BY <1>1 DEF SameBusiness, IsHandoff
<1>6. Assessment(h).score \in Int /\ Assessment(n).score \in Int
  BY ScoreType
<1>7. QED
  BY <1>2, <1>4, <1>5, <1>6, RankMonotone
---------------------------------------------------------------------------
(* What the author does to a handoff.                                      *)

\* An item, a claim or a scenario replaced: what is left is a handoff.
WithItem(h, i, item) == [h EXCEPT !.evidence = [h.evidence EXCEPT ![i] = item]]

WithClaim(h, c, claim) == [h EXCEPT !.claims = [h.claims EXCEPT ![c] = claim]]

WithScenario(h, s, m) == [h EXCEPT !.scenarios = [h.scenarios EXCEPT ![s] = m]]

LEMMA ItemStays ==
    ASSUME NEW h, IsHandoff(h), NEW i \in DOMAIN h.evidence, NEW item \in EvidenceItem,
           NEW n, n = WithItem(h, i, item)
    PROVE  /\ IsHandoff(n) /\ DOMAIN n.evidence = DOMAIN h.evidence
           /\ n.evidence[i] = item
           /\ \A j \in DOMAIN h.evidence : j # i => n.evidence[j] = h.evidence[j]
<1>1. /\ DOMAIN h = Sections /\ IsFiniteSet(DOMAIN h.evidence)
      /\ \A j \in DOMAIN h.evidence : h.evidence[j] \in EvidenceItem
  BY DEF IsHandoff
<1>2. DOMAIN n = Sections /\ n.claims = h.claims /\ n.scenarios = h.scenarios
  BY <1>1 DEF Sections, WithItem
<1>3. n.evidence = [h.evidence EXCEPT ![i] = item]
  BY <1>1 DEF Sections, WithItem
<1>4. /\ DOMAIN n.evidence = DOMAIN h.evidence
      /\ \A j \in DOMAIN n.evidence : n.evidence[j] \in EvidenceItem
      /\ n.evidence[i] = item
      /\ \A j \in DOMAIN h.evidence : j # i => n.evidence[j] = h.evidence[j]
  BY <1>1, <1>3
<1>5. QED
  BY <1>1, <1>2, <1>4 DEF IsHandoff

LEMMA ClaimStays ==
    ASSUME NEW h, IsHandoff(h), NEW c \in DOMAIN h.claims, NEW claim \in ValidationClaim,
           NEW n, n = WithClaim(h, c, claim)
    PROVE  IsHandoff(n) /\ n.evidence = h.evidence
<1>1. /\ DOMAIN h = Sections /\ IsFiniteSet(DOMAIN h.claims)
      /\ \A d \in DOMAIN h.claims : h.claims[d] \in ValidationClaim
  BY DEF IsHandoff
<1>2. DOMAIN n = Sections /\ n.evidence = h.evidence /\ n.scenarios = h.scenarios
  BY <1>1 DEF Sections, WithClaim
<1>3. n.claims = [h.claims EXCEPT ![c] = claim]
  BY <1>1 DEF Sections, WithClaim
<1>4. /\ DOMAIN n.claims = DOMAIN h.claims
      /\ \A d \in DOMAIN n.claims : n.claims[d] \in ValidationClaim
  BY <1>1, <1>3
<1>5. QED
  BY <1>1, <1>2, <1>4 DEF IsHandoff

LEMMA ScenarioStays ==
    ASSUME NEW h, IsHandoff(h), NEW s \in Scenarios, NEW m \in Scenario,
           NEW n, n = WithScenario(h, s, m)
    PROVE  IsHandoff(n) /\ n.evidence = h.evidence
<1>1. DOMAIN h = Sections /\ h.scenarios \in [Scenarios -> Scenario]
  BY DEF IsHandoff
<1>2. DOMAIN n = Sections /\ n.evidence = h.evidence /\ n.claims = h.claims
  BY <1>1 DEF Sections, WithScenario
<1>3. n.scenarios = [h.scenarios EXCEPT ![s] = m]
  BY <1>1 DEF Sections, WithScenario
<1>4. n.scenarios \in [Scenarios -> Scenario]
  BY <1>1, <1>3
<1>5. QED
  BY <1>2, <1>4 DEF IsHandoff

\* What an edit leaves: a handoff, which corroborates only by an item.
Proper(h, n) ==
    /\ IsHandoff(n)
    /\ Corroborates(h, n) => \E i : Corroborated(h, n, i)

\* An item that is replaced is the only one that can corroborate.
LEMMA ItemProper ==
    ASSUME NEW h, IsHandoff(h), NEW i \in DOMAIN h.evidence, NEW item \in EvidenceItem,
           NEW n, n = WithItem(h, i, item)
    PROVE  Proper(h, n)
<1>1. /\ IsHandoff(n) /\ DOMAIN n.evidence = DOMAIN h.evidence
      /\ n.evidence[i] = item
      /\ \A l \in DOMAIN h.evidence : l # i => n.evidence[l] = h.evidence[l]
  BY ItemStays
<1>2. DOMAIN h = Sections
  BY DEF IsHandoff
<1>3. SameBusiness(h, n) /\ n.claims = h.claims
  BY <1>2 DEF Sections, SameBusiness, WithItem
<1>4. ASSUME Corroborates(h, n)
      PROVE  Corroborated(h, n, i)
  <2>1. PICK j \in DOMAIN n.evidence :
            /\ j \in DOMAIN h.evidence => h.evidence[j].review # "APPROVED"
            /\ n.evidence[j].review = "APPROVED" /\ ~ n.evidence[j].flagged
            /\ DOMAIN n.evidence = DOMAIN h.evidence \cup {j}
            /\ \A c \in DOMAIN h.claims : n.claims[c].evidence \ {j} = h.claims[c].evidence \ {j}
            /\ \A c \in DOMAIN h.claims : j \in n.claims[c].evidence => ~ Denied(h.claims[c])
            /\ \A k \in n.evidence[j].categories :
                   100 * Credit(n.evidence[j]) >= Confidence(h, k)
    BY <1>4 DEF Corroborates
  <2>2. j \in DOMAIN h.evidence
    BY <1>1, <2>1
  <2>3. j = i
    BY <1>1, <2>1, <2>2
  <2>4. QED
    BY <1>1, <1>3, <2>1, <2>3 DEF Corroborated
<1>5. QED
  BY <1>1, <1>4 DEF Proper

LEMMA FlagProper ==
    ASSUME NEW h, IsHandoff(h), NEW i \in DOMAIN h.evidence,
           NEW n, n = [h EXCEPT !.evidence[i].flagged = ~@]
    PROVE  Proper(h, n)
<1>1. PICK item : item = [h.evidence[i] EXCEPT !.flagged = ~ h.evidence[i].flagged]
  OBVIOUS
<1>2. h.evidence[i] \in EvidenceItem
  BY DEF IsHandoff
<1>3. item \in EvidenceItem
  BY <1>1, <1>2 DEF EvidenceItem
<1>4. n = WithItem(h, i, item)
  BY <1>1 DEF WithItem
<1>5. QED
  BY <1>3, <1>4, ItemProper

LEMMA ReviewProper ==
    ASSUME NEW h, IsHandoff(h), NEW i \in DOMAIN h.evidence, NEW state \in ReviewStates,
           NEW n, n = [h EXCEPT !.evidence[i].review = state]
    PROVE  Proper(h, n)
<1>1. PICK item : item = [h.evidence[i] EXCEPT !.review = state]
  OBVIOUS
<1>2. h.evidence[i] \in EvidenceItem
  BY DEF IsHandoff
<1>3. item \in EvidenceItem
  BY <1>1, <1>2 DEF EvidenceItem
<1>4. n = WithItem(h, i, item)
  BY <1>1 DEF WithItem
<1>5. QED
  BY <1>3, <1>4, ItemProper

LEMMA SameContentProper ==
    ASSUME NEW h, IsHandoff(h), NEW i \in DOMAIN h.evidence, NEW j \in DOMAIN h.evidence,
           NEW n, n = [h EXCEPT !.evidence[i].content = h.evidence[j].content]
    PROVE  Proper(h, n)
<1>1. PICK item : item = [h.evidence[i] EXCEPT !.content = h.evidence[j].content]
  OBVIOUS
<1>2. h.evidence[i] \in EvidenceItem /\ h.evidence[j] \in EvidenceItem
  BY DEF IsHandoff
<1>3. item \in EvidenceItem
  BY <1>1, <1>2 DEF EvidenceItem
<1>4. n = WithItem(h, i, item)
  BY <1>1 DEF WithItem
<1>5. QED
  BY <1>3, <1>4, ItemProper

LEMMA UnlinkProper ==
    ASSUME NEW h, IsHandoff(h), NEW i \in DOMAIN h.evidence, NEW g,
           NEW n, n = [h EXCEPT !.evidence[i].gates = @ \ {g}]
    PROVE  Proper(h, n)
<1>1. PICK item : item = [h.evidence[i] EXCEPT !.gates = h.evidence[i].gates \ {g}]
  OBVIOUS
<1>2. h.evidence[i] \in EvidenceItem
  BY DEF IsHandoff
<1>3. item \in EvidenceItem
  BY <1>1, <1>2 DEF EvidenceItem
<1>4. n = WithItem(h, i, item)
  BY <1>1 DEF WithItem
<1>5. QED
  BY <1>3, <1>4, ItemProper


\* A handoff whose evidence stays is corroborated by nothing.
LEMMA SameEvidenceProper ==
    ASSUME NEW h, NEW n, IsHandoff(n), n.evidence = h.evidence
    PROVE  Proper(h, n)
BY DEF Proper, Corroborates

LEMMA DenyProper ==
    ASSUME NEW h, IsHandoff(h), NEW c \in DOMAIN h.claims, NEW kind \in ValueKinds,
           NEW n, n = [h EXCEPT !.claims[c].value = "false", !.claims[c].kind = kind]
    PROVE  Proper(h, n)
<1>1. PICK claim : claim = [[h.claims[c] EXCEPT !.value = "false"] EXCEPT !.kind = kind]
  OBVIOUS
<1>2. h.claims[c] \in ValidationClaim /\ DOMAIN h = Sections
  BY DEF IsHandoff
<1>3. claim \in ValidationClaim
  BY <1>1, <1>2 DEF ValidationClaim
<1>4. n = WithClaim(h, c, claim)
  BY <1>1, <1>2 DEF WithClaim, Sections
<1>5. QED
  BY <1>3, <1>4, ClaimStays, SameEvidenceProper

LEMMA ForgetProper ==
    ASSUME NEW h, IsHandoff(h), NEW c \in DOMAIN h.claims,
           NEW n, n = [h EXCEPT !.claims[c].value = None]
    PROVE  Proper(h, n)
<1>1. PICK claim : claim = [h.claims[c] EXCEPT !.value = None]
  OBVIOUS
<1>2. h.claims[c] \in ValidationClaim
  BY DEF IsHandoff
<1>3. claim \in ValidationClaim
  BY <1>1, <1>2 DEF ValidationClaim
<1>4. n = WithClaim(h, c, claim)
  BY <1>1 DEF WithClaim
<1>5. QED
  BY <1>3, <1>4, ClaimStays, SameEvidenceProper

LEMMA RescoreProper ==
    ASSUME NEW h, IsHandoff(h), NEW s \in Scenarios, NEW adjustment \in Int,
           NEW n, n = [h EXCEPT !.scenarios[s].adjustment = adjustment]
    PROVE  Proper(h, n)
<1>1. PICK m : m = [h.scenarios[s] EXCEPT !.adjustment = adjustment]
  OBVIOUS
<1>2. h.scenarios[s] \in Scenario
  BY DEF IsHandoff
<1>3. m \in Scenario
  BY <1>1, <1>2 DEF Scenario
<1>4. n = WithScenario(h, s, m)
  BY <1>1 DEF WithScenario
<1>5. QED
  BY <1>3, <1>4, ScenarioStays, SameEvidenceProper

LEMMA RecostProper ==
    ASSUME NEW h, IsHandoff(h), NEW s \in Scenarios, NEW cost \in Int \cup {None},
           NEW n, n = [h EXCEPT !.scenarios[s].cost = cost]
    PROVE  Proper(h, n)
<1>1. PICK m : m = [h.scenarios[s] EXCEPT !.cost = cost]
  OBVIOUS
<1>2. h.scenarios[s] \in Scenario
  BY DEF IsHandoff
<1>3. m \in Scenario
  BY <1>1, <1>2 DEF Scenario
<1>4. n = WithScenario(h, s, m)
  BY <1>1 DEF WithScenario
<1>5. QED
  BY <1>3, <1>4, ScenarioStays, SameEvidenceProper

\* The sections no property types.
LEMMA SectionProper ==
    ASSUME NEW h, IsHandoff(h), NEW n, DOMAIN n = DOMAIN h,
           n.evidence = h.evidence, n.claims = h.claims, n.scenarios = h.scenarios
    PROVE  Proper(h, n)
<1>1. IsHandoff(n)
  BY DEF IsHandoff
<1>2. QED
  BY <1>1, SameEvidenceProper

LEMMA RepriceProper ==
    ASSUME NEW h, IsHandoff(h), NEW price,
           NEW n, n = [h EXCEPT !.customer.price = price, !.provena.price = price]
    PROVE  Proper(h, n)
<1>1. DOMAIN h = Sections
  BY DEF IsHandoff
<1>2. /\ DOMAIN n = DOMAIN h /\ n.evidence = h.evidence
      /\ n.claims = h.claims /\ n.scenarios = h.scenarios
  BY <1>1 DEF Sections
<1>3. QED
  BY <1>2, SectionProper

LEMMA UnscopeProper ==
    ASSUME NEW h, IsHandoff(h), NEW n, n = [h EXCEPT !.solution.scope = FALSE]
    PROVE  Proper(h, n)
<1>1. DOMAIN h = Sections
  BY DEF IsHandoff
<1>2. /\ DOMAIN n = DOMAIN h /\ n.evidence = h.evidence
      /\ n.claims = h.claims /\ n.scenarios = h.scenarios
  BY <1>1 DEF Sections
<1>3. QED
  BY <1>2, SectionProper

LEMMA DropMetricsProper ==
    ASSUME NEW h, IsHandoff(h),
           NEW n, n = [h EXCEPT !.current.measured = FALSE, !.sources.current = {}]
    PROVE  Proper(h, n)
<1>1. DOMAIN h = Sections
  BY DEF IsHandoff
<1>2. /\ DOMAIN n = DOMAIN h /\ n.evidence = h.evidence
      /\ n.claims = h.claims /\ n.scenarios = h.scenarios
  BY <1>1 DEF Sections
<1>3. QED
  BY <1>2, SectionProper

\* The new item is the only one that can corroborate.
LEMMA AddProper ==
    ASSUME NEW h, IsHandoff(h), NEW i \in DOMAIN h.evidence,
           NEW class \in Classes, NEW credit \in 0..100,
           NEW new \in STRING, new \notin DOMAIN h.evidence,
           NEW n, n = [h EXCEPT !.evidence = ItemsWith(h, i, class, credit, new),
                              !.claims = ClaimsWith(h, i, new)]
    PROVE  Proper(h, n)
<1>1. /\ DOMAIN h = Sections /\ IsFiniteSet(DOMAIN h.evidence) /\ IsFiniteSet(DOMAIN h.claims)
      /\ \A j \in DOMAIN h.evidence : h.evidence[j] \in EvidenceItem
      /\ \A c \in DOMAIN h.claims : h.claims[c] \in ValidationClaim
      /\ h.scenarios \in [Scenarios -> Scenario]
  BY DEF IsHandoff
<1>2. PICK e : e = ItemsWith(h, i, class, credit, new)
  OBVIOUS
<1>3. PICK k : k = ClaimsWith(h, i, new)
  OBVIOUS
<1>4. n = [h EXCEPT !.evidence = e, !.claims = k]
  BY <1>2, <1>3
<1>5. DOMAIN n = Sections /\ n.evidence = e /\ n.claims = k /\ SameBusiness(h, n)
  BY <1>1, <1>4 DEF Sections, SameBusiness
<1>6. PICK item : item = [h.evidence[i] EXCEPT !.class = class, !.confidence = credit,
                             !.flagged = FALSE, !.review = "APPROVED", !.content = new]
  OBVIOUS
<1>7. /\ DOMAIN e = DOMAIN h.evidence \cup {new}
      /\ \A j \in DOMAIN h.evidence : j # new /\ e[j] = h.evidence[j]
      /\ e[new] \in EvidenceItem
  <2>1. e = [j \in DOMAIN h.evidence \cup {new} |-> IF j = new THEN item ELSE h.evidence[j]]
    BY <1>2, <1>6 DEF ItemsWith
  <2>2. h.evidence[i] \in EvidenceItem /\ "APPROVED" \in ReviewStates
    BY <1>1 DEF ReviewStates
  <2>3. item \in EvidenceItem
    BY <1>6, <2>2 DEF EvidenceItem, Classes
  <2>4. /\ DOMAIN e = DOMAIN h.evidence \cup {new}
        /\ \A j \in DOMAIN h.evidence : j # new /\ e[j] = h.evidence[j]
        /\ e[new] = item
    BY <2>1
  <2>5. QED
    BY <2>3, <2>4
<1>8. ASSUME NEW c \in DOMAIN h.claims
      PROVE  /\ k[c] \in ValidationClaim
             /\ k[c].category = h.claims[c].category
             /\ k[c].value = h.claims[c].value
             /\ k[c].kind = h.claims[c].kind
             /\ k[c].evidence \ {new} = h.claims[c].evidence \ {new}
  <2>1. PICK x : x = h.claims[c]
    OBVIOUS
  <2>2. k[c] = IF i \in x.evidence THEN [x EXCEPT !.evidence = x.evidence \cup {new}] ELSE x
    BY <1>3, <2>1 DEF ClaimsWith
  <2>3. x \in ValidationClaim
    BY <1>1, <2>1
  <2>4. QED
    BY <2>1, <2>2, <2>3 DEF ValidationClaim
<1>9. IsHandoff(n)
  <2>1. IsFiniteSet(DOMAIN e)
    BY <1>1, <1>7, FS_AddElement
  <2>2. \A j \in DOMAIN e : e[j] \in EvidenceItem
    BY <1>1, <1>7
  <2>3. DOMAIN k = DOMAIN h.claims
    BY <1>3 DEF ClaimsWith
  <2>4. n.scenarios = h.scenarios
    BY <1>5 DEF SameBusiness
  <2>5. QED
    BY <1>1, <1>5, <1>8, <2>1, <2>2, <2>3, <2>4 DEF IsHandoff
<1>10. ASSUME Corroborates(h, n)
       PROVE  Corroborated(h, n, new)
  <2>1. PICK j \in DOMAIN n.evidence :
            /\ j \in DOMAIN h.evidence => h.evidence[j].review # "APPROVED"
            /\ n.evidence[j].review = "APPROVED" /\ ~ n.evidence[j].flagged
            /\ DOMAIN n.evidence = DOMAIN h.evidence \cup {j}
            /\ \A c \in DOMAIN h.claims : n.claims[c].evidence \ {j} = h.claims[c].evidence \ {j}
            /\ \A c \in DOMAIN h.claims : j \in n.claims[c].evidence => ~ Denied(h.claims[c])
            /\ \A g \in n.evidence[j].categories :
                   100 * Credit(n.evidence[j]) >= Confidence(h, g)
    BY <1>10 DEF Corroborates
  <2>2. j = new
    BY <1>5, <1>7, <2>1
  <2>3. DOMAIN n.claims = DOMAIN h.claims
    BY <1>3, <1>5 DEF ClaimsWith
  <2>4. \A l \in DOMAIN h.evidence : l # new => n.evidence[l] = h.evidence[l]
    BY <1>5, <1>7
  <2>5. \A c \in DOMAIN h.claims :
            /\ n.claims[c].category = h.claims[c].category
            /\ n.claims[c].value = h.claims[c].value
            /\ n.claims[c].kind = h.claims[c].kind
            /\ n.claims[c].evidence \ {new} = h.claims[c].evidence \ {new}
            /\ new \in n.claims[c].evidence => ~ Denied(h.claims[c])
    BY <1>5, <1>8, <2>1, <2>2
  <2>6. QED
    BY <1>5, <2>1, <2>2, <2>3, <2>4, <2>5 DEF Corroborated
<1>11. QED
  BY <1>9, <1>10 DEF Proper
---------------------------------------------------------------------------
(* Every step.                                                             *)

\* A sequence is one over any larger set.
LEMMA SeqWiden ==
    ASSUME NEW S, NEW T, S \subseteq T, NEW q \in Seq(S)
    PROVE  q \in Seq(T)
<1>1. Len(q) \in Nat /\ q \in [1..Len(q) -> S]
  BY LenProperties
<1>2. q \in [1..Len(q) -> T]
  BY <1>1
<1>3. QED
  BY <1>1, <1>2, SeqDef

LEMMA RunsType ==
    ASSUME TypeOK
    PROVE  Len(runs) \in Nat /\ DOMAIN runs = 1..Len(runs)
<1>1. runs \in Seq({runs[n] : n \in DOMAIN runs})
  BY DEF TypeOK
<1>2. QED
  BY <1>1, LenProperties

\* An author's edit leaves a handoff, corroborated by one item at most.
LEMMA EditLemma ==
    ASSUME TypeOK, Next, ~ Evaluate
    PROVE  /\ Proper(handoff, handoff')
           /\ edits < MaxEdits /\ edits' = edits + 1 /\ runs' = runs
<1>1. IsHandoff(handoff)
  BY DEF TypeOK
<1>2. ASSUME NEW i \in DOMAIN handoff.evidence, FlagEvidence(i)
      PROVE  handoff' = [handoff EXCEPT !.evidence[i].flagged = ~@] /\ Edited(handoff')
  BY <1>2 DEF FlagEvidence, Edited
<1>3. ASSUME NEW i \in DOMAIN handoff.evidence, FlagEvidence(i)
      PROVE  Proper(handoff, handoff') /\ Edited(handoff')
  BY <1>1, <1>2, <1>3, FlagProper
<1>4. ASSUME NEW i \in DOMAIN handoff.evidence, NEW state \in ReviewStates,
             ReviewEvidence(i, state)
      PROVE  Proper(handoff, handoff') /\ Edited(handoff')
  <2>1. handoff' = [handoff EXCEPT !.evidence[i].review = state] /\ Edited(handoff')
    BY <1>4 DEF ReviewEvidence, Edited
  <2>2. QED
    BY <1>1, <2>1, ReviewProper
<1>5. ASSUME NEW i \in DOMAIN handoff.evidence,
             NEW class \in {"E5", handoff.evidence[i].class}, NEW credit \in Credits,
             AddEvidence(i, class, credit)
      PROVE  Proper(handoff, handoff') /\ Edited(handoff')
  <2>1. PICK new : new = CHOOSE id \in Ids \ DOMAIN handoff.evidence : TRUE
    OBVIOUS
  <2>2. /\ Ids \ DOMAIN handoff.evidence # {}
        /\ Edited([handoff EXCEPT !.evidence = ItemsWith(handoff, i, class, credit, new),
                                  !.claims = ClaimsWith(handoff, i, new)])
    BY <1>5, <2>1 DEF AddEvidence
  <2>3. /\ handoff' = [handoff EXCEPT !.evidence = ItemsWith(handoff, i, class, credit, new),
                                      !.claims = ClaimsWith(handoff, i, new)]
        /\ Edited(handoff')
    BY <2>2 DEF Edited
  <2>4. new \in Ids \ DOMAIN handoff.evidence
    BY <2>1, <2>2
  <2>5. new \in STRING /\ new \notin DOMAIN handoff.evidence
    BY <2>4, InputAssumption
  <2>6. credit \in 0..100
    BY InputAssumption
  <2>7. class \in Classes
    <3>1. handoff.evidence[i] \in EvidenceItem
      BY <1>1 DEF IsHandoff
    <3>2. QED
      BY <3>1 DEF EvidenceItem, Classes
  <2>8. QED
    BY <1>1, <2>2, <2>3, <2>5, <2>6, <2>7, AddProper
<1>6. ASSUME NEW i \in DOMAIN handoff.evidence, NEW j \in DOMAIN handoff.evidence,
             SameContent(i, j)
      PROVE  Proper(handoff, handoff') /\ Edited(handoff')
  <2>1. handoff' = [handoff EXCEPT !.evidence[i].content = handoff.evidence[j].content]
    BY <1>6 DEF SameContent, Edited
  <2>2. Edited(handoff')
    BY <1>6 DEF SameContent, Edited
  <2>3. QED
    BY <1>1, <2>1, <2>2, SameContentProper
<1>7. ASSUME NEW i \in DOMAIN handoff.evidence, NEW g \in Gates, UnlinkGate(i, g)
      PROVE  Proper(handoff, handoff') /\ Edited(handoff')
  <2>1. handoff' = [handoff EXCEPT !.evidence[i].gates = @ \ {g}] /\ Edited(handoff')
    BY <1>7 DEF UnlinkGate, Edited
  <2>2. QED
    BY <1>1, <2>1, UnlinkProper
<1>8. ASSUME NEW c \in DOMAIN handoff.claims, NEW kind \in {"OBSERVED", "CONTRADICTION"},
             DenyClaim(c, kind)
      PROVE  Proper(handoff, handoff') /\ Edited(handoff')
  <2>1. /\ handoff' = [handoff EXCEPT !.claims[c].value = "false", !.claims[c].kind = kind]
        /\ Edited(handoff')
    BY <1>8 DEF DenyClaim, Edited
  <2>2. kind \in ValueKinds
    BY DEF ValueKinds
  <2>3. QED
    BY <1>1, <2>1, <2>2, DenyProper
<1>9. ASSUME NEW c \in DOMAIN handoff.claims, ForgetClaim(c)
      PROVE  Proper(handoff, handoff') /\ Edited(handoff')
  <2>1. handoff' = [handoff EXCEPT !.claims[c].value = None] /\ Edited(handoff')
    BY <1>9 DEF ForgetClaim, Edited
  <2>2. QED
    BY <1>1, <2>1, ForgetProper
<1>10. ASSUME NEW s \in Scenarios, NEW adjustment \in Adjustments, Rescore(s, adjustment)
       PROVE  Proper(handoff, handoff') /\ Edited(handoff')
  <2>1. handoff' = [handoff EXCEPT !.scenarios[s].adjustment = adjustment] /\ Edited(handoff')
    BY <1>10 DEF Rescore, Edited
  <2>2. adjustment \in Int
    BY InputAssumption
  <2>3. QED
    BY <1>1, <2>1, <2>2, RescoreProper
<1>11. ASSUME NEW s \in Scenarios, NEW cost \in Costs \cup {None}, Recost(s, cost)
       PROVE  Proper(handoff, handoff') /\ Edited(handoff')
  <2>1. handoff' = [handoff EXCEPT !.scenarios[s].cost = cost] /\ Edited(handoff')
    BY <1>11 DEF Recost, Edited
  <2>2. cost \in Int \cup {None}
    BY InputAssumption
  <2>3. QED
    BY <1>1, <2>1, <2>2, RecostProper
<1>12. ASSUME NEW price \in Costs, Reprice(price)
       PROVE  Proper(handoff, handoff') /\ Edited(handoff')
  <2>1. /\ handoff' = [handoff EXCEPT !.customer.price = price, !.provena.price = price]
        /\ Edited(handoff')
    BY <1>12 DEF Reprice, Edited
  <2>2. QED
    BY <1>1, <2>1, RepriceProper
<1>13. ASSUME Unscope
       PROVE  Proper(handoff, handoff') /\ Edited(handoff')
  <2>1. handoff' = [handoff EXCEPT !.solution.scope = FALSE] /\ Edited(handoff')
    BY <1>13 DEF Unscope, Edited
  <2>2. QED
    BY <1>1, <2>1, UnscopeProper
<1>14. ASSUME DropMetrics
       PROVE  Proper(handoff, handoff') /\ Edited(handoff')
  <2>1. /\ handoff' = [handoff EXCEPT !.current.measured = FALSE, !.sources.current = {}]
        /\ Edited(handoff')
    BY <1>14 DEF DropMetrics, Edited
  <2>2. QED
    BY <1>1, <2>1, DropMetricsProper
<1>15. Proper(handoff, handoff') /\ Edited(handoff')
  BY <1>3, <1>4, <1>5, <1>6, <1>7, <1>8, <1>9, <1>10, <1>11, <1>12, <1>13, <1>14, Zenon DEF Next
<1>16. QED
  BY <1>15 DEF Edited
---------------------------------------------------------------------------
(* The invariant and the theorems.                                         *)

Inv == TypeOK /\ VerdictGrounded

LEMMA GroundedRuns ==
    VerdictGrounded <=>
        \A n \in DOMAIN runs : runs[n].result.value = BUILD_PROTOTYPE => Grounded(runs[n])
BY DEF VerdictGrounded, Grounded

LEMMA InitInv == Init => Inv
<1>1. SUFFICES ASSUME Init
               PROVE  Inv
  OBVIOUS
<1>2. IsHandoff(handoff) /\ edits = 0 /\ runs = <<>>
  <2>1. handoff \in Cases /\ edits = 0 /\ runs = <<>>
    BY <1>1 DEF Init
  <2>2. IsHandoff(handoff)
    BY <2>1, CasesAssumption, Zenon
  <2>3. QED
    BY <2>1, <2>2
<1>3. DOMAIN runs = {} /\ Len(runs) = 0
  BY <1>2
<1>4. runs \in Seq({runs[n] : n \in DOMAIN runs})
  BY <1>2
<1>5. TypeOK
  BY <1>2, <1>3, <1>4, BoundsAssumption DEF TypeOK
<1>6. VerdictGrounded
  BY <1>3 DEF VerdictGrounded
<1>7. QED
  BY <1>5, <1>6 DEF Inv

LEMMA EvaluateStep ==
    ASSUME Inv, Evaluate
    PROVE  Inv'
<1>1. PICK r : r = [handoff |-> handoff, result |-> evaluate(handoff)]
  OBVIOUS
<1>2. /\ IsHandoff(handoff) /\ edits \in 0..MaxEdits
      /\ runs \in Seq({runs[n] : n \in DOMAIN runs})
      /\ \A n \in DOMAIN runs : IsHandoff(runs[n].handoff)
  BY DEF Inv, TypeOK
<1>3. /\ Len(runs) < MaxRuns /\ runs' = Append(runs, r)
      /\ handoff' = handoff /\ edits' = edits
  BY <1>1 DEF Evaluate
<1>4. Len(runs) \in Nat /\ DOMAIN runs = 1..Len(runs)
  BY RunsType DEF Inv
<1>5. PICK S : S = {runs[n] : n \in DOMAIN runs} \cup {r}
  OBVIOUS
<1>6. runs \in Seq(S) /\ r \in S
  BY <1>2, <1>5, SeqWiden
<1>7. /\ runs' \in Seq(S) /\ Len(runs') = Len(runs) + 1
      /\ \A n \in 1..Len(runs) : runs'[n] = runs[n]
      /\ runs'[Len(runs) + 1] = r
  BY <1>3, <1>6, AppendProperties
<1>8. DOMAIN runs' = 1..(Len(runs) + 1)
  BY <1>7, LenProperties
<1>9. \A n \in DOMAIN runs' : (n \in DOMAIN runs /\ runs'[n] = runs[n]) \/ runs'[n] = r
  BY <1>4, <1>7, <1>8
<1>10. runs' \in Seq({runs'[n] : n \in DOMAIN runs'})
  <2>1. Len(runs) + 1 \in DOMAIN runs'
    BY <1>4, <1>8
  <2>2. \A n \in DOMAIN runs : n \in DOMAIN runs' /\ runs'[n] = runs[n]
    BY <1>4, <1>7, <1>8
  <2>3. S \subseteq {runs'[n] : n \in DOMAIN runs'}
    BY <1>5, <1>7, <2>1, <2>2
  <2>4. QED
    BY <1>7, <2>3, SeqWiden
<1>11. r.handoff = handoff /\ r.result = evaluate(handoff)
  BY <1>1
<1>12. Len(runs') <= MaxRuns
  BY <1>3, <1>4, <1>7, BoundsAssumption
<1>13. TypeOK'
  BY <1>2, <1>3, <1>9, <1>10, <1>11, <1>12 DEF TypeOK
<1>14. r.result.value = BUILD_PROTOTYPE => Grounded(r)
  BY <1>1, <1>2, <1>11, EvaluateGrounded
<1>15. \A n \in DOMAIN runs : runs[n].result.value = BUILD_PROTOTYPE => Grounded(runs[n])
  BY GroundedRuns DEF Inv
<1>16. \A n \in DOMAIN runs' : runs'[n].result.value = BUILD_PROTOTYPE => Grounded(runs'[n])
  BY <1>9, <1>14, <1>15
<1>17. VerdictGrounded'
  BY <1>16 DEF VerdictGrounded, Grounded
<1>18. QED
  BY <1>13, <1>17 DEF Inv

LEMMA NextInv ==
    ASSUME Inv, [Next]_vars
    PROVE  Inv'
<1>1. CASE UNCHANGED vars
  BY <1>1 DEF Inv, TypeOK, VerdictGrounded, vars
<1>2. CASE Evaluate
  BY <1>2, EvaluateStep
<1>3. CASE Next /\ ~ Evaluate
  <2>1. TypeOK /\ VerdictGrounded
    BY DEF Inv
  <2>2. /\ Proper(handoff, handoff')
        /\ edits < MaxEdits /\ edits' = edits + 1 /\ runs' = runs
    BY <1>3, <2>1, EditLemma
  <2>3. IsHandoff(handoff')
    BY <2>2 DEF Proper
  <2>4. edits' \in 0..MaxEdits
    BY <2>1, <2>2, BoundsAssumption DEF TypeOK
  <2>5. TypeOK'
    BY <2>1, <2>2, <2>3, <2>4 DEF TypeOK
  <2>6. VerdictGrounded'
    BY <2>1, <2>2 DEF VerdictGrounded
  <2>7. QED
    BY <2>5, <2>6 DEF Inv
<1>4. QED
  BY <1>1, <1>2, <1>3

LEMMA Invariance == Spec => []Inv
BY InitInv, NextInv, PTL DEF Spec

\* An author's edits leave a handoff as from_dict admits it, with its items and
\* claims finite in number, and every stored execution was of such a one.
THEOREM TypeCorrect == Spec => []TypeOK
<1>1. Inv => TypeOK
  BY DEF Inv
<1>2. QED
  BY <1>1, Invariance, PTL

\* Whatever the handoff and however it was edited, a stored BUILD_PROTOTYPE rests
\* on approved, unflagged items linked to the categories and gates of every claim
\* it requires, on no contradiction, and on scenarios near the base that each pay
\* (_determine_verdict, _reconcile_scenario_verdicts, _sensitivity_results).
THEOREM VerdictsAreGrounded == Spec => []VerdictGrounded
<1>1. Inv => VerdictGrounded
  BY DEF Inv
<1>2. QED
  BY <1>1, Invariance, PTL

\* Flagging an item or denying a claim never raises the verdict: the averages a
\* flagged item leaves may rise, but an open contradiction then keeps the build
\* away, and what a denying claim cites still counts against it
\* (claim_support_state, assess_gates, _determine_verdict).
THEOREM DoubtHelpsNoVerdict == Spec => DoubtNeverHelps
<1>1. ASSUME Inv, Inv', [Next]_vars
      PROVE  [(Doubted(handoff, handoff') /\ Accepted(handoff) /\ Accepted(handoff'))
                 => Rank(handoff') <= Rank(handoff)]_vars
  <2>1. IsHandoff(handoff) /\ IsHandoff(handoff')
    BY <1>1 DEF Inv, TypeOK
  <2>2. Doubted(handoff, handoff') => Rank(handoff') <= Rank(handoff)
    BY <2>1, DoubtIsWorse
  <2>3. QED
    BY <2>2
<1>2. QED
  BY <1>1, Invariance, PTL DEF Spec, DoubtNeverHelps

\* An item approved, or added and cited, that no denying claim cites and that is
\* credited at least the mean of its categories never lowers the verdict: the
\* count, the classes and the rounded mean of a category do not fall, and no gate
\* loses an item (assess_categories, assess_gates).
THEOREM EvidenceHurtsNoVerdict == Spec => EvidenceNeverHurts
<1>1. ASSUME Inv, Inv', [Next]_vars
      PROVE  [(Corroborates(handoff, handoff') /\ Accepted(handoff) /\ Accepted(handoff'))
                 => Rank(handoff') >= Rank(handoff)]_vars
  <2>1. TypeOK /\ IsHandoff(handoff) /\ IsHandoff(handoff')
    BY <1>1 DEF Inv, TypeOK
  <2>2. CASE UNCHANGED vars
    BY <2>2
  <2>3. CASE Evaluate
    <3>1. handoff' = handoff
      BY <2>3 DEF Evaluate
    <3>2. ~ Corroborates(handoff, handoff')
      BY <3>1 DEF Corroborates
    <3>3. QED
      BY <3>2
  <2>4. CASE Next /\ ~ Evaluate
    <3>1. Proper(handoff, handoff')
      BY <2>1, <2>4, EditLemma
    <3>2. ASSUME Corroborates(handoff, handoff')
          PROVE  Rank(handoff') >= Rank(handoff)
      <4>1. PICK i : Corroborated(handoff, handoff', i)
        BY <3>1, <3>2 DEF Proper
      <4>2. Rank(handoff) <= Rank(handoff')
        BY <2>1, <4>1, CorroboratedIsBetter
      <4>3. Rank(handoff) \in Int /\ Rank(handoff') \in Int
        BY DEF Rank
      <4>4. QED
        BY <4>2, <4>3
    <3>3. QED
      BY <3>2
  <2>5. QED
    BY <1>1, <2>2, <2>3, <2>4
<1>2. QED
  BY <1>1, Invariance, PTL DEF Spec, EvidenceNeverHurts
=============================================================================
