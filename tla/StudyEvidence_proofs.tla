------------------------ MODULE StudyEvidence_proofs ------------------------
(***************************************************************************)
(* The evidence rules, for every text and any number of signals.           *)
(*                                                                         *)
(* Three things need an argument.  A text is judged by the first rule that *)
(* holds, so a phrase may change the judgement only by coming first.  A    *)
(* total is a fold over an arbitrary choice of elements, so it has to be   *)
(* shown not to depend on it.  And an average is rounded, so what keeps it *)
(* from falling is that rounding is monotone in the fraction.              *)
(***************************************************************************)
EXTENDS StudyEvidence, FiniteSetTheorems, SequenceTheorems, WellFoundedInduction, TLAPS

\* A signal of a finding, as the gate lets it in.
Signal == [domain : Nat, event : Nat, organisation : Nat, country : Nat, stakeholder : Nat,
           trust : MIN_PRODUCTION_AUTHORITY_SCORE .. 100, strength : 35 .. 100]

Inv ==
    /\ text \subseteq Phrase
    /\ evidence \in Seq(Signal)
    /\ category \in CanonicalCategory
    /\ added \in Nat
---------------------------------------------------------------------------
(* Totals.                                                                 *)

\* h is the table of the sums of f over the subsets of S, as the fold of the
\* community modules fills it: an arbitrary element first.
Chosen(s) == CHOOSE x \in s : TRUE

IsSum(h, f, S) ==
    h = [s \in SUBSET S |-> IF s = {} THEN 0 ELSE f[Chosen(s)] + h[s \ {Chosen(s)}]]

LEMMA LeastNumber ==
    ASSUME NEW T, T \subseteq Nat, T # {}
    PROVE  \E x \in T : \A y \in T : x <= y
<1> DEFINE below == OpToRel(<, Nat)
<1>1. IsWellFoundedOn(below, Nat)
  BY NatLessThanWellFounded
<1>2. \A x, y \in Nat : y < x => <<y, x>> \in below
  BY DEF OpToRel
<1> HIDE DEF below
<1>3. PICK x \in T : \A y \in T : ~ (<<y, x>> \in below)
  BY <1>1, WFMin
<1>4. \A y \in T : ~ (y < x)
  BY <1>2, <1>3
<1>5. QED
  BY <1>3, <1>4

LEMMA TotalTrustTable ==
    ASSUME NEW e, NEW f, f = [i \in DOMAIN e |-> e[i].trust],
           \E h : IsSum(h, f, DOMAIN e)
    PROVE  \E h : IsSum(h, f, DOMAIN e) /\ TotalTrust(e) = h[DOMAIN e]
<1> DEFINE P(h) == h = [s \in SUBSET (DOMAIN e) |->
                          IF s = {} THEN 0
                          ELSE e[CHOOSE x \in s : TRUE].trust + h[s \ {CHOOSE x \in s : TRUE}]]
<1>1. \A h : IsSum(h, f, DOMAIN e) <=> P(h)
  BY DEF IsSum, Chosen
<1>2. TotalTrust(e) = (CHOOSE h : P(h))[DOMAIN e]
  BY DEF TotalTrust, Total, MapThenSumSet, MapThenFoldSet
<1> HIDE DEF P
<1>3. P(CHOOSE h : P(h))
  <2>1. PICK h : P(h)
    BY <1>1
  <2>2. QED
    BY <2>1, Zenon
<1>4. QED
  BY <1>1, <1>2, <1>3

\* Induction over the subsets of a finite set, with the set G of those for
\* which the claim holds in the place of the claim.
LEMMA SubsetInduction ==
    ASSUME NEW S, IsFiniteSet(S), NEW G,
           \A s \in SUBSET S : (\A x \in s : s \ {x} \in G) => s \in G
    PROVE  SUBSET S \subseteq G
<1> DEFINE Sizes0 == {n \in Nat : \E s \in SUBSET S : Cardinality(s) = n /\ s \notin G}
<1>1. SUFFICES ASSUME NEW s0 \in SUBSET S, s0 \notin G
               PROVE  FALSE
  OBVIOUS
<1>2. \A s \in SUBSET S : IsFiniteSet(s) /\ Cardinality(s) \in Nat
  BY FS_Subset, FS_CardinalityType
<1>3. Sizes0 \subseteq Nat /\ Sizes0 # {}
  BY <1>1, <1>2
<1>4. PICK n \in Sizes0 : \A m \in Sizes0 : n <= m
  BY <1>3, LeastNumber
<1>5. PICK s \in SUBSET S : Cardinality(s) = n /\ s \notin G
  BY <1>4
<1>6. ASSUME NEW x \in s
      PROVE  s \ {x} \in G
  <2>1. SUFFICES ASSUME s \ {x} \notin G
                 PROVE  FALSE
    OBVIOUS
  <2>2. PICK q : q = s \ {x}
    OBVIOUS
  <2>3. q \in SUBSET S /\ q \notin G
    BY <2>1, <2>2
  <2>4. Cardinality(q) = Cardinality(s) - 1
    BY <1>2, <1>6, <2>2, FS_RemoveElement
  <2>5. Cardinality(q) \in Sizes0
    BY <1>2, <2>3
  <2>6. n <= Cardinality(q) /\ n \in Nat /\ Cardinality(q) = n - 1
    BY <1>3, <1>4, <1>5, <2>4, <2>5
  <2>7. QED
    BY <2>6
<1>7. QED
  BY <1>5, <1>6

LEMMA ChosenLemma ==
    ASSUME NEW s, s # {}
    PROVE  Chosen(s) \in s
BY DEF Chosen

LEMMA SumExists ==
    ASSUME NEW S, IsFiniteSet(S), NEW f
    PROVE  \E h : IsSum(h, f, S)
<1> DEFINE Small(n) == {s \in SUBSET S : Cardinality(s) <= n}
           Row(g, s) == IF s = {} THEN 0 ELSE f[Chosen(s)] + g[s \ {Chosen(s)}]
           Good(n, g) == g = [s \in Small(n) |-> Row(g, s)]
           Without0 == {n \in Nat : \A g : ~ Good(n, g)}
<1>1. \A s \in SUBSET S : IsFiniteSet(s) /\ Cardinality(s) \in Nat
  BY FS_Subset, FS_CardinalityType
<1>2. \A s \in SUBSET S : s # {} =>
         /\ Chosen(s) \in s /\ s \ {Chosen(s)} \in SUBSET S
         /\ Cardinality(s \ {Chosen(s)}) = Cardinality(s) - 1
  BY <1>1, ChosenLemma, FS_RemoveElement
<1>3. Without0 = {}
  <2>1. SUFFICES ASSUME Without0 # {}
                 PROVE  FALSE
    OBVIOUS
  <2>2. PICK n \in Without0 : \A m \in Without0 : n <= m
    BY <2>1, LeastNumber
  <2>3. CASE n = 0
    <3> DEFINE g == [s \in Small(0) |-> 0]
    <3>1. \A s \in Small(0) : s = {}
      BY <1>1, FS_EmptySet
    <3>2. g = [s \in Small(0) |-> Row(g, s)]
      BY <3>1
    <3>3. Good(0, g)
      BY <3>2
    <3>4. QED
      BY <2>2, <2>3, <3>3
  <2>4. CASE n # 0
    <3>1. n \in Nat
      BY <2>2
    <3>2. n - 1 \in Nat /\ n - 1 \notin Without0
      <4> HIDE DEF Without0
      <4>1. n - 1 \in Nat /\ ~ (n <= n - 1)
        BY <2>4, <3>1
      <4>2. QED
        BY <2>2, <4>1
    <3>3. PICK g : Good(n - 1, g)
      BY <3>2
    <3> DEFINE k == [s \in Small(n) |-> Row(g, s)]
    <3>4. \A s \in Small(n - 1) : g[s] = Row(g, s)
      BY <3>3
    <3>5. \A s \in Small(n) : s # {} => s \ {Chosen(s)} \in Small(n - 1)
      BY <1>1, <1>2, <2>2
    <3>6. \A s \in Small(n - 1) : s \in Small(n) /\ k[s] = g[s]
      BY <1>1, <2>2, <3>4
    <3>7. \A s \in Small(n) : Row(g, s) = Row(k, s)
      BY <3>5, <3>6
    <3>8. k = [s \in Small(n) |-> Row(k, s)]
      BY <3>7
    <3>9. Good(n, k)
      BY <3>8
    <3>10. QED
      BY <2>2, <3>9
  <2>5. QED
    BY <2>3, <2>4
<1>4. PICK g : Good(Cardinality(S), g)
  <2>1. PICK n \in Nat : n = Cardinality(S)
    BY <1>1
  <2>2. n \notin Without0
    BY <1>3
  <2> HIDE DEF Good
  <2>3. \E g : Good(n, g)
    BY <2>1, <2>2
  <2>4. QED
    BY <2>1, <2>3
<1>5. Small(Cardinality(S)) = SUBSET S
  BY <1>1, FS_Subset
<1>6. QED
  BY <1>4, <1>5 DEF IsSum

LEMMA SumStep ==
    ASSUME NEW h, NEW f, NEW S, IsSum(h, f, S)
    PROVE  /\ h[{}] = 0
           /\ \A s \in SUBSET S : s # {} =>
                 Chosen(s) \in s /\ h[s] = f[Chosen(s)] + h[s \ {Chosen(s)}]
BY ChosenLemma DEF IsSum

\* A sum of numbers that are all at least low.
LEMMA SumBound ==
    ASSUME NEW h, NEW S, IsFiniteSet(S), NEW f, NEW low \in Nat,
           \A i \in S : f[i] \in Nat /\ f[i] >= low, IsSum(h, f, S)
    PROVE  \A s \in SUBSET S : h[s] \in Nat /\ h[s] >= low * Cardinality(s)
<1> DEFINE G == {s \in SUBSET S : h[s] \in Nat /\ h[s] >= low * Cardinality(s)}
<1>1. ASSUME NEW s \in SUBSET S, \A x \in s : s \ {x} \in G
      PROVE  s \in G
  <2>1. CASE s = {}
    <3>1. h[s] = 0 /\ Cardinality(s) = 0
      BY <2>1, SumStep, FS_EmptySet
    <3>2. QED
      BY <3>1
  <2>2. CASE s # {}
    <3>1. PICK x : x = Chosen(s)
      OBVIOUS
    <3>2. x \in s /\ h[s] = f[x] + h[s \ {x}]
      BY <2>2, <3>1, SumStep
    <3>3. /\ h[s \ {x}] \in Nat
          /\ h[s \ {x}] >= low * Cardinality(s \ {x})
      BY <1>1, <3>2
    <3>4. f[x] \in Nat /\ f[x] >= low
      BY <3>2
    <3>5. Cardinality(s \ {x}) = Cardinality(s) - 1 /\ Cardinality(s) \in Nat
      BY <3>2, FS_Subset, FS_RemoveElement, FS_CardinalityType
    <3>6. low * (Cardinality(s) - 1) = low * Cardinality(s) - low
      BY <3>5
    <3>7. low * Cardinality(s) \in Nat
      BY <3>5
    <3>8. h[s] \in Nat /\ h[s] >= low * Cardinality(s)
      BY <3>2, <3>3, <3>4, <3>5, <3>6, <3>7
    <3>9. QED
      BY <3>8
  <2>3. QED
    BY <2>1, <2>2
<1> HIDE DEF G
<1>2. SUBSET S \subseteq G
  BY <1>1, SubsetInduction
<1>3. QED
  BY <1>2 DEF G

\* It does not matter which element the fold takes first.
LEMMA SumExchange ==
    ASSUME NEW h, NEW S, IsFiniteSet(S), NEW f, \A i \in S : f[i] \in Nat, IsSum(h, f, S)
    PROVE  \A s \in SUBSET S : \A y \in s : h[s] = f[y] + h[s \ {y}]
<1> DEFINE G == {s \in SUBSET S : \A y \in s : h[s] = f[y] + h[s \ {y}]}
<1>1. \A s \in SUBSET S : h[s] \in Nat
  BY SumBound
<1>2. ASSUME NEW s \in SUBSET S, \A x \in s : s \ {x} \in G
      PROVE  s \in G
  <2>1. SUFFICES ASSUME NEW y \in s
                 PROVE  h[s] = f[y] + h[s \ {y}]
    OBVIOUS
  <2>2. PICK x : x = Chosen(s)
    OBVIOUS
  <2>3. x \in s /\ h[s] = f[x] + h[s \ {x}]
    <3> HIDE DEF G
    <3>1. s # {}
      OBVIOUS
    <3>2. Chosen(s) \in s /\ h[s] = f[Chosen(s)] + h[s \ {Chosen(s)}]
      BY <3>1, SumStep
    <3>3. QED
      BY <2>2, <3>2
  <2>4. CASE x = y
    BY <2>3, <2>4
  <2>5. CASE x # y
    <3>1. PICK r : r = (s \ {x}) \ {y}
      OBVIOUS
    <3>2. h[s \ {x}] = f[y] + h[r]
      BY <1>2, <2>3, <2>5, <3>1
    <3>3. (s \ {y}) \ {x} = r
      BY <3>1
    <3>4. h[s \ {y}] = f[x] + h[r]
      BY <1>2, <2>3, <2>5, <3>3
    <3>5. h[r] \in Nat /\ f[x] \in Nat /\ f[y] \in Nat
      BY <1>1, <2>3, <3>1
    <3>6. QED
      BY <2>3, <3>2, <3>4, <3>5
  <2>6. QED
    BY <2>4, <2>5
<1> HIDE DEF G
<1>3. SUBSET S \subseteq G
  BY <1>2, SubsetInduction
<1>4. QED
  BY <1>3 DEF G

\* Two tables agree where their summands do.
LEMMA SumAgree ==
    ASSUME NEW h, NEW f, NEW S, NEW k, NEW g, NEW T, IsFiniteSet(S), S \subseteq T,
           \A i \in S : f[i] = g[i], IsSum(h, f, S), IsSum(k, g, T)
    PROVE  h[S] = k[S]
<1> DEFINE G == {s \in SUBSET S : h[s] = k[s]}
<1>1. ASSUME NEW s \in SUBSET S, \A x \in s : s \ {x} \in G
      PROVE  s \in G
  <2>1. CASE s = {}
    BY <2>1, SumStep
  <2>2. CASE s # {}
    <3>1. PICK x : x = Chosen(s)
      OBVIOUS
    <3>2. x \in s /\ h[s] = f[x] + h[s \ {x}]
      <4> HIDE DEF G
      <4>1. Chosen(s) \in s /\ h[s] = f[Chosen(s)] + h[s \ {Chosen(s)}]
        BY <2>2, SumStep
      <4>2. QED
        BY <3>1, <4>1
    <3>3. k[s] = g[x] + k[s \ {x}]
      <4> HIDE DEF G
      <4>1. s \in SUBSET T
        OBVIOUS
      <4>2. k[s] = g[Chosen(s)] + k[s \ {Chosen(s)}]
        BY <2>2, <4>1, SumStep
      <4>3. QED
        BY <3>1, <4>2
    <3>4. h[s \ {x}] = k[s \ {x}] /\ f[x] = g[x]
      BY <1>1, <3>2
    <3>5. QED
      BY <3>2, <3>3, <3>4
  <2>3. QED
    BY <2>1, <2>2
<1> HIDE DEF G
<1>2. SUBSET S \subseteq G
  BY <1>1, SubsetInduction
<1>3. QED
  BY <1>2 DEF G

LEMMA TotalStrengthTable ==
    ASSUME NEW e, NEW f, f = [i \in DOMAIN e |-> e[i].strength],
           \E h : IsSum(h, f, DOMAIN e)
    PROVE  \E h : IsSum(h, f, DOMAIN e) /\ TotalStrength(e) = h[DOMAIN e]
<1> DEFINE P(h) == h = [s \in SUBSET (DOMAIN e) |->
                          IF s = {} THEN 0
                          ELSE e[CHOOSE x \in s : TRUE].strength + h[s \ {CHOOSE x \in s : TRUE}]]
<1>1. \A h : IsSum(h, f, DOMAIN e) <=> P(h)
  BY DEF IsSum, Chosen
<1>2. TotalStrength(e) = (CHOOSE h : P(h))[DOMAIN e]
  BY DEF TotalStrength, Total, MapThenSumSet, MapThenFoldSet
<1> HIDE DEF P
<1>3. P(CHOOSE h : P(h))
  <2>1. PICK h : P(h)
    BY <1>1
  <2>2. QED
    BY <2>1, Zenon
<1>4. QED
  BY <1>1, <1>2, <1>3

\* A total is the sum of the row of numbers f.
IsTotal(total, f, n) == \E h : IsSum(h, f, 1 .. n) /\ total = h[1 .. n]

LEMMA TotalBound ==
    ASSUME NEW total, NEW f, NEW n \in Nat, NEW low \in Nat, IsTotal(total, f, n),
           \A i \in 1 .. n : f[i] \in Nat /\ f[i] >= low
    PROVE  total \in Nat /\ total >= low * n
<1>1. PICK h : IsSum(h, f, 1 .. n) /\ total = h[1 .. n]
  BY DEF IsTotal
<1>2. IsFiniteSet(1 .. n) /\ Cardinality(1 .. n) = n
  <2>1. n \in Int /\ 1 \in Int
    OBVIOUS
  <2>2. IsFiniteSet(1 .. n) /\ Cardinality(1 .. n) = IF 1 > n THEN 0 ELSE n - 1 + 1
    BY <2>1, FS_Interval
  <2>3. QED
    BY <2>2
<1>3. 1 .. n \in SUBSET (1 .. n)
  OBVIOUS
<1>4. h[1 .. n] \in Nat /\ h[1 .. n] >= low * Cardinality(1 .. n)
  BY <1>1, <1>2, <1>3, SumBound
<1>5. QED
  BY <1>1, <1>2, <1>4

LEMMA TotalAppend ==
    ASSUME NEW total, NEW f, NEW n \in Nat, IsTotal(total, f, n),
           NEW more, NEW g, IsTotal(more, g, n + 1),
           \A i \in 1 .. n : g[i] = f[i], \A i \in 1 .. n + 1 : g[i] \in Nat
    PROVE  more = total + g[n + 1]
<1>1. PICK h : IsSum(h, f, 1 .. n) /\ total = h[1 .. n]
  BY DEF IsTotal
<1>2. PICK k : IsSum(k, g, 1 .. n + 1) /\ more = k[1 .. n + 1]
  BY DEF IsTotal
<1>3. IsFiniteSet(1 .. n) /\ IsFiniteSet(1 .. n + 1)
  <2>1. n \in Int /\ n + 1 \in Int /\ 1 \in Int
    OBVIOUS
  <2>2. QED
    BY <2>1, FS_Interval
<1>4. PICK T : T = 1 .. n + 1
  OBVIOUS
<1>5. PICK U : U = 1 .. n
  OBVIOUS
<1>6. n + 1 \in T /\ T \ {n + 1} = U /\ U \subseteq T
  BY <1>4, <1>5
<1>7. /\ \A i \in T : g[i] \in Nat
      /\ \A i \in U : f[i] = g[i]
  BY <1>4, <1>5
<1>8. IsFiniteSet(T) /\ IsSum(k, g, T) /\ T \in SUBSET T /\ U \in SUBSET T
  BY <1>2, <1>3, <1>4, <1>6
<1>9. IsFiniteSet(U) /\ IsSum(h, f, U)
  BY <1>1, <1>3, <1>5
<1>10. k[T] = g[n + 1] + k[T \ {n + 1}]
  BY <1>6, <1>7, <1>8, SumExchange
<1>11. h[U] = k[U]
  BY <1>6, <1>7, <1>8, <1>9, SumAgree
<1>12. \A i \in T : g[i] >= 0
  BY <1>7
<1>13. k[U] \in Nat
  BY <1>7, <1>8, <1>12, SumBound
<1>14. more = k[T] /\ total = h[U]
  BY <1>1, <1>2, <1>4, <1>5
<1>15. g[n + 1] \in Nat /\ more = g[n + 1] + total /\ total \in Nat
  BY <1>6, <1>7, <1>10, <1>11, <1>13, <1>14
<1>16. QED
  BY <1>15

LEMMA TrustIsTotal ==
    ASSUME NEW e \in Seq(Signal), NEW f, f = [i \in DOMAIN e |-> e[i].trust]
    PROVE  IsTotal(TotalTrust(e), f, Len(e))
<1>1. DOMAIN e = 1 .. Len(e) /\ Len(e) \in Nat
  OBVIOUS
<1>2. IsFiniteSet(DOMAIN e)
  <2>1. Len(e) \in Int /\ 1 \in Int
    BY <1>1
  <2>2. QED
    BY <1>1, <2>1, FS_Interval
<1>3. \E h : IsSum(h, f, DOMAIN e)
  BY <1>2, SumExists
<1>4. \E h : IsSum(h, f, DOMAIN e) /\ TotalTrust(e) = h[DOMAIN e]
  BY <1>3, TotalTrustTable
<1>5. QED
  BY <1>1, <1>4 DEF IsTotal

LEMMA StrengthIsTotal ==
    ASSUME NEW e \in Seq(Signal), NEW f, f = [i \in DOMAIN e |-> e[i].strength]
    PROVE  IsTotal(TotalStrength(e), f, Len(e))
<1>1. DOMAIN e = 1 .. Len(e) /\ Len(e) \in Nat
  OBVIOUS
<1>2. IsFiniteSet(DOMAIN e)
  <2>1. Len(e) \in Int /\ 1 \in Int
    BY <1>1
  <2>2. QED
    BY <1>1, <2>1, FS_Interval
<1>3. \E h : IsSum(h, f, DOMAIN e)
  BY <1>2, SumExists
<1>4. \E h : IsSum(h, f, DOMAIN e) /\ TotalStrength(e) = h[DOMAIN e]
  BY <1>3, TotalStrengthTable
<1>5. QED
  BY <1>1, <1>4 DEF IsTotal

\* One more signal x after the signals e.
Grown(e, x, g) ==
    /\ g \in Seq(Signal) /\ Len(g) = Len(e) + 1
    /\ \A i \in 1 .. Len(e) : g[i] = e[i]
    /\ g[Len(e) + 1] = x

LEMMA AppendGrows ==
    ASSUME NEW e \in Seq(Signal), NEW x \in Signal
    PROVE  Grown(e, x, Append(e, x))
BY AppendProperties DEF Grown

LEMMA SignalFields ==
    ASSUME NEW x \in Signal
    PROVE  /\ x.domain \in Nat /\ x.event \in Nat /\ x.organisation \in Nat
           /\ x.country \in Nat /\ x.stakeholder \in Nat
           /\ x.trust \in Nat /\ x.trust >= 70
           /\ x.strength \in Nat /\ x.strength >= 35 /\ x.strength <= 100
<1>1. /\ x.domain \in Nat /\ x.event \in Nat /\ x.organisation \in Nat
      /\ x.country \in Nat /\ x.stakeholder \in Nat
      /\ x.trust \in 70 .. 100 /\ x.strength \in 35 .. 100
  BY DEF Signal, MIN_PRODUCTION_AUTHORITY_SCORE
<1>2. QED
  BY <1>1

LEMMA SignalTypes ==
    ASSUME NEW e \in Seq(Signal)
    PROVE  /\ DOMAIN e = 1 .. Len(e) /\ Len(e) \in Nat
           /\ \A i \in 1 .. Len(e) :
                 /\ e[i].domain \in Nat /\ e[i].event \in Nat /\ e[i].organisation \in Nat
                 /\ e[i].country \in Nat /\ e[i].stakeholder \in Nat
                 /\ e[i].trust \in Nat /\ e[i].trust >= 70
                 /\ e[i].strength \in Nat /\ e[i].strength >= 35 /\ e[i].strength <= 100
<1>1. DOMAIN e = 1 .. Len(e) /\ Len(e) \in Nat
  OBVIOUS
<1>2. \A i \in 1 .. Len(e) : e[i] \in Signal
  OBVIOUS
<1>3. QED
  BY <1>1, <1>2, SignalFields

LEMMA Totals ==
    ASSUME NEW e \in Seq(Signal)
    PROVE  /\ TotalTrust(e) \in Nat /\ TotalTrust(e) >= 70 * Len(e)
           /\ TotalStrength(e) \in Nat
<1>1. PICK f : f = [i \in DOMAIN e |-> e[i].trust]
  OBVIOUS
<1>2. PICK g : g = [i \in DOMAIN e |-> e[i].strength]
  OBVIOUS
<1>3. IsTotal(TotalTrust(e), f, Len(e)) /\ IsTotal(TotalStrength(e), g, Len(e))
  BY <1>1, <1>2, TrustIsTotal, StrengthIsTotal
<1>4. \A i \in 1 .. Len(e) : f[i] \in Nat /\ f[i] >= 70 /\ g[i] \in Nat /\ g[i] >= 0
  <2>1. DOMAIN e = 1 .. Len(e)
    OBVIOUS
  <2>2. \A i \in 1 .. Len(e) : f[i] = e[i].trust /\ g[i] = e[i].strength
    BY <1>1, <1>2, <2>1
  <2>3. QED
    BY <2>2, SignalTypes
<1>5. Len(e) \in Nat /\ 70 \in Nat /\ 0 \in Nat
  OBVIOUS
<1>6. TotalTrust(e) \in Nat /\ TotalTrust(e) >= 70 * Len(e)
  BY <1>3, <1>4, <1>5, TotalBound
<1>7. TotalStrength(e) \in Nat /\ TotalStrength(e) >= 0 * Len(e)
  BY <1>3, <1>4, <1>5, TotalBound
<1>8. QED
  BY <1>6, <1>7

LEMMA TotalsGrow ==
    ASSUME NEW e \in Seq(Signal), NEW x \in Signal, NEW g, Grown(e, x, g)
    PROVE  /\ TotalTrust(g) = TotalTrust(e) + x.trust
           /\ TotalStrength(g) = TotalStrength(e) + x.strength
<1>1. /\ g \in Seq(Signal) /\ Len(e) \in Nat /\ Len(g) = Len(e) + 1
      /\ DOMAIN e = 1 .. Len(e) /\ DOMAIN g = 1 .. Len(e) + 1
      /\ \A i \in 1 .. Len(e) : g[i] = e[i]
      /\ g[Len(e) + 1] = x
  BY DEF Grown
<1>2. \A i \in 1 .. Len(e) + 1 : g[i].trust \in Nat /\ g[i].strength \in Nat
  <2>1. \A i \in 1 .. Len(g) : g[i].trust \in Nat /\ g[i].strength \in Nat
    BY <1>1, SignalTypes
  <2>2. QED
    BY <1>1, <2>1
<1>3. TotalTrust(g) = TotalTrust(e) + x.trust
  <2>1. PICK f : f = [i \in DOMAIN e |-> e[i].trust]
    OBVIOUS
  <2>2. PICK k : k = [i \in DOMAIN g |-> g[i].trust]
    OBVIOUS
  <2>3. IsTotal(TotalTrust(e), f, Len(e)) /\ IsTotal(TotalTrust(g), k, Len(e) + 1)
    BY <1>1, <2>1, <2>2, TrustIsTotal
  <2>4. /\ \A i \in 1 .. Len(e) : k[i] = f[i]
        /\ \A i \in 1 .. Len(e) + 1 : k[i] \in Nat
        /\ k[Len(e) + 1] = x.trust
    BY <1>1, <1>2, <2>1, <2>2
  <2>5. TotalTrust(g) = TotalTrust(e) + k[Len(e) + 1]
    BY <1>1, <2>3, <2>4, TotalAppend
  <2>6. QED
    BY <2>4, <2>5
<1>4. TotalStrength(g) = TotalStrength(e) + x.strength
  <2>1. PICK f : f = [i \in DOMAIN e |-> e[i].strength]
    OBVIOUS
  <2>2. PICK k : k = [i \in DOMAIN g |-> g[i].strength]
    OBVIOUS
  <2>3. IsTotal(TotalStrength(e), f, Len(e)) /\ IsTotal(TotalStrength(g), k, Len(e) + 1)
    BY <1>1, <2>1, <2>2, StrengthIsTotal
  <2>4. /\ \A i \in 1 .. Len(e) : k[i] = f[i]
        /\ \A i \in 1 .. Len(e) + 1 : k[i] \in Nat
        /\ k[Len(e) + 1] = x.strength
    BY <1>1, <1>2, <2>1, <2>2
  <2>5. TotalStrength(g) = TotalStrength(e) + k[Len(e) + 1]
    BY <1>1, <2>3, <2>4, TotalAppend
  <2>6. QED
    BY <2>4, <2>5
<1>5. QED
  BY <1>3, <1>4
---------------------------------------------------------------------------
(* Numbers of different values.                                            *)

IsCount(c, f, n) == c = Cardinality({f[i] : i \in 1 .. n})

LEMMA CountBound ==
    ASSUME NEW c, NEW f, NEW n \in Nat, IsCount(c, f, n)
    PROVE  c \in Nat /\ c <= n
<1> DEFINE T == {f[i] : i \in 1 .. n}
           k == [i \in 1 .. n |-> f[i]]
<1>1. k \in Surjection(1 .. n, T)
  BY DEF Surjection
<1>2. IsFiniteSet(1 .. n) /\ Cardinality(1 .. n) = n
  <2>1. n \in Int /\ 1 \in Int
    OBVIOUS
  <2>2. IsFiniteSet(1 .. n) /\ Cardinality(1 .. n) = IF 1 > n THEN 0 ELSE n - 1 + 1
    BY <2>1, FS_Interval
  <2>3. QED
    BY <2>2
<1> HIDE DEF k
<1>3. IsFiniteSet(T) /\ Cardinality(T) <= Cardinality(1 .. n)
  <2> HIDE DEF T
  <2>1. QED
    BY <1>1, <1>2, FS_Surjection
<1>4. Cardinality(T) \in Nat
  BY <1>3, FS_CardinalityType
<1>5. c = Cardinality(T)
  BY DEF IsCount
<1>6. QED
  BY <1>2, <1>3, <1>4, <1>5

LEMMA CountFinite ==
    ASSUME NEW f, NEW n \in Nat
    PROVE  IsFiniteSet({f[i] : i \in 1 .. n})
<1> DEFINE T == {f[i] : i \in 1 .. n}
           k == [i \in 1 .. n |-> f[i]]
<1>1. k \in Surjection(1 .. n, T)
  BY DEF Surjection
<1>2. IsFiniteSet(1 .. n)
  <2>1. n \in Int /\ 1 \in Int
    OBVIOUS
  <2>2. QED
    BY <2>1, FS_Interval
<1> HIDE DEF k, T
<1>3. IsFiniteSet(T)
  BY <1>1, <1>2, FS_Surjection
<1>4. QED
  BY <1>3 DEF T

LEMMA CountGrows ==
    ASSUME NEW c, NEW f, NEW n \in Nat, IsCount(c, f, n),
           NEW d, NEW g, IsCount(d, g, n + 1), \A i \in 1 .. n : g[i] = f[i]
    PROVE  c <= d
<1>1. PICK S : S = {f[i] : i \in 1 .. n}
  OBVIOUS
<1>2. PICK T : T = {g[i] : i \in 1 .. n + 1}
  OBVIOUS
<1>3. S \subseteq T
  BY <1>1, <1>2
<1>4. IsFiniteSet(T)
  <2>1. n + 1 \in Nat
    OBVIOUS
  <2>2. QED
    BY <1>2, <2>1, CountFinite
<1>5. Cardinality(S) <= Cardinality(T)
  BY <1>3, <1>4, FS_Subset
<1>6. c = Cardinality(S) /\ d = Cardinality(T)
  BY <1>1, <1>2 DEF IsCount
<1>7. QED
  BY <1>5, <1>6

\* The five counts of a finding, as counts of the fields of its signals.
LEMMA CountsOf ==
    ASSUME NEW e \in Seq(Signal)
    PROVE  /\ IsCount(domains(e), [i \in 1 .. Len(e) |-> e[i].domain], Len(e))
           /\ IsCount(events(e), [i \in 1 .. Len(e) |-> e[i].event], Len(e))
           /\ IsCount(organisations(e), [i \in 1 .. Len(e) |-> e[i].organisation], Len(e))
           /\ IsCount(countries(e), [i \in 1 .. Len(e) |-> e[i].country], Len(e))
           /\ IsCount(stakeholders(e), [i \in 1 .. Len(e) |-> e[i].stakeholder], Len(e))
<1>1. DOMAIN e = 1 .. Len(e)
  OBVIOUS
<1>2. IsCount(domains(e), [i \in 1 .. Len(e) |-> e[i].domain], Len(e))
  BY <1>1 DEF IsCount, domains, Distinct
<1>3. IsCount(events(e), [i \in 1 .. Len(e) |-> e[i].event], Len(e))
  BY <1>1 DEF IsCount, events, Distinct
<1>4. IsCount(organisations(e), [i \in 1 .. Len(e) |-> e[i].organisation], Len(e))
  BY <1>1 DEF IsCount, organisations, Distinct
<1>5. IsCount(countries(e), [i \in 1 .. Len(e) |-> e[i].country], Len(e))
  BY <1>1 DEF IsCount, countries, Distinct
<1>6. IsCount(stakeholders(e), [i \in 1 .. Len(e) |-> e[i].stakeholder], Len(e))
  BY <1>1 DEF IsCount, stakeholders, Distinct
<1>7. QED
  BY <1>2, <1>3, <1>4, <1>5, <1>6

LEMMA Counts ==
    ASSUME NEW e \in Seq(Signal)
    PROVE  /\ domains(e) \in Nat /\ events(e) \in Nat /\ organisations(e) \in Nat
           /\ countries(e) \in Nat /\ stakeholders(e) \in Nat
           /\ domains(e) <= Len(e)
<1>1. Len(e) \in Nat
  OBVIOUS
<1>2. domains(e) \in Nat /\ domains(e) <= Len(e)
  BY <1>1, CountsOf, CountBound
<1>3. events(e) \in Nat
  BY <1>1, CountsOf, CountBound
<1>4. organisations(e) \in Nat
  BY <1>1, CountsOf, CountBound
<1>5. countries(e) \in Nat
  BY <1>1, CountsOf, CountBound
<1>6. stakeholders(e) \in Nat
  BY <1>1, CountsOf, CountBound
<1>7. QED
  BY <1>2, <1>3, <1>4, <1>5, <1>6

LEMMA CountsGrow ==
    ASSUME NEW e \in Seq(Signal), NEW x \in Signal, NEW g, Grown(e, x, g)
    PROVE  /\ domains(e) <= domains(g) /\ events(e) <= events(g)
           /\ organisations(e) <= organisations(g)
           /\ countries(e) <= countries(g) /\ stakeholders(e) <= stakeholders(g)
<1>1. /\ g \in Seq(Signal) /\ Len(e) \in Nat /\ Len(g) = Len(e) + 1
      /\ \A i \in 1 .. Len(e) : g[i] = e[i] /\ i \in 1 .. Len(g)
  BY DEF Grown
<1>2. domains(e) <= domains(g)
  <2>1. PICK f : f = [i \in 1 .. Len(e) |-> e[i].domain]
    OBVIOUS
  <2>2. PICK k : k = [i \in 1 .. Len(g) |-> g[i].domain]
    OBVIOUS
  <2>3. /\ IsCount(domains(e), f, Len(e)) /\ IsCount(domains(g), k, Len(e) + 1)
        /\ \A i \in 1 .. Len(e) : k[i] = f[i]
    BY <1>1, <2>1, <2>2, CountsOf
  <2>4. QED
    BY <1>1, <2>3, CountGrows
<1>3. events(e) <= events(g)
  <2>1. PICK f : f = [i \in 1 .. Len(e) |-> e[i].event]
    OBVIOUS
  <2>2. PICK k : k = [i \in 1 .. Len(g) |-> g[i].event]
    OBVIOUS
  <2>3. /\ IsCount(events(e), f, Len(e)) /\ IsCount(events(g), k, Len(e) + 1)
        /\ \A i \in 1 .. Len(e) : k[i] = f[i]
    BY <1>1, <2>1, <2>2, CountsOf
  <2>4. QED
    BY <1>1, <2>3, CountGrows
<1>4. organisations(e) <= organisations(g)
  <2>1. PICK f : f = [i \in 1 .. Len(e) |-> e[i].organisation]
    OBVIOUS
  <2>2. PICK k : k = [i \in 1 .. Len(g) |-> g[i].organisation]
    OBVIOUS
  <2>3. /\ IsCount(organisations(e), f, Len(e)) /\ IsCount(organisations(g), k, Len(e) + 1)
        /\ \A i \in 1 .. Len(e) : k[i] = f[i]
    BY <1>1, <2>1, <2>2, CountsOf
  <2>4. QED
    BY <1>1, <2>3, CountGrows
<1>5. countries(e) <= countries(g)
  <2>1. PICK f : f = [i \in 1 .. Len(e) |-> e[i].country]
    OBVIOUS
  <2>2. PICK k : k = [i \in 1 .. Len(g) |-> g[i].country]
    OBVIOUS
  <2>3. /\ IsCount(countries(e), f, Len(e)) /\ IsCount(countries(g), k, Len(e) + 1)
        /\ \A i \in 1 .. Len(e) : k[i] = f[i]
    BY <1>1, <2>1, <2>2, CountsOf
  <2>4. QED
    BY <1>1, <2>3, CountGrows
<1>6. stakeholders(e) <= stakeholders(g)
  <2>1. PICK f : f = [i \in 1 .. Len(e) |-> e[i].stakeholder]
    OBVIOUS
  <2>2. PICK k : k = [i \in 1 .. Len(g) |-> g[i].stakeholder]
    OBVIOUS
  <2>3. /\ IsCount(stakeholders(e), f, Len(e)) /\ IsCount(stakeholders(g), k, Len(e) + 1)
        /\ \A i \in 1 .. Len(e) : k[i] = f[i]
    BY <1>1, <2>1, <2>2, CountsOf
  <2>4. QED
    BY <1>1, <2>3, CountGrows
<1>7. QED
  BY <1>2, <1>3, <1>4, <1>5, <1>6
---------------------------------------------------------------------------
(* Minima, maxima and rounding.                                            *)

LEMMA MinOfTwo ==
    ASSUME NEW a \in Int, NEW b \in Int
    PROVE  Min({a, b}) = IF a <= b THEN a ELSE b
<1>1. PICK m : m = IF a <= b THEN a ELSE b
  OBVIOUS
<1>2. m \in {a, b} /\ (\A y \in {a, b} : m <= y) /\ m \in Int
  BY <1>1
<1>3. \A x \in {a, b} : (\A y \in {a, b} : x <= y) => x = m
  BY <1>2
<1>4. Min({a, b}) = m
  BY <1>2, <1>3 DEF Min
<1>5. QED
  BY <1>1, <1>4

\* What is capped by a percentage is one.
LEMMA Capped ==
    ASSUME NEW a \in Nat, NEW cap \in 0 .. 100
    PROVE  Min({cap, a}) \in 0 .. 100 /\ Min({a, cap}) \in 0 .. 100
<1>1. cap \in Nat /\ cap <= 100 /\ a \in Int /\ cap \in Int
  OBVIOUS
<1>2. PICK m : m = IF cap <= a THEN cap ELSE a
  OBVIOUS
<1>3. m \in Nat /\ m <= 100
  BY <1>1, <1>2
<1>4. Min({cap, a}) = m
  BY <1>1, <1>2, MinOfTwo
<1>5. {cap, a} = {a, cap}
  OBVIOUS
<1>6. m \in 0 .. 100
  BY <1>3
<1>7. QED
  BY <1>4, <1>5, <1>6

\* The first of a set of numbers.
LEMMA FirstOf ==
    ASSUME NEW S, S \subseteq Nat, NEW k \in S, \A j \in S : k <= j
    PROVE  Min(S) = k
<1>1. \A x \in S : (\A y \in S : x <= y) => x = k
  OBVIOUS
<1>2. QED
  BY <1>1 DEF Min

LEMMA MaxOfTwo ==
    ASSUME NEW a \in Int, NEW b \in Int
    PROVE  Max({a, b}) = IF a >= b THEN a ELSE b
<1>1. PICK m : m = IF a >= b THEN a ELSE b
  OBVIOUS
<1>2. m \in {a, b} /\ (\A y \in {a, b} : m >= y) /\ m \in Int
  BY <1>1
<1>3. \A x \in {a, b} : (\A y \in {a, b} : x >= y) => x = m
  BY <1>2
<1>4. Max({a, b}) = m
  BY <1>2, <1>3 DEF Max
<1>5. QED
  BY <1>1, <1>4

LEMMA MaxOfPercents ==
    ASSUME NEW S, S \subseteq 0 .. 100, S # {}
    PROVE  Max(S) \in S /\ \A y \in S : Max(S) >= y
<1> DEFINE T == {n \in Nat : \E x \in S : n = 100 - x}
<1>1. T \subseteq Nat /\ T # {}
  <2>1. PICK x : x \in S
    OBVIOUS
  <2>2. 100 - x \in Nat
    BY <2>1
  <2>3. QED
    BY <2>1, <2>2
<1>2. PICK n \in T : \A m \in T : n <= m
  BY <1>1, LeastNumber
<1>3. PICK x \in S : n = 100 - x
  BY <1>2
<1>4. ASSUME NEW y \in S
      PROVE  x >= y
  <2>1. 100 - y \in T
    OBVIOUS
  <2>2. x \in Int /\ y \in Int
    OBVIOUS
  <2> HIDE DEF T
  <2>3. 100 - x <= 100 - y
    BY <1>2, <1>3, <2>1
  <2>4. QED
    BY <2>2, <2>3
<1> HIDE DEF T
<1>5. \E z \in S : \A y \in S : z >= y
  BY <1>3, <1>4
<1>6. QED
  BY <1>5 DEF Max

LEMMA MulOrder ==
    ASSUME NEW a \in Nat, NEW b \in Nat, a <= b, NEW c \in Nat
    PROVE  a * c <= b * c
OBVIOUS

LEMMA Division ==
    ASSUME NEW n \in Nat, NEW d \in Nat \ {0}
    PROVE  /\ n \div d \in Nat /\ n % d \in Nat /\ n % d < d
           /\ n = d * (n \div d) + (n % d)
OBVIOUS

LEMMA RoundType ==
    ASSUME NEW n \in Nat, NEW d \in Nat \ {0}
    PROVE  Round(n, d) \in Nat
<1>1. n \div d \in Nat
  BY Division
<1>2. QED
  BY <1>1 DEF Round

\* Rounding does not lower the larger of two fractions.
LEMMA RoundMonotone ==
    ASSUME NEW n \in Nat, NEW d \in Nat \ {0}, NEW m \in Nat, NEW c \in Nat \ {0},
           n * c <= m * d
    PROVE  Round(n, d) <= Round(m, c)
<1>1. PICK q \in Nat : q = n \div d
  BY Division
<1>2. PICK r \in Nat : r = n % d
  BY Division
<1>3. PICK p \in Nat : p = m \div c
  BY Division
<1>4. PICK s \in Nat : s = m % c
  BY Division
<1>5. n = d * q + r /\ r < d /\ m = c * p + s /\ s < c
  BY <1>1, <1>2, <1>3, <1>4, Division
<1>6. PICK x \in Nat : x = c * d
  OBVIOUS
<1>7. n * c = x * q + r * c /\ m * d = x * p + s * d
  BY <1>5, <1>6
<1>8. r * c < x /\ s * d < x /\ r * c \in Nat /\ s * d \in Nat
  BY <1>5, <1>6
<1>9. x * q + r * c <= x * p + s * d
  BY <1>7
<1>10. q <= p
  <2>1. SUFFICES ASSUME q >= p + 1
                 PROVE  FALSE
    OBVIOUS
  <2>2. x * (p + 1) <= x * q
    BY <2>1, MulOrder
  <2>3. x * (p + 1) = x * p + x
    OBVIOUS
  <2>4. x * p \in Nat /\ x * q \in Nat
    OBVIOUS
  <2>5. QED
    BY <1>8, <1>9, <2>2, <2>3, <2>4
<1>11. /\ Round(n, d) = IF 2 * r > d \/ (2 * r = d /\ q % 2 = 1) THEN q + 1 ELSE q
       /\ Round(m, c) = IF 2 * s > c \/ (2 * s = c /\ p % 2 = 1) THEN p + 1 ELSE p
  BY <1>1, <1>2, <1>3, <1>4 DEF Round
<1>12. CASE q < p
  BY <1>11, <1>12
<1>13. CASE q = p
  <2>1. r * c <= s * d
    BY <1>8, <1>9, <1>13
  <2>2. 2 * r > d => 2 * s > c
    <3>1. SUFFICES ASSUME 2 * r > d, 2 * s <= c
                   PROVE  FALSE
      OBVIOUS
    <3>2. (d + 1) * c <= (2 * r) * c
      BY <3>1, MulOrder
    <3>3. (2 * s) * d <= c * d
      BY <3>1, MulOrder
    <3>4. (d + 1) * c = x + c /\ (2 * r) * c = 2 * (r * c) /\ (2 * s) * d = 2 * (s * d)
      BY <1>6
    <3>5. QED
      BY <1>6, <1>8, <2>1, <3>2, <3>3, <3>4
  <2>3. 2 * r = d => 2 * s >= c
    <3>1. SUFFICES ASSUME 2 * r = d, 2 * s + 1 <= c
                   PROVE  FALSE
      OBVIOUS
    <3>2. 2 * (r * c) = x
      BY <1>6, <3>1
    <3>3. (2 * s + 1) * d <= c * d
      BY <3>1, MulOrder
    <3>4. (2 * s + 1) * d = 2 * (s * d) + d
      OBVIOUS
    <3>5. QED
      BY <1>6, <1>8, <2>1, <3>2, <3>3, <3>4
  <2>4. QED
    BY <1>11, <1>13, <2>2, <2>3
<1>14. QED
  BY <1>10, <1>12, <1>13
---------------------------------------------------------------------------
(* Averages and scores.                                                    *)

LEMMA NotEmpty ==
    ASSUME NEW e \in Seq(Signal), e # <<>>
    PROVE  Len(e) \in Nat \ {0} /\ 1 \in DOMAIN e
<1>1. Len(e) \in Nat \ {0}
  BY EmptySeq, LenProperties
<1>2. QED
  BY <1>1

LEMMA AverageTrustType ==
    ASSUME NEW e \in Seq(Signal), e # <<>>
    PROVE  AverageTrust(e) \in Nat /\ AverageTrust(e) >= 700
<1>1. PICK n \in Nat \ {0} : n = Len(e)
  BY NotEmpty
<1>2. PICK t \in Nat : t = TotalTrust(e) /\ t >= 70 * n
  BY <1>1, Totals
<1>3. AverageTrust(e) = Round(10 * t, n)
  BY <1>1, <1>2 DEF AverageTrust
<1>4. 10 * t \in Nat /\ 700 * n <= (10 * t) * 1
  BY <1>1, <1>2
<1>5. Round(700, 1) <= Round(10 * t, n)
  BY <1>1, <1>4, RoundMonotone
<1>6. Round(700, 1) = 700
  BY DEF Round
<1>7. Round(10 * t, n) \in Nat
  BY <1>1, <1>4, RoundType
<1>8. QED
  BY <1>3, <1>5, <1>6, <1>7

LEMMA AverageTrustGrows ==
    ASSUME NEW e \in Seq(Signal), e # <<>>, NEW x \in Signal, NEW g, Grown(e, x, g),
           x.trust * Len(e) >= TotalTrust(e)
    PROVE  AverageTrust(e) <= AverageTrust(g)
<1>1. PICK n \in Nat \ {0} : n = Len(e)
  BY NotEmpty
<1>2. PICK t \in Nat : t = TotalTrust(e)
  BY Totals
<1>3. PICK v \in Nat : v = x.trust
  BY SignalFields
<1>4. TotalTrust(g) = t + v /\ Len(g) = n + 1 /\ g # <<>>
  BY <1>1, <1>2, <1>3, TotalsGrow DEF Grown
<1>5. AverageTrust(e) = Round(10 * t, n) /\ AverageTrust(g) = Round(10 * (t + v), n + 1)
  BY <1>1, <1>2, <1>4 DEF AverageTrust
<1>6. t <= v * n
  BY <1>1, <1>2, <1>3
<1>7. (10 * t) * (n + 1) <= (10 * (t + v)) * n
  <2>1. (10 * t) * (n + 1) = 10 * (t * n) + 10 * t
    OBVIOUS
  <2>2. (10 * (t + v)) * n = 10 * (t * n) + 10 * (v * n)
    OBVIOUS
  <2>3. t * n \in Nat /\ v * n \in Nat
    OBVIOUS
  <2>4. QED
    BY <1>6, <2>1, <2>2, <2>3
<1>8. 10 * t \in Nat /\ 10 * (t + v) \in Nat /\ n + 1 \in Nat \ {0}
  OBVIOUS
<1>9. QED
  BY <1>5, <1>7, <1>8, RoundMonotone

\* The confidence before its caps: the average strength and a bonus.
LEMMA ConfidenceType ==
    ASSUME NEW e \in Seq(Signal), e # <<>>
    PROVE  Confidence(e) \in 0 .. 100
<1>1. PICK n \in Nat \ {0} : n = Len(e)
  BY NotEmpty
<1>2. PICK a \in Nat : a = Min({events(e) * 8, 24})
  <2>1. events(e) * 8 \in Nat
    BY Counts
  <2>2. Min({events(e) * 8, 24}) \in Nat
    BY <2>1, MinOfTwo
  <2>3. QED
    BY <2>2
<1>3. PICK b \in Nat : b = Min({domains(e) * 3, 12})
  <2>1. domains(e) * 3 \in Nat
    BY Counts
  <2>2. Min({domains(e) * 3, 12}) \in Nat
    BY <2>1, MinOfTwo
  <2>3. QED
    BY <2>2
<1>4. PICK t \in Nat : t = TotalStrength(e)
  BY Totals
<1>5. PICK r : r = Round(t + (a + b) * n, n)
  OBVIOUS
<1>6. r \in Nat
  <2>1. t + (a + b) * n \in Nat
    OBVIOUS
  <2>2. QED
    BY <1>5, <2>1, RoundType
<1>7. PICK score : score = Min({100, r})
  OBVIOUS
<1>8. score \in 0 .. 100
  <2>1. 100 \in 0 .. 100
    OBVIOUS
  <2>2. QED
    BY <1>6, <1>7, <2>1, Capped, Zenon
<1>9. Min({score, 65}) \in 0 .. 100
  <2>1. score \in Nat /\ 65 \in 0 .. 100
    BY <1>8
  <2>2. QED
    BY <2>1, Capped, Zenon
<1>10. Confidence(e) = IF events(e) <= 1 THEN Min({score, 65}) ELSE score
  BY <1>1, <1>2, <1>3, <1>4, <1>5, <1>7 DEF Confidence
<1>11. QED
  BY <1>8, <1>9, <1>10

LEMMA ConfidenceOfMany ==
    ASSUME NEW e \in Seq(Signal), e # <<>>, events(e) >= 5, domains(e) >= 8
    PROVE  Confidence(e) = Min({100, Round(TotalStrength(e) + 36 * Len(e), Len(e))})
<1>1. events(e) \in Nat /\ domains(e) \in Nat
  BY Counts
<1>2. Min({events(e) * 8, 24}) = 24
  <2>1. events(e) * 8 \in Int /\ 24 \in Int /\ (events(e) * 8 <= 24 => FALSE)
    BY <1>1
  <2>2. QED
    BY <2>1, MinOfTwo
<1>3. Min({domains(e) * 3, 12}) = 12
  <2>1. domains(e) * 3 \in Int /\ 12 \in Int /\ (domains(e) * 3 <= 12 => FALSE)
    BY <1>1
  <2>2. QED
    BY <2>1, MinOfTwo
<1>4. ~ (events(e) <= 1)
  BY <1>1
<1>5. Confidence(e) = Min({100, Round(TotalStrength(e) + (24 + 12) * Len(e), Len(e))})
  BY <1>2, <1>3, <1>4 DEF Confidence
<1>6. (24 + 12) * Len(e) = 36 * Len(e)
  OBVIOUS
<1>7. QED
  BY <1>5, <1>6

LEMMA ConfidenceGrows ==
    ASSUME NEW e \in Seq(Signal), e # <<>>, NEW x \in Signal, NEW g, Grown(e, x, g),
           events(e) >= 5, domains(e) >= 8, x.strength * Len(e) >= TotalStrength(e)
    PROVE  Confidence(e) <= Confidence(g)
<1>1. PICK n \in Nat \ {0} : n = Len(e)
  BY NotEmpty
<1>2. PICK t \in Nat : t = TotalStrength(e)
  BY Totals
<1>3. PICK v \in Nat : v = x.strength
  BY SignalFields
<1>4. TotalStrength(g) = t + v /\ Len(g) = n + 1 /\ g # <<>> /\ g \in Seq(Signal)
  BY <1>1, <1>2, <1>3, TotalsGrow DEF Grown
<1>5. events(g) >= 5 /\ domains(g) >= 8
  <2>1. events(e) <= events(g) /\ domains(e) <= domains(g)
    BY CountsGrow
  <2>2. events(e) \in Nat /\ domains(e) \in Nat /\ events(g) \in Nat /\ domains(g) \in Nat
    BY <1>4, Counts
  <2>3. QED
    BY <2>1, <2>2
<1>6. PICK r : r = Round(t + 36 * n, n)
  OBVIOUS
<1>7. PICK s : s = Round((t + v) + 36 * (n + 1), n + 1)
  OBVIOUS
<1>8. Confidence(e) = Min({100, r})
  BY <1>1, <1>2, <1>6, ConfidenceOfMany
<1>9. Confidence(g) = Min({100, s})
  BY <1>4, <1>5, <1>7, ConfidenceOfMany
<1>10. (t + 36 * n) * (n + 1) <= ((t + v) + 36 * (n + 1)) * n
  <2>1. t <= v * n
    BY <1>1, <1>2, <1>3
  <2>2. (t + 36 * n) * (n + 1) = t * n + t + 36 * (n * n) + 36 * n
    OBVIOUS
  <2>3. ((t + v) + 36 * (n + 1)) * n = t * n + v * n + 36 * (n * n) + 36 * n
    OBVIOUS
  <2>4. t * n \in Nat /\ v * n \in Nat /\ n * n \in Nat
    OBVIOUS
  <2>5. QED
    BY <2>1, <2>2, <2>3, <2>4
<1>11. /\ t + 36 * n \in Nat /\ (t + v) + 36 * (n + 1) \in Nat
       /\ n + 1 \in Nat \ {0}
  OBVIOUS
<1>12. r <= s /\ r \in Nat /\ s \in Nat
  BY <1>6, <1>7, <1>10, <1>11, RoundMonotone, RoundType
<1>13. Min({100, r}) <= Min({100, s})
  BY <1>12, MinOfTwo
<1>14. QED
  BY <1>8, <1>9, <1>13

LEMMA MinMonotone ==
    ASSUME NEW a \in Int, NEW b \in Int, NEW c \in Int, NEW d \in Int, a <= c, b <= d
    PROVE  Min({a, b}) <= Min({c, d})
<1>1. Min({a, b}) = IF a <= b THEN a ELSE b
  BY MinOfTwo
<1>2. Min({c, d}) = IF c <= d THEN c ELSE d
  BY MinOfTwo
<1>3. QED
  BY <1>1, <1>2

Strongest(e) == Max({e[i].strength : i \in DOMAIN e})

LEMMA StrongestType ==
    ASSUME NEW e \in Seq(Signal), e # <<>>
    PROVE  /\ Strongest(e) \in Nat
           /\ \A i \in DOMAIN e : e[i].strength <= Strongest(e)
           /\ \E i \in DOMAIN e : e[i].strength = Strongest(e)
<1>1. PICK S : S = {e[i].strength : i \in DOMAIN e}
  OBVIOUS
<1>2. \A i \in DOMAIN e : e[i].strength \in Nat /\ e[i].strength <= 100
  BY SignalTypes
<1>3. \A i \in DOMAIN e : e[i].strength \in 0 .. 100
  <2>1. SUFFICES ASSUME NEW i \in DOMAIN e
                 PROVE  e[i].strength \in 0 .. 100
    OBVIOUS
  <2>2. PICK k : k = e[i].strength
    OBVIOUS
  <2>3. k \in Nat /\ k <= 100
    BY <1>2, <2>2
  <2>4. k \in 0 .. 100
    BY <2>3
  <2>5. QED
    BY <2>2, <2>4
<1>4. S \subseteq 0 .. 100
  BY <1>1, <1>3
<1>5. S # {}
  BY <1>1, NotEmpty
<1>6. Max(S) \in S /\ \A y \in S : Max(S) >= y
  BY <1>4, <1>5, MaxOfPercents
<1>7. Strongest(e) = Max(S)
  BY <1>1 DEF Strongest
<1>8. Strongest(e) \in Nat
  <2>1. Max(S) \in 0 .. 100
    BY <1>4, <1>6
  <2>2. PICK m : m = Max(S)
    OBVIOUS
  <2>3. m \in 0 .. 100
    BY <2>1, <2>2
  <2>4. m \in Nat
    BY <2>3
  <2>5. QED
    BY <1>7, <2>2, <2>4
<1>9. QED
  BY <1>1, <1>2, <1>6, <1>7, <1>8

LEMMA StrongestGrows ==
    ASSUME NEW e \in Seq(Signal), e # <<>>, NEW x \in Signal, NEW g, Grown(e, x, g)
    PROVE  Strongest(e) <= Strongest(g)
<1>1. PICK i \in DOMAIN e : e[i].strength = Strongest(e)
  BY StrongestType
<1>2. g \in Seq(Signal) /\ g # <<>> /\ i \in DOMAIN g /\ g[i] = e[i]
  BY DEF Grown
<1>3. g[i].strength <= Strongest(g)
  BY <1>2, StrongestType
<1>4. QED
  BY <1>1, <1>2, <1>3

LEMMA ScoresOf ==
    ASSUME NEW e, NEW c
    PROVE  /\ DOMAIN Scores(e, c) = {"evidence", "frequency", "market", "pain"}
           /\ Scores(e, c).evidence = Min({Confidence(e), AverageTrust(e) \div 10})
           /\ Scores(e, c).frequency = Min({100, events(e) * 20})
           /\ Scores(e, c).market = Min({100, 40 + countries(e) * 15 + domains(e) * 4})
           /\ Scores(e, c).pain = Min({IF c = "Maintenance Communication Failure" THEN 90 ELSE 75,
                                       Strongest(e) + 10})
BY DEF Scores, Strongest

\* The four scores that vary are percentages.
Percents(s) == /\ s.evidence \in 0 .. 100 /\ s.frequency \in 0 .. 100
               /\ s.market \in 0 .. 100 /\ s.pain \in 0 .. 100

LEMMA ScoresType ==
    ASSUME NEW e \in Seq(Signal), e # <<>>, NEW c
    PROVE  Percents(Scores(e, c))
<1>1. Scores(e, c).evidence \in 0 .. 100
  <2>1. PICK a \in Nat : a = AverageTrust(e)
    BY AverageTrustType
  <2>2. a \div 10 \in Nat
    OBVIOUS
  <2>3. Min({Confidence(e), a \div 10}) \in 0 .. 100
    BY <2>2, ConfidenceType, Capped, Zenon
  <2>4. QED
    BY <2>1, <2>3, ScoresOf
<1>2. Scores(e, c).frequency \in 0 .. 100
  <2>1. PICK a : a = events(e) * 20
    OBVIOUS
  <2>2. a \in Nat /\ 100 \in 0 .. 100
    BY <2>1, Counts
  <2>3. Min({100, a}) \in 0 .. 100
    BY <2>2, Capped, Zenon
  <2>4. Scores(e, c).frequency = Min({100, events(e) * 20})
    BY ScoresOf
  <2>5. QED
    BY <2>1, <2>3, <2>4
<1>3. Scores(e, c).market \in 0 .. 100
  <2>1. PICK a : a = 40 + countries(e) * 15 + domains(e) * 4
    OBVIOUS
  <2>2. a \in Nat /\ 100 \in 0 .. 100
    BY <2>1, Counts
  <2>3. Min({100, a}) \in 0 .. 100
    BY <2>2, Capped
  <2>4. Scores(e, c).market = Min({100, 40 + countries(e) * 15 + domains(e) * 4})
    BY ScoresOf
  <2>5. QED
    BY <2>1, <2>3, <2>4
<1>4. Scores(e, c).pain \in 0 .. 100
  <2>1. PICK k \in 0 .. 100 : k = IF c = "Maintenance Communication Failure" THEN 90 ELSE 75
    <3>1. 90 \in 0 .. 100 /\ 75 \in 0 .. 100
      OBVIOUS
    <3>2. QED
      BY <3>1
  <2>2. Strongest(e) + 10 \in Nat
    BY StrongestType
  <2>3. Min({k, Strongest(e) + 10}) \in 0 .. 100
    BY <2>2, Capped, Zenon
  <2>4. Scores(e, c).pain = Min({IF c = "Maintenance Communication Failure" THEN 90 ELSE 75,
                                 Strongest(e) + 10})
    BY ScoresOf
  <2>5. QED
    BY <2>1, <2>3, <2>4
<1>5. QED
  BY <1>1, <1>2, <1>3, <1>4 DEF Percents

LEMMA OciType ==
    ASSUME NEW s, Percents(s)
    PROVE  calculate_oci(s) \in 0 .. 100
<1>1. PICK n : n = 25 * s.evidence + 15 * s.frequency + 15 * s.market + 15 * s.pain + 10 * 80 + 20 * 100
  OBVIOUS
<1>2. /\ s.evidence \in Nat /\ s.frequency \in Nat /\ s.market \in Nat /\ s.pain \in Nat
      /\ s.evidence <= 100 /\ s.frequency <= 100 /\ s.market <= 100 /\ s.pain <= 100
  BY DEF Percents
<1>3. n \in Nat /\ n <= 10000
  BY <1>1, <1>2
<1>4. calculate_oci(s) = Round(n, 100)
  BY <1>1 DEF calculate_oci
<1>5. Round(n, 100) <= Round(10000, 100)
  BY <1>3, RoundMonotone
<1>6. Round(10000, 100) = 100
  BY DEF Round
<1>7. Round(n, 100) \in Nat
  BY <1>3, RoundType
<1>8. QED
  BY <1>4, <1>5, <1>6, <1>7

LEMMA OciMonotone ==
    ASSUME NEW s, NEW t, Percents(s), Percents(t),
           s.evidence <= t.evidence, s.frequency <= t.frequency,
           s.market <= t.market, s.pain <= t.pain
    PROVE  calculate_oci(s) <= calculate_oci(t)
<1>1. PICK n : n = 25 * s.evidence + 15 * s.frequency + 15 * s.market + 15 * s.pain + 10 * 80 + 20 * 100
  OBVIOUS
<1>2. PICK m : m = 25 * t.evidence + 15 * t.frequency + 15 * t.market + 15 * t.pain + 10 * 80 + 20 * 100
  OBVIOUS
<1>3. /\ s.evidence \in Nat /\ s.frequency \in Nat /\ s.market \in Nat /\ s.pain \in Nat
      /\ t.evidence \in Nat /\ t.frequency \in Nat /\ t.market \in Nat /\ t.pain \in Nat
  BY DEF Percents
<1>4. n \in Nat /\ m \in Nat /\ n <= m
  BY <1>1, <1>2, <1>3
<1>5. n * 100 <= m * 100 /\ 100 \in Nat \ {0}
  BY <1>4
<1>6. Round(n, 100) <= Round(m, 100)
  BY <1>4, <1>5, RoundMonotone
<1>7. QED
  BY <1>1, <1>2, <1>6 DEF calculate_oci

\* The market score, as a function of the countries and the sources.
MarketGrows(u, v, m, n) ==
    Min({100, 40 + u * 15 + m * 4}) <= Min({100, 40 + v * 15 + n * 4})

LEMMA MarketIsMonotone ==
    ASSUME NEW u \in Nat, NEW v \in Nat, NEW m \in Nat, NEW n \in Nat, u <= v, m <= n
    PROVE  MarketGrows(u, v, m, n)
<1>1. PICK a : a = 40 + u * 15 + m * 4
  OBVIOUS
<1>2. PICK b : b = 40 + v * 15 + n * 4
  OBVIOUS
<1>3. a \in Int /\ b \in Int /\ a <= b
  BY <1>1, <1>2
<1>4. Min({100, a}) <= Min({100, b})
  BY <1>3, MinMonotone
<1>5. QED
  BY <1>1, <1>2, <1>4 DEF MarketGrows

\* A signal at least as good as the average lowers no score of a finding
\* whose events and sources earn the full bonus.
LEMMA ScoresGrow ==
    ASSUME NEW e \in Seq(Signal), e # <<>>, NEW x \in Signal, NEW g, Grown(e, x, g), NEW c,
           events(e) >= 5, domains(e) >= 8,
           x.trust * Len(e) >= TotalTrust(e), x.strength * Len(e) >= TotalStrength(e)
    PROVE  /\ Scores(e, c).evidence <= Scores(g, c).evidence
           /\ Scores(e, c).frequency <= Scores(g, c).frequency
           /\ Scores(e, c).market <= Scores(g, c).market
           /\ Scores(e, c).pain <= Scores(g, c).pain
<1>1. g \in Seq(Signal) /\ g # <<>>
  BY DEF Grown
<1>2. /\ events(e) \in Nat /\ events(g) \in Nat /\ events(e) <= events(g)
      /\ countries(e) \in Nat /\ countries(g) \in Nat /\ countries(e) <= countries(g)
      /\ domains(e) \in Nat /\ domains(g) \in Nat /\ domains(e) <= domains(g)
  BY <1>1, Counts, CountsGrow
<1>3. Scores(e, c).evidence <= Scores(g, c).evidence
  <2>1. PICK a \in Nat : a = AverageTrust(e)
    BY AverageTrustType
  <2>2. PICK b \in Nat : b = AverageTrust(g)
    BY <1>1, AverageTrustType
  <2>3. a <= b
    BY <2>1, <2>2, AverageTrustGrows
  <2>4. a \div 10 <= b \div 10 /\ a \div 10 \in Int /\ b \div 10 \in Int
    BY <2>3
  <2>5. Confidence(e) <= Confidence(g)
    BY ConfidenceGrows
  <2>6. Confidence(e) \in 0 .. 100 /\ Confidence(g) \in 0 .. 100
    BY <1>1, ConfidenceType
  <2>7. PICK p \in 0 .. 100 : p = Confidence(e)
    BY <2>6
  <2>8. PICK q \in 0 .. 100 : q = Confidence(g)
    BY <2>6
  <2>9. p \in Int /\ q \in Int /\ p <= q
    BY <2>5, <2>7, <2>8
  <2>10. Min({p, a \div 10}) <= Min({q, b \div 10})
    BY <2>4, <2>9, MinMonotone
  <2>11. /\ Scores(e, c).evidence = Min({Confidence(e), AverageTrust(e) \div 10})
        /\ Scores(g, c).evidence = Min({Confidence(g), AverageTrust(g) \div 10})
    BY ScoresOf
  <2>12. QED
    BY <2>1, <2>2, <2>7, <2>8, <2>10, <2>11
<1>4. Scores(e, c).frequency <= Scores(g, c).frequency
  <2>1. /\ events(e) * 20 <= events(g) * 20
        /\ events(e) * 20 \in Int /\ events(g) * 20 \in Int /\ 100 \in Int /\ 100 <= 100
    BY <1>2
  <2>2. Min({100, events(e) * 20}) <= Min({100, events(g) * 20})
    BY <2>1, MinMonotone
  <2>3. QED
    BY <2>2, ScoresOf
<1>5. Scores(e, c).market <= Scores(g, c).market
  <2>1. PICK u \in Nat : u = countries(e)
    BY <1>2
  <2>2. PICK v \in Nat : v = countries(g)
    BY <1>2
  <2>3. PICK m \in Nat : m = domains(e)
    BY <1>2
  <2>4. PICK n \in Nat : n = domains(g)
    BY <1>2
  <2>5. u <= v /\ m <= n
    BY <1>2, <2>1, <2>2, <2>3, <2>4
  <2>6. MarketGrows(u, v, m, n)
    BY <2>5, MarketIsMonotone
  <2>7. Min({100, 40 + u * 15 + m * 4}) <= Min({100, 40 + v * 15 + n * 4})
    BY <2>6 DEF MarketGrows
  <2>8. /\ Scores(e, c).market = Min({100, 40 + countries(e) * 15 + domains(e) * 4})
        /\ Scores(g, c).market = Min({100, 40 + countries(g) * 15 + domains(g) * 4})
    BY ScoresOf
  <2>9. QED
    BY <2>1, <2>2, <2>3, <2>4, <2>7, <2>8
<1>6. Scores(e, c).pain <= Scores(g, c).pain
  <2>1. PICK k : k = IF c = "Maintenance Communication Failure" THEN 90 ELSE 75
    OBVIOUS
  <2>2. Strongest(e) \in Nat /\ Strongest(g) \in Nat /\ Strongest(e) <= Strongest(g)
    BY <1>1, StrongestType, StrongestGrows
  <2>3. k \in {75, 90}
    BY <2>1
  <2>4. k \in Int /\ k <= k
    BY <2>3
  <2>5. /\ Strongest(e) + 10 \in Int /\ Strongest(g) + 10 \in Int
         /\ Strongest(e) + 10 <= Strongest(g) + 10
    BY <2>2
  <2>6. Min({k, Strongest(e) + 10}) <= Min({k, Strongest(g) + 10})
    BY <2>4, <2>5, MinMonotone
  <2>7. /\ Scores(e, c).pain = Min({IF c = "Maintenance Communication Failure" THEN 90 ELSE 75,
                                      Strongest(e) + 10})
         /\ Scores(g, c).pain = Min({IF c = "Maintenance Communication Failure" THEN 90 ELSE 75,
                                      Strongest(g) + 10})
    BY ScoresOf
  <2>8. QED
    BY <2>1, <2>6, <2>7
<1>7. QED
  BY <1>3, <1>4, <1>5, <1>6
---------------------------------------------------------------------------
(* The gate.                                                               *)

LEMMA FirstIn ==
    ASSUME NEW S, S \subseteq Nat, S # {}
    PROVE  Min(S) \in S /\ \A j \in S : Min(S) <= j
<1>1. PICK k \in S : \A j \in S : k <= j
  BY LeastNumber
<1>2. Min(S) = k
  BY <1>1, FirstOf
<1>3. QED
  BY <1>1, <1>2

\* The chain of the source rules, spelled out.
FirstSource(t) ==
    IF "court" \in t THEN "court"
    ELSE IF "ombudsman" \in t THEN "ombudsman"
    ELSE IF "consumer affairs" \in t THEN "consumer_review"
    ELSE IF "reddit" \in t THEN "social_media"
    ELSE IF "forum" \in t THEN "forum"
    ELSE IF "research" \in t THEN "research"
    ELSE IF "news" \in t THEN "news"
    ELSE IF "pricing" \in t THEN "vendor" ELSE "unknown"

LEMMA HasOne ==
    ASSUME NEW t, NEW w, NEW p, w = {p}
    PROVE  Has(t, w) <=> p \in t
BY DEF Has

LEMMA SourceHits ==
    ASSUME NEW t
    PROVE  /\ DOMAIN SourceRules = 1 .. 8
           /\ Has(t, SourceRules[1].words) <=> "court" \in t
           /\ Has(t, SourceRules[2].words) <=> "ombudsman" \in t
           /\ Has(t, SourceRules[3].words) <=> "consumer affairs" \in t
           /\ Has(t, SourceRules[4].words) <=> "reddit" \in t
           /\ Has(t, SourceRules[5].words) <=> "forum" \in t
           /\ Has(t, SourceRules[6].words) <=> "research" \in t
           /\ Has(t, SourceRules[7].words) <=> "news" \in t
           /\ Has(t, SourceRules[8].words) <=> "pricing" \in t
<1>1. DOMAIN SourceRules = 1 .. 8
  BY DEF SourceRules
<1>2. /\ SourceRules[1].words = {"court"}
      /\ SourceRules[2].words = {"ombudsman"}
      /\ SourceRules[3].words = {"consumer affairs"}
      /\ SourceRules[4].words = {"reddit"}
      /\ SourceRules[5].words = {"forum"}
      /\ SourceRules[6].words = {"research"}
      /\ SourceRules[7].words = {"news"}
      /\ SourceRules[8].words = {"pricing"}
  BY DEF SourceRules, VENDOR_LANGUAGE_MARKERS
<1>3. Has(t, SourceRules[1].words) <=> "court" \in t
  BY <1>2, HasOne
<1>4. Has(t, SourceRules[2].words) <=> "ombudsman" \in t
  BY <1>2, HasOne
<1>5. Has(t, SourceRules[3].words) <=> "consumer affairs" \in t
  BY <1>2, HasOne
<1>6. Has(t, SourceRules[4].words) <=> "reddit" \in t
  BY <1>2, HasOne
<1>7. Has(t, SourceRules[5].words) <=> "forum" \in t
  BY <1>2, HasOne
<1>8. Has(t, SourceRules[6].words) <=> "research" \in t
  BY <1>2, HasOne
<1>9. Has(t, SourceRules[7].words) <=> "news" \in t
  BY <1>2, HasOne
<1>10. Has(t, SourceRules[8].words) <=> "pricing" \in t
  BY <1>2, HasOne
<1>11. QED
  BY <1>1, <1>3, <1>4, <1>5, <1>6, <1>7, <1>8, <1>9, <1>10

LEMMA SourceNames ==
    /\ SourceRules[1].type = "court" /\ SourceRules[2].type = "ombudsman"
    /\ SourceRules[3].type = "consumer_review" /\ SourceRules[4].type = "social_media"
    /\ SourceRules[5].type = "forum" /\ SourceRules[6].type = "research"
    /\ SourceRules[7].type = "news" /\ SourceRules[8].type = "vendor"
BY DEF SourceRules

LEMMA SourceType ==
    ASSUME NEW t
    PROVE  detect_source_type(t) =
              IF "guide" \in t /\ "complaint" \notin t THEN "article" ELSE FirstSource(t)
<1>1. PICK S : S = {i \in DOMAIN SourceRules : Has(t, SourceRules[i].words)}
  OBVIOUS
<1>2. Has(t, GS001_ADVICE_PAGE_PATTERNS) <=> "guide" \in t
  BY DEF Has, GS001_ADVICE_PAGE_PATTERNS
<1>3. detect_source_type(t) =
         IF "guide" \in t /\ "complaint" \notin t THEN "article"
         ELSE IF S = {} THEN "unknown" ELSE SourceRules[Min(S)].type
  BY <1>1, <1>2 DEF detect_source_type
<1>4. S = {i \in 1 .. 8 : Has(t, SourceRules[i].words)}
  BY <1>1, SourceHits
<1>5. /\ 1 \in S <=> "court" \in t
      /\ 2 \in S <=> "ombudsman" \in t
      /\ 3 \in S <=> "consumer affairs" \in t
      /\ 4 \in S <=> "reddit" \in t
      /\ 5 \in S <=> "forum" \in t
      /\ 6 \in S <=> "research" \in t
      /\ 7 \in S <=> "news" \in t
      /\ 8 \in S <=> "pricing" \in t
  <2>1. \A i \in {1, 2, 3, 4, 5, 6, 7, 8} : i \in S <=> Has(t, SourceRules[i].words)
    <3>1. \A i \in {1, 2, 3, 4, 5, 6, 7, 8} : i \in 1 .. 8
      OBVIOUS
    <3>2. QED
      BY <1>4, <3>1
  <2>2. /\ 1 \in S <=> Has(t, SourceRules[1].words)
        /\ 2 \in S <=> Has(t, SourceRules[2].words)
        /\ 3 \in S <=> Has(t, SourceRules[3].words)
        /\ 4 \in S <=> Has(t, SourceRules[4].words)
        /\ 5 \in S <=> Has(t, SourceRules[5].words)
        /\ 6 \in S <=> Has(t, SourceRules[6].words)
        /\ 7 \in S <=> Has(t, SourceRules[7].words)
        /\ 8 \in S <=> Has(t, SourceRules[8].words)
    BY <2>1
  <2>3. QED
    BY <2>2, SourceHits
<1>6. (IF S = {} THEN "unknown" ELSE SourceRules[Min(S)].type) = FirstSource(t)
  <2>1. CASE S = {}
    BY <1>5, <2>1 DEF FirstSource
  <2>2. CASE S # {}
    <3>1. S \subseteq Nat /\ \A j \in S : j \in 1 .. 8
      BY <1>4
    <3>2. PICK k : k = Min(S)
      OBVIOUS
    <3>3. k \in S /\ \A j \in S : k <= j
      BY <2>2, <3>1, <3>2, FirstIn
    <3>4. k \in {1, 2, 3, 4, 5, 6, 7, 8}
      BY <3>1, <3>3
    <3>5. \A j \in S : j >= k
      BY <3>1, <3>3, <3>4
    <3>6. /\ k > 1 => 1 \notin S
          /\ k > 2 => 2 \notin S
          /\ k > 3 => 3 \notin S
          /\ k > 4 => 4 \notin S
          /\ k > 5 => 5 \notin S
          /\ k > 6 => 6 \notin S
          /\ k > 7 => 7 \notin S
      BY <3>4, <3>5
    <3>7. SourceRules[k].type = FirstSource(t)
      <4>1. CASE k = 1
        BY <1>5, <3>3, <3>6, <4>1, SourceNames DEF FirstSource
      <4>2. CASE k = 2
        <5>1. 1 \notin S
          BY <3>6, <4>2
        <5>2. /\ "court" \notin t
              /\ "ombudsman" \in t
          BY <1>5, <3>3, <4>2, <5>1
        <5>3. FirstSource(t) = "ombudsman"
          BY <5>2 DEF FirstSource
        <5>4. QED
          BY <4>2, <5>3, SourceNames
      <4>3. CASE k = 3
        <5>1. 1 \notin S /\ 2 \notin S
          BY <3>6, <4>3
        <5>2. /\ "court" \notin t /\ "ombudsman" \notin t
              /\ "consumer affairs" \in t
          BY <1>5, <3>3, <4>3, <5>1
        <5>3. FirstSource(t) = "consumer_review"
          BY <5>2 DEF FirstSource
        <5>4. QED
          BY <4>3, <5>3, SourceNames
      <4>4. CASE k = 4
        <5>1. 1 \notin S /\ 2 \notin S /\ 3 \notin S
          BY <3>6, <4>4
        <5>2. /\ "court" \notin t /\ "ombudsman" \notin t /\ "consumer affairs" \notin t
              /\ "reddit" \in t
          BY <1>5, <3>3, <4>4, <5>1
        <5>3. FirstSource(t) = "social_media"
          BY <5>2 DEF FirstSource
        <5>4. QED
          BY <4>4, <5>3, SourceNames
      <4>5. CASE k = 5
        <5>1. 1 \notin S /\ 2 \notin S /\ 3 \notin S /\ 4 \notin S
          BY <3>6, <4>5
        <5>2. /\ "court" \notin t /\ "ombudsman" \notin t /\ "consumer affairs" \notin t
              /\ "reddit" \notin t
              /\ "forum" \in t
          BY <1>5, <3>3, <4>5, <5>1
        <5>3. FirstSource(t) = "forum"
          BY <5>2 DEF FirstSource
        <5>4. QED
          BY <4>5, <5>3, SourceNames
      <4>6. CASE k = 6
        <5>1. 1 \notin S /\ 2 \notin S /\ 3 \notin S /\ 4 \notin S /\ 5 \notin S
          BY <3>6, <4>6
        <5>2. /\ "court" \notin t /\ "ombudsman" \notin t /\ "consumer affairs" \notin t
              /\ "reddit" \notin t /\ "forum" \notin t
              /\ "research" \in t
          BY <1>5, <3>3, <4>6, <5>1
        <5>3. FirstSource(t) = "research"
          BY <5>2 DEF FirstSource
        <5>4. QED
          BY <4>6, <5>3, SourceNames
      <4>7. CASE k = 7
        <5>1. 1 \notin S /\ 2 \notin S /\ 3 \notin S /\ 4 \notin S /\ 5 \notin S /\ 6 \notin S
          BY <3>6, <4>7
        <5>2. /\ "court" \notin t /\ "ombudsman" \notin t /\ "consumer affairs" \notin t
              /\ "reddit" \notin t /\ "forum" \notin t /\ "research" \notin t
              /\ "news" \in t
          BY <1>5, <3>3, <4>7, <5>1
        <5>3. FirstSource(t) = "news"
          BY <5>2 DEF FirstSource
        <5>4. QED
          BY <4>7, <5>3, SourceNames
      <4>8. CASE k = 8
        <5>1. 1 \notin S /\ 2 \notin S /\ 3 \notin S /\ 4 \notin S /\ 5 \notin S /\ 6 \notin S /\ 7 \notin S
          BY <3>6, <4>8
        <5>2. /\ "court" \notin t /\ "ombudsman" \notin t /\ "consumer affairs" \notin t
              /\ "reddit" \notin t /\ "forum" \notin t /\ "research" \notin t
              /\ "news" \notin t
              /\ "pricing" \in t
          BY <1>5, <3>3, <4>8, <5>1
        <5>3. FirstSource(t) = "vendor"
          BY <5>2 DEF FirstSource
        <5>4. QED
          BY <4>8, <5>3, SourceNames
      <4>9. QED
        BY <3>4, <4>1, <4>2, <4>3, <4>4, <4>5, <4>6, <4>7, <4>8
    <3>8. QED
      BY <2>2, <3>2, <3>7
  <2>3. QED
    BY <2>1, <2>2
<1>7. QED
  BY <1>3, <1>6

LEMMA SourceTrustType ==
    ASSUME NEW t
    PROVE  source_trust_score(t) \in 0 .. 100
<1>1. detect_source_type(t) \in {"court", "ombudsman", "consumer_review", "social_media", "forum",
                                 "research", "news", "vendor", "article", "unknown"}
  BY SourceType DEF FirstSource
<1>2. SOURCE_TRUST_SCORES[detect_source_type(t)] \in {98, 95, 85, 80, 70, 60, 20, 0}
  BY <1>1 DEF SOURCE_TRUST_SCORES
<1>3. source_trust_score(t) \in {98, 95, 85, 80, 70, 60, 20, 0}
  BY <1>2 DEF source_trust_score
<1>4. QED
  BY <1>3

LEMMA TrustScoreType ==
    ASSUME NEW t
    PROVE  TrustScore(t) \in 0 .. 100
<1>1. 40 \in 0 .. 100 /\ 20 \in 0 .. 100
  OBVIOUS
<1>2. CASE Classification(t) = "marketing_content"
  BY <1>1, <1>2 DEF TrustScore
<1>3. CASE Classification(t) = "vendor_content"
  BY <1>1, <1>3 DEF TrustScore
<1>4. CASE Classification(t) # "marketing_content" /\ Classification(t) # "vendor_content"
  BY <1>4, SourceTrustType DEF TrustScore
<1>5. QED
  BY <1>2, <1>3, <1>4

LEMMA RelevanceType ==
    ASSUME NEW t
    PROVE  operational_relevance_score(t) \in 0 .. 100
<1> DEFINE points(n, condition) == IF condition THEN n ELSE 0
<1>1. PICK a \in Int : a = points(20, "tenant" \in t)
  OBVIOUS
<1>2. PICK b \in Int : b = points(20, Has(t, GS001_REQUIRED_MAINTENANCE_CONTEXT_KEYWORDS))
  OBVIOUS
<1>3. PICK c \in Int : c = points(35, Has(t, GS001_OPERATIONAL_RELEVANCE_KEYWORDS))
  OBVIOUS
<1>4. PICK d \in Int : d = points(25, {"maintenance", "communication"} \subseteq t)
  OBVIOUS
<1>5. PICK f \in Int : f = points(20, Has(t, PAIN_KEYWORDS))
  OBVIOUS
<1>6. PICK g \in Int : g = points(45, Has(t, GS001_CONTEXT_ONLY_PATTERNS))
  OBVIOUS
<1>7. PICK h \in Int : h = points(20, Has(t, GS001_ADVICE_PAGE_PATTERNS))
  OBVIOUS
<1>8. PICK n : n = a + b + c + d + f - g - h
  OBVIOUS
<1>9. n \in Int
  BY <1>8
<1>10. operational_relevance_score(t) = Max({0, Min({100, n})})
  BY <1>1, <1>2, <1>3, <1>4, <1>5, <1>6, <1>7, <1>8 DEF operational_relevance_score
<1>11. PICK m : m = Min({100, n})
  OBVIOUS
<1>12. m \in Int /\ m <= 100
  BY <1>9, <1>11, MinOfTwo
<1>13. Max({0, m}) = IF 0 >= m THEN 0 ELSE m
  BY <1>12, MaxOfTwo
<1>14. Max({0, m}) \in 0 .. 100
  BY <1>12, <1>13
<1>15. QED
  BY <1>10, <1>11, <1>14

\* The first eight rules of the chain: what keeps a text out of production.
KeptOut(t) ==
    \/ "top 10" \in t
    \/ VendorDetected(t) \/ detect_source_type(t) = "vendor"
    \/ detect_source_type(t) = "social_media"
    \/ "procurement" \in t
    \/ "guide" \in t
    \/ "market size" \in t
    \/ detect_source_type(t) = "research"
    \/ detect_source_type(t) = "news" /\ ~StrongComplaint(t)

LEMMA RulesOf ==
    ASSUME NEW t, NEW rules, rules = ClassRules(t)
    PROVE  /\ DOMAIN rules = 1 .. 12
           /\ rules[12].if
           /\ rules[9].if <=> "complaint" \in t
           /\ rules[10].if <=> "delayed" \in t
           /\ (\/ rules[1].if \/ rules[2].if \/ rules[3].if \/ rules[4].if
               \/ rules[5].if \/ rules[6].if \/ rules[7].if \/ rules[8].if) <=> KeptOut(t)
<1>1. DOMAIN rules = 1 .. 12
  <2> DEFINE type == detect_source_type(t)
             r1 == [if |-> Has(t, MARKETING_CONTENT_PATTERNS), class |-> "marketing_content"]
             r2 == [if |-> VendorDetected(t) \/ type = "vendor", class |-> "vendor_content"]
             r3 == [if |-> type = "social_media", class |-> "community_signal"]
             r4 == [if |-> Has(t, GS001_CONTEXT_ONLY_PATTERNS), class |-> "market_context"]
             r5 == [if |-> Has(t, GS001_ADVICE_PAGE_PATTERNS), class |-> "market_context"]
             r6 == [if |-> "market size" \in t, class |-> "market_context"]
             r7 == [if |-> type = "research", class |-> "research_report"]
             r8 == [if |-> type = "news" /\ ~ StrongComplaint(t), class |-> "news_report"]
             r9 == [if |-> "complaint" \in t,
                    class |-> IF type \in {"consumer_review", "court", "ombudsman", "news"}
                              THEN "verified_complaint" ELSE "operational_pain"]
             r10 == [if |-> "delayed" \in t, class |-> "operational_pain"]
             r11 == [if |-> Has(t, WorkflowWords), class |-> "workflow_inefficiency"]
             r12 == [if |-> TRUE, class |-> "unknown"]
  <2>1. ClassRules(t) = <<r1, r2, r3, r4, r5, r6, r7, r8, r9, r10, r11, r12>>
    BY DEF ClassRules
  <2> HIDE DEF r1, r2, r3, r4, r5, r6, r7, r8, r9, r10, r11, r12
  <2>2. QED
    BY <2>1
<1>2. rules[12].if
  BY DEF ClassRules
<1>3. rules[9].if <=> "complaint" \in t
  BY DEF ClassRules
<1>4. rules[10].if <=> "delayed" \in t
  BY DEF ClassRules
<1>5. \A p : Has(t, {p}) <=> p \in t
  BY DEF Has
<1>6. rules[1].if <=> "top 10" \in t
  BY <1>5 DEF ClassRules, MARKETING_CONTENT_PATTERNS
<1>7. rules[2].if <=> (VendorDetected(t) \/ detect_source_type(t) = "vendor")
  BY DEF ClassRules
<1>8. rules[3].if <=> detect_source_type(t) = "social_media"
  BY DEF ClassRules
<1>9. rules[4].if <=> "procurement" \in t
  BY <1>5 DEF ClassRules, GS001_CONTEXT_ONLY_PATTERNS
<1>10. rules[5].if <=> "guide" \in t
  BY <1>5 DEF ClassRules, GS001_ADVICE_PAGE_PATTERNS
<1>11. rules[6].if <=> "market size" \in t
  BY DEF ClassRules
<1>12. rules[7].if <=> detect_source_type(t) = "research"
  BY DEF ClassRules
<1>13. rules[8].if <=> (detect_source_type(t) = "news" /\ ~ StrongComplaint(t))
  BY DEF ClassRules
<1>14. QED
  BY <1>1, <1>2, <1>3, <1>4, <1>6, <1>7, <1>8, <1>9, <1>10, <1>11, <1>12, <1>13 DEF KeptOut

LEMMA ClassesOf ==
    ASSUME NEW t, NEW rules, rules = ClassRules(t)
    PROVE  /\ \A i \in 1 .. 8 : rules[i].class \notin PRODUCTION_ELIGIBLE_CLASSIFICATIONS
           /\ rules[9].class \in PRODUCTION_ELIGIBLE_CLASSIFICATIONS
           /\ rules[10].class \in PRODUCTION_ELIGIBLE_CLASSIFICATIONS
<1>1. \A i \in 1 .. 8 : i \in {1, 2, 3, 4, 5, 6, 7, 8}
  OBVIOUS
<1>2. \A i \in {1, 2, 3, 4, 5, 6, 7, 8} :
         rules[i].class \in {"marketing_content", "vendor_content", "community_signal",
                             "market_context", "research_report", "news_report"}
  <2>1. rules[1].class = "marketing_content"
    BY DEF ClassRules
  <2>2. rules[2].class = "vendor_content"
    BY DEF ClassRules
  <2>3. rules[3].class = "community_signal"
    BY DEF ClassRules
  <2>4. rules[4].class = "market_context"
    BY DEF ClassRules
  <2>5. rules[5].class = "market_context"
    BY DEF ClassRules
  <2>6. rules[6].class = "market_context"
    BY DEF ClassRules
  <2>7. rules[7].class = "research_report"
    BY DEF ClassRules
  <2>8. rules[8].class = "news_report"
    BY DEF ClassRules
  <2>9. QED
    BY <2>1, <2>2, <2>3, <2>4, <2>5, <2>6, <2>7, <2>8
<1>3. rules[9].class \in {"verified_complaint", "operational_pain"}
  BY DEF ClassRules
<1>4. rules[10].class = "operational_pain"
  BY DEF ClassRules
<1>5. QED
  BY <1>1, <1>2, <1>3, <1>4 DEF PRODUCTION_ELIGIBLE_CLASSIFICATIONS

LEMMA ProductionClass ==
    ASSUME NEW t
    PROVE  /\ Classification(t) \in PRODUCTION_ELIGIBLE_CLASSIFICATIONS => ~ KeptOut(t)
           /\ ~ KeptOut(t) /\ ("complaint" \in t \/ "delayed" \in t)
                 => Classification(t) \in PRODUCTION_ELIGIBLE_CLASSIFICATIONS
<1>1. PICK rules : rules = ClassRules(t)
  OBVIOUS
<1>2. PICK S : S = {i \in DOMAIN rules : rules[i].if}
  OBVIOUS
<1>3. PICK k : k = Min(S)
  OBVIOUS
<1>4. Classification(t) = rules[k].class
  BY <1>1, <1>2, <1>3 DEF Classification
<1>5. DOMAIN rules = 1 .. 12 /\ rules[12].if
  BY <1>1, RulesOf
<1>6. S \subseteq Nat /\ 12 \in S /\ \A i \in S : i \in 1 .. 12 /\ rules[i].if
  BY <1>2, <1>5
<1>7. k \in S /\ \A j \in S : k <= j
  BY <1>3, <1>6, FirstIn
<1>8. \A i \in 1 .. 12 : rules[i].if => i \in S
  BY <1>2, <1>5
<1>9. KeptOut(t) <=> (\/ rules[1].if \/ rules[2].if \/ rules[3].if \/ rules[4].if
                      \/ rules[5].if \/ rules[6].if \/ rules[7].if \/ rules[8].if)
  BY <1>1, RulesOf
<1>10. KeptOut(t) <=> \E i \in 1 .. 8 : rules[i].if
  <2>1. \A i \in 1 .. 8 : i \in {1, 2, 3, 4, 5, 6, 7, 8}
    OBVIOUS
  <2>2. \A i \in {1, 2, 3, 4, 5, 6, 7, 8} : i \in 1 .. 8
    OBVIOUS
  <2>3. QED
    BY <1>9, <2>1, <2>2
<1>11. ASSUME Classification(t) \in PRODUCTION_ELIGIBLE_CLASSIFICATIONS
       PROVE  ~ KeptOut(t)
  <2>1. k \notin 1 .. 8
    BY <1>1, <1>4, <1>11, ClassesOf
  <2>2. k \in 1 .. 12 /\ k > 8
    BY <1>6, <1>7, <2>1
  <2>3. \A i \in 1 .. 8 : i \notin S
    BY <1>7, <2>2
  <2>4. \A i \in 1 .. 8 : ~ rules[i].if
    BY <1>8, <2>3
  <2>5. QED
    BY <1>10, <2>4
<1>12. ASSUME ~ KeptOut(t), "complaint" \in t \/ "delayed" \in t
       PROVE  Classification(t) \in PRODUCTION_ELIGIBLE_CLASSIFICATIONS
  <2>1. k \in 1 .. 12 /\ k \notin 1 .. 8
    BY <1>6, <1>7, <1>10, <1>12
  <2>2. rules[9].if \/ rules[10].if
    BY <1>1, <1>12, RulesOf
  <2>3. 9 \in S \/ 10 \in S
    BY <1>8, <2>2
  <2>4. k = 9 \/ k = 10
    BY <1>7, <2>1, <2>3
  <2>5. QED
    BY <1>1, <1>4, <2>4, ClassesOf
<1>13. QED
  BY <1>11, <1>12
---------------------------------------------------------------------------
(* The audit.                                                              *)

\* The requirements of an approval, as the numbers that are compared.
LEMMA MetOf ==
    ASSUME NEW e \in Seq(Signal), e # <<>>, NEW c
    PROVE  /\ Percents(Scores(e, c))
           /\ calculate_oci(Scores(e, c)) \in 0 .. 100
           /\ Decision(e, c) \in {"Approve Opportunity", "Needs More Evidence"}
           /\ Decision(e, c) = "Approve Opportunity" <=> RequirementsMet(e, c)
<1>1. Percents(Scores(e, c))
  BY ScoresType
<1>2. calculate_oci(Scores(e, c)) \in 0 .. 100
  BY <1>1, OciType
<1>3. PICK oci \in 0 .. 100 : oci = calculate_oci(Scores(e, c))
  BY <1>2
<1>4. RequirementsMet(e, c) => oci >= 90
  BY <1>3 DEF RequirementsMet
<1>5. oci >= 90 => oci >= 80
  BY <1>3
<1>6. oci >= 80 /\ RequirementsMet(e, c) <=> RequirementsMet(e, c)
  BY <1>4, <1>5
<1>7. Decision(e, c) = IF oci >= 80 /\ RequirementsMet(e, c) THEN "Approve Opportunity"
                       ELSE IF oci >= 60 \/ ~ RequirementsMet(e, c) THEN "Needs More Evidence"
                       ELSE "Reject"
  BY <1>3 DEF Decision
<1>8. QED
  BY <1>1, <1>2, <1>6, <1>7

LEMMA WarningsOf ==
    ASSUME NEW e, NEW c
    PROVE  Warnings(e, c) = {} <=>
              /\ ~ (domains(e) < 8)
              /\ ~ (events(e) < 5)
              /\ ~ (Scores(e, c).evidence < 90)
              /\ ~ (Scores(e, c).pain < 85)
              /\ ~ (calculate_oci(Scores(e, c)) < 90)
              /\ ~ (countries(e) < 3)
              /\ ~ (stakeholders(e) < 2)
              /\ ~ (organisations(e) < 4)
              /\ ~ (Len(e) < 3)
              /\ ~ (AverageTrust(e) < 10 * MIN_PRODUCTION_AUTHORITY_SCORE)
              /\ ~ (countries(e) < 2)
<1> DEFINE short == [sources       |-> domains(e) < 8,
                     events        |-> events(e) < 5,
                     evidence      |-> Scores(e, c).evidence < 90,
                     pain          |-> Scores(e, c).pain < 85,
                     confidence    |-> calculate_oci(Scores(e, c)) < 90,
                     geography     |-> countries(e) < 3,
                     stakeholders  |-> stakeholders(e) < 2,
                     organisations |-> organisations(e) < 4,
                     signals       |-> Len(e) < 3,
                     authority     |-> AverageTrust(e) < 10 * MIN_PRODUCTION_AUTHORITY_SCORE,
                     coverage      |-> countries(e) < 2]
<1>1. Warnings(e, c) = {w \in DOMAIN short : short[w]}
  BY DEF Warnings
<1>2. DOMAIN short = {"sources", "events", "evidence", "pain", "confidence", "geography",
                      "stakeholders", "organisations", "signals", "authority", "coverage"}
  OBVIOUS
<1>3. /\ short["sources"] <=> domains(e) < 8
      /\ short["events"] <=> events(e) < 5
      /\ short["evidence"] <=> Scores(e, c).evidence < 90
      /\ short["pain"] <=> Scores(e, c).pain < 85
      /\ short["confidence"] <=> calculate_oci(Scores(e, c)) < 90
      /\ short["geography"] <=> countries(e) < 3
      /\ short["stakeholders"] <=> stakeholders(e) < 2
      /\ short["organisations"] <=> organisations(e) < 4
      /\ short["signals"] <=> Len(e) < 3
      /\ short["authority"] <=> AverageTrust(e) < 10 * MIN_PRODUCTION_AUTHORITY_SCORE
      /\ short["coverage"] <=> countries(e) < 2
  OBVIOUS
<1> HIDE DEF short
<1>4. Warnings(e, c) = {} <=> \A w \in DOMAIN short : ~ short[w]
  BY <1>1
<1>5. QED
  BY <1>2, <1>3, <1>4

LEMMA RefusalIsExplained ==
    ASSUME NEW e \in Seq(Signal), e # <<>>, NEW c
    PROVE  /\ Decision(e, c) = "Approve Opportunity" <=> Warnings(e, c) = {}
           /\ Decision(e, c) = "Approve Opportunity" => Sufficient(e)
<1>1. PICK n \in Nat : n = Len(e)
  BY NotEmpty
<1>2. PICK d \in Nat : d = domains(e)
  BY Counts
<1>3. PICK v \in Nat : v = events(e)
  BY Counts
<1>4. PICK o \in Nat : o = organisations(e)
  BY Counts
<1>5. PICK u \in Nat : u = countries(e)
  BY Counts
<1>6. PICK h \in Nat : h = stakeholders(e)
  BY Counts
<1>7. PICK a \in Nat : a = AverageTrust(e)
  BY AverageTrustType
<1>8. PICK p \in 0 .. 100 : p = Scores(e, c).evidence
  BY ScoresType DEF Percents
<1>9. PICK q \in 0 .. 100 : q = Scores(e, c).pain
  BY ScoresType DEF Percents
<1>10. PICK r \in 0 .. 100 : r = calculate_oci(Scores(e, c))
  BY MetOf
<1>11. d <= n
  BY <1>1, <1>2, Counts
<1>12. RequirementsMet(e, c) <=> (/\ d >= 8 /\ v >= 5 /\ p >= 90 /\ q >= 85 /\ r >= 90
                                  /\ u >= 3 /\ h >= 2 /\ o >= 4 /\ a >= 700)
  BY <1>2, <1>3, <1>4, <1>5, <1>6, <1>7, <1>8, <1>9, <1>10
     DEF RequirementsMet, MIN_PRODUCTION_AUTHORITY_SCORE
<1>13. Warnings(e, c) = {} <=>
          (/\ ~ (d < 8) /\ ~ (v < 5) /\ ~ (p < 90) /\ ~ (q < 85) /\ ~ (r < 90)
           /\ ~ (u < 3) /\ ~ (h < 2) /\ ~ (o < 4) /\ ~ (n < 3) /\ ~ (a < 10 * 70) /\ ~ (u < 2))
  BY <1>1, <1>2, <1>3, <1>4, <1>5, <1>6, <1>7, <1>8, <1>9, <1>10, WarningsOf
     DEF MIN_PRODUCTION_AUTHORITY_SCORE
<1>14. RequirementsMet(e, c) <=> Warnings(e, c) = {}
  BY <1>11, <1>12, <1>13
<1>15. RequirementsMet(e, c) => n >= 3 /\ d >= 2 /\ v >= 2 /\ a >= 700
  BY <1>11, <1>12
<1>16. RequirementsMet(e, c) => Sufficient(e)
  BY <1>1, <1>2, <1>3, <1>7, <1>15 DEF Sufficient, MIN_PRODUCTION_AUTHORITY_SCORE
<1>17. QED
  BY <1>14, <1>16, MetOf

\* What one more signal does to a finding.
LEMMA SufficientGrows ==
    ASSUME NEW e \in Seq(Signal), e # <<>>, NEW x \in Signal, NEW g, Grown(e, x, g),
           Sufficient(e)
    PROVE  Sufficient(g)
<1>1. g \in Seq(Signal) /\ g # <<>> /\ Len(g) = Len(e) + 1 /\ Len(e) \in Nat
  BY NotEmpty DEF Grown
<1>2. /\ domains(e) \in Nat /\ domains(g) \in Nat /\ domains(e) <= domains(g)
      /\ events(e) \in Nat /\ events(g) \in Nat /\ events(e) <= events(g)
      /\ organisations(e) \in Nat /\ organisations(g) \in Nat /\ organisations(e) <= organisations(g)
  BY <1>1, Counts, CountsGrow
<1>3. AverageTrust(g) >= 10 * MIN_PRODUCTION_AUTHORITY_SCORE
  BY <1>1, AverageTrustType DEF MIN_PRODUCTION_AUTHORITY_SCORE
<1>4. Len(e) >= 3 /\ domains(e) >= 2 /\ (organisations(e) >= 2 \/ events(e) >= 2)
  BY DEF Sufficient
<1>5. Len(g) >= 3 /\ domains(g) >= 2 /\ (organisations(g) >= 2 \/ events(g) >= 2)
  BY <1>1, <1>2, <1>4
<1>6. QED
  BY <1>3, <1>5 DEF Sufficient

LEMMA RequirementsGrow ==
    ASSUME NEW e \in Seq(Signal), e # <<>>, NEW x \in Signal, NEW g, Grown(e, x, g), NEW c,
           x.trust * Len(e) >= TotalTrust(e), x.strength * Len(e) >= TotalStrength(e),
           RequirementsMet(e, c)
    PROVE  RequirementsMet(g, c)
<1>1. g \in Seq(Signal) /\ g # <<>>
  BY DEF Grown
<1>2. /\ domains(e) >= 8 /\ events(e) >= 5 /\ countries(e) >= 3 /\ stakeholders(e) >= 2
      /\ organisations(e) >= 4
  BY DEF RequirementsMet
<1>3. /\ domains(e) \in Nat /\ domains(g) \in Nat /\ domains(e) <= domains(g)
      /\ events(e) \in Nat /\ events(g) \in Nat /\ events(e) <= events(g)
      /\ countries(e) \in Nat /\ countries(g) \in Nat /\ countries(e) <= countries(g)
  BY <1>1, Counts, CountsGrow
<1>4. /\ stakeholders(e) \in Nat /\ stakeholders(g) \in Nat /\ stakeholders(e) <= stakeholders(g)
      /\ organisations(e) \in Nat /\ organisations(g) \in Nat /\ organisations(e) <= organisations(g)
  BY <1>1, Counts, CountsGrow
<1>5. /\ domains(g) >= 8 /\ events(g) >= 5 /\ countries(g) >= 3
  BY <1>2, <1>3
<1>6. stakeholders(g) >= 2 /\ organisations(g) >= 4
  BY <1>2, <1>4
<1>7. PICK s : s = Scores(e, c)
  OBVIOUS
<1>8. PICK t : t = Scores(g, c)
  OBVIOUS
<1>9. Percents(s) /\ Percents(t)
  BY <1>1, <1>7, <1>8, ScoresType
<1>10. /\ s.evidence <= t.evidence /\ s.frequency <= t.frequency
       /\ s.market <= t.market /\ s.pain <= t.pain
  BY <1>2, <1>7, <1>8, ScoresGrow
<1>11. calculate_oci(s) <= calculate_oci(t)
  BY <1>9, <1>10, OciMonotone
<1>12. calculate_oci(s) \in 0 .. 100 /\ calculate_oci(t) \in 0 .. 100
  BY <1>9, OciType
<1>13. s.evidence >= 90 /\ s.pain >= 85 /\ calculate_oci(s) >= 90
  BY <1>7 DEF RequirementsMet
<1>14. t.evidence >= 90 /\ t.pain >= 85
  <2>1. PICK a \in 0 .. 100 : a = s.evidence
    BY <1>9 DEF Percents
  <2>2. PICK b \in 0 .. 100 : b = t.evidence
    BY <1>9 DEF Percents
  <2>3. PICK m \in 0 .. 100 : m = s.pain
    BY <1>9 DEF Percents
  <2>4. PICK n \in 0 .. 100 : n = t.pain
    BY <1>9 DEF Percents
  <2>5. a <= b /\ m <= n /\ a >= 90 /\ m >= 85
    BY <1>10, <1>13, <2>1, <2>2, <2>3, <2>4
  <2>6. b >= 90 /\ n >= 85
    BY <2>5
  <2>7. QED
    BY <2>2, <2>4, <2>6
<1>15. calculate_oci(t) >= 90
  <2>1. PICK p \in 0 .. 100 : p = calculate_oci(s)
    BY <1>12
  <2>2. PICK q \in 0 .. 100 : q = calculate_oci(t)
    BY <1>12
  <2>3. p <= q /\ p >= 90
    BY <1>11, <1>13, <2>1, <2>2
  <2>4. q >= 90
    BY <2>3
  <2>5. QED
    BY <2>2, <2>4
<1>16. AverageTrust(g) >= 10 * MIN_PRODUCTION_AUTHORITY_SCORE
  BY <1>1, AverageTrustType DEF MIN_PRODUCTION_AUTHORITY_SCORE
<1>17. QED
  BY <1>5, <1>6, <1>8, <1>14, <1>15, <1>16 DEF RequirementsMet
---------------------------------------------------------------------------
(* A phrase a text admits against itself.                                  *)

LEMMA SelfServingRefused ==
    ASSUME NEW t, NEW p \in SelfServing, NEW u, u = t \cup {p}, Eligible(u)
    PROVE  Eligible(t)
<1>1. p \in {"procurement", "guide", "top 10", "pricing", "market size", "reddit", "research"}
  BY DEF SelfServing, GS001_CONTEXT_ONLY_PATTERNS, GS001_ADVICE_PAGE_PATTERNS,
         MARKETING_CONTENT_PATTERNS, VENDOR_LANGUAGE_MARKERS
<1>2. /\ Classification(u) \in PRODUCTION_ELIGIBLE_CLASSIFICATIONS
      /\ ~ KeptOut(u)
      /\ StrongComplaint(u)
  BY ProductionClass DEF Eligible
<1>3. /\ "top 10" \notin u /\ "procurement" \notin u /\ "guide" \notin u /\ "market size" \notin u
      /\ ~ VendorDetected(u)
      /\ detect_source_type(u) # "vendor" /\ detect_source_type(u) # "social_media"
      /\ detect_source_type(u) # "research"
      /\ ~ (detect_source_type(u) = "news" /\ ~ StrongComplaint(u))
  BY <1>2 DEF KeptOut
<1>4. p \in {"pricing", "reddit", "research"}
  BY <1>1, <1>3
<1>5. \A q : q \notin {"pricing", "reddit", "research"} => (q \in u <=> q \in t)
  BY <1>4
<1>6. \A q : q \in t => q \in u
  OBVIOUS
<1>7. detect_source_type(u) = FirstSource(u) /\ detect_source_type(t) = FirstSource(t)
  <2>1. "guide" \notin t
    BY <1>3, <1>6
  <2>2. QED
    BY <1>3, <2>1, SourceType
<1>8. /\ "court" \in u <=> "court" \in t
      /\ "ombudsman" \in u <=> "ombudsman" \in t
      /\ "consumer affairs" \in u <=> "consumer affairs" \in t
      /\ "forum" \in u <=> "forum" \in t
      /\ "news" \in u <=> "news" \in t
  BY <1>5
<1>9. VendorDetected(u) <=> ("pricing" \in u /\ ~ ("court" \in u \/ "ombudsman" \in u
                                                   \/ "consumer affairs" \in u))
  BY DEF VendorDetected, Has, VENDOR_LANGUAGE_MARKERS, TRUSTED_NON_VENDOR_MARKERS
<1>10. VendorDetected(t) <=> ("pricing" \in t /\ ~ ("court" \in t \/ "ombudsman" \in t
                                                    \/ "consumer affairs" \in t))
  BY DEF VendorDetected, Has, VENDOR_LANGUAGE_MARKERS, TRUSTED_NON_VENDOR_MARKERS
<1>11. ~ VendorDetected(t)
  BY <1>3, <1>6, <1>8, <1>9, <1>10
<1>12. FirstSource(t) = FirstSource(u)
  <2>1. CASE p = "pricing"
    <3>1. "court" \in t \/ "ombudsman" \in t \/ "consumer affairs" \in t
      BY <1>3, <1>8, <1>9, <2>1
    <3>2. QED
      BY <1>8, <3>1 DEF FirstSource
  <2>2. CASE p = "reddit"
    <3>1. "court" \in t \/ "ombudsman" \in t \/ "consumer affairs" \in t
      BY <1>3, <1>7, <1>8, <2>2 DEF FirstSource
    <3>2. QED
      BY <1>8, <3>1 DEF FirstSource
  <2>3. CASE p = "research"
    <3>1. "reddit" \in u <=> "reddit" \in t
      BY <2>3
    <3>2. "court" \in t \/ "ombudsman" \in t \/ "consumer affairs" \in t \/ "reddit" \in t \/ "forum" \in t
      BY <1>3, <1>7, <1>8, <2>3, <3>1 DEF FirstSource
    <3>3. QED
      BY <1>8, <3>1, <3>2 DEF FirstSource
  <2>4. QED
    BY <1>4, <2>1, <2>2, <2>3
<1>13. detect_source_type(t) = detect_source_type(u)
  BY <1>7, <1>12
<1>14. /\ Has(u, PAIN_KEYWORDS) <=> Has(t, PAIN_KEYWORDS)
       /\ Has(u, PROPERTY_MAINTENANCE_CONTEXT_KEYWORDS) <=> Has(t, PROPERTY_MAINTENANCE_CONTEXT_KEYWORDS)
       /\ Has(u, GS001_REQUIRED_MAINTENANCE_CONTEXT_KEYWORDS)
             <=> Has(t, GS001_REQUIRED_MAINTENANCE_CONTEXT_KEYWORDS)
  <2>1. \A q \in {"complaint", "delayed", "tenant", "maintenance", "work order"} : q \in u <=> q \in t
    BY <1>5
  <2>2. QED
    BY <2>1 DEF Has, PAIN_KEYWORDS, PROPERTY_MAINTENANCE_CONTEXT_KEYWORDS,
                GS001_REQUIRED_MAINTENANCE_CONTEXT_KEYWORDS
<1>15. StrongComplaint(t)
  BY <1>2, <1>14 DEF StrongComplaint
<1>16. ~ KeptOut(t)
  BY <1>3, <1>6, <1>11, <1>13, <1>15 DEF KeptOut
<1>17. "complaint" \in t \/ "delayed" \in t
  BY <1>15 DEF StrongComplaint, Has, PAIN_KEYWORDS
<1>18. Classification(t) \in PRODUCTION_ELIGIBLE_CLASSIFICATIONS
  BY <1>16, <1>17, ProductionClass
<1>19. TrustScore(t) = TrustScore(u)
  <2>1. source_trust_score(t) = source_trust_score(u)
    BY <1>8, <1>13 DEF source_trust_score
  <2>2. /\ Classification(t) # "marketing_content" /\ Classification(t) # "vendor_content"
        /\ Classification(u) # "marketing_content" /\ Classification(u) # "vendor_content"
    BY <1>2, <1>18 DEF PRODUCTION_ELIGIBLE_CLASSIFICATIONS
  <2>3. QED
    BY <2>1, <2>2 DEF TrustScore
<1>20. operational_relevance_score(t) = operational_relevance_score(u)
  <2>1. Has(u, GS001_OPERATIONAL_RELEVANCE_KEYWORDS) <=> Has(t, GS001_OPERATIONAL_RELEVANCE_KEYWORDS)
    BY <1>5 DEF Has, GS001_OPERATIONAL_RELEVANCE_KEYWORDS
  <2>2. {"maintenance", "communication"} \subseteq u <=> {"maintenance", "communication"} \subseteq t
    BY <1>5
  <2>3. /\ Has(u, GS001_CONTEXT_ONLY_PATTERNS) <=> Has(t, GS001_CONTEXT_ONLY_PATTERNS)
        /\ Has(u, GS001_ADVICE_PAGE_PATTERNS) <=> Has(t, GS001_ADVICE_PAGE_PATTERNS)
    BY <1>5 DEF Has, GS001_CONTEXT_ONLY_PATTERNS, GS001_ADVICE_PAGE_PATTERNS
  <2>4. "tenant" \in u <=> "tenant" \in t
    BY <1>5
  <2>5. QED
    BY <1>14, <2>1, <2>2, <2>3, <2>4 DEF operational_relevance_score
<1>21. ~ Has(t, GS001_CONTEXT_ONLY_PATTERNS) /\ ~ Has(t, GS001_ADVICE_PAGE_PATTERNS)
  BY <1>3, <1>6 DEF Has, GS001_CONTEXT_ONLY_PATTERNS, GS001_ADVICE_PAGE_PATTERNS
<1>22. QED
  BY <1>14, <1>15, <1>18, <1>19, <1>20, <1>21 DEF Eligible
---------------------------------------------------------------------------
(* The specification.                                                      *)

LEMMA InitInv == Init => Inv
<1> SUFFICES ASSUME Init PROVE Inv
  OBVIOUS
<1>1. <<>> \in Seq(Signal)
  BY EmptySeq
<1>2. QED
  BY <1>1 DEF Init, Inv

LEMMA CollectInv ==
    ASSUME Inv, NEW n \in Sizes, NEW strength \in Strengths, Collect(n, strength)
    PROVE  Inv'
<1>1. PICK t : t = TrustScore(text)
  OBVIOUS
<1>2. t \in 0 .. 100 /\ t >= 70
  BY <1>1, TrustScoreType DEF Collect, Eligible, MIN_PRODUCTION_AUTHORITY_SCORE
<1>3. t \in 70 .. 100
  BY <1>2
<1>4. n \in Nat /\ strength \in 35 .. 100
  BY SignalsAssumption
<1>5. \A i \in 1 .. n : [domain |-> i, event |-> i, organisation |-> i,
                         country |-> i % 3, stakeholder |-> i % 2,
                         trust |-> t, strength |-> strength] \in Signal
  <2>1. \A i \in 1 .. n : i \in Nat /\ i % 3 \in Nat /\ i % 2 \in Nat
    BY <1>4
  <2>2. QED
    BY <1>3, <1>4, <2>1 DEF Signal, MIN_PRODUCTION_AUTHORITY_SCORE
<1>6. PICK e : e = [i \in 1 .. n |-> [domain |-> i, event |-> i, organisation |-> i,
                                      country |-> i % 3, stakeholder |-> i % 2,
                                      trust |-> t, strength |-> strength]]
  OBVIOUS
<1>7. e \in [1 .. n -> Signal]
  BY <1>5, <1>6
<1>8. e \in Seq(Signal)
  BY <1>4, <1>7, SeqDef
<1>9. evidence' = e
  BY <1>1, <1>6 DEF Collect
<1>10. QED
  BY <1>8, <1>9 DEF Inv, Collect

\* The one more signal of Corroborate.
LEMMA CorroborateSignal ==
    ASSUME Inv, NEW domain \in {1, Len(evidence) + 1}, NEW event \in {1, Len(evidence) + 1},
           NEW country \in {0, 3}, NEW stakeholder \in {0, 2},
           NEW trust \in Trusts, NEW strength \in Strengths
    PROVE  [domain |-> domain, event |-> event, organisation |-> domain, country |-> country,
            stakeholder |-> stakeholder, trust |-> trust, strength |-> strength] \in Signal
<1>1. Len(evidence) \in Nat
  BY LenProperties DEF Inv
<1>2. domain \in Nat /\ event \in Nat /\ country \in Nat /\ stakeholder \in Nat
  BY <1>1
<1>3. trust \in MIN_PRODUCTION_AUTHORITY_SCORE .. 100 /\ strength \in 35 .. 100
  BY SignalsAssumption
<1>4. QED
  BY <1>2, <1>3 DEF Signal

LEMMA CorroborateGrows ==
    ASSUME Inv, NEW domain \in {1, Len(evidence) + 1}, NEW event \in {1, Len(evidence) + 1},
           NEW country \in {0, 3}, NEW stakeholder \in {0, 2},
           NEW trust \in Trusts, NEW strength \in Strengths,
           Corroborate(domain, event, country, stakeholder, trust, strength)
    PROVE  \E x \in Signal : Grown(evidence, x, evidence')
<1>1. PICK x \in Signal :
         x = [domain |-> domain, event |-> event, organisation |-> domain, country |-> country,
              stakeholder |-> stakeholder, trust |-> trust, strength |-> strength]
  BY CorroborateSignal
<1>2. evidence' = Append(evidence, x)
  BY <1>1 DEF Corroborate
<1>3. evidence \in Seq(Signal)
  BY DEF Inv
<1>4. Grown(evidence, x, Append(evidence, x))
  BY <1>3, AppendGrows
<1>5. PICK g : g = Append(evidence, x)
  OBVIOUS
<1>6. Grown(evidence, x, g) /\ evidence' = g
  BY <1>2, <1>4, <1>5
<1>7. Grown(evidence, x, evidence')
  BY <1>6
<1>8. QED
  BY <1>7

LEMMA NextInv == Inv /\ [Next]_vars => Inv'
<1> SUFFICES ASSUME Inv, [Next]_vars
             PROVE  Inv'
  OBVIOUS
<1>1. ASSUME NEW phrase \in Phrases, Read(phrase)
      PROVE  Inv'
  BY <1>1, PhrasesAssumption DEF Inv, Read
<1>2. ASSUME NEW n \in Sizes, NEW strength \in Strengths, Collect(n, strength)
      PROVE  Inv'
  BY <1>2, CollectInv
<1>3. ASSUME NEW domain \in {1, Len(evidence) + 1}, NEW event \in {1, Len(evidence) + 1},
             NEW country \in {0, 3}, NEW stakeholder \in {0, 2},
             NEW trust \in Trusts, NEW strength \in Strengths,
             Corroborate(domain, event, country, stakeholder, trust, strength)
      PROVE  Inv'
  <2>1. evidence' \in Seq(Signal)
    BY <1>3, CorroborateGrows DEF Grown
  <2>2. text' = text /\ category' = category /\ added' = added + 1
    BY <1>3 DEF Corroborate
  <2>3. QED
    BY <2>1, <2>2 DEF Inv
<1>4. CASE UNCHANGED vars
  BY <1>4 DEF vars, Inv
<1>5. QED
  BY <1>1, <1>2, <1>3, <1>4 DEF Next

LEMMA Invariance == Spec => []Inv
BY InitInv, NextInv, PTL DEF Spec

\* What golden_study.py computes from any text and any evidence stays on its
\* scale: relevance, trust, the scores of an audit and its confidence are
\* percentages, and audit_finding never rejects, because the confidence it
\* would reject for already fails a requirement.
THEOREM TypeCorrect == Spec => []TypeOK
<1>1. ASSUME Inv
      PROVE  TypeOK
  <2>1. text \subseteq Phrase
    BY <1>1 DEF Inv
  <2>2. operational_relevance_score(text) \in 0 .. 100
    BY RelevanceType
  <2>3. TrustScore(text) \in 0 .. 100
    BY TrustScoreType
  <2>4. evidence_tier_label(text) \in {"A", "B", "C", "D"}
    BY DEF evidence_tier_label
  <2>5. ASSUME evidence # <<>>
        PROVE  /\ \A s \in DOMAIN Scores(evidence, category) : Scores(evidence, category)[s] \in 0 .. 100
               /\ calculate_oci(Scores(evidence, category)) \in 0 .. 100
               /\ Decision(evidence, category) \in {"Approve Opportunity", "Needs More Evidence"}
    <3>1. PICK e \in Seq(Signal) : e = evidence
      BY <1>1 DEF Inv
    <3>2. PICK s : s = Scores(e, category)
      OBVIOUS
    <3>3. Percents(s)
      BY <2>5, <3>1, <3>2, ScoresType
    <3>4. DOMAIN s = {"evidence", "frequency", "market", "pain"}
      BY <3>2, ScoresOf
    <3>5. \A f \in DOMAIN s : s[f] \in 0 .. 100
      BY <3>3, <3>4 DEF Percents
    <3>6. /\ calculate_oci(Scores(e, category)) \in 0 .. 100
          /\ Decision(e, category) \in {"Approve Opportunity", "Needs More Evidence"}
      BY <2>5, <3>1, MetOf
    <3>7. QED
      BY <3>1, <3>2, <3>5, <3>6
  <2>6. QED
    BY <2>1, <2>2, <2>3, <2>4, <2>5 DEF TypeOK
<1>2. QED
  BY <1>1, Invariance, PTL

\* audit_finding and missing_evidence_warnings agree on any evidence: what is
\* not approved has a warning, what has none is approved, and what is approved
\* would have passed cluster_finding_status.
THEOREM RefusalsExplained == Spec => []RefusalExplained
<1>1. ASSUME Inv
      PROVE  RefusalExplained
  <2>1. SUFFICES ASSUME evidence # <<>>
                 PROVE  /\ Decision(evidence, category) = "Approve Opportunity"
                              <=> Warnings(evidence, category) = {}
                        /\ Decision(evidence, category) = "Approve Opportunity"
                              => Sufficient(evidence)
    BY DEF RefusalExplained
  <2>2. evidence \in Seq(Signal)
    BY <1>1 DEF Inv
  <2>3. QED
    BY <2>1, <2>2, RefusalIsExplained
<1>2. QED
  BY <1>1, Invariance, PTL

\* No phrase of promotion, market talk, advice, a community page or research,
\* added to a text of any length, makes gs001_evidence_profile accept a text
\* it refused without it.
THEOREM NothingLaundered == Spec => NoLaundering
<1>1. ASSUME NEW phrase \in SelfServing, text' = text \cup {phrase}, Eligible(text')
      PROVE  Eligible(text)
  <2>1. PICK t : t = text
    OBVIOUS
  <2>2. PICK u : u = text'
    OBVIOUS
  <2>3. u = t \cup {phrase} /\ Eligible(u)
    BY <1>1, <2>1, <2>2
  <2>4. Eligible(t)
    BY <2>3, SelfServingRefused
  <2>5. QED
    BY <2>1, <2>4
<1>2. [\A phrase \in SelfServing :
          (text' = text \cup {phrase} /\ Eligible(text')) => Eligible(text)]_vars
  BY <1>1
<1>3. QED
  BY <1>2, PTL DEF Spec, NoLaundering

\* One more signal, of any source and event, at least as trusted and as strong
\* as the average of those a finding has, costs it neither the "sufficient" of
\* cluster_finding_status nor the approval of audit_finding: no average, count
\* or score they read falls, however the averages are rounded.
THEOREM MoreEvidenceHelps == Spec => CorroborationHelps
<1>1. ASSUME Inv, [Next]_vars, added' = added + 1, AtLeastAverage(evidence'[Len(evidence')])
      PROVE  /\ Sufficient(evidence) => Sufficient(evidence')
             /\ Decision(evidence, category) = "Approve Opportunity"
                   => Decision(evidence', category) = "Approve Opportunity"
  <2>1. added' # added
    BY <1>1 DEF Inv
  <2>2. evidence # <<>> /\ \E x \in Signal : Grown(evidence, x, evidence')
    <3>1. \E domain, event \in {1, Len(evidence) + 1}, country \in {0, 3}, stakeholder \in {0, 2},
             trust \in Trusts, strength \in Strengths :
             Corroborate(domain, event, country, stakeholder, trust, strength)
      BY <1>1, <2>1 DEF Next, vars, Read, Collect
    <3>2. QED
      BY <1>1, <3>1, CorroborateGrows DEF Corroborate
  <2>3. PICK x \in Signal : Grown(evidence, x, evidence')
    BY <2>2
  <2>4. PICK e : e = evidence
    OBVIOUS
  <2>5. PICK g : g = evidence'
    OBVIOUS
  <2>6. e \in Seq(Signal) /\ e # <<>> /\ Grown(e, x, g)
    BY <1>1, <2>2, <2>3, <2>4, <2>5 DEF Inv
  <2>7. Len(e) \in Nat /\ g \in Seq(Signal) /\ g # <<>> /\ g[Len(g)] = x
    BY <2>6, NotEmpty DEF Grown
  <2>8. x.trust * Len(e) >= TotalTrust(e) /\ x.strength * Len(e) >= TotalStrength(e)
    BY <1>1, <2>4, <2>5, <2>7 DEF AtLeastAverage
  <2>9. Sufficient(e) => Sufficient(g)
    BY <2>6, SufficientGrows
  <2>10. PICK c : c = category
    OBVIOUS
  <2>11. RequirementsMet(e, c) => RequirementsMet(g, c)
    BY <2>6, <2>8, RequirementsGrow
  <2>12. /\ Decision(e, c) = "Approve Opportunity" <=> RequirementsMet(e, c)
         /\ Decision(g, c) = "Approve Opportunity" <=> RequirementsMet(g, c)
    BY <2>6, <2>7, MetOf
  <2>13. QED
    BY <2>4, <2>5, <2>9, <2>10, <2>11, <2>12
<1>2. ASSUME Inv, [Next]_vars
      PROVE  [added' = added + 1 /\ AtLeastAverage(evidence'[Len(evidence')]) =>
                 /\ Sufficient(evidence) => Sufficient(evidence')
                 /\ Decision(evidence, category) = "Approve Opportunity"
                       => Decision(evidence', category) = "Approve Opportunity"]_vars
  BY <1>1, <1>2
<1>3. QED
  BY <1>2, Invariance, PTL DEF Spec, CorroborationHelps
=============================================================================
