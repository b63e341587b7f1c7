---------------------------- MODULE RatingProofs ----------------------------
(***************************************************************************)
(* Lemmas about the operators the reports are built from, for every answer *)
(* of the outside: the helpers of Evidence (tables, bounds, sums), the     *)
(* confidence of an address, the guesses of the deployment, the matches    *)
(* of the tunnels, their calibration, the conflict rules and the           *)
(* alignment.  PipelineProofs carries them along the stages.               *)
(***************************************************************************)
EXTENDS ResultSummary, Optimizer, Stealth, Probes, LiveTest,
        WellFoundedInduction, FiniteSetTheorems, TLAPS

--------------------------------------------------------------------------------
(* Bounds and decision tables. *)

\* A nonempty set of integers with an upper bound has a greatest element.
LEMMA BoundedMax ==
  ASSUME NEW S \in SUBSET Int, S # {}, NEW hi \in Int, \A x \in S : x <= hi
  PROVE  Max(S) \in S /\ \A x \in S : x <= Max(S)
<1> DEFINE T == {hi - x : x \in S}
<1>1. T \subseteq Nat /\ T # {}
  <2>1. \A x \in S : hi - x \in Nat
    OBVIOUS
  <2>2. PICK x \in S : TRUE
    OBVIOUS
  <2>3. hi - x \in T
    BY <2>2
  <2> QED BY <2>1, <2>3, Zenon
<1>2. PICK d \in T : \A y \in T : ~(<<y, d>> \in OpToRel(<, Nat))
  BY <1>1, NatLessThanWellFounded, WFMin
<1>3. PICK m \in S : d = hi - m
  BY <1>2
<1>4. \A x \in S : x <= m
  <2> SUFFICES ASSUME NEW x \in S, ~(x <= m) PROVE FALSE
    OBVIOUS
  <2>1. hi - x \in T /\ hi - x \in Nat /\ hi - x < d /\ d \in Nat
    BY <1>1, <1>3
  <2>2. <<hi - x, d>> \in OpToRel(<, Nat)
    BY <2>1 DEF OpToRel
  <2> QED BY <1>2, <2>1, <2>2
<1> QED BY <1>4 DEF Max

\* A nonempty set of integers with a lower bound has a least element.
LEMMA BoundedMin ==
  ASSUME NEW S \in SUBSET Int, S # {}, NEW lo \in Int, \A x \in S : lo <= x
  PROVE  Min(S) \in S /\ \A x \in S : Min(S) <= x
<1> DEFINE T == {x - lo : x \in S}
<1>1. T \subseteq Nat /\ T # {}
  <2>1. \A x \in S : x - lo \in Nat
    OBVIOUS
  <2>2. PICK x \in S : TRUE
    OBVIOUS
  <2>3. x - lo \in T
    BY <2>2
  <2> QED BY <2>1, <2>3, Zenon
<1>2. PICK d \in T : \A y \in T : ~(<<y, d>> \in OpToRel(<, Nat))
  BY <1>1, NatLessThanWellFounded, WFMin
<1>3. PICK m \in S : d = m - lo
  BY <1>2
<1>4. \A x \in S : m <= x
  <2> SUFFICES ASSUME NEW x \in S, ~(m <= x) PROVE FALSE
    OBVIOUS
  <2>1. x - lo \in T /\ x - lo \in Nat /\ x - lo < d /\ d \in Nat
    BY <1>1, <1>3
  <2>2. <<x - lo, d>> \in OpToRel(<, Nat)
    BY <2>1 DEF OpToRel
  <2> QED BY <1>2, <2>1, <2>2
<1> QED BY <1>4 DEF Min

\* The same for a set of integers between two bounds.
Within(S, lo, hi) == S # {} /\ \A x \in S : x \in Int /\ lo <= x /\ x <= hi

\* The greatest and the least of a set between two bounds are in the set and between them.
LEMMA MaxMinWithin ==
  ASSUME NEW S, NEW lo \in Int, NEW hi \in Int, Within(S, lo, hi)
  PROVE  /\ Max(S) \in S /\ Max(S) \in lo..hi /\ \A x \in S : x <= Max(S)
         /\ Min(S) \in S /\ Min(S) \in lo..hi /\ \A x \in S : Min(S) <= x
<1> USE DEF Within
<1>1. S \in SUBSET Int
  OBVIOUS
<1>2. Max(S) \in S /\ \A x \in S : x <= Max(S)
  BY <1>1, BoundedMax
<1>3. Min(S) \in S /\ \A x \in S : Min(S) <= x
  BY <1>1, BoundedMin
<1> QED BY <1>2, <1>3

\* The greater of two integers.
LEMMA PairMax ==
  ASSUME NEW x \in Int, NEW y \in Int
  PROVE  Max({x, y}) = IF x <= y THEN y ELSE x
BY DEF Max

\* The smaller of two integers.
LEMMA PairMin ==
  ASSUME NEW x \in Int, NEW y \in Int
  PROVE  Min({x, y}) = IF x <= y THEN x ELSE y
BY DEF Min

\* The first row of a decision table whose condition holds decides.
LEMMA FirstRowDecides ==
  ASSUME NEW rows, DOMAIN rows \subseteq Nat, NEW default
  PROVE  \/ FirstOf(rows, default) = default /\ \A i \in DOMAIN rows : ~rows[i][1]
         \/ \E i \in DOMAIN rows : /\ rows[i][1]
                                   /\ FirstOf(rows, default) = rows[i][2]
                                   /\ \A j \in DOMAIN rows : j < i => ~rows[j][1]
<1> DEFINE hits == {i \in DOMAIN rows : rows[i][1]}
<1>1. CASE hits = {}
  BY <1>1 DEF FirstOf
<1>2. CASE hits # {}
  <2>1. hits \in SUBSET Int /\ \A x \in hits : 0 <= x
    OBVIOUS
  <2>2. Min(hits) \in hits /\ \A x \in hits : Min(hits) <= x
    <3> HIDE DEF hits
    <3> QED BY <1>2, <2>1, BoundedMin
  <2>3. FirstOf(rows, default) = rows[Min(hits)][2]
    BY <1>2 DEF FirstOf
  <2>4. \A j \in hits : ~(j < Min(hits))
    <3> HIDE DEF hits
    <3>1. Min(hits) \in Int /\ \A j \in hits : j \in Int /\ Min(hits) <= j
      BY <2>1, <2>2
    <3> QED BY <3>1
  <2> QED BY <2>2, <2>3, <2>4
<1> QED BY <1>1, <1>2

\* A decision table of one row.
LEMMA FirstOfOne ==
  ASSUME NEW a, NEW x, NEW d
  PROVE  FirstOf(<< <<a, x>> >>, d) = IF a THEN x ELSE d
BY FirstRowDecides

\* A decision table of two rows.
LEMMA FirstOfTwo ==
  ASSUME NEW a, NEW x, NEW b, NEW y, NEW d
  PROVE  FirstOf(<< <<a, x>>, <<b, y>> >>, d) = IF a THEN x ELSE IF b THEN y ELSE d
BY FirstRowDecides

\* A decision table of three rows.
LEMMA FirstOfThree ==
  ASSUME NEW a, NEW x, NEW b, NEW y, NEW c, NEW z, NEW d
  PROVE  FirstOf(<< <<a, x>>, <<b, y>>, <<c, z>> >>, d) = IF a THEN x ELSE IF b THEN y ELSE IF c THEN z ELSE d
BY FirstRowDecides

\* A decision table of four rows.
LEMMA FirstOfFour ==
  ASSUME NEW a, NEW x, NEW b, NEW y, NEW c, NEW z, NEW e, NEW u, NEW d
  PROVE  FirstOf(<< <<a, x>>, <<b, y>>, <<c, z>>, <<e, u>> >>, d)
           = IF a THEN x ELSE IF b THEN y ELSE IF c THEN z ELSE IF e THEN u ELSE d
BY FirstRowDecides

\* A decision table of six rows.
LEMMA FirstOfSix ==
  ASSUME NEW a, NEW x, NEW b, NEW y, NEW c, NEW z, NEW e, NEW u, NEW f, NEW v, NEW g, NEW w, NEW d
  PROVE  FirstOf(<< <<a, x>>, <<b, y>>, <<c, z>>, <<e, u>>, <<f, v>>, <<g, w>> >>, d)
           = IF a THEN x ELSE IF b THEN y ELSE IF c THEN z ELSE IF e THEN u ELSE IF f THEN v ELSE IF g THEN w ELSE d
BY FirstRowDecides

--------------------------------------------------------------------------------
(* Finite sets. *)

\* The image of a finite set is finite.
LEMMA RangeIsFinite ==
  ASSUME NEW S, IsFiniteSet(S), NEW f, DOMAIN f = S
  PROVE  IsFiniteSet({f[x] : x \in S})
<1> DEFINE T == {f[x] : x \in S}
<1>1. [x \in S |-> f[x]] \in Surjection(S, T)
  BY DEF Surjection
<1> QED BY <1>1, FS_Surjection

\* A finite set with two different elements has at least two.
LEMMA TwoElements ==
  ASSUME NEW S, IsFiniteSet(S), NEW x \in S, NEW y \in S, x # y
  PROVE  Cardinality(S) >= 2
<1>1. IsFiniteSet({x}) /\ Cardinality({x}) = 1 /\ y \notin {x}
  BY FS_Singleton
<1>a. Cardinality({x} \cup {y}) = 1 + 1
  BY <1>1, FS_AddElement, Zenon
<1>2. {x} \cup {y} \in SUBSET S
  OBVIOUS
<1> QED BY <1>a, <1>2, FS_Subset, FS_CardinalityType

\* A set whose elements are all equal has at most one.
LEMMA AtMostOne ==
  ASSUME NEW S, \A x, y \in S : x = y
  PROVE  Cardinality(S) <= 1
<1>1. CASE S = {}
  BY <1>1, FS_EmptySet
<1>2. CASE S # {}
  <2>1. PICK x \in S : S = {x}
    BY <1>2
  <2> QED BY <2>1, FS_Singleton
<1> QED BY <1>1, <1>2

\* What two rows select, exactly.
LEMMA SelectedTwo ==
  ASSUME NEW a, NEW x, NEW b, NEW y
  PROVE  Selected(<< <<a, x>>, <<b, y>> >>) = (IF a THEN {x} ELSE {}) \cup (IF b THEN {y} ELSE {})
BY DEF Selected

\* What three rows select is among their values.
LEMMA SelectedThree ==
  ASSUME NEW a, NEW x, NEW b, NEW y, NEW c, NEW z
  PROVE  Selected(<< <<a, x>>, <<b, y>>, <<c, z>> >>) \subseteq {x, y, z}
BY DEF Selected

--------------------------------------------------------------------------------
(* Sums over finite sets. *)

\* Induction over the naturals, for a set in place of a predicate: the least number
\* outside the set would be the successor of one in it.
LEMMA NatSetInduction ==
  ASSUME NEW T, 0 \in T, \A n \in Nat : n \in T => n + 1 \in T
  PROVE  \A n \in Nat : n \in T
<1> DEFINE B == {n \in Nat : n \notin T}
<1> SUFFICES ASSUME B # {} PROVE FALSE
  OBVIOUS
<1>1. PICK b \in B : \A y \in B : ~(<<y, b>> \in OpToRel(<, Nat))
  BY NatLessThanWellFounded, WFMin
<1>2. b \in Nat /\ b # 0 /\ b \notin T
  OBVIOUS
<1>3. b - 1 \in Nat /\ b - 1 < b /\ (b - 1) + 1 = b
  BY <1>2
<1>4. <<b - 1, b>> \in OpToRel(<, Nat)
  BY <1>2, <1>3 DEF OpToRel
<1>5. b - 1 \in T
  BY <1>1, <1>3, <1>4
<1> QED BY <1>2, <1>3, <1>5

\* The element the fold takes out first.
Pick(s) == CHOOSE x \in s : TRUE

\* A table of the partial sums of v over the subsets of S, taking out one chosen
\* element after the other: what SumFunctionOnSet unfolds to.
IsSum(it, v, S) ==
  /\ it = [s \in SUBSET S |-> it[s]]
  /\ it[{}] = 0
  /\ \A s \in SUBSET S : s # {} => it[s] = v[Pick(s)] + it[s \ {Pick(s)}]

\* It is an element.
LEMMA PickIsIn == ASSUME NEW s, s # {} PROVE Pick(s) \in s
BY DEF Pick

\* Taking an element out of a subset of a finite set leaves one less.
LEMMA SmallerByOne ==
  ASSUME NEW S, IsFiniteSet(S), NEW s \in SUBSET S, NEW x \in s
  PROVE  /\ s \ {x} \in SUBSET S
         /\ Cardinality(s) \in Nat /\ Cardinality(s \ {x}) \in Nat /\ Cardinality(s) = Cardinality(s \ {x}) + 1
<1>1. IsFiniteSet(s)
  BY FS_Subset
<1>2. IsFiniteSet(s \ {x}) /\ Cardinality(s \ {x}) = Cardinality(s) - 1
  BY <1>1, FS_RemoveElement
<1>3. Cardinality(s) \in Nat /\ Cardinality(s \ {x}) \in Nat
  BY <1>1, <1>2, FS_CardinalityType
<1> QED BY <1>2, <1>3

\* A subset without elements is empty.
LEMMA EmptyHasNone ==
  ASSUME NEW S, IsFiniteSet(S), NEW s \in SUBSET S, Cardinality(s) <= 0
  PROVE  s = {}
<1>1. IsFiniteSet(s)
  BY FS_Subset
<1>2. Cardinality(s) = 0
  BY <1>1, FS_CardinalityType
<1> QED BY <1>1, <1>2, FS_EmptySet

\* The sum over a finite set exists: built up by the number of elements.
LEMMA SumExists ==
  ASSUME NEW S, IsFiniteSet(S), NEW v
  PROVE  \E it : IsSum(it, v, S)
<1> DEFINE UpTo(g, n) == /\ g = [s \in SUBSET S |-> g[s]]
                         /\ g[{}] = 0
                         /\ \A s \in SUBSET S : s # {} /\ Cardinality(s) <= n => g[s] = v[Pick(s)] + g[s \ {Pick(s)}]
           T == {n \in Nat : \E g : UpTo(g, n)}
<1>1. 0 \in T
  <2> DEFINE g == [s \in SUBSET S |-> 0]
  <2>1. UpTo(g, 0)
    BY EmptyHasNone
  <2> QED BY <2>1
<1>2. ASSUME NEW n \in Nat, n \in T PROVE n + 1 \in T
  <2>1. PICK g : UpTo(g, n)
    BY <1>2
  <2> DEFINE h == [s \in SUBSET S |-> IF Cardinality(s) <= n THEN g[s] ELSE v[Pick(s)] + g[s \ {Pick(s)}]]
  <2>2. h = [s \in SUBSET S |-> h[s]]
    OBVIOUS
  <2>3. h[{}] = 0
    <3>1. Cardinality({}) <= n /\ {} \in SUBSET S
      BY FS_EmptySet
    <3> QED BY <2>1, <3>1
  <2>4. ASSUME NEW s \in SUBSET S, s # {}, Cardinality(s) <= n + 1
        PROVE  h[s] = v[Pick(s)] + h[s \ {Pick(s)}]
    <3>1. Pick(s) \in s
      BY <2>4, PickIsIn
    <3>2. /\ s \ {Pick(s)} \in SUBSET S
          /\ Cardinality(s) \in Nat /\ Cardinality(s \ {Pick(s)}) \in Nat
          /\ Cardinality(s) = Cardinality(s \ {Pick(s)}) + 1
      BY <3>1, SmallerByOne
    <3>3. Cardinality(s \ {Pick(s)}) <= n
      BY <2>4, <3>2
    <3>4. h[s \ {Pick(s)}] = g[s \ {Pick(s)}]
      BY <3>2, <3>3
    <3>5. CASE Cardinality(s) <= n
      <4>1. g[s] = v[Pick(s)] + g[s \ {Pick(s)}]
        BY <2>1, <2>4, <3>5
      <4> QED BY <3>4, <3>5, <4>1
    <3>6. CASE ~(Cardinality(s) <= n)
      BY <3>4, <3>6
    <3> QED BY <3>5, <3>6
  <2> HIDE DEF h
  <2>5. UpTo(h, n + 1)
    BY <2>2, <2>3, <2>4
  <2> HIDE DEF UpTo
  <2>6. \E k : UpTo(k, n + 1)
    BY <2>5
  <2> QED BY <2>6
<1>3. \A n \in Nat : n \in T
  <2> HIDE DEF T
  <2> QED BY <1>1, <1>2, NatSetInduction
<1>4. Cardinality(S) \in Nat
  BY FS_CardinalityType
<1>5. PICK it : UpTo(it, Cardinality(S))
  BY <1>3, <1>4
<1>6. \A s \in SUBSET S : Cardinality(s) <= Cardinality(S)
  BY FS_Subset
<1> QED BY <1>5, <1>6 DEF IsSum

\* The sum of the community modules is the entry of such a table for the whole set.
LEMMA SumOnSet ==
  ASSUME NEW S, IsFiniteSet(S), NEW v
  PROVE  \E it : IsSum(it, v, S) /\ SumFunctionOnSet(v, S) = it[S]
<1> DEFINE Body(it) == [s \in SUBSET S |-> IF s = {} THEN 0 ELSE v[Pick(s)] + it[s \ {Pick(s)}]]
           chosen == CHOOSE it : it = Body(it)
<1>1. SumFunctionOnSet(v, S) = chosen[S]
  BY DEF SumFunctionOnSet, FoldFunctionOnSet, MapThenFoldSet, Pick
<1>2. \E it : it = Body(it)
  <2>1. PICK it : IsSum(it, v, S)
    BY SumExists
  <2>2. it = [s \in SUBSET S |-> it[s]]
    BY <2>1 DEF IsSum
  <2>3. \A s \in SUBSET S : it[s] = IF s = {} THEN 0 ELSE v[Pick(s)] + it[s \ {Pick(s)}]
    BY <2>1 DEF IsSum
  <2>4. it = Body(it)
    BY <2>1, <2>3 DEF IsSum
  <2> QED BY <2>4
<1>3. chosen = Body(chosen)
  BY <1>2
<1> HIDE DEF chosen
<1>4. IsSum(chosen, v, S)
  BY <1>3 DEF IsSum
<1> QED BY <1>1, <1>4

\* Every partial sum of integers is an integer.
LEMMA SumsAreInt ==
  ASSUME NEW S, IsFiniteSet(S), NEW v, \A x \in S : v[x] \in Int, NEW it, IsSum(it, v, S)
  PROVE  \A s \in SUBSET S : it[s] \in Int
<1> DEFINE T == {n \in Nat : \A s \in SUBSET S : Cardinality(s) <= n => it[s] \in Int}
<1>1. 0 \in T
  <2>1. ASSUME NEW s \in SUBSET S, Cardinality(s) <= 0 PROVE it[s] \in Int
    <3>1. s = {}
      BY <2>1, EmptyHasNone
    <3> QED BY <3>1 DEF IsSum
  <2> QED BY <2>1
<1>2. ASSUME NEW n \in Nat, n \in T PROVE n + 1 \in T
  <2>1. ASSUME NEW s \in SUBSET S, Cardinality(s) <= n + 1 PROVE it[s] \in Int
    <3>1. CASE s = {}
      BY <3>1 DEF IsSum
    <3>2. CASE s # {}
      <4>1. Pick(s) \in s
        BY <3>2, PickIsIn
      <4>2. /\ s \ {Pick(s)} \in SUBSET S
            /\ Cardinality(s) \in Nat /\ Cardinality(s \ {Pick(s)}) \in Nat
            /\ Cardinality(s) = Cardinality(s \ {Pick(s)}) + 1
        BY <4>1, SmallerByOne
      <4>3. Cardinality(s \ {Pick(s)}) <= n
        BY <2>1, <4>2
      <4>4. it[s \ {Pick(s)}] \in Int
        BY <1>2, <4>2, <4>3
      <4>5. it[s] = v[Pick(s)] + it[s \ {Pick(s)}] /\ v[Pick(s)] \in Int
        BY <3>2, <4>1 DEF IsSum
      <4> QED BY <4>4, <4>5
    <3> QED BY <3>1, <3>2
  <2> QED BY <2>1
<1>3. \A n \in Nat : n \in T
  <2> HIDE DEF T
  <2> QED BY <1>1, <1>2, NatSetInduction
<1> SUFFICES ASSUME NEW s \in SUBSET S PROVE it[s] \in Int
  OBVIOUS
<1>4. Cardinality(s) \in Nat
  BY FS_Subset, FS_CardinalityType
<1> QED BY <1>3, <1>4

\* A sum of integers over a finite set is an integer.
LEMMA SumIsInt ==
  ASSUME NEW S, IsFiniteSet(S), NEW v, \A x \in S : v[x] \in Int
  PROVE  SumFunctionOnSet(v, S) \in Int
<1>1. PICK it : IsSum(it, v, S) /\ SumFunctionOnSet(v, S) = it[S]
  BY SumOnSet
<1> QED BY <1>1, SumsAreInt

\* The sum over nothing is zero.
LEMMA SumOfNone == ASSUME NEW v PROVE SumFunctionOnSet(v, {}) = 0
<1>1. IsFiniteSet({})
  BY FS_EmptySet
<1>2. PICK it : IsSum(it, v, {}) /\ SumFunctionOnSet(v, {}) = it[{}]
  BY <1>1, SumOnSet
<1> QED BY <1>2 DEF IsSum

\* The elements may be taken out in any order.
AnyOrder(it, v, S) == \A s \in SUBSET S : \A x \in s : it[s] = v[x] + it[s \ {x}]

\* They may, because addition commutes: by induction over the number of elements.
LEMMA SumStepAnywhere ==
  ASSUME NEW S, IsFiniteSet(S), NEW v, \A x \in S : v[x] \in Int, NEW it, IsSum(it, v, S)
  PROVE  AnyOrder(it, v, S)
<1> DEFINE T == {n \in Nat : \A s \in SUBSET S : Cardinality(s) <= n => \A x \in s : it[s] = v[x] + it[s \ {x}]}
<1>1. 0 \in T
  <2>1. ASSUME NEW s \in SUBSET S, Cardinality(s) <= 0 PROVE \A x \in s : it[s] = v[x] + it[s \ {x}]
    <3>1. s = {}
      BY <2>1, EmptyHasNone
    <3> QED BY <3>1
  <2> QED BY <2>1
<1>2. ASSUME NEW n \in Nat, n \in T PROVE n + 1 \in T
  <2>1. ASSUME NEW s \in SUBSET S, Cardinality(s) <= n + 1, NEW x \in s
        PROVE  it[s] = v[x] + it[s \ {x}]
    <3> DEFINE p == Pick(s)
    <3>1. p \in s
      BY PickIsIn
    <3>2. it[s] = v[p] + it[s \ {p}]
      BY DEF IsSum
    <3> HIDE DEF p
    <3>3. CASE x = p
      BY <3>2, <3>3
    <3>4. CASE x # p
      <4>1. /\ s \ {p} \in SUBSET S /\ x \in s \ {p}
            /\ Cardinality(s) \in Nat /\ Cardinality(s \ {p}) \in Nat
            /\ Cardinality(s) = Cardinality(s \ {p}) + 1
        BY <3>1, <3>4, SmallerByOne
      <4>2. it[s \ {p}] = v[x] + it[(s \ {p}) \ {x}]
        <5>1. Cardinality(s \ {p}) <= n
          BY <2>1, <4>1
        <5> QED BY <1>2, <4>1, <5>1
      <4>3. /\ s \ {x} \in SUBSET S /\ p \in s \ {x}
            /\ Cardinality(s) \in Nat /\ Cardinality(s \ {x}) \in Nat
            /\ Cardinality(s) = Cardinality(s \ {x}) + 1
        BY <3>1, <3>4, SmallerByOne
      <4>4. it[s \ {x}] = v[p] + it[(s \ {x}) \ {p}]
        <5>1. Cardinality(s \ {x}) <= n
          BY <2>1, <4>3
        <5> QED BY <1>2, <4>3, <5>1
      <4>5. (s \ {p}) \ {x} = (s \ {x}) \ {p} /\ (s \ {p}) \ {x} \in SUBSET S
        OBVIOUS
      <4>6. it[(s \ {p}) \ {x}] \in Int /\ v[x] \in Int /\ v[p] \in Int
        BY <3>1, <4>5, SumsAreInt
      <4> DEFINE rest == it[(s \ {p}) \ {x}]
      <4>7. it[s] = v[p] + (v[x] + rest) /\ it[s \ {x}] = v[p] + rest
        BY <3>2, <4>2, <4>4, <4>5
      <4>8. rest \in Int
        BY <4>6
      <4> HIDE DEF rest
      <4> QED BY <4>6, <4>7, <4>8
    <3> QED BY <3>3, <3>4
  <2> QED BY <2>1
<1>3. \A n \in Nat : n \in T
  <2> HIDE DEF T
  <2> QED BY <1>1, <1>2, NatSetInduction
<1> SUFFICES ASSUME NEW s \in SUBSET S, NEW x \in s PROVE it[s] = v[x] + it[s \ {x}]
  BY DEF AnyOrder
<1>4. Cardinality(s) \in Nat
  BY FS_Subset, FS_CardinalityType
<1> QED BY <1>3, <1>4

\* The tables of a set and of one of its subsets agree on that subset.
LEMMA SumsAgree ==
  ASSUME NEW S, IsFiniteSet(S), NEW v, NEW R \in SUBSET S, NEW it, IsSum(it, v, S), NEW jt, IsSum(jt, v, R)
  PROVE  \A s \in SUBSET R : it[s] = jt[s]
<1> DEFINE T == {n \in Nat : \A s \in SUBSET R : Cardinality(s) <= n => it[s] = jt[s]}
<1>0. it[{}] = 0 /\ jt[{}] = 0
  BY DEF IsSum
<1>1. 0 \in T
  <2>1. ASSUME NEW s \in SUBSET R, Cardinality(s) <= 0 PROVE it[s] = jt[s]
    <3>1. s = {}
      BY <2>1, EmptyHasNone
    <3> QED BY <1>0, <3>1
  <2> QED BY <2>1
<1>2. ASSUME NEW n \in Nat, n \in T PROVE n + 1 \in T
  <2>1. ASSUME NEW s \in SUBSET R, Cardinality(s) <= n + 1 PROVE it[s] = jt[s]
    <3>1. CASE s = {}
      BY <1>0, <3>1
    <3>2. CASE s # {}
      <4>1. Pick(s) \in s
        BY <3>2, PickIsIn
      <4>2. /\ s \ {Pick(s)} \in SUBSET R
            /\ Cardinality(s) \in Nat /\ Cardinality(s \ {Pick(s)}) \in Nat
            /\ Cardinality(s) = Cardinality(s \ {Pick(s)}) + 1
        BY <4>1, SmallerByOne
      <4>3. Cardinality(s \ {Pick(s)}) <= n
        BY <2>1, <4>2
      <4>4. it[s \ {Pick(s)}] = jt[s \ {Pick(s)}]
        BY <1>2, <4>2, <4>3
      <4>5. it[s] = v[Pick(s)] + it[s \ {Pick(s)}] /\ jt[s] = v[Pick(s)] + jt[s \ {Pick(s)}]
        BY <3>2 DEF IsSum
      <4> QED BY <4>4, <4>5
    <3> QED BY <3>1, <3>2
  <2> QED BY <2>1
<1>3. \A n \in Nat : n \in T
  <2> HIDE DEF T
  <2> QED BY <1>1, <1>2, NatSetInduction
<1> SUFFICES ASSUME NEW s \in SUBSET R PROVE it[s] = jt[s]
  OBVIOUS
<1>4. Cardinality(s) \in Nat
  BY FS_Subset, FS_CardinalityType
<1> QED BY <1>3, <1>4

\* A sum is what one element contributes and the sum over the others.
LEMMA SumRemove ==
  ASSUME NEW S, IsFiniteSet(S), NEW v, \A y \in S : v[y] \in Int, NEW x \in S
  PROVE  SumFunctionOnSet(v, S) = v[x] + SumFunctionOnSet(v, S \ {x})
<1>1. IsFiniteSet(S \ {x})
  BY FS_RemoveElement
<1>2. PICK it : IsSum(it, v, S) /\ SumFunctionOnSet(v, S) = it[S]
  BY SumOnSet
<1>3. PICK jt : IsSum(jt, v, S \ {x}) /\ SumFunctionOnSet(v, S \ {x}) = jt[S \ {x}]
  BY <1>1, SumOnSet
<1>4. it[S] = v[x] + it[S \ {x}]
  <2>1. AnyOrder(it, v, S)
    BY <1>2, SumStepAnywhere
  <2> QED BY <2>1 DEF AnyOrder
<1>5. it[S \ {x}] = jt[S \ {x}]
  BY <1>2, <1>3, SumsAgree
<1> QED BY <1>2, <1>3, <1>4, <1>5

\* A sum is at most a bound on what one element contributes, if it is there at all,
\* and the sum over the others.
LEMMA SumDrop ==
  ASSUME NEW S, IsFiniteSet(S), NEW v, \A y \in S : v[y] \in Int, NEW x, NEW w \in Nat, x \in S => v[x] <= w
  PROVE  SumFunctionOnSet(v, S) <= w + SumFunctionOnSet(v, S \ {x})
<1>1. IsFiniteSet(S \ {x})
  BY FS_RemoveElement, FS_Subset
<1>2. SumFunctionOnSet(v, S) \in Int /\ SumFunctionOnSet(v, S \ {x}) \in Int
  BY <1>1, SumIsInt
<1>3. CASE x \in S
  <2>1. SumFunctionOnSet(v, S) = v[x] + SumFunctionOnSet(v, S \ {x}) /\ v[x] \in Int
    BY <1>3, SumRemove
  <2>2. v[x] <= w
    BY <1>3
  <2> DEFINE a == SumFunctionOnSet(v, S)
             b == SumFunctionOnSet(v, S \ {x})
  <2> HIDE DEF a, b
  <2>3. a = v[x] + b /\ a \in Int /\ b \in Int
    BY <1>2, <2>1 DEF a, b
  <2>4. a <= w + b
    BY <2>1, <2>2, <2>3
  <2> QED BY <2>4 DEF a, b
<1>4. CASE x \notin S
  <2>1. S \ {x} = S
    BY <1>4
  <2> DEFINE a == SumFunctionOnSet(v, S)
  <2> HIDE DEF a
  <2>2. a \in Int
    BY <1>2 DEF a
  <2>3. a <= w + a
    BY <2>2
  <2> QED BY <2>1, <2>3 DEF a
<1> QED BY <1>3, <1>4

--------------------------------------------------------------------------------
(* Addresses on a CDN. *)

\* The fields of an address that was looked up (IpInfo of models.py).
NetFields == {"pos", "ip", "asn", "org", "cdn", "conf", "country", "datacenter", "is_datacenter", "rep"}

\* Whatever the lookups answer, an address is on a CDN with one of the
\* confidences of the table, and the addresses are numbered.
LookedUpOK(net) == \A n \in net : DOMAIN n = NetFields /\ n.conf \in 0..88 /\ n.pos \in Nat
\* An address of a CDN was rated by one of the rows of the table.
EdgesRated(net) == \A n \in CdnIn(net) : n.conf \in 35..88

\* The confidence that an address belongs to a CDN is zero or between the lowest and
\* the highest row of the table.
LEMMA CdnConfidenceRange ==
  ASSUME NEW label, NEW ip, NEW org, NEW reverse, NEW asn
  PROVE  LET conf == CdnConfidence(label, ip, org, reverse, asn)
         IN  conf \in 0..88 /\ (conf = 0 \/ conf \in 35..88)
<1> DEFINE keyword == CdnKeywords[label]
           orgHit == keyword \in {org} \cup reverse
           strict == label = "CloudFront"
           signals == (IF label = "Cloudflare" /\ ip \in CloudflareIps THEN {85} ELSE {}) \cup
                      (IF orgHit THEN {75} ELSE {}) \cup
                      (IF asn # keyword THEN {}
                       ELSE IF orgHit THEN {IF strict THEN 75 ELSE 88} ELSE {IF strict THEN 38 ELSE 42})
           raised == {0} \cup signals
           capped == {Max(raised)} \cup (IF strict /\ ~orgHit THEN {35} ELSE {})
           conf == CdnConfidence(label, ip, org, reverse, asn)
<1>1. conf = Min(capped)
  BY DEF CdnConfidence
<1>2. Within(raised, 0, 88) /\ raised \subseteq {0, 38, 42, 75, 85, 88}
  BY DEF Within
<1> HIDE DEF raised
<1>3. Max(raised) \in 0..88 /\ Max(raised) \in {0, 38, 42, 75, 85, 88}
  BY <1>2, MaxMinWithin
<1>4. Within(capped, 0, 88) /\ capped \subseteq {0, 35, 38, 42, 75, 85, 88}
  BY <1>3 DEF Within
<1> HIDE DEF capped, conf
<1>5. Min(capped) \in 0..88 /\ Min(capped) \in capped
  BY <1>4, MaxMinWithin
<1>6. conf \in 0..88 /\ (conf = 0 \/ conf \in 35..88)
  BY <1>1, <1>4, <1>5
<1> QED BY <1>6 DEF conf

\* The CDN found for an address has one of these confidences.
LEMMA DetectedConf ==
  ASSUME NEW ip, NEW org, NEW reverse, NEW asn
  PROVE  LET found == DetectCdn(ip, org, reverse, asn)
         IN  found.conf \in 0..88 /\ (found.cdn # "" => found.conf \in 35..88)
<1> DEFINE conf(i) == CdnConfidence(CdnSignatures[i], ip, org, reverse, asn)
           best == {i \in DOMAIN CdnSignatures : \A j \in DOMAIN CdnSignatures : conf(j) <= conf(i)}
           found == DetectCdn(ip, org, reverse, asn)
<1>1. \A i : conf(i) \in 0..88 /\ (conf(i) = 0 \/ conf(i) \in 35..88)
  BY CdnConfidenceRange
<1>2. found = IF conf(Min(best)) = 0 THEN [cdn |-> "", conf |-> 0]
              ELSE [cdn |-> CdnSignatures[Min(best)], conf |-> conf(Min(best))]
  BY DEF DetectCdn
<1> HIDE DEF conf, best, found
<1>3. found.conf \in 0..88 /\ (found.cdn # "" => found.conf \in 35..88)
  BY <1>1, <1>2
<1> QED BY <1>3 DEF found

\* So has every address that was looked up, whatever the services answered.
LEMMA LookupsOK ==
  ASSUME NEW ips, NEW reverse, NEW answers
  PROVE  LookedUpOK(LookupNetwork(ips, reverse, answers)) /\ EdgesRated(LookupNetwork(ips, reverse, answers))
<1> DEFINE asked == LookedUpIps(ips)
<1>1. ASSUME NEW ip, NEW pos, NEW answer
      PROVE LET n == LookupIpIntelligence(ip, pos, reverse, answer)
            IN  /\ DOMAIN n = NetFields /\ n.conf \in 0..88 /\ n.pos = pos
                /\ n.cdn # "" => n.conf \in 35..88
  <2> DEFINE found(org, asn) == DetectCdn(ip, org, reverse, asn)
             n == LookupIpIntelligence(ip, pos, reverse, answer)
  <2>1. \E org, asn : n.cdn = found(org, asn).cdn /\ n.conf = found(org, asn).conf
    BY DEF LookupIpIntelligence
  <2>2. DOMAIN n = NetFields /\ n.pos = pos
    BY DEF LookupIpIntelligence, NetFields
  <2>3. \A org, asn : found(org, asn).conf \in 0..88 /\ (found(org, asn).cdn # "" => found(org, asn).conf \in 35..88)
    BY DetectedConf
  <2> HIDE DEF found, n
  <2>4. n.conf \in 0..88 /\ (n.cdn # "" => n.conf \in 35..88)
    BY <2>1, <2>3
  <2> QED BY <2>2, <2>4 DEF n
<1>2. DOMAIN asked \subseteq Nat
  BY DEF LookedUpIps
<1>3. ASSUME NEW n \in LookupNetwork(ips, reverse, answers)
      PROVE  DOMAIN n = NetFields /\ n.conf \in 0..88 /\ n.pos \in Nat /\ (n.cdn # "" => n.conf \in 35..88)
  <2>1. PICK i \in DOMAIN asked : n = LookupIpIntelligence(asked[i], i, reverse, answers[asked[i]])
    BY DEF LookupNetwork
  <2>2. DOMAIN n = NetFields /\ n.conf \in 0..88 /\ n.pos = i /\ (n.cdn # "" => n.conf \in 35..88)
    <3> HIDE DEF asked
    <3> QED BY <1>1, <2>1, Zenon
  <2> HIDE DEF asked
  <2> QED BY <1>2, <2>1, <2>2
<1>4. LookedUpOK(LookupNetwork(ips, reverse, answers))
  BY <1>3 DEF LookedUpOK
<1>5. EdgesRated(LookupNetwork(ips, reverse, answers))
  BY <1>3 DEF EdgesRated, CdnIn
<1> QED BY <1>4, <1>5

\* The verdicts of the blocklists, written into the same objects, change none of this.
LEMMA VerdictsKeepLookups ==
  ASSUME NEW net, LookedUpOK(net), EdgesRated(net), NEW threats
  PROVE  LookedUpOK(ApplyThreats(net, threats)) /\ EdgesRated(ApplyThreats(net, threats))
<1>1. ASSUME NEW m \in ApplyThreats(net, threats)
      PROVE  \E n \in net : DOMAIN m = NetFields /\ m.conf = n.conf /\ m.pos = n.pos /\ m.cdn = n.cdn
  <2>1. PICK n \in net : \E t : m = [n EXCEPT !.rep = t.score, !.is_datacenter = t.is_datacenter]
    BY DEF ApplyThreats
  <2> QED BY <2>1 DEF LookedUpOK, NetFields
<1>2. LookedUpOK(ApplyThreats(net, threats))
  BY <1>1 DEF LookedUpOK
<1>3. EdgesRated(ApplyThreats(net, threats))
  <2> SUFFICES ASSUME NEW m \in ApplyThreats(net, threats), m.cdn # "" PROVE m.conf \in 35..88
    BY DEF EdgesRated, CdnIn
  <2>1. PICK n \in net : m.conf = n.conf /\ m.cdn = n.cdn
    BY <1>1
  <2>2. n \in CdnIn(net)
    BY <2>1 DEF CdnIn
  <2> QED BY <2>1, <2>2 DEF EdgesRated
<1> QED BY <1>2, <1>3

--------------------------------------------------------------------------------
(* The guesses of the deployment are percentages. *)

\* A raw confidence: a percentage.
IsScore(x) == x \in 0..100

\* The addresses that speak for a CDN keep a confidence and a place in the list.
LEMMA CdnEvidenceOK ==
  ASSUME NEW c, NEW net, LookedUpOK(net), NEW conn
  PROVE  \A e \in CdnEvidence(c, net, conn) : e.conf \in 0..88 /\ e.pos \in Nat
<1> DEFINE n == CHOOSE n \in net : \A m \in net : n.pos <= m.pos
           first == IF net = {} THEN [ip |-> c.address, conf |-> 88]
                    ELSE [ip |-> n.ip, conf |-> Max({n.conf, 88})]
           known == {[ip |-> k.ip, cdn |-> k.cdn, conf |-> k.conf, pos |-> k.pos] : k \in CdnIn(net)}
           added == [ip |-> first.ip, cdn |-> conn.http_cdn, conf |-> first.conf, pos |-> LookedUp + 1]
<1>1. CdnEvidence(c, net, conn) \subseteq known \cup {added}
  BY DEF CdnEvidence
<1>2. ASSUME net # {} PROVE n \in net
  <2> DEFINE places == {m.pos : m \in net}
  <2>1. places \in SUBSET Int /\ places # {} /\ \A x \in places : 0 <= x
    BY <1>2 DEF LookedUpOK
  <2> HIDE DEF places
  <2>2. Min(places) \in places /\ \A x \in places : Min(places) <= x
    BY <2>1, BoundedMin
  <2>3. \E k \in net : \A m \in net : k.pos <= m.pos
    BY <2>2 DEF places
  <2> QED BY <2>3
<1>3. first.conf = 88
  <2>1. CASE net = {}
    BY <2>1
  <2>2. CASE net # {}
    <3>1. n.conf \in Int /\ n.conf <= 88
      BY <1>2, <2>2 DEF LookedUpOK
    <3> HIDE DEF n
    <3>2. Max({n.conf, 88}) = 88
      BY <3>1 DEF Max
    <3> QED BY <2>2, <3>2
  <2> QED BY <2>1, <2>2
<1>4. \A e \in known : e.conf \in 0..88 /\ e.pos \in Nat
  <2>1. \A k \in CdnIn(net) : k.conf \in 0..88 /\ k.pos \in Nat
    BY DEF LookedUpOK, CdnIn
  <2> QED BY <2>1
<1> HIDE DEF first
<1>5. added.conf \in 0..88 /\ added.pos \in Nat
  BY <1>3 DEF LookedUp
<1> HIDE DEF known, added
<1> QED BY <1>1, <1>4, <1>5

\* The strongest of them is one of them.
LEMMA StrongestIsOne ==
  ASSUME NEW S, S # {}, \A e \in S : e.conf \in 0..88 /\ e.pos \in Nat
  PROVE  StrongestCdn(S) \in S
<1> DEFINE confs == {e.conf : e \in S}
<1>1. Within(confs, 0, 88) /\ \A e \in S : e.conf \in confs
  BY DEF Within
<1>2. \A x \in confs : \E e \in S : e.conf = x
  OBVIOUS
<1> HIDE DEF confs
<1>3. PICK m \in 0..88 : m = Max(confs) /\ m \in confs /\ \A x \in confs : x <= m
  BY <1>1, MaxMinWithin
<1>4. PICK t \in S : t.conf = m
  BY <1>2, <1>3
<1>5. \A e \in S : e.conf <= m
  BY <1>1, <1>3
<1> DEFINE places == {e.pos : e \in {d \in S : d.conf = m}}
<1>6. t.pos \in places /\ \A x \in places : x \in Nat
  BY <1>4
<1>7. \A x \in places : \E e \in S : e.conf = m /\ e.pos = x
  OBVIOUS
<1>8. \A e \in S : e.conf = m => e.pos \in places
  OBVIOUS
<1> HIDE DEF places
<1>9. places \in SUBSET Int /\ places # {} /\ \A x \in places : 0 <= x
  BY <1>6
<1>10. Min(places) \in places /\ \A x \in places : Min(places) <= x
  BY <1>9, BoundedMin
<1>11. PICK b \in S : b.conf = m /\ b.pos = Min(places)
  BY <1>7, <1>10
<1>12. ASSUME NEW o \in S PROVE o.conf < b.conf \/ (o.conf = b.conf /\ b.pos <= o.pos)
  <2>1. CASE o.conf = m
    BY <1>8, <1>10, <1>11, <2>1
  <2>2. CASE o.conf # m
    <3>1. o.conf \in Int /\ m \in Int /\ o.conf <= m
      BY <1>5
    <3> QED BY <1>11, <2>2, <3>1
  <2> QED BY <2>1, <2>2
<1> QED BY <1>11, <1>12 DEF StrongestCdn

\* The guess that a CDN fronts the server is a percentage.
LEMMA FrontedScore ==
  ASSUME NEW c, NEW dns, NEW conn, NEW S, \A e \in S : e.conf \in 0..88 /\ e.pos \in Nat
  PROVE  IsScore(FrontedConf(c, dns, conn, S))
<1> DEFINE http == IF conn.http_cdn # "" THEN 88 ELSE 10
           best == StrongestCdn(S).conf
           raised == Max({http, best + 10})
           edge == IF S # {}
                   THEN IF best >= 72 THEN Min({95, raised}) ELSE http
                   ELSE IF dns.cname # {} THEN Max({http, 55}) ELSE http
<1>1. FrontedConf(c, dns, conn, S) = IF c.sni \notin {"", c.address} THEN Min({95, edge + 15}) ELSE edge
  BY DEF FrontedConf
<1>2. http \in 10..88
  OBVIOUS
<1>3. ASSUME S # {} PROVE best \in 0..88
  BY <1>3, StrongestIsOne
<1> HIDE DEF http, best
<1>4. ASSUME S # {} PROVE raised \in 10..98
  <2>1. best \in 0..88
    BY <1>3, <1>4
  <2> QED BY <1>2, <2>1 DEF Max
<1> HIDE DEF raised
<1>5. ASSUME S # {} PROVE Min({95, raised}) \in 10..95
  <2>1. raised \in 10..98
    BY <1>4, <1>5
  <2> QED BY <2>1 DEF Min
<1>6. Max({http, 55}) \in 10..95
  BY <1>2 DEF Max
<1>7. edge \in 10..95
  BY <1>2, <1>5, <1>6
<1> HIDE DEF edge
<1>8. Min({95, edge + 15}) \in 10..95
  BY <1>7 DEF Min
<1>9. FrontedConf(c, dns, conn, S) \in {edge, Min({95, edge + 15})}
  BY <1>1
<1> QED BY <1>7, <1>8, <1>9 DEF IsScore

\* The guess that a web server stands before the inbound is a percentage.
LEMMA ReverseProxyScore ==
  ASSUME NEW c, NEW conn
  PROVE  IsScore(ReverseProxyConf(c, conn))
<1> DEFINE layered == IF EffectiveTransport(c) \in {"WebSocket", "gRPC", "HTTPUpgrade", "XHTTP"}
                         \/ c.extraType = "xhttp" THEN 40 ELSE 30
           proxied == Min({85, layered + 35})
           answered == Min({55, layered + 10})
           seen == conn.http_reverse_proxy # ""
           valid == conn.http_response = "Valid" /\ conn.http_cdn = ""
           observed == FirstOf(<< <<seen, proxied>>, <<valid, answered>> >>, layered)
<1>1. ReverseProxyConf(c, conn) \in {observed, Min({observed, 35})}
  BY DEF ReverseProxyConf
<1>2. layered \in 30..40
  OBVIOUS
<1> HIDE DEF layered, seen, valid
<1>3. proxied \in 0..85 /\ answered \in 0..55
  BY <1>2 DEF Min
<1> HIDE DEF proxied, answered
<1>4. observed \in 0..85
  BY <1>2, <1>3, FirstOfTwo
<1> HIDE DEF observed
<1>5. Min({observed, 35}) \in 0..85
  BY <1>4 DEF Min
<1> QED BY <1>1, <1>4, <1>5 DEF IsScore

\* The guess of a named CDN is a percentage.
LEMMA CdnScore ==
  ASSUME NEW net, LookedUpOK(net), NEW label
  PROVE  IsScore(CdnConfOf(net, label))
<1> DEFINE confs == {ip.conf : ip \in {i \in net : i.cdn = label}}
<1>1. CdnConfOf(net, label) = IF confs = {} THEN 10 ELSE Min({95, Max(confs)})
  BY DEF CdnConfOf
<1>2. confs # {} => Within(confs, 0, 88)
  BY DEF Within, LookedUpOK
<1> HIDE DEF confs
<1>3. ASSUME confs # {} PROVE Min({95, Max(confs)}) \in 0..95
  <2>1. PICK x \in 0..88 : x = Max(confs)
    BY <1>2, <1>3, MaxMinWithin
  <2>2. Min({95, x}) \in 0..95
    BY DEF Min
  <2> QED BY <2>1, <2>2
<1> QED BY <1>1, <1>3 DEF IsScore

\* The names of the guesses.
LEMMA GuessNamesAre ==
  GuessNames = {"Direct VPS", "CDN Fronted", "Cloudflare CDN", "Arvan CDN", "Akamai CDN", "Fastly CDN",
                "AWS CloudFront", "BunnyCDN", "Gcore CDN", "Reverse Proxy", "Cloudflare Tunnel",
                "SNI Fronting", "Reverse Tunnel", "Multi Hop"}
<1>1. DOMAIN GuessOrder = 1..14
  BY DEF GuessOrder
<1>2. GuessNames = {GuessOrder[i] : i \in 1..14}
  BY <1>1, Zenon DEF GuessNames
<1>3. 1..14 = {1, 2, 3, 4, 5, 6, 7, 8, 9, 10, 11, 12, 13, 14}
  OBVIOUS
<1>4. /\ GuessOrder[1] = "Direct VPS"
      /\ GuessOrder[2] = "CDN Fronted"
      /\ GuessOrder[3] = "Cloudflare CDN"
      /\ GuessOrder[4] = "Arvan CDN"
      /\ GuessOrder[5] = "Akamai CDN"
      /\ GuessOrder[6] = "Fastly CDN"
      /\ GuessOrder[7] = "AWS CloudFront"
      /\ GuessOrder[8] = "BunnyCDN"
      /\ GuessOrder[9] = "Gcore CDN"
      /\ GuessOrder[10] = "Reverse Proxy"
      /\ GuessOrder[11] = "Cloudflare Tunnel"
      /\ GuessOrder[12] = "SNI Fronting"
      /\ GuessOrder[13] = "Reverse Tunnel"
      /\ GuessOrder[14] = "Multi Hop"
  BY DEF GuessOrder
<1>5. GuessNames = {GuessOrder[1], GuessOrder[2], GuessOrder[3], GuessOrder[4], GuessOrder[5],
                          GuessOrder[6], GuessOrder[7], GuessOrder[8], GuessOrder[9], GuessOrder[10],
                          GuessOrder[11], GuessOrder[12], GuessOrder[13], GuessOrder[14]}
  <2> HIDE DEF GuessOrder
  <2> QED BY <1>2, <1>3
<1> QED BY <1>4, <1>5, Zenon

\* Every guess of the deployment is a percentage.
LEMMA GuessScore ==
  ASSUME NEW name \in GuessNames, NEW c, NEW dns, NEW net, LookedUpOK(net), NEW conn
  PROVE  IsScore(GuessOf(name, c, dns, net, conn))
<1> DEFINE cdnIps == CdnEvidence(c, net, conn)
           names == dns.cname \cup dns.reverse
           onNet(label) == \E ip \in net : ip.cdn = label
<1>2. CASE name = "Direct VPS"
  <2>1. \A a, b : IsScore(FirstOf(<< <<a, 70>>, <<b, 45>> >>, 25))
    BY FirstOfTwo DEF IsScore
  <2> QED BY <1>2, <2>1, Zenon DEF GuessOf
<1>3. CASE name = "CDN Fronted"
  <2>1. IsScore(FrontedConf(c, dns, conn, cdnIps))
    BY FrontedScore, CdnEvidenceOK
  <2> QED BY <1>3, <2>1 DEF GuessOf
<1>4. CASE name = "Cloudflare CDN"
  <2>1. \A a, b : IsScore(FirstOf(<< <<a, 90>>, <<b, 80>> >>, 10))
    BY FirstOfTwo DEF IsScore
  <2> QED BY <1>4, <2>1, Zenon DEF GuessOf
<1>5. CASE name = "Arvan CDN"
  <2> DEFINE a == conn.http_cdn = "ArvanCloud" \/ conn.http_server = "arvan"
             b == onNet("ArvanCloud")
             d == "arvan" \in names
  <2>1. GuessOf(name, c, dns, net, conn) = FirstOf(<< <<a, 92>>, <<b, 90>>, <<d, 75>> >>, 10)
    BY <1>5 DEF GuessOf
  <2> HIDE DEF a, b, d
  <2> QED BY <2>1, FirstOfThree DEF IsScore
<1>6. CASE name = "Reverse Proxy"
  BY <1>6, ReverseProxyScore DEF GuessOf
<1>7. CASE name \in {"Akamai CDN", "Fastly CDN", "AWS CloudFront", "BunnyCDN", "Gcore CDN"}
  BY <1>7, CdnScore DEF GuessOf
<1>8. CASE name \in {"Cloudflare Tunnel", "SNI Fronting", "Reverse Tunnel", "Multi Hop"}
  <2>1. GuessOf(name, c, dns, net, conn) \in {10, 15, 20, 25, 65, 82, 85}
    BY <1>8 DEF GuessOf
  <2> QED BY <2>1 DEF IsScore
<1> QED BY <1>2, <1>3, <1>4, <1>5, <1>6, <1>7, <1>8, GuessNamesAre

--------------------------------------------------------------------------------
(* Calibration, and the rules between the guesses. *)

\* The four levels as a set.
LevelNames == {"Proven", "Strong", "Weak", "Speculative"}

\* The list of the levels, entry by entry.
LEMMA LevelsAre ==
  /\ DOMAIN Levels = {1, 2, 3, 4} /\ Len(Levels) = 4
  /\ Levels[1] = "Proven" /\ Levels[2] = "Strong" /\ Levels[3] = "Weak" /\ Levels[4] = "Speculative"
  /\ ToSet(Levels) = LevelNames
<1>1. DOMAIN Levels = {1, 2, 3, 4} /\ Len(Levels) = 4
  BY DEF Levels
<1>2. Levels[1] = "Proven" /\ Levels[2] = "Strong" /\ Levels[3] = "Weak" /\ Levels[4] = "Speculative"
  BY DEF Levels
<1>3. ToSet(Levels) = LevelNames
  BY <1>1, <1>2 DEF ToSet, LevelNames
<1> QED BY <1>1, <1>2, <1>3

\* A level is found at its rank.
LEMMA RankOfLevel ==
  ASSUME NEW l \in LevelNames
  PROVE  LevelRank(l) \in 1..4 /\ Levels[LevelRank(l)] = l
<1>1. \E i \in DOMAIN Levels : Levels[i] = l
  BY LevelsAre DEF LevelNames
<1>2. LevelRank(l) \in DOMAIN Levels /\ Levels[LevelRank(l)] = l
  BY <1>1 DEF LevelRank
<1> QED BY <1>2, LevelsAre

\* A demoted level is not proven, and strong only if it was proven before.
LEMMA DemoteWeakens ==
  ASSUME NEW l \in LevelNames, NEW steps \in {1, 2}
  PROVE  /\ Demote(l, steps) \in LevelNames \ {"Proven"}
         /\ Demote(l, steps) = "Strong" => l = "Proven"
<1>1. PICK k \in 1..4 : k = LevelRank(l) /\ Levels[k] = l
  BY RankOfLevel
<1>2. PICK m \in 2..4 : m = Min({4, k + steps}) /\ (m = 2 => k = 1)
  <2>1. Min({4, k + steps}) = IF k + steps <= 4 THEN k + steps ELSE 4
    BY DEF Min
  <2> QED BY <2>1
<1>3. Demote(l, steps) = Levels[m]
  BY <1>1, <1>2, LevelsAre DEF Demote
<1>4. m = 2 \/ m = 3 \/ m = 4
  BY <1>2
<1>5. m = 2 => l = "Proven"
  BY <1>1, <1>2, LevelsAre
<1> QED BY <1>3, <1>4, <1>5, LevelsAre DEF LevelNames

\* A calibrated value is within the cap, within the lower cap without verified
\* traffic, and not small when the raw confidence is not.
CalOK(value, level, live) ==
  /\ value \in 0..ConfidenceCap
  /\ level \in LevelNames
  /\ ~live => value <= NoLiveCap /\ level # "Proven"

\* A calibrated value that the demotion of the beaten CDNs, minus 1500, keeps above zero.
NotSmall(value) == value \in Int /\ 1500 <= value

\* What one calibration returns.
CalibrationOK(cal, raw, live) == CalOK(cal.value, cal.level, live) /\ (40 <= raw => NotSmall(cal.value))

\* The two caps.
LEMMA CapsAre == ConfidenceCap = 9200 /\ NoLiveCap = 7200 /\ ConfidenceCap \in Int /\ NoLiveCap \in Int
BY DEF ConfidenceCap, NoLiveCap

\* A calibrated value is an integer between zero and the cap.
LEMMA CalIsInt ==
  ASSUME NEW v, NEW l, NEW live, CalOK(v, l, live)
  PROVE  v \in Int /\ 0 <= v /\ v <= ConfidenceCap
<1>1. ConfidenceCap \in Int /\ v \in 0..ConfidenceCap
  BY CapsAre DEF CalOK
<1> QED BY <1>1

\* A value that is lowered, with a level no stronger, is still within the caps.
LEMMA CalLowered ==
  ASSUME NEW v, NEW l, NEW live, CalOK(v, l, live),
         NEW x \in Int, 0 <= x, x <= v, NEW m \in LevelNames, m = "Proven" => l = "Proven"
  PROVE  CalOK(x, m, live)
<1>1. v \in Int /\ 0 <= v /\ v <= ConfidenceCap
  BY CalIsInt
<1>2. ConfidenceCap \in Int /\ NoLiveCap \in Int
  BY CapsAre
<1>3. x <= ConfidenceCap
  BY <1>1, <1>2
<1>4. \A hi, y \in Int : 0 <= y /\ y <= hi => y \in 0..hi
  OBVIOUS
<1>5. x \in 0..ConfidenceCap
  BY <1>2, <1>3, <1>4, Zenon
<1>6. ~live => v <= NoLiveCap /\ l # "Proven"
  BY DEF CalOK
<1>7. ~live => x <= NoLiveCap /\ m # "Proven"
  BY <1>1, <1>2, <1>6
<1> QED BY <1>5, <1>7 DEF CalOK

\* The calibration of a percentage stays within the caps, and calls nothing strong
\* without a count of evidence or a direct observation.
LEMMA CalibrationRange ==
  ASSUME NEW raw \in 0..100, NEW live, NEW count, NEW direct, NEW heuristic
  PROVE  LET cal == CalibrateEvidence(raw, live, count, direct, heuristic)
         IN  /\ CalibrationOK(cal, raw, live)
             /\ count \in Nat /\ cal.level \in {"Proven", "Strong"} => count >= 1 \/ (direct /\ raw >= 78)
<1> DEFINE c1 == heuristic
           c2 == live /\ direct /\ count >= 2 /\ raw >= 68
           c3 == live /\ count >= 2 /\ raw >= 58
           c4 == direct /\ raw >= 78
           c5 == raw >= 72 /\ count >= 1
           c6 == raw >= 45 /\ count >= 1
           cap4 == IF live THEN ConfidenceCap ELSE NoLiveCap
           cap5 == IF live THEN ConfidenceCap - 500 ELSE NoLiveCap
           cap6 == IF live THEN NoLiveCap ELSE 6480
           x1 == raw * 85
           x2 == raw * 100 + 1000
           x3 == raw * 100 + 600
           x4 == raw * 100
           x7 == raw * 88
           v1 == Min({5400, x1})
           v2 == Min({ConfidenceCap, x2})
           v3 == Min({ConfidenceCap, x3})
           v4 == Min({cap4, x4})
           v5 == Min({cap5, x4})
           v6 == Min({cap6, x4})
           v7 == Min({5760, x7})
           cal == CalibrateEvidence(raw, live, count, direct, heuristic)
<1>1. cal = FirstOf(<< <<c1, Calibrated(v1, "Speculative")>>, <<c2, Calibrated(v2, "Proven")>>,
                       <<c3, Calibrated(v3, "Strong")>>, <<c4, Calibrated(v4, "Strong")>>,
                       <<c5, Calibrated(v5, "Strong")>>, <<c6, Calibrated(v6, "Weak")>> >>,
                    Calibrated(v7, "Speculative"))
  BY DEF CalibrateEvidence
<1>2. /\ c2 => live /\ (count \in Nat => count >= 1)
      /\ c3 => live /\ (count \in Nat => count >= 1)
      /\ c4 => direct /\ raw >= 78
      /\ c5 => count >= 1
  OBVIOUS
<1>3. x1 \in Nat /\ x2 \in Nat /\ x3 \in Nat /\ x4 \in Nat /\ x7 \in Nat
  OBVIOUS
<1>a. 40 <= raw => 1500 <= x1 /\ 1500 <= x2 /\ 1500 <= x3 /\ 1500 <= x4 /\ 1500 <= x7
  OBVIOUS
<1>4. /\ cap4 \in Nat /\ 1500 <= cap4 /\ cap4 <= 9200 /\ (~live => cap4 <= 7200)
      /\ cap5 \in Nat /\ 1500 <= cap5 /\ cap5 <= 9200 /\ (~live => cap5 <= 7200)
      /\ cap6 \in Nat /\ 1500 <= cap6 /\ cap6 <= 7200
  BY DEF ConfidenceCap, NoLiveCap
<1>5. ConfidenceCap = 9200 /\ NoLiveCap = 7200
  BY DEF ConfidenceCap, NoLiveCap
<1> HIDE DEF c1, c2, c3, c4, c5, c6, cap4, cap5, cap6, x1, x2, x3, x4, x7
<1>6. \A cap, x \in Nat : /\ Min({cap, x}) \in Int /\ 0 <= Min({cap, x}) /\ Min({cap, x}) <= cap
                          /\ 1500 <= cap /\ 1500 <= x => 1500 <= Min({cap, x})
  BY DEF Min
<1>7. /\ v1 \in Int /\ 0 <= v1 /\ v1 <= 5400 /\ (1500 <= x1 => 1500 <= v1)
      /\ v7 \in Int /\ 0 <= v7 /\ v7 <= 5760 /\ (1500 <= x7 => 1500 <= v7)
  BY <1>3 DEF Min
<1>8. /\ v2 \in Int /\ 0 <= v2 /\ v2 <= 9200 /\ (1500 <= x2 => 1500 <= v2)
      /\ v3 \in Int /\ 0 <= v3 /\ v3 <= 9200 /\ (1500 <= x3 => 1500 <= v3)
  BY <1>3, <1>5 DEF Min
<1>9. /\ v4 \in Int /\ 0 <= v4 /\ v4 <= cap4 /\ (1500 <= x4 => 1500 <= v4)
      /\ v5 \in Int /\ 0 <= v5 /\ v5 <= cap5 /\ (1500 <= x4 => 1500 <= v5)
      /\ v6 \in Int /\ 0 <= v6 /\ v6 <= cap6 /\ (1500 <= x4 => 1500 <= v6)
  BY <1>3, <1>4, <1>6
<1> HIDE DEF v1, v2, v3, v4, v5, v6, v7, cal
<1>10. \/ cal = Calibrated(v1, "Speculative") \/ cal = Calibrated(v7, "Speculative") \/ cal = Calibrated(v6, "Weak")
       \/ (c2 /\ cal = Calibrated(v2, "Proven")) \/ (c3 /\ cal = Calibrated(v3, "Strong"))
       \/ (c4 /\ cal = Calibrated(v4, "Strong")) \/ (c5 /\ cal = Calibrated(v5, "Strong"))
  BY <1>1, FirstOfSix
<1>11. \A v, l : Calibrated(v, l).value = v /\ Calibrated(v, l).level = l
  BY DEF Calibrated
<1>12. /\ cal.value \in Int /\ 0 <= cal.value /\ cal.value <= 9200
       /\ cal.level \in LevelNames
       /\ ~live => cal.value <= 7200 /\ cal.level # "Proven"
       /\ count \in Nat /\ cal.level \in {"Proven", "Strong"} => count >= 1 \/ (direct /\ raw >= 78)
       /\ 40 <= raw => 1500 <= cal.value
  BY <1>2, <1>a, <1>4, <1>7, <1>8, <1>9, <1>10, <1>11 DEF LevelNames
<1>13. cal.value \in 0..ConfidenceCap
  <2>1. ConfidenceCap \in Int /\ cal.value \in Int /\ 0 <= cal.value /\ cal.value <= ConfidenceCap
    BY <1>5, <1>12
  <2>2. \A hi, v \in Int : 0 <= v /\ v <= hi => v \in 0..hi
    OBVIOUS
  <2> QED BY <2>1, <2>2, Zenon
<1>14. CalibrationOK(cal, raw, live)
  <2>1. cal.level \in LevelNames /\ (~live => cal.value <= NoLiveCap /\ cal.level # "Proven")
    BY <1>5, <1>12
  <2>2. 40 <= raw => NotSmall(cal.value)
    BY <1>12 DEF NotSmall
  <2>3. CalOK(cal.value, cal.level, live)
    BY <1>13, <2>1 DEF CalOK
  <2> QED BY <2>2, <2>3 DEF CalibrationOK
<1>15. count \in Nat /\ cal.level \in {"Proven", "Strong"} => count >= 1 \/ (direct /\ raw >= 78)
  BY <1>12
<1> QED BY <1>14, <1>15 DEF cal

--------------------------------------------------------------------------------
(* At most one strong CDN. *)

\* The two levels a report prints as certain.
Strong(g) == g.level \in {"Proven", "Strong"}
\* A CDN the deployment report is certain of.
StrongCdn(g) == g.name \in CdnGuessNames /\ Strong(g)
\* There is at most one.
OneStrong(S) == \A g, h \in S : StrongCdn(g) /\ StrongCdn(h) => g = h

\* A calibrated guess; one that is strong and names a CDN has a raw confidence of 55
\* at least, which is what makes the conflict rules see it.
IsGuess(g) ==
  /\ DOMAIN g = {"name", "conf", "cal", "level"}
  /\ g.level \in LevelNames
  /\ g.conf \in 0..100
  /\ Strong(g) => g.conf >= 60

\* The calibration of a percentage is such a guess.
LEMMA CalibratedIsGuess ==
  ASSUME NEW name, NEW conf \in 0..100, NEW q
  PROVE  LET g == CalibratedGuess(name, conf, q)
         IN IsGuess(g) /\ g.name = name /\ g.conf = conf /\ (~LiveProxyOk(q) => g.level # "Proven")
<1> DEFINE live == LiveProxyOk(q)
           direct == conf >= 75 /\ CdnDetected(q) /\ name \in CdnGuessNames
           count == IF conf >= 60 THEN 1 ELSE 0
           heuristic == conf < 45
           low == CalibrateEvidence(conf, live, 0, FALSE, TRUE)
           high == CalibrateEvidence(conf, live, count, direct, heuristic)
           g == CalibratedGuess(name, conf, q)
<1>1. CalibrationOK(low, conf, live) /\ low.level \notin {"Proven", "Strong"}
  <2>1. CalibrationOK(low, conf, live)
        /\ (0 \in Nat /\ low.level \in {"Proven", "Strong"} => 0 >= 1 \/ (FALSE /\ conf >= 78))
    <3> HIDE DEF live
    <3> QED BY CalibrationRange, Zenon
  <2> HIDE DEF low
  <2> QED BY <2>1
<1>2. CalibrationOK(high, conf, live) /\ (high.level \in {"Proven", "Strong"} => count >= 1 \/ (direct /\ conf >= 78))
  <2>1. count \in Nat
    OBVIOUS
  <2> HIDE DEF live, direct, count, heuristic
  <2> QED BY <2>1, CalibrationRange
<1>3. count >= 1 => conf >= 60
  OBVIOUS
<1>4. g = [name |-> name, conf |-> conf, cal |-> (IF conf < 35 THEN low ELSE high).value,
           level |-> (IF conf < 35 THEN low ELSE high).level]
  BY DEF CalibratedGuess
<1> HIDE DEF low, high, count, direct, heuristic, g
<1>5. \E cal \in {low, high} : g = [name |-> name, conf |-> conf, cal |-> cal.value, level |-> cal.level]
  BY <1>4
<1>6. IsGuess(g) /\ g.name = name /\ g.conf = conf /\ (~LiveProxyOk(q) => g.level # "Proven")
  BY <1>1, <1>2, <1>3, <1>5 DEF IsGuess, Strong, live, CalibrationOK, CalOK
<1> QED BY <1>6 DEF g

\* The conflict rules of one guess keep it one.
LEMMA ResolvedStaysGuess ==
  ASSUME NEW g, IsGuess(g), NEW q, NEW cdnStrong
  PROVE  LET h == ResolveGuess(g, q, cdnStrong)
         IN  IsGuess(h) /\ h.name = g.name /\ h.conf = g.conf /\ (h.level = "Proven" => g.level = "Proven")
<1> DEFINE direct == cdnStrong /\ g.name = "Direct VPS"
           hidden == cdnStrong /\ g.name = "Reverse Proxy" /\ q.conn.http_reverse_proxy = ""
           unseen == g.name \in CdnGuessNames /\ ~CdnDetected(q) /\ g.conf < 55
           level == FirstOf(<< <<direct, Demote(g.level, 2)>>, <<hidden, "Weak">>,
                               <<unseen, Demote(g.level, 1)>> >>, g.level)
           cal == Min({g.cal} \cup (IF direct THEN {5200} ELSE {}) \cup (IF hidden THEN {4800} ELSE {}))
           h == ResolveGuess(g, q, cdnStrong)
<1>1. h = [g EXCEPT !.cal = cal, !.level = level]
  BY DEF ResolveGuess
<1>2. \A l \in {Demote(g.level, 1), Demote(g.level, 2)} :
         l \in LevelNames \ {"Proven"} /\ (l = "Strong" => g.level = "Proven")
  BY DemoteWeakens DEF IsGuess
<1> HIDE DEF direct, hidden, unseen
<1>3. level \in {Demote(g.level, 2), "Weak", Demote(g.level, 1), g.level}
  BY FirstOfThree
<1> HIDE DEF level, cal
<1>4. level \in LevelNames /\ (level \in {"Proven", "Strong"} => g.level \in {"Proven", "Strong"})
      /\ (level = "Proven" => g.level = "Proven")
  BY <1>2, <1>3 DEF IsGuess, LevelNames
<1> HIDE DEF h
<1>5. IsGuess(h) /\ h.name = g.name /\ h.conf = g.conf /\ (h.level = "Proven" => g.level = "Proven")
  BY <1>1, <1>4 DEF IsGuess, Strong
<1> QED BY <1>5 DEF h

\* There are finitely many guesses.
LEMMA GuessesAreFinite == IsFiniteSet(GuessNames)
<1>1. DOMAIN GuessOrder = 1..14 /\ 1 \in Int /\ 14 \in Int
  BY DEF GuessOrder
<1>2. IsFiniteSet(DOMAIN GuessOrder)
  BY <1>1, FS_Interval
<1> QED BY <1>2, RangeIsFinite DEF GuessNames

\* The rules leave at most one CDN guess strong: every strong CDN guess is
\* likely, and of two likely ones the rules weaken all but the winner.
LEMMA RulesLeaveOneStrong ==
  ASSUME NEW S, IsFiniteSet(S), \A g \in S : IsGuess(g), NEW q
  PROVE  OneStrong(DeploymentConflictRules(S, q))
<1> DEFINE likely(T) == {g \in T : g.name \in CdnGuessNames /\ g.conf >= 55}
           cdnStrong == CdnDetected(q) /\ \E g \in S : g.name \in CdnGuessNames /\ g.conf >= 70
           updated == {ResolveGuess(g, q, cdnStrong) : g \in S}
           winners == {g \in likely(updated) : \A o \in likely(updated) : o.cal <= g.cal}
           winner == CHOOSE g \in winners : \A o \in winners :
                      o.conf < g.conf \/ (o.conf = g.conf /\ GuessPos(g.name) <= GuessPos(o.name))
           Weakened(g) == IF g \in likely(updated) \ {winner}
                          THEN [g EXCEPT !.cal = Min({@, 5800}), !.level = "Weak"] ELSE g
           weakened == {Weakened(g) : g \in updated}
<1>1. DeploymentConflictRules(S, q) = IF Cardinality(likely(updated)) < 2 THEN updated ELSE weakened
  BY DEF DeploymentConflictRules
<1>2. \A g \in updated : IsGuess(g)
  BY ResolvedStaysGuess
<1>3. IsFiniteSet(updated)
  <2> DEFINE f == [g \in S |-> ResolveGuess(g, q, cdnStrong)]
  <2>1. updated = {f[g] : g \in S}
    OBVIOUS
  <2>2. DOMAIN f = S
    OBVIOUS
  <2> HIDE DEF f
  <2>3. IsFiniteSet({f[g] : g \in S})
    BY <2>2, RangeIsFinite, Zenon
  <2> HIDE DEF updated
  <2> QED BY <2>1, <2>3
<1> HIDE DEF updated
<1>4. IsFiniteSet(likely(updated))
  BY <1>3, FS_Subset
<1>5. \A g \in updated : StrongCdn(g) => g \in likely(updated)
  BY <1>2 DEF StrongCdn, IsGuess
<1> HIDE DEF likely, winner
<1>6. CASE Cardinality(likely(updated)) < 2
  <2> SUFFICES ASSUME NEW g \in updated, NEW h \in updated, StrongCdn(g), StrongCdn(h), g # h PROVE FALSE
    BY <1>1, <1>6 DEF OneStrong
  <2>1. Cardinality(likely(updated)) >= 2
    BY <1>4, <1>5, TwoElements
  <2>2. Cardinality(likely(updated)) \in Nat
    BY <1>4, FS_CardinalityType
  <2> QED BY <1>6, <2>1, <2>2
<1>7. CASE ~(Cardinality(likely(updated)) < 2)
  <2>1. ASSUME NEW g \in updated, StrongCdn(Weakened(g)) PROVE Weakened(g) = winner
    <3>1. CASE g \in likely(updated) \ {winner}
      <4>1. [g EXCEPT !.cal = Min({@, 5800}), !.level = "Weak"].level = "Weak"
        BY <1>2 DEF IsGuess
      <4>2. Weakened(g).level = "Weak"
        BY <3>1, <4>1, Zenon
      <4> HIDE DEF Weakened
      <4> QED BY <2>1, <4>2 DEF StrongCdn, Strong
    <3>2. CASE g \notin likely(updated) \ {winner}
      <4>1. Weakened(g) = g
        BY <3>2, SMT
      <4> HIDE DEF Weakened
      <4> QED BY <1>5, <2>1, <3>2, <4>1
    <3> QED BY <3>1, <3>2
  <2> HIDE DEF Weakened
  <2>2. \A g \in weakened : StrongCdn(g) => g = winner
    BY <2>1
  <2> HIDE DEF weakened
  <2> QED BY <1>1, <1>7, <2>2 DEF OneStrong
<1> QED BY <1>6, <1>7

\* What five rows select is among their values.
LEMMA SelectedFive ==
  ASSUME NEW a, NEW x, NEW b, NEW y, NEW c, NEW z, NEW e, NEW u, NEW f, NEW v
  PROVE  Selected(<< <<a, x>>, <<b, y>>, <<c, z>>, <<e, u>>, <<f, v>> >>) \subseteq {x, y, z, u, v}
BY DEF Selected

--------------------------------------------------------------------------------
(* The matches and their ratings. *)

\* The fields of a match before the calibration.
MatchFields == {"id", "conf", "evidence", "place"}

\* A match is a percentage; one of a CDN is at least 40, so that the calibration does
\* not make it small.
MatchOK(m) ==
  /\ DOMAIN m = MatchFields
  /\ m.conf \in 0..100
  /\ m.id \in CdnTunnelIds => m.conf \in 40..100

\* A match with such a confidence.
LEMMA MatchIsOK ==
  ASSUME NEW id, NEW conf \in 0..100, id \in CdnTunnelIds => conf \in 40..100, NEW evidence, NEW place
  PROVE  MatchOK(Match(id, conf, evidence, place))
BY DEF MatchOK, Match, MatchFields

\* The topologies that say how the server is reached.
PathIds == CdnTunnelIds \cup DirectTopologyIds

\* A match of another topology, with its place in the list.
PlainMatch(m) ==
  /\ MatchOK(m)
  /\ m.id \notin DirectTopologyIds
  /\ m.place \in Nat

\* A match of another topology needs only a percentage and a place.
LEMMA OtherMatchIsOK ==
  ASSUME NEW id, id \notin PathIds, NEW conf \in 0..100, NEW evidence, NEW place \in Nat
  PROVE  PlainMatch(Match(id, conf, evidence, place))
<1>1. MatchOK(Match(id, conf, evidence, place))
  BY MatchIsOK DEF PathIds
<1>2. Match(id, conf, evidence, place).id = id /\ Match(id, conf, evidence, place).place = place
  BY DEF Match
<1> QED BY <1>1, <1>2 DEF PlainMatch, PathIds

\* The matches of the protocol.
LEMMA ProtocolMatchesOK ==
  ASSUME NEW c
  PROVE  \A m \in ProtocolMatches(c) : PlainMatch(m)
<1> DEFINE a1 == c.protocol = "WireGuard"
           a2 == c.protocol = "OpenVPN"
           a3 == c.protocol = "Hysteria2"
           a4 == c.protocol = "TUIC"
           a5 == c.reality
           e3 == {"protocol", "endpoint"} \cup (IF c.sni # "" THEN {"sni"} ELSE {})
           e5 == Selected(<< <<TRUE, "security">>, <<c.sni # "", "sni">>, <<c.public_key, "pbk">> >>)
           m1 == Match("wireguard_tunnel", 95, {"protocol", "endpoint"}, 10)
           m2 == Match("openvpn_tunnel", 95, {"protocol", "endpoint"}, 10)
           m3 == Match("hysteria2_quic", 95, e3, 10)
           m4 == Match("tuic_quic", 95, {"protocol", "endpoint"}, 10)
           m5 == Match("reality_camouflage", 92, e5, 20)
<1>1. ProtocolMatches(c) = Selected(<< <<a1, m1>>, <<a2, m2>>, <<a3, m3>>, <<a4, m4>>, <<a5, m5>> >>)
  BY DEF ProtocolMatches
<1>2. /\ "wireguard_tunnel" \notin PathIds /\ "openvpn_tunnel" \notin PathIds /\ "hysteria2_quic" \notin PathIds
      /\ "tuic_quic" \notin PathIds /\ "reality_camouflage" \notin PathIds
      /\ 95 \in 0..100 /\ 92 \in 0..100
      /\ 10 \in Nat /\ 20 \in Nat
  BY DEF PathIds, CdnTunnelIds, DirectTopologyIds
<1> HIDE DEF a1, a2, a3, a4, a5, e3, e5
<1>3. PlainMatch(m1) /\ PlainMatch(m2) /\ PlainMatch(m3) /\ PlainMatch(m4) /\ PlainMatch(m5)
  BY <1>2, OtherMatchIsOK, Zenon
<1> HIDE DEF m1, m2, m3, m4, m5
<1> QED BY <1>1, <1>3, SelectedFive

\* The matches of the remark, of the port and of the number of hops.
LEMMA RemarkMatchesOK ==
  ASSUME NEW c, NEW net, NEW hops
  PROVE  \A m \in RemarkMatches(c, net, hops) : PlainMatch(m)
<1> DEFINE hinted == c.remark \cap {"frp", "nps", "ngrok", "bore", "rathole", "nat"} # {}
           odd == c.port \notin {443, 8443, 2053, 2083, 80, 8080, 8880} /\ CdnIn(net) = {}
           relay == c.remark \cap {"relay", "chain", "multi", "hop", "warp"} # {}
           far == hops >= 14
           a2 == ~hinted /\ odd
           a3 == relay \/ far
           a4 == "ssh" \in c.remark \/ c.port = 22
           a5 == "gost" \in c.remark
           e3 == Selected(<< <<far, "hops">>, <<relay, "remark">> >>)
           conf3 == IF relay THEN 55 ELSE 42
           m1 == Match("reverse_tunnel_frp", 72, {"remark"}, 90)
           m2 == Match("reverse_tunnel_frp", 38, {"port"}, 90)
           m3 == Match("multi_hop", conf3, e3, 130)
           m4 == Match("ssh_tunnel", 50, {"port"}, 150)
           m5 == Match("gost_relay", 65, {"remark"}, 160)
<1>1. RemarkMatches(c, net, hops) = Selected(<< <<hinted, m1>>, <<a2, m2>>, <<a3, m3>>, <<a4, m4>>, <<a5, m5>> >>)
  BY DEF RemarkMatches
<1>2. /\ "reverse_tunnel_frp" \notin PathIds /\ "multi_hop" \notin PathIds
      /\ "ssh_tunnel" \notin PathIds /\ "gost_relay" \notin PathIds
      /\ 72 \in 0..100 /\ 38 \in 0..100 /\ 50 \in 0..100 /\ 65 \in 0..100
      /\ 90 \in Nat /\ 130 \in Nat /\ 150 \in Nat /\ 160 \in Nat
  BY DEF PathIds, CdnTunnelIds, DirectTopologyIds
<1>3. conf3 \in 0..100
  OBVIOUS
<1> HIDE DEF hinted, a2, a3, a4, a5, e3, conf3
<1>4. PlainMatch(m1) /\ PlainMatch(m2) /\ PlainMatch(m3) /\ PlainMatch(m4) /\ PlainMatch(m5)
  BY <1>2, <1>3, OtherMatchIsOK, Zenon
<1> HIDE DEF m1, m2, m3, m4, m5
<1> QED BY <1>1, <1>4, SelectedFive

\* The matches of the names.
LEMMA FrontingMatchesOK ==
  ASSUME NEW c, NEW dns, NEW net
  PROVE  \A m \in FrontingMatches(c, dns, net) : PlainMatch(m)
<1> DEFINE a1 == "cfargotunnel" \in dns.cname
           a2 == IsIp(c.address) /\ c.sni \notin {"", c.address}
           a3 == c.host # "" /\ c.sni # "" /\ c.host # c.sni
           a4 == EffectiveTransport(c) = "XHTTP" /\ ("dl" \in c.remark \/ c.download)
           a5 == Cardinality(dns.a) >= 2
           e2 == {"connect_ip", "sni"} \cup (IF dns.a # {} THEN {"dns"} ELSE {})
           e4 == {"transport", "download"} \cup (IF c.alpn # {} THEN {"alpn"} ELSE {})
           e5 == {"count", "records"} \cup (IF \E ip \in net : ip.asn # "" THEN {"asns"} ELSE {})
           m1 == Match("cloudflare_tunnel", 88, {"CNAME"}, 50)
           m2 == Match("sni_fronting", 85, e2, 100)
           m3 == Match("host_sni_split", 80, {"host", "sni"}, 110)
           m4 == Match("xhttp_split", 78, e4, 120)
           m5 == Match("load_balancer", 55, e5, 140)
<1>1. FrontingMatches(c, dns, net) = Selected(<< <<a1, m1>>, <<a2, m2>>, <<a3, m3>>, <<a4, m4>>, <<a5, m5>> >>)
  BY DEF FrontingMatches
<1>2. /\ "cloudflare_tunnel" \notin PathIds /\ "sni_fronting" \notin PathIds /\ "host_sni_split" \notin PathIds
      /\ "xhttp_split" \notin PathIds /\ "load_balancer" \notin PathIds
      /\ 88 \in 0..100 /\ 85 \in 0..100 /\ 80 \in 0..100 /\ 78 \in 0..100 /\ 55 \in 0..100
      /\ 50 \in Nat /\ 100 \in Nat /\ 110 \in Nat /\ 120 \in Nat /\ 140 \in Nat
  BY DEF PathIds, CdnTunnelIds, DirectTopologyIds
<1> HIDE DEF a1, a2, a3, a4, a5, e2, e4, e5
<1>4. PlainMatch(m1) /\ PlainMatch(m2) /\ PlainMatch(m3) /\ PlainMatch(m4) /\ PlainMatch(m5)
  BY <1>2, OtherMatchIsOK, Zenon
<1> HIDE DEF m1, m2, m3, m4, m5
<1> QED BY <1>1, <1>4, SelectedFive

\* The confidence a match takes over from the addresses on a CDN.
LEMMA EdgeConf ==
  ASSUME NEW net, EdgesRated(net), NEW S \in SUBSET CdnIn(net), S # {}
  PROVE  Max({ip.conf : ip \in S}) \in 35..88
<1> DEFINE confs == {ip.conf : ip \in S}
<1>1. Within(confs, 35, 88)
  BY DEF Within, EdgesRated
<1> HIDE DEF confs
<1>2. Max(confs) \in 35..88
  BY <1>1, MaxMinWithin
<1> QED BY <1>2 DEF confs

\* The CDNs with a tunnel type of their own have a name.
LEMMA CdnTunnelNames == \A t \in CdnTunnels : t[1] # ""
<1>1. \A n : n \in {"Cloudflare", "ArvanCloud", "Akamai", "Fastly", "CloudFront", "Bunny", "Gcore"} => n # ""
  OBVIOUS
<1>2. \A t \in CdnTunnels : t[1] \in {"Cloudflare", "ArvanCloud", "Akamai", "Fastly", "CloudFront", "Bunny", "Gcore"}
  <2>1. ASSUME NEW a, NEW b PROVE <<a, b>>[1] = a
    OBVIOUS
  <2> QED BY <2>1, Zenon DEF CdnTunnels
<1> QED BY <1>1, <1>2

\* The matches of the CDNs: their confidence comes from addresses rated 35 at least,
\* or is one of the fixed ones.
LEMMA CdnMatchesOK ==
  ASSUME NEW c, NEW dns, NEW net, EdgesRated(net), NEW conn, NEW dep, NEW setOrder
  PROVE  \A m \in CdnMatches(c, dns, net, conn, dep, setOrder) : MatchOK(m)
<1> DEFINE onCdn == CdnIn(net)
           top == Max({ip.conf : ip \in onCdn})
           frontedConf == IF onCdn = {} THEN 55 ELSE Min({95, top + 5})
           Own(t) == {ip \in net : ip.cdn = t[1]}
           best(t) == Max({ip.conf : ip \in Own(t)})
           base(t) == IF Own(t) = {} THEN 70 ELSE best(t)
           ownConf(t) == Min({98, base(t) + 5})
           signal == onCdn # {} \/ PrimaryCdn(dep, conn) # "" \/ dns.cname \cap CdnNames # {}
           listed == Selected(<<
               <<TRUE, "cdn_type">>, <<conn.http_server # "", "http_server">>,
               <<dep.cdn_ips # {} \/ dns.a # {}, "ips">>, <<IsIp(c.address) /\ c.sni # "", "link_ip">> >>)
           ownEvidence(t) == Selected(<< <<TRUE, "cdn">>, <<Own(t) # {}, "ips">>,
                                         <<\E ip \in Own(t) : ip.asn # "", "asn">> >>)
           named == {u \in CdnTunnels : u[1] \in DetectedCdns(net, conn)}
           OwnMatch(t) == Match(t[2], ownConf(t), ownEvidence(t), 40 + setOrder[t[1]])
<1>1. frontedConf \in 40..100
  <2>1. CASE onCdn = {}
    BY <2>1
  <2>2. CASE onCdn # {}
    <3>1. PICK x \in 35..88 : x = top
      BY <2>2, EdgeConf
    <3> HIDE DEF top
    <3>2. Min({95, x + 5}) \in 40..100
      BY DEF Min
    <3> QED BY <2>2, <3>1, <3>2
  <2> QED BY <2>1, <2>2
<1>2. ASSUME NEW t \in CdnTunnels PROVE ownConf(t) \in 40..100
  <2>0. t[1] # ""
    BY CdnTunnelNames
  <2>1. base(t) \in 35..88
    <3>1. CASE Own(t) = {}
      BY <3>1
    <3>2. CASE Own(t) # {}
      <4>1. Own(t) \in SUBSET CdnIn(net)
        BY <2>0 DEF CdnIn
      <4>2. best(t) \in 35..88
        BY <3>2, <4>1, EdgeConf
      <4> QED BY <3>2, <4>2
    <3> QED BY <3>1, <3>2
  <2>2. PICK x \in 35..88 : x = base(t)
    BY <2>1
  <2> HIDE DEF base
  <2>3. Min({98, x + 5}) \in 40..100
    BY DEF Min
  <2> QED BY <2>2, <2>3
<1>3. CdnMatches(c, dns, net, conn, dep, setOrder)
        = (IF ~signal THEN {} ELSE {Match("cdn_fronting", frontedConf, listed, 30)}) \cup {OwnMatch(t) : t \in named}
  BY DEF CdnMatches
<1>4. \A t \in named : t \in CdnTunnels
  OBVIOUS
<1> HIDE DEF frontedConf, ownConf, signal, listed, ownEvidence, named
<1>5. \A id, conf, e, p : conf \in 40..100 => MatchOK(Match(id, conf, e, p))
  <2> TAKE id, conf, e, p
  <2> HAVE conf \in 40..100
  <2>1. conf \in 0..100
    OBVIOUS
  <2> QED BY <2>1, MatchIsOK
<1>6. MatchOK(Match("cdn_fronting", frontedConf, listed, 30))
  BY <1>1, <1>5, Zenon
<1>7. \A t \in named : MatchOK(OwnMatch(t))
  BY <1>2, <1>4, <1>5, Zenon
<1> HIDE DEF OwnMatch
<1> QED BY <1>3, <1>6, <1>7

\* The match of a server without anything before it.
LEMMA DirectVpsMatchOK ==
  ASSUME NEW c, NEW dns, NEW net, NEW conn, NEW dep
  PROVE  \A m \in DirectVpsMatch(c, dns, net, conn, dep) : MatchOK(m)
<1> DEFINE direct == IsIp(c.address)
           first == {n \in net : n.pos = 1 /\ n.is_datacenter}
           some == first # {}
           named == ~direct /\ dns.a # {}
           conf == FirstOf(<< <<direct, 75>>, <<some, 70>>, <<named, 60>> >>, 45)
           listed == Selected(<< <<direct, "direct_ip">>, <<some, "datacenter">>, <<named, "dns_a">> >>)
<1>1. DirectVpsMatch(c, dns, net, conn, dep) \subseteq {Match("direct_vps", conf, listed, 60)}
  BY DEF DirectVpsMatch
<1> HIDE DEF direct, some, named, listed
<1>2. conf \in 0..100
  BY FirstOfThree
<1>3. "direct_vps" \notin CdnTunnelIds
  BY DEF CdnTunnelIds
<1> HIDE DEF conf
<1>4. MatchOK(Match("direct_vps", conf, listed, 60))
  BY <1>2, <1>3, MatchIsOK
<1> QED BY <1>1, <1>4

\* The match of an inbound of Xray itself.
LEMMA DirectInboundMatchOK ==
  ASSUME NEW net, NEW conn, NEW dep, NEW verified
  PROVE  \A m \in DirectInboundMatch(net, conn, dep, verified) : MatchOK(m)
<1> DEFINE conf == IF conn.http_panel THEN 78 ELSE 62
<1>1. \A m \in DirectInboundMatch(net, conn, dep, verified) : \E e : m = Match("direct_xray_inbound", conf, e, 70)
  BY DEF DirectInboundMatch
<1>2. conf \in 0..100
  OBVIOUS
<1>3. "direct_xray_inbound" \notin CdnTunnelIds
  BY DEF CdnTunnelIds
<1> HIDE DEF conf
<1> QED BY <1>1, <1>2, <1>3, MatchIsOK

\* The guess that the match of the reverse proxy starts from.
ProxyGuess(dep) == dep.guesses["Reverse Proxy"]

\* The match of a reverse proxy.
LEMMA ReverseProxyMatchOK ==
  ASSUME NEW c, NEW conn, NEW dep, IsScore(ProxyGuess(dep)), NEW verified
  PROVE  \A m \in ReverseProxyMatch(c, conn, dep, verified) : PlainMatch(m)
<1> DEFINE guessed == ProxyGuess(dep)
           seen == conn.http_reverse_proxy # ""
           proxied == EffectiveTransport(c) \in {"WebSocket", "XHTTP", "gRPC", "HTTPUpgrade"}
           up72 == Max({guessed, 72})
           up35 == Max({guessed, 35})
           raised == FirstOf(<< <<seen, up72>>, <<proxied, up35>> >>, guessed)
           fronted == conn.http_cdn # "" /\ ~seen
           own == verified /\ ~seen
           caps == {raised} \cup (IF fronted THEN {30} ELSE {}) \cup (IF own THEN {28} ELSE {})
           conf == Min(caps)
           listed == {"transport", "heuristic"} \cup (IF conn.http_response # "Pending" THEN {"http_test"} ELSE {})
<1>1. ReverseProxyMatch(c, conn, dep, verified) \subseteq {Match("reverse_proxy", conf, listed, 80)}
  BY DEF ReverseProxyMatch, ProxyGuess
<1> HIDE DEF seen, proxied, guessed, fronted, own, listed, up72, up35, raised, caps, conf
<1>2. guessed \in Int /\ 0 <= guessed /\ guessed <= 100
  <2>1. PICK g : g \in 0..100 /\ g = guessed
    BY Zenon DEF IsScore, guessed
  <2>2. g \in Int /\ 0 <= g /\ g <= 100
    BY <2>1
  <2> QED BY <2>1, <2>2, Zenon
<1>3. up72 \in Int /\ 0 <= up72 /\ up72 <= 100 /\ up35 \in Int /\ 0 <= up35 /\ up35 <= 100
  BY <1>2 DEF Max, up72, up35
<1>4. raised \in Int /\ 0 <= raised /\ raised <= 100
  BY <1>2, <1>3, FirstOfTwo DEF raised
<1>5. Within(caps, 0, 100)
  BY <1>4 DEF Within, caps
<1>6. conf \in 0..100
  BY <1>5, MaxMinWithin DEF conf
<1>7. "reverse_proxy" \notin PathIds
  BY DEF PathIds, CdnTunnelIds, DirectTopologyIds
<1>8. 80 \in Nat
  OBVIOUS
<1>9. PlainMatch(Match("reverse_proxy", conf, listed, 80))
  BY <1>6, <1>7, <1>8, OtherMatchIsOK
<1> QED BY <1>1, <1>9

\* Every detected tunnel.
LEMMA DetectedAreOK ==
  ASSUME NEW q, EdgesRated(q.net), IsScore(ProxyGuess(q.dep))
  PROVE  \A m \in DetectedTunnels(q) : MatchOK(m)
BY ProtocolMatchesOK, CdnMatchesOK, FrontingMatchesOK, DirectVpsMatchOK, DirectInboundMatchOK, ReverseProxyMatchOK,
   RemarkMatchesOK DEF DetectedTunnels, PlainMatch

--------------------------------------------------------------------------------
(* The matches after the calibration. *)

\* The fields of a match after the calibration.
RatedFields == {"id", "conf", "evidence", "place", "cal", "level"}

\* A match keeps its percentage and has a calibrated value within the caps.
RatedOK(m, live) ==
  /\ DOMAIN m = RatedFields
  /\ m.conf \in 0..100
  /\ CalOK(m.cal, m.level, live)

\* The value of a CDN match is not small: 1500 may be taken from it.
EdgeKept(m) == m.id \in CdnTunnelIds => NotSmall(m.cal)

\* The smaller of two naturals.
LEMMA LowerOfTwo ==
  ASSUME NEW x \in Int, NEW y \in Int, 0 <= x, 0 <= y
  PROVE  Min({x, y}) \in Int /\ 0 <= Min({x, y}) /\ Min({x, y}) <= x
BY DEF Min

\* Lowering a calibrated value to caps that are not small keeps its bounds.
LEMMA Lowered ==
  ASSUME NEW v \in Int, 0 <= v, NEW S, \A x \in S : NotSmall(x)
  PROVE  LET low == Min({v} \cup S)
         IN  low \in Int /\ 0 <= low /\ low <= v /\ (NotSmall(v) => NotSmall(low))
<1> DEFINE all == {v} \cup S
<1>1. all \in SUBSET Int /\ all # {} /\ v \in all /\ \A x \in all : 0 <= x
  BY DEF NotSmall
<1>2. NotSmall(v) => \A x \in all : NotSmall(x)
  OBVIOUS
<1> HIDE DEF all
<1>3. Min(all) \in all /\ \A x \in all : Min(all) <= x
  BY <1>1, BoundedMin
<1>4. Min(all) \in Int /\ 0 <= Min(all) /\ Min(all) <= v
  BY <1>1, <1>3
<1>5. NotSmall(v) => NotSmall(Min(all))
  BY <1>2, <1>3, Zenon
<1> QED BY <1>4, <1>5 DEF all

\* The calibration of a match.
LEMMA CalibratedTunnelOK ==
  ASSUME NEW m, MatchOK(m), NEW live
  PROVE  RatedOK(CalibratedTunnel(m, live), live) /\ EdgeKept(CalibratedTunnel(m, live))
<1> DEFINE count == Cardinality(m.evidence)
           direct == DirectObservation(m.evidence)
           heuristic == m.conf < 40 /\ count < 2
           cal == CalibrateEvidence(m.conf, live, count, direct, heuristic)
           t == CalibratedTunnel(m, live)
<1>1. t = [id |-> m.id, conf |-> m.conf, evidence |-> m.evidence, place |-> m.place,
           cal |-> cal.value, level |-> cal.level]
  BY DEF CalibratedTunnel, RatedTunnel
<1> HIDE DEF count, direct, heuristic, cal, t
<1>2. m.conf \in 0..100 /\ (m.id \in CdnTunnelIds => 40 <= m.conf)
  BY DEF MatchOK
<1>3. CalibrationOK(cal, m.conf, live)
  BY <1>2, CalibrationRange DEF cal
<1>4. DOMAIN t = RatedFields /\ t.conf = m.conf /\ t.id = m.id /\ t.cal = cal.value /\ t.level = cal.level
  BY <1>1 DEF RatedFields
<1>5. RatedOK(t, live)
  BY <1>2, <1>3, <1>4, Zenon DEF RatedOK, CalibrationOK
<1>6. EdgeKept(t)
  BY <1>2, <1>3, <1>4 DEF EdgeKept, CalibrationOK
<1> QED BY <1>5, <1>6 DEF t

\* The conflict rules of one match keep its rating within its bounds.
LEMMA ResolvedTunnelOK ==
  ASSUME NEW m, NEW live, RatedOK(m, live), EdgeKept(m), NEW q, NEW cdnStrong
  PROVE  RatedOK(ResolveTunnel(m, q, cdnStrong), live) /\ EdgeKept(ResolveTunnel(m, q, cdnStrong))
<1> DEFINE onCdn == m.id \in CdnTunnelIds
           contradicted == cdnStrong /\ m.id \in DirectTopologyIds
           unseen == onCdn /\ ~CdnDetected(q) /\ m.conf < 75
           proxied == m.id = "direct_xray_inbound" /\ q.conn.http_reverse_proxy # ""
           caps == (IF contradicted THEN {5500} ELSE {}) \cup (IF unseen THEN {6200} ELSE {})
                      \cup (IF proxied THEN {5000} ELSE {})
           all == {m.cal} \cup (IF contradicted THEN {5500} ELSE {}) \cup (IF unseen THEN {6200} ELSE {})
                      \cup (IF proxied THEN {5000} ELSE {})
           cal == Min(all)
           level == FirstOf(<< <<proxied, "Weak">>, <<contradicted, Demote(m.level, 2)>>,
                               <<unseen, Demote(m.level, 1)>> >>, m.level)
           t == ResolveTunnel(m, q, cdnStrong)
<1>1. t = [m EXCEPT !.cal = cal, !.level = level]
  BY DEF ResolveTunnel
<1> HIDE DEF onCdn, contradicted, unseen, proxied
<1>2. all = {m.cal} \cup caps
  BY Zenon
<1>a. caps \subseteq {5500, 6200, 5000}
  OBVIOUS
<1> HIDE DEF caps, all
<1>b. \A x \in caps : NotSmall(x)
  BY <1>a DEF NotSmall
<1>3. \A l \in {Demote(m.level, 1), Demote(m.level, 2)} : l \in LevelNames \ {"Proven"}
  BY DemoteWeakens DEF RatedOK, CalOK
<1>4. level \in {Demote(m.level, 2), "Weak", Demote(m.level, 1), m.level}
  BY FirstOfThree
<1> HIDE DEF level
<1>5. level \in LevelNames /\ (level = "Proven" => m.level = "Proven")
  BY <1>3, <1>4 DEF RatedOK, CalOK, LevelNames
<1>6. m.cal \in Int /\ 0 <= m.cal
  BY CalIsInt DEF RatedOK
<1>7. cal \in Int /\ 0 <= cal /\ cal <= m.cal /\ (NotSmall(m.cal) => NotSmall(cal))
  BY <1>2, <1>b, <1>6, Lowered
<1> HIDE DEF cal, t
<1>8. CalOK(cal, level, live)
  BY <1>5, <1>7, CalLowered DEF RatedOK
<1>9. DOMAIN t = RatedFields /\ t.cal = cal /\ t.level = level /\ t.conf = m.conf /\ t.id = m.id
  BY <1>1 DEF RatedOK, RatedFields
<1>11. RatedOK(t, live)
  BY <1>8, <1>9, Zenon DEF RatedOK
<1>12. EdgeKept(t)
  BY <1>7, <1>9 DEF EdgeKept
<1> QED BY <1>11, <1>12 DEF t

\* Whatever the conflict rules lower, the ratings stay within their bounds.
LEMMA RulesKeepRatings ==
  ASSUME NEW S, NEW live, \A m \in S : RatedOK(m, live) /\ EdgeKept(m), NEW q
  PROVE  \A m \in TunnelConflictRules(S, q) : RatedOK(m, live)
<1> DEFINE onCdn(T) == {m \in T : m.id \in CdnTunnelIds}
           cdnStrong == CdnDetected(q) /\ \E m \in onCdn(S) : m.conf >= 65
           updated == {ResolveTunnel(m, q, cdnStrong) : m \in S}
           best == Max({0} \cup {m.cal : m \in onCdn(updated)})
           cals == {0} \cup {m.cal : m \in onCdn(updated)}
           beaten(m) == m \in onCdn(updated) /\ m.cal < best
           lower(m) == Min({m.cal, best - 1500})
           Final(m) == IF beaten(m) THEN [m EXCEPT !.cal = lower(m), !.level = Demote(m.level, 1)] ELSE m
<1>1. TunnelConflictRules(S, q) = {Final(m) : m \in updated}
  BY DEF TunnelConflictRules
<1> HIDE DEF cdnStrong
<1>2. \A m \in updated : RatedOK(m, live) /\ EdgeKept(m)
  BY ResolvedTunnelOK
<1> HIDE DEF updated
<1>3. ASSUME NEW m \in updated PROVE m.cal \in Int /\ 0 <= m.cal /\ m.cal <= ConfidenceCap
  BY <1>2, CalIsInt DEF RatedOK
<1>4. Within(cals, 0, ConfidenceCap)
  <2>1. \A x \in cals : x \in Int /\ 0 <= x /\ x <= ConfidenceCap
    BY <1>3, CapsAre
  <2> QED BY <2>1 DEF Within
<1>5. best = Max(cals)
  OBVIOUS
<1> HIDE DEF cals, best
<1>6. best \in Int
  BY <1>4, <1>5, CapsAre, MaxMinWithin
<1>7. ASSUME NEW m \in updated PROVE RatedOK(Final(m), live)
  <2>1. CASE ~beaten(m)
    <3> HIDE DEF beaten, lower
    <3>1. Final(m) = m
      BY <2>1, Zenon
    <3> QED BY <1>2, <3>1, Zenon
  <2>2. CASE beaten(m)
    <3>1. m.cal \in Int /\ 1500 <= m.cal /\ m.cal < best
      <4>1. NotSmall(m.cal) /\ m.cal < best
        BY <1>2, <2>2 DEF EdgeKept
      <4> QED BY <4>1 DEF NotSmall
    <3>2. PICK c \in Int, b \in Int : c = m.cal /\ b = best - 1500 /\ 0 <= b /\ 0 <= c
      BY <1>6, <3>1
    <3>3. Min({c, b}) \in Int /\ 0 <= Min({c, b}) /\ Min({c, b}) <= c
      <4>1. 0 <= c /\ 0 <= b
        BY <3>2
      <4> QED BY <4>1, LowerOfTwo
    <3>4. lower(m) \in Int /\ 0 <= lower(m) /\ lower(m) <= m.cal
      BY <3>2, <3>3
    <3> DEFINE level == Demote(m.level, 1)
               cal == lower(m)
               t == Final(m)
    <3>5. level \in LevelNames /\ level # "Proven"
      BY <1>2, DemoteWeakens DEF RatedOK, CalOK
    <3> HIDE DEF beaten, lower
    <3>6. t = [m EXCEPT !.cal = cal, !.level = level]
      BY <2>2, Zenon
    <3>a. RatedOK(m, live)
      BY <1>2
    <3> HIDE DEF level, Final, t
    <3>7. DOMAIN t = RatedFields /\ t.cal = cal /\ t.level = level /\ t.conf = m.conf
      BY <3>a, <3>6 DEF RatedOK, RatedFields
    <3>8. CalOK(cal, level, live)
      BY <3>4, <3>5, <3>a, CalLowered DEF RatedOK
    <3>11. RatedOK(t, live)
      BY <3>7, <3>8, <3>a, Zenon DEF RatedOK
    <3> QED BY <3>11 DEF t
  <2> QED BY <2>1, <2>2
<1> HIDE DEF Final
<1> QED BY <1>1, <1>7

\* The alignment caps the raw confidences and leaves the calibrated values alone.
LEMMA AlignKeepsRatings ==
  ASSUME NEW tun, "detected" \in DOMAIN tun, NEW live, \A m \in tun.detected : RatedOK(m, live), NEW diag
  PROVE  LET a == AlignTunnels(tun, diag)
         IN  DOMAIN a = DOMAIN tun /\ \A m \in a.detected : RatedOK(m, live)
<1> DEFINE tier == diag.tier
           Adjusted(m) == [m EXCEPT !.conf = CapTunnelConfidence(m.id, @, tier),
                                   !.evidence = IF m.id \in CdnTunnelIds /\ tier = "unconfirmed"
                                                THEN @ \cup {"cdn_unconfirmed"} ELSE @]
           a == AlignTunnels(tun, diag)
<1>1. DOMAIN a = DOMAIN tun /\ a.detected = {Adjusted(m) : m \in tun.detected}
  BY DEF AlignTunnels
<1>2. ASSUME NEW m \in tun.detected PROVE RatedOK(Adjusted(m), live)
  <2> DEFINE c1 == m.id \in CdnTunnelIds /\ tier = "unconfirmed"
             c2 == m.id \in CdnTunnelIds /\ tier = "probable"
             c3 == m.id = "direct_vps" /\ tier # "confirmed"
             v1 == Min({m.conf, 42})
             v2 == Min({m.conf, 62})
             v3 == Max({m.conf, 48})
             conf == CapTunnelConfidence(m.id, m.conf, tier)
  <2>1. conf = FirstOf(<< <<c1, v1>>, <<c2, v2>>, <<c3, v3>> >>, m.conf)
    BY DEF CapTunnelConfidence
  <2>2. PICK c \in Int : c = m.conf /\ 0 <= c /\ c <= 100
    BY <1>2 DEF RatedOK
  <2>3. /\ Min({c, 42}) \in Int /\ 0 <= Min({c, 42}) /\ Min({c, 42}) <= 100
        /\ Min({c, 62}) \in Int /\ 0 <= Min({c, 62}) /\ Min({c, 62}) <= 100
        /\ Max({c, 48}) \in Int /\ 0 <= Max({c, 48}) /\ Max({c, 48}) <= 100
    BY <2>2 DEF Min, Max
  <2>4. v1 \in 0..100 /\ v2 \in 0..100 /\ v3 \in 0..100 /\ m.conf \in 0..100
    BY <2>2, <2>3
  <2> HIDE DEF c1, c2, c3, v1, v2, v3, conf
  <2>5. conf \in 0..100
    BY <2>1, <2>4, FirstOfThree
  <2>6. \E e : Adjusted(m) = [m EXCEPT !.conf = conf, !.evidence = e]
    BY DEF conf
  <2> HIDE DEF Adjusted
  <2> DEFINE t == Adjusted(m)
  <2> HIDE DEF t
  <2>7. DOMAIN t = RatedFields /\ t.conf = conf /\ t.cal = m.cal /\ t.level = m.level
    BY <1>2, <2>6 DEF RatedOK, RatedFields, t
  <2>8. RatedOK(m, live)
    BY <1>2
  <2>9. RatedOK(t, live)
    BY <2>5, <2>7, <2>8, Zenon DEF RatedOK
  <2> QED BY <2>9 DEF t
<1> HIDE DEF Adjusted, a
<1>3. DOMAIN a = DOMAIN tun /\ \A m \in a.detected : RatedOK(m, live)
  BY <1>1, <1>2
<1> QED BY <1>3 DEF a

--------------------------------------------------------------------------------
(* The whole calibration. *)

\* What the calibration makes of the scored guesses and of the matches.
GuessesScored(dep) ==
  /\ "guesses" \in DOMAIN dep
  /\ DOMAIN dep.guesses = GuessNames
  /\ \A name \in GuessNames : IsScore(dep.guesses[name])

\* The shape of a calibrated guess.
RatedGuess(g) == DOMAIN g = {"name", "conf", "cal", "level"} /\ g.level \in LevelNames

\* Calibrated guesses of which at most one CDN is strong.
GuessesRated(guesses) == OneStrong(guesses) /\ \A g \in guesses : RatedGuess(g)

\* A level that the report may print: nothing is proven without verified traffic.
LevelAllowed(level, live) == level \in LevelNames /\ (~live => level # "Proven")

\* The levels of the insights.
InsightsAllowed(insights, live) == \A i \in insights : LevelAllowed(i.level, live)

\* The ratings of the detected tunnels.
TunnelsRated(tun, live) == "detected" \in DOMAIN tun /\ \A m \in tun.detected : RatedOK(m, live)

\* The deployment guess consists of percentages.
LEMMA DeploymentScores ==
  ASSUME NEW c, NEW dns, NEW net, LookedUpOK(net), NEW conn, NEW trace
  PROVE  GuessesScored(AnalyzeDeployment(c, dns, net, conn, trace))
<1> DEFINE dep == AnalyzeDeployment(c, dns, net, conn, trace)
<1>1. "guesses" \in DOMAIN dep /\ dep.guesses = [name \in GuessNames |-> GuessOf(name, c, dns, net, conn)]
  BY DEF AnalyzeDeployment, Guesses
<1> HIDE DEF dep
<1>2. GuessesScored(dep)
  BY <1>1, GuessScore DEF GuessesScored
<1> QED BY <1>2 DEF dep

\* The rules change no name and raise no guess to proven.
LEMMA RulesKeepGuesses ==
  ASSUME NEW S, NEW live, \A g \in S : IsGuess(g) /\ LevelAllowed(g.level, live), NEW q
  PROVE  \A g \in DeploymentConflictRules(S, q) : RatedGuess(g) /\ LevelAllowed(g.level, live)
<1> DEFINE likely(T) == {g \in T : g.name \in CdnGuessNames /\ g.conf >= 55}
           cdnStrong == CdnDetected(q) /\ \E g \in S : g.name \in CdnGuessNames /\ g.conf >= 70
           updated == {ResolveGuess(g, q, cdnStrong) : g \in S}
           winners == {g \in likely(updated) : \A o \in likely(updated) : o.cal <= g.cal}
           winner == CHOOSE g \in winners : \A o \in winners :
                      o.conf < g.conf \/ (o.conf = g.conf /\ GuessPos(g.name) <= GuessPos(o.name))
           Lower(g) == Min({g.cal, 5800})
           Weakened(g) == IF g \in likely(updated) \ {winner}
                          THEN [g EXCEPT !.cal = Lower(g), !.level = "Weak"] ELSE g
<1>1. DeploymentConflictRules(S, q) = IF Cardinality(likely(updated)) < 2 THEN updated
                                      ELSE {Weakened(g) : g \in updated}
  BY DEF DeploymentConflictRules
<1>2. ASSUME NEW g \in updated PROVE RatedGuess(g) /\ LevelAllowed(g.level, live)
  <2>1. PICK h \in S : g = ResolveGuess(h, q, cdnStrong)
    OBVIOUS
  <2> HIDE DEF updated, cdnStrong
  <2>2. IsGuess(g) /\ (g.level = "Proven" => h.level = "Proven")
    BY <2>1, ResolvedStaysGuess
  <2> QED BY <2>2 DEF IsGuess, RatedGuess, LevelAllowed
<1> HIDE DEF likely, updated, winner, Lower
<1>3. ASSUME NEW g \in updated PROVE RatedGuess(Weakened(g)) /\ LevelAllowed(Weakened(g).level, live)
  <2>1. CASE Weakened(g) = g
    BY <1>2, <2>1
  <2>2. CASE Weakened(g) = [g EXCEPT !.cal = Lower(g), !.level = "Weak"]
    <3> HIDE DEF Weakened
    <3>1. RatedGuess(g)
      BY <1>2
    <3> QED BY <2>2, <3>1 DEF RatedGuess, LevelAllowed, LevelNames
  <2>3. Weakened(g) = g \/ Weakened(g) = [g EXCEPT !.cal = Lower(g), !.level = "Weak"]
    BY Zenon
  <2> QED BY <2>1, <2>2, <2>3
<1> HIDE DEF Weakened
<1> QED BY <1>1, <1>2, <1>3

\* The calibrated guesses, before the rules between them.
LEMMA GuessesCalibrated ==
  ASSUME NEW q, GuessesScored(q.dep)
  PROVE  LET S == {CalibratedGuess(n, q.dep.guesses[n], q) : n \in DOMAIN q.dep.guesses}
         IN  /\ IsFiniteSet(S)
             /\ \A g \in S : IsGuess(g) /\ LevelAllowed(g.level, LiveProxyOk(q))
<1> DEFINE f == [n \in GuessNames |-> CalibratedGuess(n, q.dep.guesses[n], q)]
           S == {CalibratedGuess(n, q.dep.guesses[n], q) : n \in DOMAIN q.dep.guesses}
<1>1. S = {f[n] : n \in GuessNames} /\ DOMAIN f = GuessNames
  BY DEF GuessesScored
<1>2. ASSUME NEW n \in GuessNames PROVE IsGuess(f[n]) /\ LevelAllowed(f[n].level, LiveProxyOk(q))
  <2>1. q.dep.guesses[n] \in 0..100
    BY DEF GuessesScored, IsScore
  <2>2. f[n] = CalibratedGuess(n, q.dep.guesses[n], q)
    OBVIOUS
  <2> HIDE DEF f
  <2>3. PICK conf \in 0..100 : conf = q.dep.guesses[n]
    BY <2>1
  <2>4. /\ IsGuess(CalibratedGuess(n, conf, q))
        /\ ~LiveProxyOk(q) => CalibratedGuess(n, conf, q).level # "Proven"
    BY CalibratedIsGuess
  <2>5. f[n] = CalibratedGuess(n, conf, q)
    BY <2>2, <2>3
  <2> QED BY <2>4, <2>5 DEF LevelAllowed, IsGuess
<1> HIDE DEF f, S
<1>3. IsFiniteSet({f[n] : n \in GuessNames})
  BY <1>1, GuessesAreFinite, RangeIsFinite, Zenon
<1>4. IsFiniteSet(S) /\ \A g \in S : IsGuess(g) /\ LevelAllowed(g.level, LiveProxyOk(q))
  BY <1>1, <1>2, <1>3
<1> QED BY <1>4 DEF S

\* The insights of a calibration, as CalibrationOf writes them.
InsightsOf(tunnels, guesses, live, dpi, camouflage, origin) ==
    LET scored == IF live THEN "Strong" ELSE "Weak"
    IN  {Insight("Tunnel", m.id, m.level) : m \in tunnels} \cup
        {Insight("Deployment", g.name, g.level) : g \in {h \in guesses : h.conf >= 35}} \cup
        Selected(<<
            <<dpi.score # NoScore, Insight("DPI", "dpi", scored)>>,
            <<camouflage.score # NoScore, Insight("Camouflage", "camouflage", scored)>>,
            <<origin.score # NoScore,
              Insight("Origin", "origin", IF origin.factors # {} THEN "Strong" ELSE "Speculative")>> >>)

\* Every insight of the calibration has an allowed level.
LEMMA InsightsCalibrated ==
  ASSUME NEW tunnels, NEW guesses, NEW live, NEW dpi, NEW camouflage, NEW origin,
         \A m \in tunnels : RatedOK(m, live), \A g \in guesses : LevelAllowed(g.level, live)
  PROVE  InsightsAllowed(InsightsOf(tunnels, guesses, live, dpi, camouflage, origin), live)
<1> DEFINE scored == IF live THEN "Strong" ELSE "Weak"
           known == IF origin.factors # {} THEN "Strong" ELSE "Speculative"
           ofTunnels == {Insight("Tunnel", m.id, m.level) : m \in tunnels}
           ofGuesses == {Insight("Deployment", g.name, g.level) : g \in {h \in guesses : h.conf >= 35}}
           a == dpi.score # NoScore
           b == camouflage.score # NoScore
           c == origin.score # NoScore
           i1 == Insight("DPI", "dpi", scored)
           i2 == Insight("Camouflage", "camouflage", scored)
           i3 == Insight("Origin", "origin", known)
           ofScores == Selected(<< <<a, i1>>, <<b, i2>>, <<c, i3>> >>)
<1>1. \A x, y, l : Insight(x, y, l).level = l
  BY DEF Insight
<1>2. LevelAllowed(scored, live) /\ LevelAllowed(known, live)
  BY DEF LevelAllowed, LevelNames
<1>3. ASSUME NEW i \in ofTunnels PROVE LevelAllowed(i.level, live)
  <2>1. PICK m \in tunnels : i = Insight("Tunnel", m.id, m.level)
    OBVIOUS
  <2>2. LevelAllowed(m.level, live)
    BY DEF RatedOK, CalOK, LevelAllowed
  <2> QED BY <1>1, <2>1, <2>2
<1>4. ASSUME NEW i \in ofGuesses PROVE LevelAllowed(i.level, live)
  <2>1. PICK g \in guesses : i = Insight("Deployment", g.name, g.level)
    OBVIOUS
  <2> QED BY <1>1, <2>1
<1> HIDE DEF ofTunnels, ofGuesses, scored, known, a, b, c
<1>5. LevelAllowed(i1.level, live) /\ LevelAllowed(i2.level, live) /\ LevelAllowed(i3.level, live)
  BY <1>1, <1>2, Zenon
<1> HIDE DEF i1, i2, i3
<1>6. ofScores \subseteq {i1, i2, i3}
  BY SelectedThree
<1> HIDE DEF ofScores
<1>7. InsightsAllowed(ofTunnels \cup ofGuesses \cup ofScores, live)
  BY <1>3, <1>4, <1>5, <1>6 DEF InsightsAllowed
<1> QED BY <1>7 DEF ofTunnels, ofGuesses, ofScores, scored, known, a, b, c, i1, i2, i3, InsightsOf

\* The whole calibration.
LEMMA CalibrationHolds ==
  ASSUME NEW q, GuessesScored(q.dep), \A m \in q.tun.detected : MatchOK(m), NEW dpi, NEW camouflage, NEW origin
  PROVE  LET cal == CalibrationOf(q, dpi, camouflage, origin)
         IN  /\ GuessesRated(cal.guesses)
             /\ InsightsAllowed(cal.insights, LiveProxyOk(q))
             /\ \A m \in cal.tunnels : RatedOK(m, LiveProxyOk(q))
<1> DEFINE live == LiveProxyOk(q)
           matches == {CalibratedTunnel(m, live) : m \in {t \in q.tun.detected : t.evidence # {}}}
           raw == {CalibratedGuess(n, q.dep.guesses[n], q) : n \in DOMAIN q.dep.guesses}
           tunnels == TunnelConflictRules(matches, q)
           guesses == DeploymentConflictRules(raw, q)
           cal == CalibrationOf(q, dpi, camouflage, origin)
<1>1. \A m \in matches : RatedOK(m, live) /\ EdgeKept(m)
  BY CalibratedTunnelOK
<1>2. IsFiniteSet(raw) /\ \A g \in raw : IsGuess(g) /\ LevelAllowed(g.level, live)
  BY GuessesCalibrated
<1>3. cal.tunnels = tunnels /\ cal.guesses = guesses
  BY DEF CalibrationOf
<1> HIDE DEF matches, raw, live
<1>4. \A m \in tunnels : RatedOK(m, live)
  BY <1>1, RulesKeepRatings
<1>5. \A g \in guesses : RatedGuess(g) /\ LevelAllowed(g.level, live)
  BY <1>2, RulesKeepGuesses
<1>6. OneStrong(guesses)
  BY <1>2, RulesLeaveOneStrong
<1> HIDE DEF tunnels, guesses
<1>7. InsightsAllowed(cal.insights, live)
  <2>1. cal.insights = InsightsOf(tunnels, guesses, live, dpi, camouflage, origin)
    BY DEF CalibrationOf, InsightsOf, live, tunnels, guesses, matches, raw
  <2>2. \A g \in guesses : LevelAllowed(g.level, live)
    BY <1>5
  <2>3. InsightsAllowed(InsightsOf(tunnels, guesses, live, dpi, camouflage, origin), live)
    BY <1>4, <2>2, InsightsCalibrated
  <2> QED BY <2>1, <2>3, Zenon
<1> HIDE DEF cal
<1>8. GuessesRated(cal.guesses) /\ InsightsAllowed(cal.insights, live) /\ \A m \in cal.tunnels : RatedOK(m, live)
  BY <1>3, <1>4, <1>5, <1>6, <1>7 DEF GuessesRated
<1> QED BY <1>8 DEF cal, live

\* The alignment changes neither the names nor the levels of the guesses.
LEMMA AlignKeepsGuesses ==
  ASSUME NEW dep, "guesses" \in DOMAIN dep, GuessesRated(dep.guesses), NEW tier
  PROVE  LET a == AlignDeployment(dep, tier)
         IN  DOMAIN a = DOMAIN dep /\ GuessesRated(a.guesses)
<1> DEFINE a == AlignDeployment(dep, tier)
<1>1. DOMAIN a = DOMAIN dep /\ a.guesses = {AlignedGuess(g, tier) : g \in dep.guesses}
  BY DEF AlignDeployment
<1>2. ASSUME NEW g \in dep.guesses
      PROVE  LET h == AlignedGuess(g, tier) IN RatedGuess(h) /\ h.name = g.name /\ h.level = g.level
  <2> DEFINE h == AlignedGuess(g, tier)
  <2>1. \E conf : h = [g EXCEPT !.conf = conf]
    BY DEF AlignedGuess
  <2> HIDE DEF h
  <2>2. RatedGuess(g)
    BY DEF GuessesRated
  <2>3. RatedGuess(h) /\ h.name = g.name /\ h.level = g.level
    BY <2>1, <2>2 DEF RatedGuess
  <2> QED BY <2>3 DEF h
<1> HIDE DEF a
<1>3. OneStrong(a.guesses)
  BY <1>1, <1>2 DEF OneStrong, StrongCdn, Strong, GuessesRated
<1>4. GuessesRated(a.guesses)
  BY <1>1, <1>2, <1>3 DEF GuessesRated
<1> QED BY <1>1, <1>4 DEF a

--------------------------------------------------------------------------------
(* The verdict on a run. *)

\* A decision table of seven rows.
LEMMA FirstOfSeven ==
  ASSUME NEW a, NEW x, NEW b, NEW y, NEW c, NEW z, NEW e, NEW u, NEW f, NEW v, NEW g, NEW w, NEW h, NEW t, NEW d
  PROVE  FirstOf(<< <<a, x>>, <<b, y>>, <<c, z>>, <<e, u>>, <<f, v>>, <<g, w>>, <<h, t>> >>, d)
           = IF a THEN x ELSE IF b THEN y ELSE IF c THEN z ELSE IF e THEN u ELSE IF f THEN v ELSE IF g THEN w
             ELSE IF h THEN t ELSE d
BY FirstRowDecides

\* A run is verified exactly if it passes every conjunct of the criterion.
LEMMA VerifiedIs ==
  ASSUME NEW x
  PROVE  VerifiedStage(x) = "verified" <=>
           /\ x.config_validation # "Invalid" /\ x.proxy_test # "Not tested" /\ x.proxy_test = "Valid"
           /\ x.socks_handshake_verified /\ x.process_alive_after_e2e /\ x.e2e_contract_ok /\ x.internet_e2e_verified
<1> DEFINE a == x.config_validation = "Invalid"
           b == x.proxy_test = "Not tested"
           c == x.proxy_test # "Valid"
           d == ~x.socks_handshake_verified
           e == ~x.process_alive_after_e2e
           f == ~x.e2e_contract_ok
           g == ~x.internet_e2e_verified
<1>1. VerifiedStage(x) = FirstOf(<< <<a, "config_validation">>, <<b, "not_run">>, <<c, "proxy_probe">>,
        <<d, "socks_handshake">>, <<e, "process_exit">>, <<f, "e2e_contract">>, <<g, "incomplete">> >>, "verified")
  BY DEF VerifiedStage
<1> HIDE DEF a, b, c, d, e, f, g
<1>2. VerifiedStage(x) = "verified" <=> ~a /\ ~b /\ ~c /\ ~d /\ ~e /\ ~f /\ ~g
  BY <1>1, FirstOfSeven
<1> QED BY <1>2 DEF a, b, c, d, e, f, g

\* The status of the probe and the whole criterion say the same of a run.
RunConsistent(x) == (x.proxy_test = "Valid") <=> (VerifiedStage(x) = "verified")

\* A run whose probe was not answered claims nothing.
LEMMA NotValidIsConsistent == ASSUME NEW x, x.proxy_test # "Valid" PROVE RunConsistent(x)
BY VerifiedIs DEF RunConsistent

\* The fields of the result of a run.
RunFields == {"config_validation", "proxy_test", "socks_handshake_verified", "process_alive_after_e2e",
              "e2e_contract_ok", "internet_e2e_verified", "status", "exit_ip", "leak_exit_ip", "exit_country",
              "baseline", "ip_leak", "dns_leak", "sites", "speed_test", "mbps", "latency", "heard"}

\* A result that was never run has all the fields and is pending.
LEMMA NoRunIs == DOMAIN NoRun = RunFields /\ NoRun.proxy_test = "Pending"
BY DEF NoRun, RunFields

\* A result that was taken back claims nothing.
LEMMA InvalidatedIsConsistent == ASSUME NEW x, DOMAIN x = RunFields PROVE RunConsistent(Invalidated(x))
<1>1. Invalidated(x).proxy_test = "Invalid"
  BY DEF Invalidated, RunFields
<1> QED BY <1>1, NotValidIsConsistent

\* The diagnostics write none of the fields of the criterion.
LEMMA DiagnosedKeeps ==
  ASSUME NEW x, DOMAIN x = RunFields, NEW o
  PROVE  LET d == Diagnosed(x, o)
         IN  /\ DOMAIN d = RunFields /\ d.config_validation = x.config_validation /\ d.proxy_test = x.proxy_test
             /\ d.socks_handshake_verified = x.socks_handshake_verified /\ d.e2e_contract_ok = x.e2e_contract_ok
<1> DEFINE d == Diagnosed(x, o)
           leak == RunLeakCheck(o.direct, o.trace, o.second)
           sites == RunSiteReachability(o.codes)
           speed == SpeedStatus(o.bytes)
           heard == ToSet(o.direct)
<1>1. d = IF ~o.diagnosed THEN x
          ELSE [x EXCEPT !.sites = sites, !.speed_test = speed,
                         !.mbps = o.mbps, !.heard = heard, !.baseline = leak.baseline, !.ip_leak = leak.ip_leak,
                         !.dns_leak = leak.dns_leak, !.leak_exit_ip = leak.exit_ip,
                         !.exit_ip = leak.exit_ip, !.exit_country = leak.exit_country]
  BY DEF Diagnosed
<1> HIDE DEF d, leak, sites, speed, heard
<1>2. CASE ~o.diagnosed
  BY <1>1, <1>2 DEF d
<1>3. CASE o.diagnosed
  <2>1. d = [x EXCEPT !.sites = sites, !.speed_test = speed,
                      !.mbps = o.mbps, !.heard = heard, !.baseline = leak.baseline, !.ip_leak = leak.ip_leak,
                      !.dns_leak = leak.dns_leak, !.leak_exit_ip = leak.exit_ip,
                      !.exit_ip = leak.exit_ip, !.exit_country = leak.exit_country]
    BY <1>1, <1>3
  <2>2. DOMAIN d = RunFields
    BY <2>1
  <2>3. d.config_validation = x.config_validation /\ d.proxy_test = x.proxy_test
    BY <2>1 DEF RunFields
  <2>4. d.socks_handshake_verified = x.socks_handshake_verified /\ d.e2e_contract_ok = x.e2e_contract_ok
    BY <2>1 DEF RunFields
  <2> QED BY <2>2, <2>3, <2>4 DEF d
<1> QED BY <1>2, <1>3

\* The end of a run writes its status and whether the whole criterion holds.
LEMMA FinalizeKeeps ==
  ASSUME NEW x, DOMAIN x = RunFields
  PROVE  LET f == FinalizeRun(x)
         IN  /\ DOMAIN f = RunFields /\ f.config_validation = x.config_validation /\ f.proxy_test = x.proxy_test
             /\ f.socks_handshake_verified = x.socks_handshake_verified /\ f.e2e_contract_ok = x.e2e_contract_ok
             /\ f.process_alive_after_e2e = x.process_alive_after_e2e
             /\ f.internet_e2e_verified = (VerifiedStage(x) = "verified")
<1> DEFINE f == FinalizeRun(x)
           verified == VerifiedStage(x) = "verified"
<1>1. \E s : f = [x EXCEPT !.internet_e2e_verified = verified, !.status = s]
  BY DEF FinalizeRun
<1> HIDE DEF f, verified
<1>2. /\ DOMAIN f = RunFields /\ f.config_validation = x.config_validation /\ f.proxy_test = x.proxy_test
      /\ f.socks_handshake_verified = x.socks_handshake_verified /\ f.e2e_contract_ok = x.e2e_contract_ok
      /\ f.process_alive_after_e2e = x.process_alive_after_e2e
      /\ f.internet_e2e_verified = verified
  BY <1>1 DEF RunFields
<1> QED BY <1>2 DEF f, verified

\* Whatever happens during a test, its result is consistent.
LEMMA TestIsConsistent ==
  ASSUME NEW c, NEW real, NEW o
  PROVE  RunConsistent(TestConfigWithXray(c, real, o))
<1> DEFINE start == [NoRun EXCEPT !.proxy_test = IF real THEN "Pending" ELSE "Not tested"]
           validated == [start EXCEPT !.config_validation = o.validation]
           ready == [validated EXCEPT !.socks_handshake_verified = TRUE]
           probed == Probed(ready, o)
           diagnosed == Diagnosed(probed, o)
           ended == [diagnosed EXCEPT !.process_alive_after_e2e = TRUE, !.internet_e2e_verified = TRUE]
           c1 == c.protocol \notin SupportedProtocols
           c2 == o.validation = "Invalid"
           c3 == ~real
           c4 == ~o.ready
           c5 == o.alive = "never" \/ ~ContractOk(o)
           c6 == o.alive = "probe"
           checked == [validated EXCEPT !.status = IF o.validation = "Valid" THEN "Valid" ELSE "Invalid"]
           v1 == [start EXCEPT !.status = "Skipped"]
           v2 == [validated EXCEPT !.status = "Invalid", !.proxy_test = "Not tested"]
           v3 == FinalizeRun(checked)
           v4 == Invalidated(validated)
           v5 == Invalidated(probed)
           v6 == Invalidated(diagnosed)
           v7 == FinalizeRun(ended)
<1>1. TestConfigWithXray(c, real, o) =
        FirstOf(<< <<c1, v1>>, <<c2, v2>>, <<c3, v3>>, <<c4, v4>>, <<c5, v5>>, <<c6, v6>> >>, v7)
  BY DEF TestConfigWithXray
<1>2. DOMAIN start = RunFields /\ (start.proxy_test = "Pending" \/ start.proxy_test = "Not tested")
      /\ (~real => start.proxy_test = "Not tested")
  BY NoRunIs DEF RunFields
<1> HIDE DEF start
<1>3. DOMAIN validated = RunFields /\ validated.proxy_test = start.proxy_test /\ validated.config_validation = o.validation
  BY <1>2 DEF RunFields
<1> HIDE DEF validated
<1>4. DOMAIN ready = RunFields /\ ready.socks_handshake_verified = TRUE /\ ready.config_validation = o.validation
  BY <1>3 DEF RunFields
<1> HIDE DEF ready
<1>5. /\ DOMAIN probed = RunFields /\ probed.socks_handshake_verified = TRUE /\ probed.config_validation = o.validation
      /\ probed.proxy_test = ProbeResult(o) /\ probed.e2e_contract_ok = ContractOk(o)
  BY <1>4 DEF RunFields, Probed
<1> HIDE DEF probed
<1>6. /\ DOMAIN diagnosed = RunFields /\ diagnosed.socks_handshake_verified = TRUE
      /\ diagnosed.config_validation = o.validation
      /\ diagnosed.proxy_test = ProbeResult(o) /\ diagnosed.e2e_contract_ok = ContractOk(o)
  BY <1>5, DiagnosedKeeps
<1> HIDE DEF diagnosed
<1>7. /\ DOMAIN ended = RunFields /\ ended.socks_handshake_verified = TRUE
      /\ ended.config_validation = o.validation
      /\ ended.proxy_test = ProbeResult(o) /\ ended.e2e_contract_ok = ContractOk(o)
      /\ ended.process_alive_after_e2e = TRUE /\ ended.internet_e2e_verified = TRUE
  BY <1>6 DEF RunFields
<1> HIDE DEF ended
<1>8. DOMAIN checked = RunFields /\ checked.proxy_test = start.proxy_test
  BY <1>3 DEF RunFields
<1> HIDE DEF checked
<1>a. RunConsistent(v1)
  <2>1. v1.proxy_test # "Valid"
    BY <1>2 DEF RunFields
  <2> QED BY <2>1, NotValidIsConsistent
<1>b. RunConsistent(v2)
  <2>1. v2.proxy_test # "Valid"
    BY <1>3 DEF RunFields
  <2> QED BY <2>1, NotValidIsConsistent
<1>c. RunConsistent(v3)
  <2>1. v3.proxy_test # "Valid"
    BY <1>2, <1>8, FinalizeKeeps
  <2> QED BY <2>1, NotValidIsConsistent
<1>d. RunConsistent(v4) /\ RunConsistent(v5) /\ RunConsistent(v6)
  BY <1>3, <1>5, <1>6, InvalidatedIsConsistent
<1>e. ASSUME ~c2, ~c5 PROVE RunConsistent(v7)
  <2>1. o.validation # "Invalid" /\ ContractOk(o) /\ ProbeResult(o) = "Valid"
    BY <1>e DEF ProbeResult
  <2>2. VerifiedStage(ended) = "verified"
    BY <1>7, <2>1, VerifiedIs
  <2>3. /\ v7.config_validation = o.validation /\ v7.proxy_test = "Valid" /\ v7.socks_handshake_verified = TRUE
        /\ v7.e2e_contract_ok = ContractOk(o) /\ v7.process_alive_after_e2e = TRUE
        /\ v7.internet_e2e_verified = TRUE
    BY <1>7, <2>1, <2>2, FinalizeKeeps
  <2> HIDE DEF v7
  <2>4. VerifiedStage(v7) = "verified"
    BY <2>1, <2>3, VerifiedIs
  <2> QED BY <2>3, <2>4 DEF RunConsistent
<1> HIDE DEF c1, c2, c3, c4, c5, c6, v1, v2, v3, v4, v5, v6, v7
<1> QED BY <1>1, <1>a, <1>b, <1>c, <1>d, <1>e, FirstOfSix

--------------------------------------------------------------------------------
(* What the rows of a table select. *)

\* A table selects finitely many values.
LEMMA FiniteRows ==
  ASSUME NEW rows, NEW n \in Nat, DOMAIN rows = 1..n
  PROVE  IsFiniteSet(Selected(rows))
<1> DEFINE hits == {j \in DOMAIN rows : rows[j][1]}
           f == [i \in hits |-> rows[i][2]]
<1>1. IsFiniteSet(1..n)
  BY FS_Interval
<1>2. IsFiniteSet(hits)
  BY <1>1, FS_Subset
<1>3. Selected(rows) = {f[i] : i \in hits} /\ DOMAIN f = hits
  BY DEF Selected
<1> HIDE DEF hits, f
<1>4. IsFiniteSet({f[i] : i \in hits})
  BY <1>2, <1>3, RangeIsFinite, Zenon
<1> QED BY <1>3, <1>4

\* Three rows select some of their values.
LEMMA SomeOfThree ==
  ASSUME NEW c1, NEW x1, NEW c2, NEW x2, NEW c3, NEW x3
  PROVE  LET S == Selected(<< <<c1, x1>>, <<c2, x2>>, <<c3, x3>> >>)
         IN  IsFiniteSet(S) /\ S \subseteq {x1, x2, x3}
<1> DEFINE rows == << <<c1, x1>>, <<c2, x2>>, <<c3, x3>> >>
<1>1. DOMAIN rows = 1..3
  OBVIOUS
<1>2. Selected(rows) \subseteq {x1, x2, x3}
  BY DEF Selected
<1> HIDE DEF rows
<1>3. IsFiniteSet(Selected(rows)) /\ Selected(rows) \subseteq {x1, x2, x3}
  BY <1>1, <1>2, FiniteRows
<1> QED BY <1>3 DEF rows

\* Five rows select some of their values.
LEMMA SomeOfFive ==
  ASSUME NEW c1, NEW x1, NEW c2, NEW x2, NEW c3, NEW x3, NEW c4, NEW x4, NEW c5, NEW x5
  PROVE  LET S == Selected(<< <<c1, x1>>, <<c2, x2>>, <<c3, x3>>, <<c4, x4>>, <<c5, x5>> >>)
         IN  IsFiniteSet(S) /\ S \subseteq {x1, x2, x3, x4, x5}
<1> DEFINE rows == << <<c1, x1>>, <<c2, x2>>, <<c3, x3>>, <<c4, x4>>, <<c5, x5>> >>
<1>1. DOMAIN rows = 1..5
  OBVIOUS
<1>2. Selected(rows) \subseteq {x1, x2, x3, x4, x5}
  BY DEF Selected
<1> HIDE DEF rows
<1>3. IsFiniteSet(Selected(rows)) /\ Selected(rows) \subseteq {x1, x2, x3, x4, x5}
  BY <1>1, <1>2, FiniteRows
<1> QED BY <1>3 DEF rows

\* Nine rows select some of their values.
LEMMA SomeOfNine ==
  ASSUME NEW c1, NEW x1, NEW c2, NEW x2, NEW c3, NEW x3, NEW c4, NEW x4, NEW c5, NEW x5, NEW c6, NEW x6, NEW c7, NEW x7,
         NEW c8, NEW x8, NEW c9, NEW x9
  PROVE  LET S == Selected(<< <<c1, x1>>, <<c2, x2>>, <<c3, x3>>, <<c4, x4>>, <<c5, x5>>, <<c6, x6>>, <<c7, x7>>, <<c8, x8>>, <<c9, x9>> >>)
         IN  IsFiniteSet(S) /\ S \subseteq {x1, x2, x3, x4, x5, x6, x7, x8, x9}
<1> DEFINE rows == << <<c1, x1>>, <<c2, x2>>, <<c3, x3>>, <<c4, x4>>, <<c5, x5>>, <<c6, x6>>, <<c7, x7>>, <<c8, x8>>, <<c9, x9>> >>
<1>1. DOMAIN rows = 1..9
  OBVIOUS
<1>2. Selected(rows) \subseteq {x1, x2, x3, x4, x5, x6, x7, x8, x9}
  BY DEF Selected
<1> HIDE DEF rows
<1>3. IsFiniteSet(Selected(rows)) /\ Selected(rows) \subseteq {x1, x2, x3, x4, x5, x6, x7, x8, x9}
  BY <1>1, <1>2, FiniteRows
<1> QED BY <1>3 DEF rows

--------------------------------------------------------------------------------
(* The scores for a seller. *)

\* A sum is bounded by the weight of one member and a bound for the others.
LEMMA SumAtMost ==
  ASSUME NEW U, IsFiniteSet(U), NEW v, \A y \in U : v[y] \in Int, NEW S \in SUBSET U,
         NEW x, NEW w \in Nat, x \in U => v[x] <= w, NEW n \in Nat, SumFunctionOnSet(v, S \ {x}) <= n
  PROVE  SumFunctionOnSet(v, S) <= w + n
<1>1. IsFiniteSet(S) /\ \A y \in S : v[y] \in Int
  BY FS_Subset
<1>2. IsFiniteSet(S \ {x})
  BY <1>1, FS_Subset
<1> DEFINE a == SumFunctionOnSet(v, S)
           b == SumFunctionOnSet(v, S \ {x})
<1>3. a \in Int /\ b \in Int
  BY <1>1, <1>2, SumIsInt
<1>4. x \in S => v[x] <= w
  OBVIOUS
<1>5. a <= w + b
  BY <1>1, <1>4, SumDrop
<1> HIDE DEF a, b
<1>6. b <= n
  BY DEF b
<1>7. a <= w + n
  BY <1>3, <1>5, <1>6
<1> QED BY <1>7 DEF a

\* All credits but the one for a working config.
OtherCredits ==
    {Credit("ip_leak", 10, 10), Credit("dns_leak", 5, 5), Credit("ping", 8, 10), Credit("speed", 0, 10),
     Credit("YouTube", 5, 5), Credit("Telegram", 5, 5), Credit("protocol", 5, 0), Credit("protocol", 8, 5),
     Credit("reality", 22, 10), Credit("flow", 8, 0), Credit("verification", 6, 0), Credit("fingerprint", 6, 0),
     Credit("port", 6, 0), Credit("domain", 5, 5), Credit("transport", 5, 0), Credit("clean_ip", 12, 8),
     Credit("certificate", 4, 0), Credit("cdn", 8, 0)}

\* What may speak for a config that was not seen to work is worth 73 at most.
LEMMA OtherCreditsAreFew ==
  ASSUME NEW credits \in SUBSET OtherCredits, IsFiniteSet(credits)
  PROVE  SumFunctionOnSet([k \in credits |-> k.sell], credits) <= 73
<1> DEFINE v == [k \in credits |-> k.sell]
           k1 == Credit("ip_leak", 10, 10)
           k2 == Credit("dns_leak", 5, 5)
           k3 == Credit("ping", 8, 10)
           k4 == Credit("speed", 0, 10)
           k5 == Credit("YouTube", 5, 5)
           k6 == Credit("Telegram", 5, 5)
           k7 == Credit("protocol", 5, 0)
           k8 == Credit("protocol", 8, 5)
           k9 == Credit("reality", 22, 10)
           k10 == Credit("flow", 8, 0)
           k11 == Credit("verification", 6, 0)
           k12 == Credit("fingerprint", 6, 0)
           k13 == Credit("port", 6, 0)
           k14 == Credit("domain", 5, 5)
           k15 == Credit("transport", 5, 0)
           k16 == Credit("clean_ip", 12, 8)
           k17 == Credit("certificate", 4, 0)
           k18 == Credit("cdn", 8, 0)
           R0 == credits
           R1 == R0 \ {k1}
           R2 == R1 \ {k2}
           R3 == R2 \ {k3}
           R4 == R3 \ {k4}
           R5 == R4 \ {k5}
           R6 == R5 \ {k6}
           R7 == R6 \ {k7}
           R8 == R7 \ {k8}
           R9 == R8 \ {k9}
           R10 == R9 \ {k10}
           R11 == R10 \ {k11}
           R12 == R11 \ {k12}
           R13 == R12 \ {k13}
           R14 == R13 \ {k14}
           R15 == R14 \ {k15}
           R16 == R15 \ {k16}
           R17 == R16 \ {k17}
           R18 == R17 \ {k18}
<1>1. credits \subseteq {k1, k2, k3, k4, k5, k6, k7, k8, k9, k10, k11, k12, k13, k14, k15, k16, k17, k18}
  BY DEF OtherCredits
<1>2. k1.sell = 10 /\ k2.sell = 5 /\ k3.sell = 10 /\ k4.sell = 10 /\ k5.sell = 5 /\ k6.sell = 5 /\
      k7.sell = 0 /\ k8.sell = 5 /\ k9.sell = 10 /\ k10.sell = 0 /\ k11.sell = 0 /\ k12.sell = 0 /\
      k13.sell = 0 /\ k14.sell = 5 /\ k15.sell = 0 /\ k16.sell = 8 /\ k17.sell = 0 /\ k18.sell = 0
  BY DEF Credit
<1> HIDE DEF k1, k2, k3, k4, k5, k6, k7, k8, k9, k10, k11, k12, k13, k14, k15, k16, k17, k18
<1>3. R18 = {}
  BY <1>1
<1>4. /\ R0 \in SUBSET credits /\ R1 \in SUBSET credits /\ R2 \in SUBSET credits /\ R3 \in SUBSET credits
      /\ R4 \in SUBSET credits /\ R5 \in SUBSET credits /\ R6 \in SUBSET credits /\ R7 \in SUBSET credits
      /\ R8 \in SUBSET credits /\ R9 \in SUBSET credits /\ R10 \in SUBSET credits /\ R11 \in SUBSET credits
      /\ R12 \in SUBSET credits /\ R13 \in SUBSET credits /\ R14 \in SUBSET credits /\ R15 \in SUBSET credits
      /\ R16 \in SUBSET credits /\ R17 \in SUBSET credits /\ R18 \in SUBSET credits
  OBVIOUS
<1>5. \A k \in credits : v[k] = k.sell
  OBVIOUS
<1> HIDE DEF v
<1>6. \A k \in credits : v[k] \in Int
  BY <1>1, <1>2, <1>5
<1>7. SumFunctionOnSet(v, R18) <= 0
  BY <1>3, SumOfNone
<1> HIDE DEF R18
<1>8. SumFunctionOnSet(v, R17) <= 0
  <2>1. k18 \in credits => v[k18] <= 0
    BY <1>2, <1>5
  <2>2. SumFunctionOnSet(v, R17 \ {k18}) <= 0
    BY <1>7 DEF R18
  <2>3. SumFunctionOnSet(v, R17) <= 0 + 0
    BY <1>4, <1>6, <2>1, <2>2, SumAtMost
  <2> QED BY <2>3
<1> HIDE DEF R17
<1>9. SumFunctionOnSet(v, R16) <= 0
  <2>1. k17 \in credits => v[k17] <= 0
    BY <1>2, <1>5
  <2>2. SumFunctionOnSet(v, R16 \ {k17}) <= 0
    BY <1>8 DEF R17
  <2>3. SumFunctionOnSet(v, R16) <= 0 + 0
    BY <1>4, <1>6, <2>1, <2>2, SumAtMost
  <2> QED BY <2>3
<1> HIDE DEF R16
<1>10. SumFunctionOnSet(v, R15) <= 8
  <2>1. k16 \in credits => v[k16] <= 8
    BY <1>2, <1>5
  <2>2. SumFunctionOnSet(v, R15 \ {k16}) <= 0
    BY <1>9 DEF R16
  <2>3. SumFunctionOnSet(v, R15) <= 8 + 0
    BY <1>4, <1>6, <2>1, <2>2, SumAtMost
  <2> QED BY <2>3
<1> HIDE DEF R15
<1>11. SumFunctionOnSet(v, R14) <= 8
  <2>1. k15 \in credits => v[k15] <= 0
    BY <1>2, <1>5
  <2>2. SumFunctionOnSet(v, R14 \ {k15}) <= 8
    BY <1>10 DEF R15
  <2>3. SumFunctionOnSet(v, R14) <= 0 + 8
    BY <1>4, <1>6, <2>1, <2>2, SumAtMost
  <2> QED BY <2>3
<1> HIDE DEF R14
<1>12. SumFunctionOnSet(v, R13) <= 13
  <2>1. k14 \in credits => v[k14] <= 5
    BY <1>2, <1>5
  <2>2. SumFunctionOnSet(v, R13 \ {k14}) <= 8
    BY <1>11 DEF R14
  <2>3. SumFunctionOnSet(v, R13) <= 5 + 8
    BY <1>4, <1>6, <2>1, <2>2, SumAtMost
  <2> QED BY <2>3
<1> HIDE DEF R13
<1>13. SumFunctionOnSet(v, R12) <= 13
  <2>1. k13 \in credits => v[k13] <= 0
    BY <1>2, <1>5
  <2>2. SumFunctionOnSet(v, R12 \ {k13}) <= 13
    BY <1>12 DEF R13
  <2>3. SumFunctionOnSet(v, R12) <= 0 + 13
    BY <1>4, <1>6, <2>1, <2>2, SumAtMost
  <2> QED BY <2>3
<1> HIDE DEF R12
<1>14. SumFunctionOnSet(v, R11) <= 13
  <2>1. k12 \in credits => v[k12] <= 0
    BY <1>2, <1>5
  <2>2. SumFunctionOnSet(v, R11 \ {k12}) <= 13
    BY <1>13 DEF R12
  <2>3. SumFunctionOnSet(v, R11) <= 0 + 13
    BY <1>4, <1>6, <2>1, <2>2, SumAtMost
  <2> QED BY <2>3
<1> HIDE DEF R11
<1>15. SumFunctionOnSet(v, R10) <= 13
  <2>1. k11 \in credits => v[k11] <= 0
    BY <1>2, <1>5
  <2>2. SumFunctionOnSet(v, R10 \ {k11}) <= 13
    BY <1>14 DEF R11
  <2>3. SumFunctionOnSet(v, R10) <= 0 + 13
    BY <1>4, <1>6, <2>1, <2>2, SumAtMost
  <2> QED BY <2>3
<1> HIDE DEF R10
<1>16. SumFunctionOnSet(v, R9) <= 13
  <2>1. k10 \in credits => v[k10] <= 0
    BY <1>2, <1>5
  <2>2. SumFunctionOnSet(v, R9 \ {k10}) <= 13
    BY <1>15 DEF R10
  <2>3. SumFunctionOnSet(v, R9) <= 0 + 13
    BY <1>4, <1>6, <2>1, <2>2, SumAtMost
  <2> QED BY <2>3
<1> HIDE DEF R9
<1>17. SumFunctionOnSet(v, R8) <= 23
  <2>1. k9 \in credits => v[k9] <= 10
    BY <1>2, <1>5
  <2>2. SumFunctionOnSet(v, R8 \ {k9}) <= 13
    BY <1>16 DEF R9
  <2>3. SumFunctionOnSet(v, R8) <= 10 + 13
    BY <1>4, <1>6, <2>1, <2>2, SumAtMost
  <2> QED BY <2>3
<1> HIDE DEF R8
<1>18. SumFunctionOnSet(v, R7) <= 28
  <2>1. k8 \in credits => v[k8] <= 5
    BY <1>2, <1>5
  <2>2. SumFunctionOnSet(v, R7 \ {k8}) <= 23
    BY <1>17 DEF R8
  <2>3. SumFunctionOnSet(v, R7) <= 5 + 23
    BY <1>4, <1>6, <2>1, <2>2, SumAtMost
  <2> QED BY <2>3
<1> HIDE DEF R7
<1>19. SumFunctionOnSet(v, R6) <= 28
  <2>1. k7 \in credits => v[k7] <= 0
    BY <1>2, <1>5
  <2>2. SumFunctionOnSet(v, R6 \ {k7}) <= 28
    BY <1>18 DEF R7
  <2>3. SumFunctionOnSet(v, R6) <= 0 + 28
    BY <1>4, <1>6, <2>1, <2>2, SumAtMost
  <2> QED BY <2>3
<1> HIDE DEF R6
<1>20. SumFunctionOnSet(v, R5) <= 33
  <2>1. k6 \in credits => v[k6] <= 5
    BY <1>2, <1>5
  <2>2. SumFunctionOnSet(v, R5 \ {k6}) <= 28
    BY <1>19 DEF R6
  <2>3. SumFunctionOnSet(v, R5) <= 5 + 28
    BY <1>4, <1>6, <2>1, <2>2, SumAtMost
  <2> QED BY <2>3
<1> HIDE DEF R5
<1>21. SumFunctionOnSet(v, R4) <= 38
  <2>1. k5 \in credits => v[k5] <= 5
    BY <1>2, <1>5
  <2>2. SumFunctionOnSet(v, R4 \ {k5}) <= 33
    BY <1>20 DEF R5
  <2>3. SumFunctionOnSet(v, R4) <= 5 + 33
    BY <1>4, <1>6, <2>1, <2>2, SumAtMost
  <2> QED BY <2>3
<1> HIDE DEF R4
<1>22. SumFunctionOnSet(v, R3) <= 48
  <2>1. k4 \in credits => v[k4] <= 10
    BY <1>2, <1>5
  <2>2. SumFunctionOnSet(v, R3 \ {k4}) <= 38
    BY <1>21 DEF R4
  <2>3. SumFunctionOnSet(v, R3) <= 10 + 38
    BY <1>4, <1>6, <2>1, <2>2, SumAtMost
  <2> QED BY <2>3
<1> HIDE DEF R3
<1>23. SumFunctionOnSet(v, R2) <= 58
  <2>1. k3 \in credits => v[k3] <= 10
    BY <1>2, <1>5
  <2>2. SumFunctionOnSet(v, R2 \ {k3}) <= 48
    BY <1>22 DEF R3
  <2>3. SumFunctionOnSet(v, R2) <= 10 + 48
    BY <1>4, <1>6, <2>1, <2>2, SumAtMost
  <2> QED BY <2>3
<1> HIDE DEF R2
<1>24. SumFunctionOnSet(v, R1) <= 63
  <2>1. k2 \in credits => v[k2] <= 5
    BY <1>2, <1>5
  <2>2. SumFunctionOnSet(v, R1 \ {k2}) <= 58
    BY <1>23 DEF R2
  <2>3. SumFunctionOnSet(v, R1) <= 5 + 58
    BY <1>4, <1>6, <2>1, <2>2, SumAtMost
  <2> QED BY <2>3
<1> HIDE DEF R1
<1>25. SumFunctionOnSet(v, R0) <= 73
  <2>1. k1 \in credits => v[k1] <= 10
    BY <1>2, <1>5
  <2>2. SumFunctionOnSet(v, R0 \ {k1}) <= 63
    BY <1>24 DEF R1
  <2>3. SumFunctionOnSet(v, R0) <= 10 + 63
    BY <1>4, <1>6, <2>1, <2>2, SumAtMost
  <2> QED BY <2>3
<1> HIDE DEF R0
<1> QED BY <1>25 DEF v, R0

\* A set of two is finite.
LEMMA PairIsFinite == ASSUME NEW a, NEW b PROVE IsFiniteSet({a, b})
<1>1. IsFiniteSet({a})
  BY FS_Singleton
<1>2. IsFiniteSet({a} \cup {b})
  BY <1>1, FS_AddElement
<1> QED BY <1>2

\* The credits for reachable sites are two at most.
LEMMA SitesCredited ==
  ASSUME NEW X
  PROVE  LET S == {Credit(site, 5, 5) : site \in BuyerSites \cap X}
         IN  IsFiniteSet(S) /\ S \subseteq {Credit("YouTube", 5, 5), Credit("Telegram", 5, 5)}
<1> DEFINE S == {Credit(site, 5, 5) : site \in BuyerSites \cap X}
           P == {Credit("YouTube", 5, 5), Credit("Telegram", 5, 5)}
<1>1. S \subseteq P
  BY DEF BuyerSites
<1>2. IsFiniteSet(P)
  BY PairIsFinite
<1> HIDE DEF S, P
<1>3. IsFiniteSet(S)
  BY <1>1, <1>2, FS_Subset
<1> QED BY <1>1, <1>3 DEF S, P

\* What the live test speaks for.
LiveCredit == Credit("live", 18, 25)

\* The live test credits a working config, and no other config, with being live.
LEMMA LiveCreditsAre ==
  ASSUME NEW q
  PROVE  IsFiniteSet(LiveCredits(q)) /\ LiveCredits(q) \subseteq OtherCredits \cup (IF Working(q) THEN {LiveCredit} ELSE {})
<1> DEFINE a == Working(q)
           b == q.xray.ip_leak # "yes"
           c == q.xray.dns_leak = "no"
           d == q.conn.p95 \in 1..249
           e == q.xray.mbps >= 5
           x == LiveCredit
           y == Credit("ip_leak", 10, 10)
           z == Credit("dns_leak", 5, 5)
           u == Credit("ping", 8, 10)
           v == Credit("speed", 0, 10)
           few == Selected(<< <<a, x>>, <<b, y>>, <<c, z>>, <<d, u>>, <<e, v>> >>)
           sites == {Credit(site, 5, 5) : site \in BuyerSites \cap SitesOf(q, "Valid")}
<1>1. LiveCredits(q) = few \cup sites
  BY DEF LiveCredits, LiveCredit
<1>2. {y, z, u, v} \subseteq OtherCredits
  BY DEF OtherCredits
<1>3. {Credit("YouTube", 5, 5), Credit("Telegram", 5, 5)} \subseteq OtherCredits
  BY DEF OtherCredits
<1>4. IsFiniteSet(sites) /\ sites \subseteq OtherCredits
  BY <1>3, SitesCredited
<1> HIDE DEF a, b, c, d, e, x, y, z, u, v, sites
<1>5. IsFiniteSet(few)
  BY SomeOfFive
<1>6. few \subseteq {y, z, u, v} \cup (IF a THEN {x} ELSE {})
  BY DEF Selected
<1> HIDE DEF few
<1>7. IsFiniteSet(few \cup sites)
  BY <1>4, <1>5, FS_Union
<1> QED BY <1>1, <1>2, <1>4, <1>6, <1>7 DEF a, x

\* The credits for the link itself are known.
LEMMA ConfigCreditsAre ==
  ASSUME NEW cfg
  PROVE  IsFiniteSet(ConfigCredits(cfg)) /\ ConfigCredits(cfg) \subseteq OtherCredits
<1> DEFINE a1 == cfg.protocol = "VMESS"
           a2 == cfg.protocol = "VLESS"
           a3 == cfg.reality
           a4 == cfg.reality /\ cfg.flow # ""
           a5 == ~cfg.allow_insecure
           a6 == cfg.fingerprint # ""
           a7 == cfg.port = 443
           a8 == ~IsIp(cfg.address)
           a9 == cfg.transport \in {"XHTTP", "gRPC", "TCP"}
           k1 == Credit("protocol", 5, 0)
           k2 == Credit("protocol", 8, 5)
           k3 == Credit("reality", 22, 10)
           k4 == Credit("flow", 8, 0)
           k5 == Credit("verification", 6, 0)
           k6 == Credit("fingerprint", 6, 0)
           k7 == Credit("port", 6, 0)
           k8 == Credit("domain", 5, 5)
           k9 == Credit("transport", 5, 0)
<1>1. ConfigCredits(cfg) = Selected(<< <<a1, k1>>, <<a2, k2>>, <<a3, k3>>, <<a4, k4>>, <<a5, k5>>, <<a6, k6>>,
                                       <<a7, k7>>, <<a8, k8>>, <<a9, k9>> >>)
  BY DEF ConfigCredits
<1>2. {k1, k2, k3, k4, k5, k6, k7, k8, k9} \subseteq OtherCredits
  BY DEF OtherCredits
<1> HIDE DEF a1, a2, a3, a4, a5, a6, a7, a8, a9, k1, k2, k3, k4, k5, k6, k7, k8, k9
<1>3. LET S == Selected(<< <<a1, k1>>, <<a2, k2>>, <<a3, k3>>, <<a4, k4>>, <<a5, k5>>, <<a6, k6>>,
                           <<a7, k7>>, <<a8, k8>>, <<a9, k9>> >>)
      IN  IsFiniteSet(S) /\ S \subseteq {k1, k2, k3, k4, k5, k6, k7, k8, k9}
  BY SomeOfNine
<1> QED BY <1>1, <1>2, <1>3

\* The credits for the server are known.
LEMMA ServerCreditsAre ==
  ASSUME NEW q, NEW best
  PROVE  IsFiniteSet(ServerCredits(q, best)) /\ ServerCredits(q, best) \subseteq OtherCredits
<1> DEFINE a == best # {} /\ \A b \in best : ~b.hits /\ b.score >= 65
           b == ~q.tls.expired /\ q.tls.enabled /\ \E d \in q.tls.days : d >= 14
           c == CdnFrontingTier(q) = "confirmed"
           x == Credit("clean_ip", 12, 8)
           y == Credit("certificate", 4, 0)
           z == Credit("cdn", 8, 0)
<1>1. ServerCredits(q, best) = Selected(<< <<a, x>>, <<b, y>>, <<c, z>> >>)
  BY DEF ServerCredits
<1>2. {x, y, z} \subseteq OtherCredits
  BY DEF OtherCredits
<1> HIDE DEF a, b, c, x, y, z
<1>3. LET S == Selected(<< <<a, x>>, <<b, y>>, <<c, z>> >>) IN IsFiniteSet(S) /\ S \subseteq {x, y, z}
  BY SomeOfThree
<1> QED BY <1>1, <1>2, <1>3

\* The offers for blocked sites are finitely many.
LEMMA SitesOffered ==
  ASSUME NEW X
  PROVE  IsFiniteSet({Offer(site, 2, 10) : site \in BuyerSites \cap X})
<1> DEFINE S == {Offer(site, 2, 10) : site \in BuyerSites \cap X}
           P == {Offer("YouTube", 2, 10), Offer("Telegram", 2, 10)}
<1>1. S \subseteq P
  BY DEF BuyerSites
<1>2. IsFiniteSet(P)
  BY PairIsFinite
<1> HIDE DEF S, P
<1>3. IsFiniteSet(S)
  BY <1>1, <1>2, FS_Subset
<1> QED BY <1>3 DEF S

\* Five rows select finitely many values.
LEMMA FiveRows ==
  ASSUME NEW a1, NEW a2, NEW a3, NEW a4, NEW a5
  PROVE  IsFiniteSet(Selected(<<a1, a2, a3, a4, a5>>))
<1> DEFINE rows == <<a1, a2, a3, a4, a5>>
<1>1. DOMAIN rows = 1..5
  OBVIOUS
<1> HIDE DEF rows
<1>2. IsFiniteSet(Selected(rows))
  BY <1>1, FiniteRows
<1> QED BY <1>2 DEF rows

\* Eight rows select finitely many values.
LEMMA EightRows ==
  ASSUME NEW a1, NEW a2, NEW a3, NEW a4, NEW a5, NEW a6, NEW a7, NEW a8
  PROVE  IsFiniteSet(Selected(<<a1, a2, a3, a4, a5, a6, a7, a8>>))
<1> DEFINE rows == <<a1, a2, a3, a4, a5, a6, a7, a8>>
<1>1. DOMAIN rows = 1..8
  OBVIOUS
<1> HIDE DEF rows
<1>2. IsFiniteSet(Selected(rows))
  BY <1>1, FiniteRows
<1> QED BY <1>2 DEF rows

\* Eleven rows select finitely many values.
LEMMA ElevenRows ==
  ASSUME NEW a1, NEW a2, NEW a3, NEW a4, NEW a5, NEW a6, NEW a7, NEW a8, NEW a9, NEW a10, NEW a11
  PROVE  IsFiniteSet(Selected(<<a1, a2, a3, a4, a5, a6, a7, a8, a9, a10, a11>>))
<1> DEFINE rows == <<a1, a2, a3, a4, a5, a6, a7, a8, a9, a10, a11>>
<1>1. DOMAIN rows = 1..11
  OBVIOUS
<1> HIDE DEF rows
<1>2. IsFiniteSet(Selected(rows))
  BY <1>1, FiniteRows
<1> QED BY <1>2 DEF rows

\* The actions after a live test can be counted.
LEMMA LiveActionsAreFinite ==
  ASSUME NEW q
  PROVE  IsFiniteSet(LiveActions(q))
<1> DEFINE c1 == ~Working(q) /\ q.xray.status = "Skipped"
           o1 == Offer("Run live Xray test", 1, 20)
           c2 == ~Working(q) /\ q.xray.status # "Skipped"
           o2 == Offer("Proxy not working", 1, 25)
           c3 == q.xray.ip_leak = "yes"
           o3 == Offer("IP leak", 1, 15)
           c4 == q.xray.dns_leak = "yes"
           o4 == Offer("DNS leak", 1, 10)
           c5 == ~q.valid
           o5 == Offer("Validation errors", 1, 10)
           c6 == q.conn.p95 > 400
           o6 == Offer("High ping", 3, 5)
           c7 == q.xray.speed_test = "Valid" /\ q.xray.mbps = 1
           o7 == Offer("Low speed", 3, 3)
           c8 == q.dns.doh_differs
           o8 == Offer("Local DNS vs DoH mismatch", 2, 8)
           rows == << <<c1, o1>>, <<c2, o2>>, <<c3, o3>>, <<c4, o4>>, <<c5, o5>>, <<c6, o6>>, <<c7,
                      o7>>, <<c8, o8>> >>
           sites == {Offer(site, 2, 10) : site \in BuyerSites \cap SitesOf(q, "Invalid")}
<1>1. LiveActions(q) = Selected(rows) \cup sites
  BY Zenon DEF LiveActions
<1>2. IsFiniteSet(sites)
  BY SitesOffered
<1> HIDE DEF c1, c2, c3, c4, c5, c6, c7, c8, o1, o2, o3, o4, o5, o6, o7, o8, sites
<1>3. IsFiniteSet(Selected(rows))
  BY EightRows
<1> HIDE DEF rows
<1> QED BY <1>1, <1>2, <1>3, FS_Union

\* The actions for a link can be counted.
LEMMA ConfigActionsAreFinite ==
  ASSUME NEW cfg
  PROVE  IsFiniteSet(ConfigActions(cfg))
<1> DEFINE c1 == cfg.protocol = "VMESS"
           o1 == Offer("Migrate from VMess", 2, 15)
           c2 == ~cfg.reality /\ ~PlainWs(cfg)
           o2 == Offer("Enable REALITY", 2, 20)
           c3 == PlainWs(cfg)
           o3 == Offer("Optional upgrade path", 3, 5)
           c4 == cfg.reality /\ cfg.flow = ""
           o4 == Offer("Set flow", 2, 8)
           c5 == cfg.allow_insecure
           o5 == Offer("Disable allowInsecure", 2, 12)
           c6 == cfg.fingerprint = "" /\ (cfg.tls \/ cfg.reality)
           o6 == Offer("Browser fingerprint", 2, 8)
           c7 == cfg.port # 443 /\ OnTls(cfg)
           o7 == Offer("Use port 443", 2, 8)
           c8 == cfg.port \notin {443} \cup (IF PlainWs(cfg) THEN {80} ELSE {}) /\ ~OnTls(cfg)
           o8 == Offer("Port strategy", 3, 4)
           c9 == IsIp(cfg.address)
           o9 == Offer("Use domain instead of IP", 2, 10)
           c10 == cfg.transport = "WebSocket"
           o10 == Offer("WebSocket transport", 3, 5)
           c11 == cfg.sni # "" /\ ~IsIp(cfg.address) /\ cfg.host = "" /\ cfg.transport \in {"WebSocket", "gRPC", "XHTTP"}
           o11 == Offer("Host header", 3, 4)
           rows == << <<c1, o1>>, <<c2, o2>>, <<c3, o3>>, <<c4, o4>>, <<c5, o5>>, <<c6, o6>>, <<c7,
                      o7>>, <<c8, o8>>, <<c9, o9>>, <<c10, o10>>, <<c11, o11>> >>
<1>1. ConfigActions(cfg) = Selected(rows)
  BY Zenon DEF ConfigActions
<1> HIDE DEF c1, c2, c3, c4, c5, c6, c7, c8, c9, c10, c11, o1, o2, o3, o4, o5, o6, o7, o8, o9, o10, o11
<1>2. IsFiniteSet(Selected(rows))
  BY ElevenRows
<1> HIDE DEF rows
<1> QED BY <1>1, <1>2

\* The actions for a server can be counted.
LEMMA ServerActionsAreFinite ==
  ASSUME NEW q, NEW best
  PROVE  IsFiniteSet(ServerActions(q, best))
<1> DEFINE c1 == best # {} /\ \E b \in best : b.hits
           o1 == Offer("IP on blocklist", 1, 20)
           c2 == best # {} /\ \A b \in best : ~b.hits /\ b.score < 65
           o2 == Offer("Average IP quality", 3, 5)
           c3 == q.tls.expired
           o3 == Offer("Expired certificate", 1, 15)
           c4 == ~q.tls.expired /\ q.tls.enabled /\ \E d \in q.tls.days : d < 14
           o4 == Offer("Certificate expiring soon", 3, 5)
           c5 == CdnFrontingTier(q) # "confirmed" /\ ~IsIp(q.cfg.address) /\ ~PlainWs(q.cfg)
           o5 == Offer("Optional CDN fronting", 3, 5)
           rows == << <<c1, o1>>, <<c2, o2>>, <<c3, o3>>, <<c4, o4>>, <<c5, o5>> >>
<1>1. ServerActions(q, best) = Selected(rows)
  BY Zenon DEF ServerActions
<1> HIDE DEF c1, c2, c3, c4, c5, o1, o2, o3, o4, o5
<1>2. IsFiniteSet(Selected(rows))
  BY FiveRows
<1> HIDE DEF rows
<1> QED BY <1>1, <1>2

\* All actions together can be counted, so the critical ones are a number.
LEMMA ActionsAreFinite ==
  ASSUME NEW q, NEW cfg, NEW best
  PROVE  IsFiniteSet(LiveActions(q) \cup ConfigActions(cfg) \cup ServerActions(q, best))
<1>1. IsFiniteSet(LiveActions(q) \cup ConfigActions(cfg))
  BY LiveActionsAreFinite, ConfigActionsAreFinite, FS_Union
<1> QED BY <1>1, ServerActionsAreFinite, FS_Union

\* A whole number between 0 and 100.
Percent(n) == n \in Int /\ 0 <= n /\ n <= 100

\* A clamped score is a percentage, and not raised.
LEMMA ClampIsPercent ==
  ASSUME NEW x \in Int
  PROVE  Percent(Clamp(x, 0, 100)) /\ (x <= 73 => Clamp(x, 0, 100) <= 73)
<1> DEFINE m == Min({100, x})
<1>1. m = IF 100 <= x THEN 100 ELSE x
  BY PairMin
<1>2. m \in Int
  BY <1>1
<1> HIDE DEF m
<1>3. Max({0, m}) = IF 0 >= m THEN 0 ELSE m
  BY <1>2, PairMax
<1>4. Clamp(x, 0, 100) = Max({0, m})
  BY DEF Clamp, m
<1> QED BY <1>1, <1>2, <1>3, <1>4 DEF Percent

\* A score that loses some points for every critical action.
LEMMA ScoreIs ==
  ASSUME NEW x \in Int, NEW n \in Nat
  PROVE  LET s == Max({0, Clamp(x, 0, 100) - n}) IN Percent(s) /\ (x <= 73 => s <= 73)
<1> DEFINE c == Clamp(x, 0, 100)
           d == c - n
<1>1. Percent(c) /\ (x <= 73 => c <= 73)
  BY ClampIsPercent
<1> HIDE DEF c
<1>2. d \in Int
  BY <1>1 DEF Percent
<1>3. d <= 100 /\ (x <= 73 => d <= 73)
  BY <1>1 DEF Percent
<1> HIDE DEF d
<1>4. Max({0, d}) = IF 0 >= d THEN 0 ELSE d
  BY <1>2, PairMax
<1>5. Percent(Max({0, d})) /\ (x <= 73 => Max({0, d}) <= 73)
  BY <1>2, <1>3, <1>4 DEF Percent
<1> QED BY <1>5 DEF c, d

\* The credits add up to numbers, and without the one for a working config to 73 at most.
LEMMA CreditsCount ==
  ASSUME NEW credits \in SUBSET (OtherCredits \cup {LiveCredit}), IsFiniteSet(credits)
  PROVE  /\ SumFunction([k \in credits |-> k.iran]) \in Int
         /\ SumFunction([k \in credits |-> k.sell]) \in Int
         /\ credits \subseteq OtherCredits => SumFunction([k \in credits |-> k.sell]) <= 73
<1> DEFINE f == [k \in credits |-> k.iran]
           g == [k \in credits |-> k.sell]
<1>1. \A k \in OtherCredits \cup {LiveCredit} : k.iran \in Int /\ k.sell \in Int
  BY DEF OtherCredits, LiveCredit, Credit
<1>2. (\A k \in credits : f[k] \in Int) /\ DOMAIN f = credits
  BY <1>1
<1>3. (\A k \in credits : g[k] \in Int) /\ DOMAIN g = credits
  BY <1>1
<1>4. credits \subseteq OtherCredits => SumFunctionOnSet(g, credits) <= 73
  BY OtherCreditsAreFew
<1> HIDE DEF f, g
<1>5. SumFunctionOnSet(f, credits) \in Int /\ SumFunctionOnSet(g, credits) \in Int
  BY <1>2, <1>3, SumIsInt
<1>6. SumFunction(f) = SumFunctionOnSet(f, credits) /\ SumFunction(g) = SumFunctionOnSet(g, credits)
  BY <1>2, <1>3 DEF SumFunction
<1> QED BY <1>4, <1>5, <1>6 DEF f, g

\* The two scores are percentages, and no config is ready to sell that did not work.
LEMMA OptimizationScores ==
  ASSUME NEW q, NEW guess
  PROVE  LET o == ConfigOptimization(q, guess)
         IN  /\ Percent(o.iran) /\ Percent(o.sell)
             /\ o.grade = IranGrade(o.iran)
             /\ o.checklist = DeliveryChecklist(q, o.iran)
             /\ ~Working(q) => o.verdict # "Ready to sell"
<1> DEFINE best == BestIps(RankIps(q))
           actions == LiveActions(q) \cup ConfigActions(q.cfg) \cup ServerActions(q, best)
           credits == LiveCredits(q) \cup ConfigCredits(q.cfg) \cup ServerCredits(q, best)
           criticals == Cardinality({a \in actions : a.priority = 1})
           x == SumFunction([k \in credits |-> k.iran])
           y == SumFunction([k \in credits |-> k.sell])
           iran == Max({0, Clamp(x, 0, 100) - 8 * criticals})
           sell == Max({0, Clamp(y, 0, 100) - 12 * criticals})
           ready == sell >= 75 /\ iran >= 70
           fair == sell >= 50
           yes == "Ready to sell"
           perhaps == "Sellable with fixes"
           no == "Not ready"
           verdict == FirstOf(<< <<ready, yes>>, <<fair, perhaps>> >>, no)
           o == ConfigOptimization(q, guess)
<1>1. /\ o.iran = iran /\ o.sell = sell /\ o.grade = IranGrade(iran)
      /\ o.checklist = DeliveryChecklist(q, iran) /\ o.verdict = verdict
  BY Zenon DEF ConfigOptimization
<1>2. criticals \in Nat
  <2>1. IsFiniteSet(actions)
    BY ActionsAreFinite
  <2> HIDE DEF actions
  <2> QED BY <2>1, FS_Subset, FS_CardinalityType
<1>3. /\ credits \subseteq OtherCredits \cup {LiveCredit} /\ IsFiniteSet(credits)
      /\ ~Working(q) => credits \subseteq OtherCredits
  <2>1. IsFiniteSet(LiveCredits(q) \cup ConfigCredits(q.cfg))
    BY LiveCreditsAre, ConfigCreditsAre, FS_Union
  <2>2. IsFiniteSet(credits)
    BY <2>1, ServerCreditsAre, FS_Union
  <2> QED BY <2>2, LiveCreditsAre, ConfigCreditsAre, ServerCreditsAre
<1> HIDE DEF criticals, credits, o
<1>4. x \in Int /\ y \in Int /\ (~Working(q) => y <= 73)
  BY <1>3, CreditsCount
<1> HIDE DEF x, y
<1> DEFINE eight == 8 * criticals
           twelve == 12 * criticals
<1>5. eight \in Nat /\ twelve \in Nat
  BY <1>2
<1>6. iran = Max({0, Clamp(x, 0, 100) - eight}) /\ sell = Max({0, Clamp(y, 0, 100) - twelve})
  OBVIOUS
<1> HIDE DEF eight, twelve, iran, sell
<1>7. Percent(iran) /\ Percent(sell) /\ (~Working(q) => sell <= 73)
  BY <1>4, <1>5, <1>6, ScoreIs
<1>8. ~Working(q) => ~ready
  BY <1>7 DEF Percent
<1> HIDE DEF ready, fair
<1>9. ~Working(q) => verdict # yes
  <2>1. perhaps # yes /\ no # yes
    BY Zenon
  <2> HIDE DEF yes, perhaps, no
  <2>2. verdict = IF ready THEN yes ELSE IF fair THEN perhaps ELSE no
    BY FirstOfTwo
  <2> QED BY <1>8, <2>1, <2>2
<1> HIDE DEF verdict
<1>10. Percent(o.iran) /\ Percent(o.sell)
  BY <1>1, <1>7, Zenon
<1>11. o.grade = IranGrade(o.iran) /\ o.checklist = DeliveryChecklist(q, o.iran)
  BY <1>1, Zenon
<1>12. ~Working(q) => o.verdict # "Ready to sell"
  BY <1>1, <1>9, Zenon
<1> QED BY <1>10, <1>11, <1>12, Zenon DEF o

--------------------------------------------------------------------------------
(* What the reports say of the run. *)

\* What three rows select: the values whose conditions hold.
LEMMA InSelectedThree ==
  ASSUME NEW c1, NEW x1, NEW c2, NEW x2, NEW c3, NEW x3, NEW x
  PROVE  x \in Selected(<< <<c1, x1>>, <<c2, x2>>, <<c3, x3>> >>) <=>
           (c1 /\ x = x1) \/ (c2 /\ x = x2) \/ (c3 /\ x = x3)
BY DEF Selected

\* What four rows select: the values whose conditions hold.
LEMMA InSelectedFour ==
  ASSUME NEW c1, NEW x1, NEW c2, NEW x2, NEW c3, NEW x3, NEW c4, NEW x4, NEW x
  PROVE  x \in Selected(<< <<c1, x1>>, <<c2, x2>>, <<c3, x3>>, <<c4, x4>> >>) <=>
           (c1 /\ x = x1) \/ (c2 /\ x = x2) \/ (c3 /\ x = x3) \/ (c4 /\ x = x4)
BY DEF Selected

\* What seven rows select: the values whose conditions hold.
LEMMA InSelectedSeven ==
  ASSUME NEW c1, NEW x1, NEW c2, NEW x2, NEW c3, NEW x3, NEW c4, NEW x4, NEW c5, NEW x5, NEW c6, NEW x6,
         NEW c7, NEW x7, NEW x
  PROVE  x \in Selected(<< <<c1, x1>>, <<c2, x2>>, <<c3, x3>>, <<c4, x4>>, <<c5, x5>>, <<c6, x6>>, <<c7, x7>> >>)
           <=> (c1 /\ x = x1) \/ (c2 /\ x = x2) \/ (c3 /\ x = x3) \/ (c4 /\ x = x4) \/ (c5 /\ x = x5) \/
               (c6 /\ x = x6) \/ (c7 /\ x = x7)
<1> DEFINE rows == << <<c1, x1>>, <<c2, x2>>, <<c3, x3>>, <<c4, x4>>, <<c5, x5>>, <<c6, x6>>, <<c7, x7>> >>
<1>1. DOMAIN rows = 1..7
  OBVIOUS
<1>2. /\ rows[1][1] = c1 /\ rows[1][2] = x1
      /\ rows[2][1] = c2 /\ rows[2][2] = x2
      /\ rows[3][1] = c3 /\ rows[3][2] = x3
      /\ rows[4][1] = c4 /\ rows[4][2] = x4
      /\ rows[5][1] = c5 /\ rows[5][2] = x5
      /\ rows[6][1] = c6 /\ rows[6][2] = x6
      /\ rows[7][1] = c7 /\ rows[7][2] = x7
  OBVIOUS
<1> HIDE DEF rows
<1>3. \A k \in 1..7 : k = 1 \/ k = 2 \/ k = 3 \/ k = 4 \/ k = 5 \/ k = 6 \/ k = 7
  OBVIOUS
<1>4. 1 \in 1..7 /\ 2 \in 1..7 /\ 3 \in 1..7 /\ 4 \in 1..7 /\ 5 \in 1..7 /\ 6 \in 1..7 /\ 7 \in 1..7
  OBVIOUS
<1>5. x \in Selected(rows) <=> \E k \in 1..7 : rows[k][1] /\ x = rows[k][2]
  BY <1>1 DEF Selected
<1>6. x \in Selected(rows) <=>
           (c1 /\ x = x1) \/ (c2 /\ x = x2) \/ (c3 /\ x = x3) \/ (c4 /\ x = x4) \/ (c5 /\ x = x5) \/
           (c6 /\ x = x6) \/ (c7 /\ x = x7)
  BY <1>2, <1>3, <1>4, <1>5
<1> QED BY <1>6 DEF rows

\* The diagnostics confirm the live test exactly if the whole criterion holds.
LEMMA ArchitectureSays ==
  ASSUME NEW q
  PROVE  (ArchitectureDiagnostics(q).evidence["Xray E2E"] = "confirmed") <=> LiveProxyOk(q)
<1> DEFINE dns == "DNS resolve"
           tcp == "TCP"
           http == "HTTP baseline"
           e2e == "Xray E2E"
           ws == "WebSocket handshake"
           tls == "TLS probe"
           conn == q.conn
           probes == {dns, tcp, http, e2e} \cup Selected(<<
               <<q.cfg.transport = "WebSocket", ws>>, <<TlsActive(q.cfg), tls>> >>)
           a == EvidenceStatus(conn.dns_resolve)
           b == EvidenceStatus(conn.tcp_connect)
           c == EvidenceStatus(conn.http_baseline)
           d == XrayEvidence(q)
           e == WebSocketEvidence(conn)
           f == EvidenceStatus(conn.tls_handshake)
           evidence == [probe \in probes |->
              CASE probe = dns -> a
                [] probe = tcp -> b
                [] probe = http -> c
                [] probe = e2e -> d
                [] probe = ws -> e
                [] probe = tls -> f]
<1>1. ArchitectureDiagnostics(q).evidence = evidence
  BY Zenon DEF ArchitectureDiagnostics
<1>2. e2e # dns /\ e2e # tcp /\ e2e # http /\ e2e # ws /\ e2e # tls
  BY Zenon
<1>3. (d = "confirmed") <=> LiveProxyOk(q)
  BY FirstOfTwo DEF XrayEvidence
<1>4. e2e \in probes
  OBVIOUS
<1> HIDE DEF dns, tcp, http, e2e, ws, tls, probes, a, b, c, d, e, f
<1>5. evidence[e2e] = d
  BY <1>2, <1>4
<1> HIDE DEF evidence
<1>6. (ArchitectureDiagnostics(q).evidence[e2e] = "confirmed") <=> LiveProxyOk(q)
  BY <1>1, <1>3, <1>5
<1> QED BY <1>6 DEF e2e

\* The reconstruction guide calls a run verified exactly if the whole criterion holds.
LEMMA ImplementationSays ==
  ASSUME NEW q
  PROVE  (ImplementationAnalysis(q).e2e = "verified") <=> LiveProxyOk(q)
<1> DEFINE untested == q.xray.proxy_test = "Not tested"
           live == LiveProxyOk(q)
           rest == VerifiedStage(q.xray)
           e == FirstOf(<< <<live, "verified">>, <<untested, "syntax_only">> >>, rest)
<1>1. ImplementationAnalysis(q).e2e = e
  BY Zenon DEF ImplementationAnalysis
<1>2. live <=> (rest = "verified")
  BY DEF LiveProxyOk
<1> HIDE DEF untested, live, rest
<1>3. (e = "verified") <=> live
  BY <1>2, FirstOfTwo
<1> QED BY <1>1, <1>3, Zenon DEF live

\* The setup guide calls the proxy valid exactly if the probe was answered.
LEMMA GuideSays ==
  ASSUME NEW q
  PROVE  ("proxy valid" \in GuideChecklist(q)) <=> Working(q)
<1> DEFINE c1 == q.cfg.secret # ""
           c2 == q.cfg.path # ""
           c3 == q.cfg.sni # "" \/ q.cfg.host # ""
           c4 == q.dep.cdn_type # ""
           c5 == q.tls.enabled /\ \E d \in q.tls.days : d < 30
           c6 == q.xray.proxy_test = "Valid"
           c7 == q.xray.proxy_test \notin {"Valid", "Pending", "Skipped"}
           x0 == "port"
           x1 == "uuid"
           x2 == "path"
           x3 == "sni"
           x4 == "CDN DNS + SSL"
           x5 == "renew"
           x6 == "proxy valid"
           x7 == "proxy not valid"
           S == Selected(<< <<c1, x1>>, <<c2, x2>>, <<c3, x3>>, <<c4, x4>>, <<c5, x5>>, <<c6, x6>>, <<c7, x7>> >>)
<1>1. GuideChecklist(q) = {x0} \cup S
  BY Zenon DEF GuideChecklist
<1>2. x6 # x0 /\ x6 # x1 /\ x6 # x2 /\ x6 # x3 /\ x6 # x4 /\ x6 # x5 /\ x6 # x7
  BY Zenon
<1>3. c6 <=> Working(q)
  BY DEF Working
<1> HIDE DEF c1, c2, c3, c4, c5, c6, c7, x0, x1, x2, x3, x4, x5, x6, x7
<1>4. x6 \in S <=> c6
  BY <1>2, InSelectedSeven
<1> HIDE DEF S
<1>5. x6 \in GuideChecklist(q) <=> Working(q)
  BY <1>1, <1>2, <1>3, <1>4
<1> QED BY <1>5 DEF x6

\* The checklist for buyers ticks the live test exactly if the probe was answered.
LEMMA DeliverySays ==
  ASSUME NEW q, NEW iran
  PROVE  ([item |-> "live", done |-> TRUE] \in DeliveryChecklist(q, iran)) <=> Working(q)
<1> DEFINE k == [item |-> "live", done |-> TRUE]
           sites == {[item |-> s.name, done |-> s.status = "Valid"] :
                      s \in {t \in q.xray.sites : t.name \in SellerSites}}
           slow == IF q.conn.p95 = 0 THEN {} ELSE {[item |-> "p95", done |-> q.conn.p95 < 350]}
           live == [item |-> "live", done |-> Working(q)]
           a == [item |-> "valid", done |-> q.valid]
           b == [item |-> "tcp", done |-> q.conn.tcp_connect = "Valid"]
           c == [item |-> "allow_insecure", done |-> ~q.cfg.allow_insecure]
           d == [item |-> "encryption", done |-> q.cfg.reality \/ (q.cfg.tls /\ q.security.score >= 60)]
           e == [item |-> "ip_leak", done |-> q.xray.ip_leak = "no"]
           f == [item |-> "dns_leak", done |-> q.xray.dns_leak = "no"]
           g == [item |-> "security", done |-> q.security.score >= 65]
           h == [item |-> "iran", done |-> iran >= 60]
<1>1. DeliveryChecklist(q, iran) = {a, b, c, d, live, e, f, g, h} \cup sites \cup slow
  BY Zenon DEF DeliveryChecklist
<1>2. k \notin sites
  BY DEF SellerSites, BuyerSites
<1>3. k \notin slow
  OBVIOUS
<1>4. k # a /\ k # b /\ k # c /\ k # d
  OBVIOUS
<1>5. k # e /\ k # f /\ k # g /\ k # h
  OBVIOUS
<1>6. (k = live) <=> Working(q)
  BY DEF Working
<1> HIDE DEF k, sites, slow, live, a, b, c, d, e, f, g, h
<1>7. k \in DeliveryChecklist(q, iran) <=> Working(q)
  BY <1>1, <1>2, <1>3, <1>4, <1>5, <1>6
<1> QED BY <1>7 DEF k

\* The titles of the architecture's verdict.
Titles == {"CDN-fronted - probable", "Direct or CDN-fronted - inconclusive", "Direct Xray - probable"}

\* The diagnostics choose one of the titles.
LEMMA TitleIs ==
  ASSUME NEW q
  PROVE  ArchitectureDiagnostics(q).assessment.title \in Titles
<1> DEFINE a == CdnFrontingTier(q) = "confirmed"
           b == CdnFrontingTier(q) = "probable"
           x == "CDN-fronted - probable"
           y == "Direct or CDN-fronted - inconclusive"
           z == "Direct Xray - probable"
<1>1. AssessArchitecture(q).title = FirstOf(<< <<a, x>>, <<b, y>> >>, z)
  BY Zenon DEF AssessArchitecture
<1>2. ArchitectureDiagnostics(q).assessment = AssessArchitecture(q)
  BY Zenon DEF ArchitectureDiagnostics
<1>3. Titles = {x, y, z}
  BY Zenon DEF Titles
<1> HIDE DEF a, b, x, y, z
<1>4. FirstOf(<< <<a, x>>, <<b, y>> >>, z) \in {x, y, z}
  BY FirstOfTwo
<1> QED BY <1>1, <1>2, <1>3, <1>4

\* The verdict line says E2E OK exactly if the probe was answered.
LEMMA VerdictSays ==
  ASSUME NEW q, q.arch.assessment.title \in Titles
  PROVE  ("E2E OK" \in Verdict(q)) <=> Working(q)
<1> DEFINE ok == "E2E OK"
           bad == "E2E not verified"
           title == q.arch.assessment.title
           label == SecurityLabel(q.cfg)
           c1 == ExitIp(q) # ""
           c2 == CdnFrontingTier(q) = "confirmed"
           c3 == CdnFrontingTier(q) = "probable"
           x1 == "exit IP observed"
           x2 == "CDN fronting confirmed"
           x3 == "CDN fronting probable"
           S == Selected(<< <<c1, x1>>, <<c2, x2>>, <<c3, x3>> >>)
           works == ProxyOk(q)
<1>1. Verdict(q) = {title, label, IF works THEN ok ELSE bad} \cup S
  BY Zenon DEF Verdict
<1>2. ok # bad /\ ok # x1 /\ ok # x2 /\ ok # x3
  BY Zenon
<1>3. title # ok
  BY Zenon DEF Titles
<1>4. label # ok
  <2> DEFINE a == q.cfg.reality
             b == q.cfg.tls
             t1 == "REALITY"
             t2 == "TLS"
             t3 == "PLAIN"
  <2>1. label = FirstOf(<< <<a, t1>>, <<b, t2>> >>, t3)
    BY Zenon DEF SecurityLabel
  <2>2. ok # t1 /\ ok # t2 /\ ok # t3
    BY Zenon
  <2> HIDE DEF a, b, t1, t2, t3, ok, label
  <2> QED BY <2>1, <2>2, FirstOfTwo
<1>5. works <=> Working(q)
  BY DEF ProxyOk, Working
<1> HIDE DEF ok, bad, title, label, c1, c2, c3, x1, x2, x3, works
<1>6. ok \notin S
  BY <1>2, InSelectedThree
<1> HIDE DEF S
<1>7. ok \in Verdict(q) <=> Working(q)
  BY <1>1, <1>2, <1>3, <1>4, <1>5, <1>6
<1> QED BY <1>7 DEF ok

--------------------------------------------------------------------------------
(* Scores of weighted factors. *)

\* Two rows select some of their values, and those can be counted.
LEMMA SomeOfTwo ==
  ASSUME NEW c1, NEW x1, NEW c2, NEW x2
  PROVE  LET S == Selected(<< <<c1, x1>>, <<c2, x2>> >>)
         IN  IsFiniteSet(S) /\ S \subseteq {x1, x2}
<1> DEFINE rows == << <<c1, x1>>, <<c2, x2>> >>
<1>1. DOMAIN rows = 1..2
  OBVIOUS
<1>2. Selected(rows) \subseteq {x1, x2}
  BY DEF Selected
<1> HIDE DEF rows
<1>3. IsFiniteSet(Selected(rows)) /\ Selected(rows) \subseteq {x1, x2}
  BY <1>1, <1>2, FiniteRows
<1> QED BY <1>3 DEF rows

\* The same for four rows.
LEMMA SomeOfFour ==
  ASSUME NEW c1, NEW x1, NEW c2, NEW x2, NEW c3, NEW x3, NEW c4, NEW x4
  PROVE  LET S == Selected(<< <<c1, x1>>, <<c2, x2>>, <<c3, x3>>, <<c4, x4>> >>)
         IN  IsFiniteSet(S) /\ S \subseteq {x1, x2, x3, x4}
<1> DEFINE rows == << <<c1, x1>>, <<c2, x2>>, <<c3, x3>>, <<c4, x4>> >>
<1>1. DOMAIN rows = 1..4
  OBVIOUS
<1>2. Selected(rows) \subseteq {x1, x2, x3, x4}
  BY DEF Selected
<1> HIDE DEF rows
<1>3. IsFiniteSet(Selected(rows)) /\ Selected(rows) \subseteq {x1, x2, x3, x4}
  BY <1>1, <1>2, FiniteRows
<1> QED BY <1>3 DEF rows

\* The same for eight rows.
LEMMA SomeOfEight ==
  ASSUME NEW c1, NEW x1, NEW c2, NEW x2, NEW c3, NEW x3, NEW c4, NEW x4, NEW c5, NEW x5, NEW c6, NEW x6, NEW c7,
         NEW x7, NEW c8, NEW x8
  PROVE  LET S == Selected(<< <<c1, x1>>, <<c2, x2>>, <<c3, x3>>, <<c4, x4>>, <<c5, x5>>, <<c6, x6>>, <<c7, x7>>, <<c8, x8>> >>)
         IN  IsFiniteSet(S) /\ S \subseteq {x1, x2, x3, x4, x5, x6, x7, x8}
<1> DEFINE rows == << <<c1, x1>>, <<c2, x2>>, <<c3, x3>>, <<c4, x4>>, <<c5, x5>>, <<c6, x6>>, <<c7, x7>>, <<c8, x8>> >>
<1>1. DOMAIN rows = 1..8
  OBVIOUS
<1>2. Selected(rows) \subseteq {x1, x2, x3, x4, x5, x6, x7, x8}
  BY DEF Selected
<1> HIDE DEF rows
<1>3. IsFiniteSet(Selected(rows)) /\ Selected(rows) \subseteq {x1, x2, x3, x4, x5, x6, x7, x8}
  BY <1>1, <1>2, FiniteRows
<1> QED BY <1>3 DEF rows

\* The same for ten rows.
LEMMA SomeOfTen ==
  ASSUME NEW c1, NEW x1, NEW c2, NEW x2, NEW c3, NEW x3, NEW c4, NEW x4, NEW c5, NEW x5, NEW c6, NEW x6, NEW c7,
         NEW x7, NEW c8, NEW x8, NEW c9, NEW x9, NEW c10, NEW x10
  PROVE  LET S == Selected(<< <<c1, x1>>, <<c2, x2>>, <<c3, x3>>, <<c4, x4>>, <<c5, x5>>, <<c6, x6>>, <<c7, x7>>, <<c8, x8>>, <<c9, x9>>, <<c10, x10>> >>)
         IN  IsFiniteSet(S) /\ S \subseteq {x1, x2, x3, x4, x5, x6, x7, x8, x9, x10}
<1> DEFINE rows == << <<c1, x1>>, <<c2, x2>>, <<c3, x3>>, <<c4, x4>>, <<c5, x5>>, <<c6, x6>>, <<c7, x7>>, <<c8, x8>>, <<c9, x9>>, <<c10, x10>> >>
<1>1. DOMAIN rows = 1..10
  OBVIOUS
<1>2. Selected(rows) \subseteq {x1, x2, x3, x4, x5, x6, x7, x8, x9, x10}
  BY DEF Selected
<1> HIDE DEF rows
<1>3. IsFiniteSet(Selected(rows)) /\ Selected(rows) \subseteq {x1, x2, x3, x4, x5, x6, x7, x8, x9, x10}
  BY <1>1, <1>2, FiniteRows
<1> QED BY <1>3 DEF rows

\* The same for twelve rows.
LEMMA SomeOfTwelve ==
  ASSUME NEW c1, NEW x1, NEW c2, NEW x2, NEW c3, NEW x3, NEW c4, NEW x4, NEW c5, NEW x5, NEW c6, NEW x6, NEW c7,
         NEW x7, NEW c8, NEW x8, NEW c9, NEW x9, NEW c10, NEW x10, NEW c11, NEW x11, NEW c12, NEW x12
  PROVE  LET S == Selected(<< <<c1, x1>>, <<c2, x2>>, <<c3, x3>>, <<c4, x4>>, <<c5, x5>>, <<c6, x6>>, <<c7, x7>>, <<c8, x8>>, <<c9, x9>>, <<c10, x10>>, <<c11, x11>>, <<c12, x12>> >>)
         IN  IsFiniteSet(S) /\ S \subseteq {x1, x2, x3, x4, x5, x6, x7, x8, x9, x10, x11, x12}
<1> DEFINE rows == << <<c1, x1>>, <<c2, x2>>, <<c3, x3>>, <<c4, x4>>, <<c5, x5>>, <<c6, x6>>, <<c7, x7>>, <<c8, x8>>, <<c9, x9>>, <<c10, x10>>, <<c11, x11>>, <<c12, x12>> >>
<1>1. DOMAIN rows = 1..12
  OBVIOUS
<1>2. Selected(rows) \subseteq {x1, x2, x3, x4, x5, x6, x7, x8, x9, x10, x11, x12}
  BY DEF Selected
<1> HIDE DEF rows
<1>3. IsFiniteSet(Selected(rows)) /\ Selected(rows) \subseteq {x1, x2, x3, x4, x5, x6, x7, x8, x9, x10, x11, x12}
  BY <1>1, <1>2, FiniteRows
<1> QED BY <1>3 DEF rows

\* A factor with a whole impact.
Weighed(f) == f.impact \in Int

\* A factor written with a whole number is one.
LEMMA FactorIsWeighed ==
  ASSUME NEW t, NEW n \in Int, NEW l
  PROVE  Weighed(Factor(t, n, l))
BY DEF Weighed, Factor

\* Factors that can be added up.
Weighable(S) == IsFiniteSet(S) /\ \A f \in S : Weighed(f)

\* No factor can be added up,
LEMMA NoneIsWeighable == Weighable({})
BY FS_EmptySet DEF Weighable

\* one factor can,
LEMMA OneIsWeighable == ASSUME NEW f, Weighed(f) PROVE Weighable({f})
BY FS_Singleton DEF Weighable

\* and the factors of two groups,
LEMMA UnionIsWeighable ==
  ASSUME NEW S, Weighable(S), NEW T, Weighable(T)
  PROVE  Weighable(S \cup T)
BY FS_Union DEF Weighable

\* and some of a group.
LEMMA SubsetIsWeighable ==
  ASSUME NEW S, Weighable(S), NEW T \in SUBSET S
  PROVE  Weighable(T)
BY FS_Subset DEF Weighable

\* The sum of the impacts of a group is a whole number.
LEMMA TotalImpact ==
  ASSUME NEW S, Weighable(S)
  PROVE  SumFunction([f \in S |-> f.impact]) \in Int
<1> DEFINE v == [f \in S |-> f.impact]
<1>1. DOMAIN v = S /\ \A f \in S : v[f] \in Int
  BY DEF Weighable, Weighed
<1> HIDE DEF v
<1>2. SumFunctionOnSet(v, S) \in Int
  BY <1>1, SumIsInt DEF Weighable
<1>3. SumFunction(v) = SumFunctionOnSet(v, S)
  BY <1>1 DEF SumFunction
<1> QED BY <1>2, <1>3 DEF v

\* A score that is a percentage, if there is one.
Percents(S) == \A x \in S : Percent(x)

\* A weighted score is clamped to a percentage, however large the sums are.
LEMMA CompositeIsPercent ==
  ASSUME NEW S, Weighable(S), NEW n \in Int
  PROVE  Percents(WeightedComposite(S, n))
<1> DEFINE P == {g \in S : g.impact > 0}
           N == {g \in S : g.impact < 0}
           pos == SumFunction([f \in P |-> f.impact])
           neg == SumFunction([f \in N |-> f.impact])
<1>1. Weighable(P) /\ Weighable(N)
  BY SubsetIsWeighable
<1>2. pos \in Int /\ neg \in Int
  BY <1>1, TotalImpact
<1>3. WeightedComposite(S, n) = IF S = {} THEN {} ELSE {Clamp(50 + Min({pos, 40}) + Max({neg, -45}) + n, 0, 100)}
  BY DEF WeightedComposite, NoScore
<1> HIDE DEF pos, neg
<1>4. Min({pos, 40}) \in Int /\ Max({neg, -45}) \in Int
  BY <1>2, PairMin, PairMax
<1> DEFINE x == 50 + Min({pos, 40}) + Max({neg, -45}) + n
<1>5. x \in Int
  BY <1>4
<1> HIDE DEF x
<1>6. Percent(Clamp(x, 0, 100))
  BY <1>5, ClampIsPercent
<1> QED BY <1>3, <1>6 DEF x, Percents

\* The protocols a parser gives a config.
ParsedProtocols == {"VLESS", "Trojan", "VMESS", "Shadowsocks", "Hysteria2", "TUIC", "OpenVPN", "Unknown"}

\* The transports a parser gives a config.
ParsedTransports == {"TCP", "gRPC", "HTTPUpgrade", "XHTTP", "WebSocket", "QUIC", "Hysteria2", "TUIC", "Unknown"}

\* The weights of the scores are listed for these alone.
KnownKinds(c) == c.protocol \in ParsedProtocols /\ c.transport \in ParsedTransports

\* The transport that the scores ask for is one of the list.
LEMMA EffectiveIsKnown ==
  ASSUME NEW c, KnownKinds(c)
  PROVE  EffectiveTransport(c) \in ParsedTransports
<1>1. \A t \in DOMAIN TransportNames : TransportNames[t] \in ParsedTransports
  BY DEF TransportNames, ParsedTransports
<1>2. "Unknown" \in ParsedTransports
  BY DEF ParsedTransports
<1> QED BY <1>1, <1>2, Zenon DEF EffectiveTransport, KnownKinds

\* The factors of the traffic analysis: the protocol,
LEMMA ProtocolIsWeighed ==
  ASSUME NEW q, KnownKinds(q.cfg)
  PROVE  Weighable(ProtocolFactor(q))
<1> DEFINE p == q.cfg.protocol
           w == ProtocolWeights[p]
<1>1. CASE p = "Unknown"
  BY <1>1, NoneIsWeighable DEF ProtocolFactor
<1>2. CASE p # "Unknown"
  <2>1. p \in ParsedProtocols
    BY DEF KnownKinds
  <2>2. w \in Int
    BY <1>2, <2>1 DEF ParsedProtocols, ProtocolWeights
  <2>3. ProtocolFactor(q) = {Factor("protocol", w, "Speculative")}
    BY <1>2 DEF ProtocolFactor
  <2> HIDE DEF w
  <2> QED BY <2>2, <2>3, FactorIsWeighed, OneIsWeighable
<1> QED BY <1>1, <1>2

\* the encryption,
LEMMA EncryptionIsWeighed ==
  ASSUME NEW q
  PROVE  Weighable(EncryptionStack(q))
<1> DEFINE h == q.conn.tls_handshake
           n == IF h # "Invalid" THEN 10 ELSE 4
           f1 == Factor("reality", 22, "Proven")
           f2 == Factor("tls", n, IF h = "Valid" THEN "Proven" ELSE "Strong")
           f3 == Factor("no_tls", -28, "Proven")
<1>1. EncryptionStack(q) = FirstOf(<< <<q.cfg.reality, {f1}>>, <<q.cfg.tls, {f2}>> >>, {f3})
  BY DEF EncryptionStack
<1>2. n \in Int /\ 22 \in Int /\ -28 \in Int
  OBVIOUS
<1> HIDE DEF n
<1>3. Weighed(f1) /\ Weighed(f2) /\ Weighed(f3)
  BY <1>2, FactorIsWeighed
<1> HIDE DEF f1, f2, f3
<1>4. Weighable({f1}) /\ Weighable({f2}) /\ Weighable({f3})
  BY <1>3, OneIsWeighable
<1> QED BY <1>1, <1>4, FirstOfTwo

\* and the transport.
LEMMA TransportIsWeighed ==
  ASSUME NEW t \in ParsedTransports
  PROVE  Weighable(IF t = "Unknown" THEN {} ELSE {Factor("transport", TransportImpact[t], "Speculative")})
<1> DEFINE w == TransportImpact[t]
<1>1. CASE t = "Unknown"
  BY <1>1, NoneIsWeighable
<1>2. CASE t # "Unknown"
  <2>1. w \in Int
    BY <1>2 DEF ParsedTransports, TransportImpact
  <2> HIDE DEF w
  <2>2. Weighable({Factor("transport", w, "Speculative")})
    BY <2>1, FactorIsWeighed, OneIsWeighable
  <2> QED BY <1>2, <2>2 DEF w
<1> QED BY <1>1, <1>2

\* A quotient by a positive number.
LEMMA QuotientIsInt == ASSUME NEW n \in Int, NEW d \in Int, d > 0 PROVE n \div d \in Int
OBVIOUS

\* and one that is rounded towards zero.
LEMMA TruncatedIsInt == ASSUME NEW n \in Int, NEW d \in Int, d > 0 PROVE Truncated(n, d) \in Int
<1>1. n \div d \in Int /\ (-n) \div d \in Int
  BY QuotientIsInt
<1> QED BY <1>1 DEF Truncated

\* A blocking pattern has a whole impact and few optional signals.
IsPattern(p) == p.base \in Int /\ IsFiniteSet(p.optional)

\* A pattern written with a whole number is one.
LEMMA PatternIs == ASSUME NEW name, NEW required, NEW optional, IsFiniteSet(optional), NEW base \in Int
                   PROVE IsPattern(Pattern(name, required, optional, base))
BY DEF IsPattern, Pattern

\* The table of the blocking patterns has such patterns alone.
LEMMA PatternsAre == IsFiniteSet(BlockingPatterns) /\ \A p \in BlockingPatterns : IsPattern(p)
<1> DEFINE p1 == Pattern("plaintext_ws", {"no_tls", "WebSocket"}, {"port:80", "VMESS"}, -22)
           p2 == Pattern("vmess_clear", {"no_tls", "VMESS"}, {}, -26)
           p3 == Pattern("odd_port", {"port:nonstandard", "no_tls"}, {"VMESS", "Shadowsocks"}, -18)
           p4 == Pattern("tls_no_mimicry", {"tls", "no_browser_fp"}, {"WebSocket", "VMESS"}, -14)
           p5 == Pattern("wireguard_udp", {"WireGuard"}, {"port:nonstandard"}, -16)
           p6 == Pattern("reality_vision", {"reality", "xtls_vision", "browser_fp"}, {"port:443", "reality_probe_ok"}, 18)
           p7 == Pattern("cdn_shield", {"cdn_front", "tls"}, {"port:443", "browser_fp"}, 10)
<1>1. BlockingPatterns = {p1, p2, p3, p4, p5, p6, p7}
  BY DEF BlockingPatterns
<1>2. \A a, b : IsFiniteSet({a, b})
  BY PairIsFinite
<1>3. IsFiniteSet({"port:nonstandard"}) /\ IsFiniteSet({})
  BY FS_Singleton, FS_EmptySet
<1>4. -22 \in Int /\ -26 \in Int /\ -18 \in Int /\ -14 \in Int /\ -16 \in Int /\ 18 \in Int /\ 10 \in Int
  OBVIOUS
<1>5. IsPattern(p1) /\ IsPattern(p2) /\ IsPattern(p3) /\ IsPattern(p4) /\ IsPattern(p5) /\ IsPattern(p6) /\ IsPattern(p7)
  BY <1>2, <1>3, <1>4, PatternIs
<1> HIDE DEF p1, p2, p3, p4, p5, p6, p7
<1>6. {p1, p2, p3, p4, p5, p6, p7} = {p1, p2} \cup ({p3, p4} \cup ({p5, p6} \cup {p7}))
  OBVIOUS
<1>7. IsFiniteSet({p5, p6} \cup {p7})
  BY <1>2, FS_Singleton, FS_Union
<1>8. IsFiniteSet({p3, p4} \cup ({p5, p6} \cup {p7}))
  BY <1>2, <1>7, FS_Union
<1>9. IsFiniteSet({p1, p2} \cup ({p3, p4} \cup ({p5, p6} \cup {p7})))
  BY <1>2, <1>8, FS_Union
<1> QED BY <1>1, <1>5, <1>6, <1>9

\* The impact of a pattern is a whole number, also with no optional signal to divide by.
LEMMA ImpactIsInt ==
  ASSUME NEW p, IsPattern(p), NEW signals
  PROVE  PatternImpact(p, signals) \in Int
<1> DEFINE a == Cardinality(p.optional \cap signals)
           b == Cardinality(p.optional)
           d == Max({1, b})
           k == (350 * a) \div d
           s == Strength(p, signals)
<1>1. a \in Int /\ b \in Int
  <2>1. IsFiniteSet(p.optional) /\ IsFiniteSet(p.optional \cap signals)
    BY FS_Subset DEF IsPattern
  <2> QED BY <2>1, FS_CardinalityType
<1> HIDE DEF a, b
<1>2. d = IF 1 <= b THEN b ELSE 1
  BY <1>1, PairMax
<1>3. d \in Int /\ d > 0
  BY <1>1, <1>2
<1> HIDE DEF d
<1>4. k \in Int
  BY <1>1, <1>3, QuotientIsInt
<1> HIDE DEF k
<1>5. s = 650 + k
  BY DEF Strength, a, b, d, k
<1> HIDE DEF s
<1>6. p.base * s \in Int
  BY <1>4, <1>5 DEF IsPattern
<1>7. PatternImpact(p, signals) = Truncated(p.base * s, 1000)
  BY DEF PatternImpact, s
<1> QED BY <1>6, <1>7, TruncatedIsInt

\* The patterns that match can be added up,
LEMMA PatternsAreWeighed ==
  ASSUME NEW signals
  PROVE  Weighable({Factor(p.name, PatternImpact(p, signals),
                           IF Strength(p, signals) >= 850 THEN "Strong" ELSE "Weak") : p \in MatchPatterns(signals)})
<1> DEFINE M == MatchPatterns(signals)
           level(p) == IF Strength(p, signals) >= 850 THEN "Strong" ELSE "Weak"
           f == [p \in M |-> Factor(p.name, PatternImpact(p, signals), level(p))]
           S == {Factor(p.name, PatternImpact(p, signals), level(p)) : p \in M}
<1>1. S = {f[p] : p \in M} /\ DOMAIN f = M /\ \A p \in M : f[p] = Factor(p.name, PatternImpact(p, signals), level(p))
  OBVIOUS
<1>2. IsFiniteSet(M) /\ \A p \in M : IsPattern(p)
  BY PatternsAre, FS_Subset DEF MatchPatterns
<1> HIDE DEF M, f, level
<1>3. ASSUME NEW p \in M PROVE Weighed(f[p])
  <2>1. PatternImpact(p, signals) \in Int
    BY <1>2, ImpactIsInt
  <2> QED BY <1>1, <2>1, FactorIsWeighed
<1>4. IsFiniteSet({f[p] : p \in M})
  <2>1. DOMAIN f = M /\ IsFiniteSet(M)
    BY <1>1, <1>2
  <2> QED BY <2>1, RangeIsFinite, Zenon
<1> HIDE DEF S
<1>5. Weighable(S)
  BY <1>1, <1>3, <1>4 DEF Weighable
<1> QED BY <1>5 DEF S, M, level

\* and so can the bonus of those that help.
LEMMA SynergyIsInt ==
  ASSUME NEW q
  PROVE  DpiSynergy(q) \in Int
<1> DEFINE signals == Signals(q)
           helpful == {p \in MatchPatterns(signals) : PatternImpact(p, signals) > 0}
           v == [p \in helpful |-> Min({6, PatternImpact(p, signals) \div 3})]
<1>1. IsFiniteSet(helpful) /\ \A p \in helpful : IsPattern(p)
  BY PatternsAre, FS_Subset DEF MatchPatterns
<1>2. DOMAIN v = helpful /\ \A p \in helpful : v[p] = Min({6, PatternImpact(p, signals) \div 3})
  OBVIOUS
<1>3. DpiSynergy(q) = SumFunction(v)
  BY DEF DpiSynergy
<1> HIDE DEF signals, helpful, v
<1>4. ASSUME NEW p \in helpful PROVE v[p] \in Int
  <2> DEFINE n == PatternImpact(p, signals) \div 3
  <2>1. PatternImpact(p, signals) \in Int
    BY <1>1, ImpactIsInt
  <2>2. n \in Int
    BY <2>1, QuotientIsInt
  <2>3. v[p] = Min({6, n})
    BY <1>2
  <2> HIDE DEF n
  <2> QED BY <2>2, <2>3, PairMin
<1>5. SumFunctionOnSet(v, helpful) \in Int
  BY <1>1, <1>4, SumIsInt
<1> QED BY <1>2, <1>3, <1>5 DEF SumFunction

\* The score against traffic analysis is a percentage.
LEMMA DpiIsPercent ==
  ASSUME NEW q, KnownKinds(q.cfg)
  PROVE  Percents(DpiReport(q).score)
<1> DEFINE c == q.cfg
           t == EffectiveTransport(c)
           a1 == HasBrowserFp(c)
           a2 == ~HasBrowserFp(c) /\ c.tls /\ ~c.reality
           a3 == c.port = 443
           a4 == c.port \in AltTlsPorts \ {443}
           a5 == c.port \notin AltTlsPorts \cup {0}
           a6 == c.flow = "vision"
           a7 == q.conn.reality_test = "Valid"
           a8 == q.conn.reality_test = "Invalid" /\ c.reality
           a9 == LiveProxyOk(q)
           a10 == q.dep.cdn_type # ""
           f1 == Factor("utls", 12, "Proven")
           f2 == Factor("no_utls", -10, "Strong")
           f3 == Factor("port", 14, "Proven")
           f4 == Factor("port", 6, "Proven")
           f5 == Factor("port", -8, "Proven")
           f6 == Factor("flow", 6, "Proven")
           f7 == Factor("reality_probe", 5, "Proven")
           f8 == Factor("reality_probe", -8, "Proven")
           f9 == Factor("live", 4, "Proven")
           f10 == Factor("cdn_edge", 5, CdnLevel(q))
           S == Selected(<< <<a1, f1>>, <<a2, f2>>, <<a3, f3>>, <<a4, f4>>, <<a5, f5>>, <<a6, f6>>, <<a7, f7>>,
                            <<a8, f8>>, <<a9, f9>>, <<a10, f10>> >>)
           T == IF t = "Unknown" THEN {} ELSE {Factor("transport", TransportImpact[t], "Speculative")}
           P == {Factor(p.name, PatternImpact(p, Signals(q)), IF Strength(p, Signals(q)) >= 850 THEN "Strong" ELSE "Weak") :
                   p \in MatchPatterns(Signals(q))}
<1>1. DpiFactors(q) = ProtocolFactor(q) \cup EncryptionStack(q) \cup T \cup S \cup P
  BY DEF DpiFactors
<1>2. /\ 12 \in Int /\ -10 \in Int /\ 14 \in Int /\ 6 \in Int /\ -8 \in Int /\ 5 \in Int /\ 4 \in Int
  OBVIOUS
<1>3. /\ Weighed(f1) /\ Weighed(f2) /\ Weighed(f3) /\ Weighed(f4) /\ Weighed(f5) /\ Weighed(f6) /\ Weighed(f7)
      /\ Weighed(f8) /\ Weighed(f9) /\ Weighed(f10)
  BY <1>2, FactorIsWeighed
<1>4. Weighable(P)
  BY PatternsAreWeighed
<1>5. Weighable(T)
  BY EffectiveIsKnown, TransportIsWeighed
<1>6. Weighable(ProtocolFactor(q)) /\ Weighable(EncryptionStack(q))
  BY ProtocolIsWeighed, EncryptionIsWeighed
<1> HIDE DEF a1, a2, a3, a4, a5, a6, a7, a8, a9, a10, f1, f2, f3, f4, f5, f6, f7, f8, f9, f10, P, T
<1>7. IsFiniteSet(S) /\ S \subseteq {f1, f2, f3, f4, f5, f6, f7, f8, f9, f10}
  BY SomeOfTen
<1> HIDE DEF S
<1>8. Weighable(S)
  BY <1>3, <1>7 DEF Weighable
<1>9. Weighable(ProtocolFactor(q) \cup EncryptionStack(q) \cup T)
  BY <1>5, <1>6, UnionIsWeighable
<1>10. Weighable(ProtocolFactor(q) \cup EncryptionStack(q) \cup T \cup S)
  BY <1>8, <1>9, UnionIsWeighable
<1>11. Weighable(DpiFactors(q))
  BY <1>1, <1>4, <1>10, UnionIsWeighable
<1>12. Percents(WeightedComposite(DpiFactors(q), DpiSynergy(q)))
  BY <1>11, SynergyIsInt, CompositeIsPercent
<1>13. Percents(NoScore)
  BY DEF Percents, NoScore
<1>14. DpiReport(q).score = IF ~HasAnalyzableConfig(q.cfg) THEN NoScore ELSE WeightedComposite(DpiFactors(q), DpiSynergy(q))
  BY DEF DpiReport
<1> QED BY <1>12, <1>13, <1>14

\* The score of a REALITY fingerprint is a whole number.
LEMMA FingerprintScoreIsInt == ASSUME NEW c PROVE RealityFingerprintScore(c) \in Int
BY DEF RealityFingerprintScore

\* The layers of the camouflage: TLS,
LEMMA TlsLayerIsWeighed ==
  ASSUME NEW q
  PROVE  Weighed(TlsLayer(q))
<1> DEFINE s == RealityFingerprintScore(q.cfg)
           n == Min({24, s})
           valid == q.cfg.tls /\ q.conn.tls_handshake = "Valid"
           f1 == RealityFactor(q.cfg)
           f2 == Factor("tls_valid", 14, "Proven")
           f3 == Factor("tls_unverified", 6, "Strong")
           f4 == Factor("no_tls", -30, "Proven")
<1>1. TlsLayer(q) = FirstOf(<< <<q.cfg.reality, f1>>, <<valid, f2>>, <<q.cfg.tls, f3>> >>, f4)
  BY DEF TlsLayer
<1>2. n \in Int
  <2>1. s \in Int
    BY FingerprintScoreIsInt
  <2> HIDE DEF s
  <2> QED BY <2>1, PairMin
<1>3. Weighed(f1)
  <2>1. \E l : f1 = Factor("reality_stack", n, l)
    BY DEF RealityFactor
  <2> HIDE DEF n, f1
  <2> QED BY <1>2, <2>1, FactorIsWeighed
<1>4. 14 \in Int /\ 6 \in Int /\ -30 \in Int
  OBVIOUS
<1>5. Weighed(f2) /\ Weighed(f3) /\ Weighed(f4)
  BY <1>4, FactorIsWeighed
<1> HIDE DEF f1, f2, f3, f4, valid
<1> QED BY <1>1, <1>3, <1>5, FirstOfThree

\* the application protocols,
LEMMA AlpnIsWeighed ==
  ASSUME NEW c, NEW tls
  PROVE  Weighable(AlpnMimicry(c, tls))
<1> DEFINE like == c.alpn \cap {"h2", "http/1.1"} # {}
           h2 == "h2" \in tls.alpn
           n == IF h2 THEN 4 ELSE 2
           some == tls.alpn # {}
           both == like /\ h2
           f1 == Factor("alpn_h2_stack", 10, "Proven")
           f2 == Factor("alpn_config", 6, "Strong")
           f3 == Factor("alpn_probe", n, "Strong")
<1>1. AlpnMimicry(c, tls) = FirstOf(<< <<both, {f1}>>, <<like, {f2}>>, <<some, {f3}>> >>, {})
  BY Zenon DEF AlpnMimicry
<1>2. n \in Int /\ 10 \in Int /\ 6 \in Int
  OBVIOUS
<1> HIDE DEF n
<1>3. Weighed(f1) /\ Weighed(f2) /\ Weighed(f3)
  BY <1>2, FactorIsWeighed
<1> HIDE DEF both, like, some, f1, f2, f3
<1>4. Weighable({f1}) /\ Weighable({f2}) /\ Weighable({f3}) /\ Weighable({})
  BY <1>3, OneIsWeighable, NoneIsWeighable
<1> QED BY <1>1, <1>4, FirstOfThree

\* the observed handshake,
LEMMA FingerprintIsWeighed ==
  ASSUME NEW q
  PROVE  Weighable(TlsFingerprintLayer(q))
<1> DEFINE tls == q.tls
           a1 == tls.sha256
           a2 == tls.cipher # ""
           a3 == tls.version # ""
           a4 == tls.issuer # "" /\ ~q.cfg.reality
           n2 == IF tls.weak_cipher THEN -10 ELSE IF tls.cipher = "modern" THEN 6 ELSE 3
           n3 == IF tls.version = "1.3" THEN 8 ELSE 3
           n4 == IF tls.issuer = "public_ca" THEN 4 ELSE 0
           f1 == Factor("cert_sha256", 3, "Proven")
           f2 == Factor("cipher", n2, "Proven")
           f3 == Factor("version", n3, IF tls.enabled THEN "Proven" ELSE "Strong")
           f4 == Factor("issuer", n4, "Strong")
           S == Selected(<< <<a1, f1>>, <<a2, f2>>, <<a3, f3>>, <<a4, f4>> >>)
<1>1. TlsFingerprintLayer(q) = S
  BY Zenon DEF TlsFingerprintLayer
<1>2. 3 \in Int /\ n2 \in Int /\ n3 \in Int /\ n4 \in Int
  OBVIOUS
<1> HIDE DEF n2, n3, n4
<1>3. Weighed(f1) /\ Weighed(f2) /\ Weighed(f3) /\ Weighed(f4)
  BY <1>2, FactorIsWeighed
<1> HIDE DEF a1, a2, a3, a4, f1, f2, f3, f4
<1>4. IsFiniteSet(S) /\ S \subseteq {f1, f2, f3, f4}
  BY SomeOfFour
<1> HIDE DEF S
<1> QED BY <1>1, <1>3, <1>4 DEF Weighable

\* and all of them together.
LEMMA LayersAreWeighed ==
  ASSUME NEW q
  PROVE  Weighable(CamouflageLayers(q))
<1> DEFINE c == q.cfg
           n3 == IF Aligned(c) THEN 8 ELSE -6
           a1 == HasBrowserFp(c)
           a2 == ~HasBrowserFp(c) /\ c.tls /\ ~c.reality
           a3 == c.sni # "" /\ c.host # ""
           a4 == c.sni # "" /\ c.host = ""
           a5 == q.dep.cdn_type # ""
           a6 == CdnObserved(q)
           a7 == q.conn.http_panel
           a8 == c.allow_insecure
           a9 == EffectiveTransport(c) = "WebSocket" /\ c.path \in {"", "/"}
           a10 == EffectiveTransport(c) = "WebSocket" /\ c.path = "/long/path"
           a11 == q.conn.websocket_upgrade = "Valid"
           a12 == LiveProxyOk(q) /\ ExitIp(q) # ""
           f1 == Factor("utls", 14, "Proven")
           f2 == Factor("no_utls", -8, "Strong")
           f3 == Factor("sni_host", n3, "Proven")
           f4 == Factor("sni", 4, "Proven")
           f5 == Factor("cdn_front", 10, CdnLevel(q))
           f6 == Factor("http_cdn", 5, "Proven")
           f7 == Factor("panel", -18, "Proven")
           f8 == Factor("allow_insecure", -12, "Proven")
           f9 == Factor("ws_path", -5, "Strong")
           f10 == Factor("ws_path", 4, "Strong")
           f11 == Factor("ws_upgrade", 5, "Proven")
           f12 == Factor("live_egress", 4, "Proven")
           S == Selected(<< <<a1, f1>>, <<a2, f2>>, <<a3, f3>>, <<a4, f4>>, <<a5, f5>>, <<a6, f6>>, <<a7, f7>>,
                            <<a8, f8>>, <<a9, f9>>, <<a10, f10>>, <<a11, f11>>, <<a12, f12>> >>)
<1>1. CamouflageLayers(q) = {TlsLayer(q)} \cup TlsFingerprintLayer(q) \cup AlpnMimicry(c, q.tls) \cup S
  BY Zenon DEF CamouflageLayers
<1>2. /\ n3 \in Int /\ 14 \in Int /\ -8 \in Int /\ 4 \in Int /\ 10 \in Int /\ 5 \in Int /\ -18 \in Int
      /\ -12 \in Int /\ -5 \in Int
  OBVIOUS
<1> HIDE DEF n3
<1>3. /\ Weighed(f1) /\ Weighed(f2) /\ Weighed(f3) /\ Weighed(f4) /\ Weighed(f5) /\ Weighed(f6)
      /\ Weighed(f7) /\ Weighed(f8) /\ Weighed(f9) /\ Weighed(f10) /\ Weighed(f11) /\ Weighed(f12)
  BY <1>2, FactorIsWeighed
<1> HIDE DEF a1, a2, a3, a4, a5, a6, a7, a8, a9, a10, a11, a12, f1, f2, f3, f4, f5, f6, f7, f8, f9, f10, f11, f12
<1>4. IsFiniteSet(S) /\ S \subseteq {f1, f2, f3, f4, f5, f6, f7, f8, f9, f10, f11, f12}
  BY SomeOfTwelve
<1> HIDE DEF S
<1>5. Weighable(S)
  BY <1>3, <1>4 DEF Weighable
<1>6. Weighable({TlsLayer(q)}) /\ Weighable(TlsFingerprintLayer(q)) /\ Weighable(AlpnMimicry(c, q.tls))
  BY TlsLayerIsWeighed, FingerprintIsWeighed, AlpnIsWeighed, OneIsWeighable
<1>7. Weighable({TlsLayer(q)} \cup TlsFingerprintLayer(q))
  BY <1>6, UnionIsWeighable
<1>8. Weighable({TlsLayer(q)} \cup TlsFingerprintLayer(q) \cup AlpnMimicry(c, q.tls))
  BY <1>6, <1>7, UnionIsWeighable
<1> QED BY <1>1, <1>5, <1>8, UnionIsWeighable

\* The camouflage score is a percentage.
LEMMA CamouflageIsPercent ==
  ASSUME NEW q
  PROVE  Percents(CamouflageReport(q).score)
<1>1. CamouflageSynergy(q) \in Int
  BY DEF CamouflageSynergy
<1>2. Percents(WeightedComposite(CamouflageLayers(q), CamouflageSynergy(q)))
  BY <1>1, LayersAreWeighed, CompositeIsPercent
<1>3. Percents(NoScore)
  BY DEF Percents, NoScore
<1>4. CamouflageReport(q).score = IF ~HasAnalyzableConfig(q.cfg) THEN NoScore
                                  ELSE WeightedComposite(CamouflageLayers(q), CamouflageSynergy(q))
  BY DEF CamouflageReport
<1> QED BY <1>2, <1>3, <1>4

\* What may expose the origin: certificate logs,
LEMMA CtIsWeighed ==
  ASSUME NEW q
  PROVE  Weighable(CtExposure(q))
<1> DEFINE n == IF q.ct.total > 15 THEN 8 ELSE 4
           a2 == q.ct.top_issuer >= 3
           a3 == q.ct.subdomains >= 8
           f1 == Factor("ct_entries", n, "Proven")
           f2 == Factor("ct_issuer", 6, "Strong")
           f3 == Factor("ct_surface", 7, "Strong")
           S == Selected(<< <<TRUE, f1>>, <<a2, f2>>, <<a3, f3>> >>)
<1>1. CtExposure(q) = {} \/ CtExposure(q) = S
  BY Zenon DEF CtExposure
<1>2. n \in Int /\ 6 \in Int /\ 7 \in Int
  OBVIOUS
<1> HIDE DEF n
<1>3. Weighed(f1) /\ Weighed(f2) /\ Weighed(f3)
  BY <1>2, FactorIsWeighed
<1> HIDE DEF a2, a3, f1, f2, f3
<1>4. IsFiniteSet(S) /\ S \subseteq {f1, f2, f3}
  BY SomeOfThree
<1> HIDE DEF S
<1>5. Weighable(S)
  BY <1>3, <1>4 DEF Weighable
<1> QED BY <1>1, <1>5, NoneIsWeighable

\* autonomous systems,
LEMMA AsnIsWeighed ==
  ASSUME NEW q
  PROVE  Weighable(AsnCorrelation(q))
<1> DEFINE known == {ip \in q.net : ip.asn # ""}
           cdnAsns == {ip.asn : ip \in {i \in known : i.cdn # "" \/ q.dep.cdn_type # ""}}
           dcAsns == {ip.asn : ip \in {i \in known : i.is_datacenter /\ i.cdn = ""}}
           behindCdn == q.dep.cdn_type # "" /\ dcAsns # {}
           a1 == behindCdn /\ cdnAsns = {}
           a2 == behindCdn /\ cdnAsns # {} /\ cdnAsns \cap dcAsns = {}
           a3 == LiveProxyOk(q) /\ q.dep.cdn_type # "" /\ ExitIp(q) \notin Resolved(q) \cup {""}
                   /\ \E ip \in q.net : ip.ip = ExitIp(q) /\ ip.is_datacenter
           f1 == Factor("asn_grey_cloud", 16, "Strong")
           f2 == Factor("asn_differs", 10, "Strong")
           f3 == Factor("exit_asn", 12, "Proven")
           S == Selected(<< <<a1, f1>>, <<a2, f2>>, <<a3, f3>> >>)
<1>1. AsnCorrelation(q) = S
  BY Zenon DEF AsnCorrelation
<1>2. 16 \in Int /\ 10 \in Int /\ 12 \in Int
  OBVIOUS
<1>3. Weighed(f1) /\ Weighed(f2) /\ Weighed(f3)
  BY <1>2, FactorIsWeighed
<1> HIDE DEF a1, a2, a3, f1, f2, f3
<1>4. IsFiniteSet(S) /\ S \subseteq {f1, f2, f3}
  BY SomeOfThree
<1> HIDE DEF S
<1> QED BY <1>1, <1>3, <1>4 DEF Weighable

\* the headers that leak an origin, of which there are finitely many,
LEMMA LeakHeadersAreFinite == IsFiniteSet(OriginLeakHeaders)
<1>1. OriginLeakHeaders = {"x-real-ip", "x-forwarded-for"} \cup ({"x-origin", "x-backend"} \cup
                          ({"x-upstream", "x-served-by"} \cup {"via"}))
  BY DEF OriginLeakHeaders, AddressHeaders
<1>2. \A a, b : IsFiniteSet({a, b})
  BY PairIsFinite
<1>3. IsFiniteSet({"x-upstream", "x-served-by"} \cup {"via"})
  BY <1>2, FS_Singleton, FS_Union
<1>4. IsFiniteSet({"x-origin", "x-backend"} \cup ({"x-upstream", "x-served-by"} \cup {"via"}))
  BY <1>2, <1>3, FS_Union
<1> QED BY <1>1, <1>2, <1>4, FS_Union

\* those of them that were seen,
LEMMA HeadersAreWeighed ==
  ASSUME NEW q
  PROVE  Weighable(HeaderLeakage(q))
<1> DEFINE H == q.conn.headers \cap OriginLeakHeaders
           n(h) == IF h \in AddressHeaders THEN 10 ELSE 6
           f == [h \in H |-> Factor(h, n(h), "Proven")]
           T == {Factor(h, n(h), "Proven") : h \in H}
           a1 == q.conn.http_server \in {"nginx", "apache", "openresty", "caddy"} /\ q.dep.cdn_type = ""
           a2 == q.conn.http_reverse_proxy # "" /\ q.dep.cdn_type = ""
           f1 == Factor("server_banner", 8, "Proven")
           f2 == Factor("reverse_proxy", 5, "Strong")
           S == Selected(<< <<a1, f1>>, <<a2, f2>> >>)
<1>1. HeaderLeakage(q) = T \cup S
  BY DEF HeaderLeakage
<1>2. 8 \in Int /\ 5 \in Int /\ \A h : n(h) \in Int
  OBVIOUS
<1>3. T = {f[h] : h \in H} /\ \A h \in H : f[h] = Factor(h, n(h), "Proven")
  OBVIOUS
<1>4. DOMAIN f = H
  OBVIOUS
<1>5. IsFiniteSet(H)
  BY LeakHeadersAreFinite, FS_Subset
<1> HIDE DEF H, f, n, T
<1>6. Weighed(f1) /\ Weighed(f2) /\ \A h \in H : Weighed(f[h])
  BY <1>2, <1>3, FactorIsWeighed
<1>7. IsFiniteSet({f[h] : h \in H})
  BY <1>4, <1>5, RangeIsFinite, Zenon
<1>8. Weighable(T)
  BY <1>3, <1>6, <1>7 DEF Weighable
<1> HIDE DEF a1, a2, f1, f2
<1>9. IsFiniteSet(S) /\ S \subseteq {f1, f2}
  BY SomeOfTwo
<1> HIDE DEF S
<1>10. Weighable(S)
  BY <1>6, <1>9 DEF Weighable
<1> QED BY <1>1, <1>8, <1>10, UnionIsWeighable

\* the certificate,
LEMMA CertIsWeighed ==
  ASSUME NEW q
  PROVE  Weighable(CertCorrelation(q))
<1> DEFINE a1 == q.ct.subdomains > 0 /\ q.tls.subject # ""
           a2 == q.tls.subject \notin {"", "cloudflare", q.cfg.sni} /\ q.cfg.sni # ""
           f1 == Factor("cert_captured", 5, "Proven")
           f2 == Factor("cert_sni_differs", 6, "Strong")
           S == Selected(<< <<a1, f1>>, <<a2, f2>> >>)
<1>1. CertCorrelation(q) = {} \/ CertCorrelation(q) = S
  BY Zenon DEF CertCorrelation
<1>2. 5 \in Int /\ 6 \in Int
  OBVIOUS
<1>3. Weighed(f1) /\ Weighed(f2)
  BY <1>2, FactorIsWeighed
<1> HIDE DEF a1, a2, f1, f2
<1>4. IsFiniteSet(S) /\ S \subseteq {f1, f2}
  BY SomeOfTwo
<1> HIDE DEF S
<1>5. Weighable(S)
  BY <1>3, <1>4 DEF Weighable
<1> QED BY <1>1, <1>5, NoneIsWeighable

\* and all of them together.
LEMMA OriginIsWeighed ==
  ASSUME NEW q
  PROVE  Weighable(OriginFactors(q))
<1> DEFINE cdn == q.dep.cdn_type # ""
           direct == IsIp(q.cfg.address)
           exit == ExitIp(q)
           comparable == cdn /\ LiveProxyOk(q) /\ exit # "" /\ Resolved(q) # {}
           a2 == ~cdn /\ ~direct
           a3 == comparable /\ exit \in Resolved(q)
           a4 == comparable /\ exit \notin Resolved(q)
           a5 == q.dns.split
           a6 == q.conn.http_panel
           a7 == ~cdn /\ \E ip \in q.net : ip.is_datacenter
           a8 == \E t \in q.threat : t.hits
           f1 == Factor("direct_ip", 38, "Proven")
           f2 == Factor("no_cdn", 18, "Strong")
           f3 == Factor("exit_is_dns", 22, "Proven")
           f4 == Factor("exit_is_not_dns", -12, "Proven")
           f5 == Factor("dns_split", 8, "Proven")
           f6 == Factor("panel", 14, "Proven")
           f7 == Factor("datacenter_ip", 5, "Proven")
           f8 == Factor("blocklist", 8, "Strong")
           S == Selected(<< <<direct, f1>>, <<a2, f2>>, <<a3, f3>>, <<a4, f4>>, <<a5, f5>>, <<a6, f6>>,
                            <<a7, f7>>, <<a8, f8>> >>)
<1>1. OriginFactors(q) = S \cup CtExposure(q) \cup AsnCorrelation(q) \cup HeaderLeakage(q) \cup CertCorrelation(q)
  BY Zenon DEF OriginFactors
<1>2. 38 \in Int /\ 18 \in Int /\ 22 \in Int /\ -12 \in Int /\ 8 \in Int /\ 14 \in Int /\ 5 \in Int
  OBVIOUS
<1>3. /\ Weighed(f1) /\ Weighed(f2) /\ Weighed(f3) /\ Weighed(f4) /\ Weighed(f5) /\ Weighed(f6)
      /\ Weighed(f7) /\ Weighed(f8)
  BY <1>2, FactorIsWeighed
<1> HIDE DEF direct, a2, a3, a4, a5, a6, a7, a8, f1, f2, f3, f4, f5, f6, f7, f8
<1>4. IsFiniteSet(S) /\ S \subseteq {f1, f2, f3, f4, f5, f6, f7, f8}
  BY SomeOfEight
<1> HIDE DEF S
<1>5. Weighable(S)
  BY <1>3, <1>4 DEF Weighable
<1>6. Weighable(S \cup CtExposure(q))
  BY <1>5, CtIsWeighed, UnionIsWeighable
<1>7. Weighable(S \cup CtExposure(q) \cup AsnCorrelation(q))
  BY <1>6, AsnIsWeighed, UnionIsWeighable
<1>8. Weighable(S \cup CtExposure(q) \cup AsnCorrelation(q) \cup HeaderLeakage(q))
  BY <1>7, HeadersAreWeighed, UnionIsWeighable
<1> QED BY <1>1, <1>8, CertIsWeighed, UnionIsWeighable

\* The exposure of the origin is a percentage.
LEMMA OriginIsPercent ==
  ASSUME NEW q
  PROVE  Percents(OriginReport(q).score)
<1> DEFINE total == SumFunction([f \in OriginFactors(q) |-> f.impact])
           risk == Clamp(total, 0, 100)
<1>1. total \in Int
  BY OriginIsWeighed, TotalImpact
<1> HIDE DEF total
<1>2. Percent(risk)
  BY <1>1, ClampIsPercent
<1>3. OriginReport(q).score = NoScore \/ OriginReport(q).score = {risk}
  BY DEF OriginReport, total
<1> HIDE DEF risk
<1> QED BY <1>2, <1>3 DEF Percents, NoScore

--------------------------------------------------------------------------------
(* The security score. *)

\* A finding of the security score with a whole cost.
Costs(f) == f.cost \in Int

\* A finding written with a whole number is one.
LEMMA FindingCosts == ASSUME NEW t, NEW n \in Int, NEW s PROVE Costs(SecFinding(t, n, s))
BY DEF Costs, SecFinding

\* The sum of the costs is a whole number.
LEMMA TotalCost ==
  ASSUME NEW S, IsFiniteSet(S), \A f \in S : Costs(f)
  PROVE  SumFunction([f \in S |-> f.cost]) \in Int
<1> DEFINE v == [f \in S |-> f.cost]
<1>1. DOMAIN v = S /\ \A f \in S : v[f] \in Int
  BY DEF Costs
<1> HIDE DEF v
<1>2. SumFunctionOnSet(v, S) \in Int
  BY <1>1, SumIsInt
<1>3. SumFunction(v) = SumFunctionOnSet(v, S)
  BY <1>1 DEF SumFunction
<1> QED BY <1>2, <1>3 DEF v

\* The finding about TLS has a cost,
LEMMA TlsFindingCosts ==
  ASSUME NEW c, NEW tls, NEW conn
  PROVE  LET S == TlsFinding(c, tls, conn) IN IsFiniteSet(S) /\ \A f \in S : Costs(f)
<1> DEFINE a1 == ~c.tls /\ ~c.reality
           a2 == tls.enabled /\ ~tls.expired
           a3 == tls.expired
           a4 == conn.tls_handshake = "Invalid"
           f1 == SecFinding("No TLS", 30, "high")
           f2 == SecFinding("TLS Enabled", 0, "info")
           f3 == SecFinding("Expired Certificate", 25, "high")
           f4 == SecFinding("Handshake Failed", 20, "high")
           S == TlsFinding(c, tls, conn)
<1>1. S = FirstOf(<< <<a1, {f1}>>, <<a2, {f2}>>, <<a3, {f3}>>, <<a4, {f4}>> >>, {})
  BY Zenon DEF TlsFinding
<1>2. 30 \in Int /\ 0 \in Int /\ 25 \in Int /\ 20 \in Int
  OBVIOUS
<1>3. Costs(f1) /\ Costs(f2) /\ Costs(f3) /\ Costs(f4)
  BY <1>2, FindingCosts, Zenon
<1> HIDE DEF S, a1, a2, a3, a4, f1, f2, f3, f4
<1>4. \A f : IsFiniteSet({f})
  BY FS_Singleton
<1>5. S = {} \/ S = {f1} \/ S = {f2} \/ S = {f3} \/ S = {f4}
  BY <1>1, FirstOfFour
<1>6. IsFiniteSet(S) /\ \A f \in S : Costs(f)
  BY <1>3, <1>4, <1>5, FS_EmptySet
<1> QED BY <1>6 DEF S

\* and so do the others.
LEMMA OtherFindingsCost ==
  ASSUME NEW c, NEW tls, NEW net
  PROVE  LET S == OtherFindings(c, tls, net) IN IsFiniteSet(S) /\ \A f \in S : Costs(f)
<1> DEFINE a1 == tls.weak_cipher
           a2 == c.allow_insecure
           a3 == c.fingerprint # ""
           a4 == c.fingerprint = "" /\ c.tls /\ ~c.reality
           a5 == CdnIn(net) # {}
           a6 == CdnIn(net) = {} /\ ~IsIp(c.address)
           a7 == "long" \in c.remark
           a8 == IsIp(c.address)
           f1 == SecFinding("Weak Cipher", 20, "high")
           f2 == SecFinding("Verification Disabled", 15, "medium")
           f3 == SecFinding("Fingerprint Set", 0, "info")
           f4 == SecFinding("No Fingerprint", 5, "medium")
           f5 == SecFinding("CDN Fronting", 0, "info")
           f6 == SecFinding("Direct Domain", 5, "medium")
           f7 == SecFinding("Long Remark", 2, "low")
           f8 == SecFinding("Direct IP", 10, "medium")
           S == Selected(<< <<a1, f1>>, <<a2, f2>>, <<a3, f3>>, <<a4, f4>>, <<a5, f5>>, <<a6, f6>>, <<a7, f7>>,
                            <<a8, f8>> >>)
<1>1. OtherFindings(c, tls, net) = S
  BY Zenon DEF OtherFindings
<1>2. 20 \in Int /\ 15 \in Int /\ 0 \in Int /\ 5 \in Int /\ 2 \in Int /\ 10 \in Int
  OBVIOUS
<1>3. /\ Costs(f1) /\ Costs(f2) /\ Costs(f3) /\ Costs(f4) /\ Costs(f5) /\ Costs(f6) /\ Costs(f7) /\ Costs(f8)
  BY <1>2, FindingCosts, Zenon
<1> HIDE DEF a1, a2, a3, a4, a5, a6, a7, a8, f1, f2, f3, f4, f5, f6, f7, f8
<1>4. IsFiniteSet(S) /\ S \subseteq {f1, f2, f3, f4, f5, f6, f7, f8}
  BY SomeOfEight
<1> HIDE DEF S
<1> QED BY <1>1, <1>3, <1>4

\* The security score is a percentage.
LEMMA SecurityIsPercent ==
  ASSUME NEW c, NEW tls, NEW conn, NEW net
  PROVE  Percent(AnalyzeSecurity(c, tls, conn, net).score)
<1> DEFINE first == TlsFinding(c, tls, conn)
           others == OtherFindings(c, tls, net)
           n == SumFunction([f \in first |-> f.cost])
           m == SumFunction([f \in others |-> f.cost])
           afterTls == 100 - n
           up == Min({100, afterTls + 5})
           afterReality == IF c.reality THEN up ELSE afterTls
           x == afterReality - m
<1>1. n \in Int /\ m \in Int
  BY TlsFindingCosts, OtherFindingsCost, TotalCost
<1>2. AnalyzeSecurity(c, tls, conn, net).score = Clamp(x, 0, 100)
  BY DEF AnalyzeSecurity
<1> HIDE DEF n, m
<1>3. up \in Int
  <2> DEFINE k == afterTls + 5
  <2>1. k \in Int
    BY <1>1
  <2> HIDE DEF k
  <2>2. Min({100, k}) \in Int
    BY <2>1, PairMin
  <2> QED BY <2>2 DEF k
<1> HIDE DEF up
<1>4. x \in Int
  BY <1>1, <1>3
<1> HIDE DEF x
<1> QED BY <1>2, <1>4, ClampIsPercent

--------------------------------------------------------------------------------
(* What the parsers make. *)

\* A grade comes from the list.
LEMMA GradeIs == ASSUME NEW s PROVE IranGrade(s) \in Grades
<1> DEFINE a1 == s >= 85
           a2 == s >= 70
           a3 == s >= 55
           a4 == s >= 40
           g == IranGrade(s)
<1>1. g = FirstOf(<< <<a1, "A">>, <<a2, "B">>, <<a3, "C">>, <<a4, "D">> >>, "F")
  BY Zenon DEF IranGrade
<1> HIDE DEF a1, a2, a3, a4, g
<1>2. g = IF a1 THEN "A" ELSE IF a2 THEN "B" ELSE IF a3 THEN "C" ELSE IF a4 THEN "D" ELSE "F"
  BY <1>1, FirstOfFour
<1>3. g \in Grades
  BY <1>2 DEF Grades
<1> QED BY <1>3 DEF g

\* A table with a default gives one of its entries or the default.
LEMMA GetFrom ==
  ASSUME NEW table, NEW S, \A k \in DOMAIN table : table[k] \in S, NEW name, NEW default \in S
  PROVE  Get(table, name, default) \in S
BY DEF Get

\* The transport of a link is one of the list.
LEMMA TransportIsKnown ==
  ASSUME NEW p, NEW protocol
  PROVE  DetectTransport(p, protocol) \in ParsedTransports
<1>1. \A k \in DOMAIN Networks : Networks[k] \in ParsedTransports
  BY DEF Networks, ParsedTransports
<1>2. "Unknown" \in ParsedTransports /\ "Hysteria2" \in ParsedTransports /\ "TUIC" \in ParsedTransports
  BY DEF ParsedTransports
<1>3. \A network : Get(Networks, network, "Unknown") \in ParsedTransports
  BY <1>1, <1>2, GetFrom
<1> QED BY <1>2, <1>3 DEF DetectTransport

\* So is that of an empty config.
LEMMA EmptyIsKnown == KnownKinds(NoConfig) /\ NoConfig.reality \in BOOLEAN
BY DEF KnownKinds, NoConfig, ParsedProtocols, ParsedTransports

\* What every link parser starts from.
LEMMA UrlIsKnown ==
  ASSUME NEW l, NEW protocol \in ParsedProtocols
  PROVE  LET c == FromUrl(l, protocol)
         IN  DOMAIN c = DOMAIN NoConfig /\ KnownKinds(c) /\ c.reality = FALSE
<1> DEFINE t == DetectTransport(l.params, protocol)
           c == FromUrl(l, protocol)
<1>1. c.protocol = protocol /\ c.transport = t /\ DOMAIN c = DOMAIN NoConfig /\ c.reality = FALSE
  BY DEF FromUrl, NoConfig
<1>2. t \in ParsedTransports
  BY TransportIsKnown
<1> HIDE DEF c, t
<1>3. KnownKinds(c)
  BY <1>1, <1>2 DEF KnownKinds
<1> QED BY <1>1, <1>3 DEF c

\* A config as the parsers make it.
ConfigIsOK(c) == KnownKinds(c) /\ c.reality \in BOOLEAN

\* The parameters of a link say whether it uses REALITY.
LEMMA SecurityIs == ASSUME NEW p PROVE ParseSecurity(p).reality \in BOOLEAN
BY DEF ParseSecurity

\* Each parser makes such a config: VLESS,
LEMMA VlessIsOK == ASSUME NEW l PROVE ConfigIsOK(ParseVless(l))
<1> DEFINE d == FromUrl(l, "VLESS")
           c == ParseVless(l)
<1>1. DOMAIN d = DOMAIN NoConfig /\ KnownKinds(d) /\ d.reality = FALSE
  BY UrlIsKnown DEF ParsedProtocols
<1>2. c.reality = ParseSecurity(l.params).reality /\ c.protocol = d.protocol /\ c.transport = d.transport
  <2> HIDE DEF d
  <2> QED BY <1>1 DEF ParseVless, NoConfig, d
<1> HIDE DEF c, d
<1>3. ConfigIsOK(c)
  BY <1>1, <1>2, SecurityIs DEF ConfigIsOK, KnownKinds
<1> QED BY <1>3 DEF c

\* Trojan,
LEMMA TrojanIsOK == ASSUME NEW l PROVE ConfigIsOK(ParseTrojan(l))
<1> DEFINE d == FromUrl(l, "Trojan")
           c == ParseTrojan(l)
<1>1. DOMAIN d = DOMAIN NoConfig /\ KnownKinds(d) /\ d.reality = FALSE
  BY UrlIsKnown DEF ParsedProtocols
<1>2. c.reality = ParseSecurity(l.params).reality /\ c.protocol = d.protocol /\ c.transport = d.transport
  <2> HIDE DEF d
  <2> QED BY <1>1 DEF ParseTrojan, NoConfig, d
<1> HIDE DEF c, d
<1>3. ConfigIsOK(c)
  BY <1>1, <1>2, SecurityIs DEF ConfigIsOK, KnownKinds
<1> QED BY <1>3 DEF c

\* Hysteria2,
LEMMA Hysteria2IsOK == ASSUME NEW l PROVE ConfigIsOK(ParseHysteria2(l))
<1> DEFINE d == FromUrl(l, "Hysteria2")
           c == ParseHysteria2(l)
<1>1. DOMAIN d = DOMAIN NoConfig /\ KnownKinds(d) /\ d.reality = FALSE
  BY UrlIsKnown DEF ParsedProtocols
<1>2. c.reality = d.reality /\ c.protocol = d.protocol /\ c.transport = d.transport
  <2> HIDE DEF d
  <2> QED BY <1>1 DEF ParseHysteria2, NoConfig, d
<1> HIDE DEF c, d
<1>3. ConfigIsOK(c)
  BY <1>1, <1>2, SecurityIs DEF ConfigIsOK, KnownKinds
<1> QED BY <1>3 DEF c

\* TUIC,
LEMMA TuicIsOK == ASSUME NEW l PROVE ConfigIsOK(ParseTuic(l))
<1> DEFINE d == FromUrl(l, "TUIC")
           c == ParseTuic(l)
<1>1. DOMAIN d = DOMAIN NoConfig /\ KnownKinds(d) /\ d.reality = FALSE
  BY UrlIsKnown DEF ParsedProtocols
<1>2. c.reality = d.reality /\ c.protocol = d.protocol /\ c.transport = d.transport
  <2> HIDE DEF d
  <2> QED BY <1>1 DEF ParseTuic, NoConfig, d
<1> HIDE DEF c, d
<1>3. ConfigIsOK(c)
  BY <1>1, <1>2, SecurityIs DEF ConfigIsOK, KnownKinds
<1> QED BY <1>3 DEF c

\* VMESS,
LEMMA VmessIsOK == ASSUME NEW l PROVE ConfigIsOK(ParseVmess(l))
<1> DEFINE d == l.params
           t == Get(VmessNetworks, Get(d, "net", Get(d, "type", "tcp")), "Unknown")
           c == ParseVmess(l)
<1>1. t \in ParsedTransports
  <2>1. (\A k \in DOMAIN VmessNetworks : VmessNetworks[k] \in ParsedTransports) /\ "Unknown" \in ParsedTransports
    BY DEF VmessNetworks, ParsedTransports
  <2> QED BY <2>1, GetFrom
<1>2. /\ c.protocol = "VMESS" /\ c.reality = FALSE
      /\ c.transport = t \/ c.transport = "Unknown"
  BY DEF ParseVmess, NoConfig
<1> HIDE DEF c, t
<1>3. ConfigIsOK(c)
  BY <1>1, <1>2 DEF ConfigIsOK, KnownKinds, ParsedProtocols, ParsedTransports
<1> QED BY <1>3 DEF c

\* Shadowsocks,
LEMMA ShadowsocksIsOK == ASSUME NEW l PROVE ConfigIsOK(ParseShadowsocks(l))
<1> DEFINE c == ParseShadowsocks(l)
<1>1. /\ c.protocol = "Shadowsocks" /\ c.reality = FALSE
      /\ c.transport = "TCP" \/ c.transport = "Unknown"
  BY DEF ParseShadowsocks, NoConfig
<1> HIDE DEF c
<1>2. ConfigIsOK(c)
  BY <1>1 DEF ConfigIsOK, KnownKinds, ParsedProtocols, ParsedTransports
<1> QED BY <1>2 DEF c

\* OpenVPN,
LEMMA OpenvpnIsOK == ASSUME NEW l PROVE ConfigIsOK(ParseOpenvpn(l))
<1> DEFINE c == ParseOpenvpn(l)
<1>1. c.protocol = "OpenVPN" /\ c.reality = FALSE /\ c.transport = "TCP"
  BY DEF ParseOpenvpn, NoConfig
<1> HIDE DEF c
<1>2. ConfigIsOK(c)
  BY <1>1 DEF ConfigIsOK, KnownKinds, ParsedProtocols, ParsedTransports
<1> QED BY <1>2 DEF c

\* an outbound of a JSON config,
LEMMA OutboundIsOK == ASSUME NEW ob PROVE ConfigIsOK(ParseOutbound(ob))
<1> DEFINE p == Get(JsonProtocols, ob.protocol, "Unknown")
           t == Get(JsonNetworks, Get(ob.stream, "network", "tcp"), "Unknown")
           s == Get(ob.stream, "security", "none")
           c == ParseOutbound(ob)
<1>1. p \in ParsedProtocols
  <2>1. (\A k \in DOMAIN JsonProtocols : JsonProtocols[k] \in ParsedProtocols) /\ "Unknown" \in ParsedProtocols
    BY DEF JsonProtocols, ParsedProtocols
  <2> QED BY <2>1, GetFrom
<1>2. t \in ParsedTransports
  <2>1. (\A k \in DOMAIN JsonNetworks : JsonNetworks[k] \in ParsedTransports) /\ "Unknown" \in ParsedTransports
    BY DEF JsonNetworks, ParsedTransports
  <2> QED BY <2>1, GetFrom
<1>3. c.protocol = p /\ c.reality = (s = "reality") /\ c.transport = t
  BY DEF ParseOutbound, NoConfig
<1> HIDE DEF c, p, t, s
<1>4. (s = "reality") \in BOOLEAN
  OBVIOUS
<1>5. ConfigIsOK(c)
  BY <1>1, <1>2, <1>3, <1>4, Zenon DEF ConfigIsOK, KnownKinds
<1> QED BY <1>5 DEF c

\* a scheme without a parser,
LEMMA NothingParsedIsOK == ASSUME NEW l PROVE ConfigIsOK([NoConfig EXCEPT !.raw = l])
<1> DEFINE c == [NoConfig EXCEPT !.raw = l]
<1>1. c.protocol = "Unknown" /\ c.reality = FALSE /\ c.transport = "Unknown"
  BY DEF NoConfig
<1> HIDE DEF c
<1>2. ConfigIsOK(c)
  BY <1>1 DEF ConfigIsOK, KnownKinds, ParsedProtocols, ParsedTransports
<1> QED BY <1>2 DEF c

\* any link,
LEMMA ShareLinkIsOK == ASSUME NEW l PROVE ConfigIsOK(ParseShareLink(l))
<1>1. \/ ParseShareLink(l) = ParseOpenvpn(l) \/ ParseShareLink(l) = ParseVless(l)
      \/ ParseShareLink(l) = ParseVmess(l) \/ ParseShareLink(l) = ParseTrojan(l)
      \/ ParseShareLink(l) = ParseShadowsocks(l) \/ ParseShareLink(l) = ParseHysteria2(l)
      \/ ParseShareLink(l) = ParseTuic(l) \/ ParseShareLink(l) = [NoConfig EXCEPT !.raw = l]
  BY DEF ParseShareLink
<1> QED
  BY <1>1, OpenvpnIsOK, VlessIsOK, VmessIsOK, TrojanIsOK, ShadowsocksIsOK, Hysteria2IsOK, TuicIsOK, NothingParsedIsOK

\* and any text.
LEMMA ParsedIsOK ==
  ASSUME NEW text, text.kind \in {"json", "array", "conf", "links"}, NEW i \in DOMAIN ParseInput(text)
  PROVE  ConfigIsOK(ParseInput(text)[i])
<1>1. CASE text.kind = "json"
  <2>1. ParseInput(text) = [k \in DOMAIN text.outbounds |-> ParseOutbound(text.outbounds[k])]
    BY <1>1 DEF ParseInput
  <2> QED BY <2>1, OutboundIsOK
<1>2. CASE text.kind \in {"conf", "array"}
  <2>1. ParseInput(text) = << >>
    BY <1>2 DEF ParseInput
  <2> QED BY <2>1
<1>3. CASE text.kind = "links"
  <2>1. ParseInput(text) = [k \in DOMAIN text.links |-> ParseShareLink(text.links[k])]
    BY <1>3 DEF ParseInput
  <2> QED BY <2>1, ShareLinkIsOK
<1> QED BY <1>1, <1>2, <1>3

--------------------------------------------------------------------------------
(* The scenarios of the Result tab. *)

\* A boosted confidence is at most the cap, does not fall below 58 from above it, and is not
\* raised for a plain server once a CDN is named.
LEMMA BoostIs ==
  ASSUME NEW id, NEW base \in 0..100, NEW q
  PROVE  LET b == BoostConfidence(id, base, q)
         IN  /\ b \in 0..92
             /\ 58 <= base => 58 <= b
             /\ id = "direct_vps" /\ q.dep.cdn_type # "" => b <= base
<1> DEFINE vps == id = "direct_vps" /\ q.dep.cdn_type # ""
           cdn == IF id \in CdnTunnelIds THEN 1 ELSE 0
           named == IF q.dep.cdn_type # "" THEN 3 ELSE 0
           abroad == IF ExitIp(q) # "" /\ q.xray.exit_country # "" /\ EdgeCountry(q) # ""
                        /\ q.xray.exit_country # EdgeCountry(q) THEN 2 ELSE 0
           direct == IF id = "direct_vps" /\ q.dep.cdn_type = "" /\ CdnIn(q.net) = {} THEN 5 ELSE 0
           raised == base + cdn * (named + abroad) + direct
           own == id = "reality_camouflage" /\ q.cfg.reality
           agent == id = "cloudflare_tunnel" /\ "cfargotunnel" \in q.dns.cname
           floor == FirstOf(<< <<own, 90>>, <<agent, 88>> >>, 0)
           top == Max({raised, floor})
           b == BoostConfidence(id, base, q)
<1>1. b = Min({92, top})
  BY DEF BoostConfidence, SummaryCap
<1>2. (cdn = 0 \/ cdn = 1) /\ named \in Int /\ abroad \in Int /\ direct \in Int /\ 0 <= named /\ 0 <= abroad /\ 0 <= direct
  OBVIOUS
<1>3. vps => cdn = 0 /\ ~own /\ ~agent /\ direct = 0
  BY DEF CdnTunnelIds
<1> HIDE DEF vps, cdn, named, abroad, direct, own, agent
<1>4. \A x \in Int : 0 * x = 0 /\ 1 * x = x
  OBVIOUS
<1>5. raised \in Int /\ base <= raised /\ (vps => raised = base)
  <2> DEFINE more == named + abroad
  <2>1. more \in Int /\ 0 <= more
    BY <1>2
  <2>2. raised = base + cdn * more + direct
    OBVIOUS
  <2> HIDE DEF more, raised
  <2>3. CASE cdn = 0
    <3>1. raised = base + 0 + direct
      BY <2>1, <2>2, <2>3, <1>4
    <3> QED BY <3>1, <1>2, <1>3
  <2>4. CASE cdn = 1
    <3>1. raised = base + more + direct
      BY <2>1, <2>2, <2>4, <1>4
    <3> QED BY <3>1, <1>2, <1>3, <2>1, <2>4
  <2> QED BY <1>2, <2>3, <2>4
<1>6. floor = IF own THEN 90 ELSE IF agent THEN 88 ELSE 0
  BY FirstOfTwo
<1> HIDE DEF raised, floor
<1>7. floor \in Int /\ 0 <= floor /\ (vps => floor = 0)
  BY <1>3, <1>6
<1>8. top = IF raised <= floor THEN floor ELSE raised
  BY <1>5, <1>7, PairMax
<1> HIDE DEF top, b
<1>9. top \in Int /\ base <= top /\ (vps => top = base)
  BY <1>5, <1>7, <1>8
<1>10. b = IF 92 <= top THEN 92 ELSE top
  BY <1>1, <1>9, PairMin
<1>11. b \in 0..92 /\ (58 <= base => 58 <= b) /\ (vps => b <= base)
  BY <1>9, <1>10
<1> QED BY <1>11 DEF b, vps

\* What the tier does to one confidence: without an edge a CDN is capped at 42 and a plain
\* server raised to 48, and with one a CDN keeps 58.
LEMMA CapIs ==
  ASSUME NEW id, NEW conf \in 0..100, NEW tier
  PROVE  LET v == CapTunnelConfidence(id, conf, tier)
         IN  /\ v \in 0..100
             /\ id \in CdnTunnelIds /\ tier = "unconfirmed" => v <= 42
             /\ id = "direct_vps" /\ tier # "confirmed" => 48 <= v /\ (conf <= 48 => v = 48)
             /\ id = "direct_vps" /\ tier = "confirmed" => v = conf
             /\ id \in CdnTunnelIds /\ tier # "unconfirmed" /\ 58 <= conf => 58 <= v
<1> DEFINE c1 == id \in CdnTunnelIds /\ tier = "unconfirmed"
           c2 == id \in CdnTunnelIds /\ tier = "probable"
           c3 == id = "direct_vps" /\ tier # "confirmed"
           v1 == Min({conf, 42})
           v2 == Min({conf, 62})
           v3 == Max({conf, 48})
           v == CapTunnelConfidence(id, conf, tier)
<1>1. v = FirstOf(<< <<c1, v1>>, <<c2, v2>>, <<c3, v3>> >>, conf)
  BY DEF CapTunnelConfidence
<1>2. /\ v1 = IF conf <= 42 THEN conf ELSE 42
      /\ v2 = IF conf <= 62 THEN conf ELSE 62
      /\ v3 = IF conf <= 48 THEN 48 ELSE conf
  BY PairMin, PairMax
<1>3. id = "direct_vps" => id \notin CdnTunnelIds
  BY DEF CdnTunnelIds
<1> HIDE DEF v1, v2, v3, v, c1, c2, c3
<1>4. v = IF c1 THEN v1 ELSE IF c2 THEN v2 ELSE IF c3 THEN v3 ELSE conf
  BY <1>1, FirstOfThree
<1>5. /\ v \in 0..100
      /\ id \in CdnTunnelIds /\ tier = "unconfirmed" => v <= 42
      /\ id = "direct_vps" /\ tier # "confirmed" => 48 <= v /\ (conf <= 48 => v = 48)
      /\ id = "direct_vps" /\ tier = "confirmed" => v = conf
      /\ id \in CdnTunnelIds /\ tier # "unconfirmed" /\ 58 <= conf => 58 <= v
  BY <1>2, <1>3, <1>4 DEF c1, c2, c3
<1> QED BY <1>5 DEF v

\* The topologies that were matched.
Matched(q) == {m.id : m \in q.tun.detected}
\* The topologies that the deployment guesses speak of.
Guessed(q) == {GuessTunnelId[g.name] : g \in q.dep.guesses}

\* The confidences a topology has from its matches.
MatchScores(q, id) ==
    {CapTunnelConfidence(id, BoostConfidence(id, m.conf, q), CdnFrontingTier(q)) :
        m \in {d \in q.tun.detected : d.id = id}}

\* The confidences a topology has from its guesses.
GuessScores(q, id) == {g.conf : g \in {h \in q.dep.guesses : GuessTunnelId[h.name] = id}}

\* The confidence of a scenario.
ScenarioScore(q, id) ==
    LET ofMatch == Max(MatchScores(q, id))
        ofGuess == Max(GuessScores(q, id))
    IN  IF id \notin Guessed(q) THEN ofMatch
        ELSE IF id \in Matched(q) /\ ofGuess <= ofMatch THEN ofMatch
        ELSE BoostConfidence(id, ofGuess, q)

\* There is one scenario for every topology that was matched or guessed.
LEMMA RankedIs ==
  ASSUME NEW q
  PROVE  RankedScenarios(q) = {[id |-> id, conf |-> ScenarioScore(q, id)] : id \in Matched(q) \cup Guessed(q)}
BY DEF RankedScenarios, ScenarioScore, Matched, Guessed, MatchScores, GuessScores

\* An analysis whose matches and guesses have percentages.
Scored(q) ==
  /\ \A m \in q.tun.detected : m.conf \in 0..100
  /\ \A g \in q.dep.guesses : g.conf \in 0..100

\* The best match of a topology has a percentage.
LEMMA MatchScoreIs ==
  ASSUME NEW q, Scored(q), NEW id \in Matched(q)
  PROVE  Max(MatchScores(q, id)) \in 0..100
<1>1. ASSUME NEW x \in MatchScores(q, id) PROVE x \in 0..100
  <2>1. PICK m \in q.tun.detected : x = CapTunnelConfidence(id, BoostConfidence(id, m.conf, q), CdnFrontingTier(q))
    BY DEF MatchScores
  <2> DEFINE b == BoostConfidence(id, m.conf, q)
             tier == CdnFrontingTier(q)
  <2>2. b \in 0..92
    BY BoostIs DEF Scored
  <2>3. x = CapTunnelConfidence(id, b, tier)
    BY <2>1
  <2> HIDE DEF b, tier
  <2>4. b \in 0..100
    BY <2>2
  <2> QED BY <2>3, <2>4, CapIs
<1>2. MatchScores(q, id) # {}
  BY DEF MatchScores, Matched
<1>3. Within(MatchScores(q, id), 0, 100)
  BY <1>1, <1>2 DEF Within
<1> QED BY <1>3, MaxMinWithin

\* So has its best guess.
LEMMA GuessScoreIs ==
  ASSUME NEW q, Scored(q), NEW id \in Guessed(q)
  PROVE  LET n == Max(GuessScores(q, id))
         IN  n \in GuessScores(q, id) /\ n \in 0..100 /\ \A x \in GuessScores(q, id) : x <= n
<1>1. ASSUME NEW x \in GuessScores(q, id) PROVE x \in 0..100
  BY DEF GuessScores, Scored
<1>2. GuessScores(q, id) # {}
  BY DEF GuessScores, Guessed
<1>3. Within(GuessScores(q, id), 0, 100)
  BY <1>1, <1>2 DEF Within
<1> QED BY <1>3, MaxMinWithin

\* So has its scenario.
LEMMA ScenarioIsScored ==
  ASSUME NEW q, Scored(q), NEW id \in Matched(q) \cup Guessed(q)
  PROVE  ScenarioScore(q, id) \in 0..100
<1> DEFINE m == Max(MatchScores(q, id))
           g == Max(GuessScores(q, id))
<1>1. id \in Matched(q) => m \in 0..100
  BY MatchScoreIs
<1>2. id \in Guessed(q) => g \in 0..100
  BY GuessScoreIs
<1>3. ScenarioScore(q, id) = IF id \notin Guessed(q) THEN m
                             ELSE IF id \in Matched(q) /\ g <= m THEN m ELSE BoostConfidence(id, g, q)
  BY DEF ScenarioScore
<1> HIDE DEF m, g
<1>4. id \in Guessed(q) => BoostConfidence(id, g, q) \in 0..92
  BY <1>2, BoostIs
<1> QED BY <1>1, <1>3, <1>4

\* A scenario as it is ranked.
IsScenario(s) == DOMAIN s = {"id", "conf"} /\ s.conf \in 0..100

\* A scenario and what the post-processing for a tier makes of it.
CappedOK(p, s, tier) ==
  /\ DOMAIN p = {"id", "conf"} /\ p.id = s.id /\ p.conf \in 0..100
  /\ s.id \in CdnTunnelIds /\ tier = "unconfirmed" => p.conf <= 42
  /\ s.id = "direct_vps" /\ tier = "unconfirmed" => 48 <= p.conf
  /\ s.id = "direct_vps" /\ s.conf <= 25 => p.conf <= 48
  /\ s.id = "cdn_fronting" /\ tier # "unconfirmed" /\ 58 <= s.conf => 58 <= p.conf

\* The caps of the post-processing leave one scenario within those bounds.
LEMMA CappingIs ==
  ASSUME NEW s, IsScenario(s), NEW tier, NEW specific, NEW anycast, anycast => s.id = "load_balancer"
  PROVE  LET capped == Min({s.conf, SummaryCap} \cup (IF s.id = "cdn_fronting" /\ specific THEN {72} ELSE {}))
             aligned == CapTunnelConfidence(s.id, capped, tier)
         IN  CappedOK([s EXCEPT !.conf = Min({aligned}
                         \cup (IF tier = "confirmed" /\ s.id = "direct_vps" THEN {22} ELSE {})
                         \cup (IF anycast THEN {32} ELSE {}))], s, tier)
<1> DEFINE lower == IF s.id = "cdn_fronting" /\ specific THEN {72} ELSE {}
           C == {s.conf, SummaryCap} \cup lower
           capped == Min(C)
           aligned == CapTunnelConfidence(s.id, capped, tier)
           own == IF tier = "confirmed" /\ s.id = "direct_vps" THEN {22} ELSE {}
           many == IF anycast THEN {32} ELSE {}
           A == {aligned} \cup own \cup many
           p == [s EXCEPT !.conf = Min(A)]
<1>1. SummaryCap = 92 /\ lower \subseteq {72} /\ own \subseteq {22} /\ many \subseteq {32}
  BY DEF SummaryCap
<1>2. /\ s.id = "direct_vps" /\ tier # "confirmed" => own = {} /\ many = {}
      /\ s.id = "cdn_fronting" => own = {} /\ many = {}
      /\ "cdn_fronting" \in CdnTunnelIds
  BY DEF CdnTunnelIds
<1> HIDE DEF lower, own, many
<1>3. Within(C, 0, 100)
  <2>1. s.conf \in 0..100 /\ SummaryCap \in 0..100 /\ \A x \in lower : x \in 0..100
    BY <1>1 DEF IsScenario
  <2>2. \A x \in C : x \in 0..100
    BY <2>1
  <2>3. s.conf \in C
    OBVIOUS
  <2> HIDE DEF C
  <2> QED BY <2>2, <2>3 DEF Within
<1>4. capped \in C /\ capped \in 0..100 /\ \A x \in C : capped <= x
  BY <1>3, MaxMinWithin
<1>5. 58 <= s.conf => 58 <= capped
  BY <1>1, <1>4
<1>6. capped <= s.conf
  BY <1>4
<1> HIDE DEF C, capped, aligned
<1>7. /\ aligned \in 0..100
      /\ s.id \in CdnTunnelIds /\ tier = "unconfirmed" => aligned <= 42
      /\ s.id = "direct_vps" /\ tier # "confirmed" => 48 <= aligned /\ (capped <= 48 => aligned = 48)
      /\ s.id = "direct_vps" /\ tier = "confirmed" => aligned = capped
      /\ s.id \in CdnTunnelIds /\ tier # "unconfirmed" /\ 58 <= capped => 58 <= aligned
  BY <1>4, CapIs DEF aligned
<1>8. Within(A, 0, 100)
  BY <1>1, <1>7 DEF Within
<1> DEFINE low == Min(A)
<1>9. low \in A /\ low \in 0..100 /\ low <= aligned
  <2>1. low \in A /\ low \in 0..100 /\ \A x \in A : low <= x
    BY <1>8, MaxMinWithin
  <2>2. aligned \in A
    OBVIOUS
  <2> HIDE DEF low, A
  <2> QED BY <2>1, <2>2
<1>10. own = {} /\ many = {} => low = aligned
  <2> SUFFICES ASSUME own = {}, many = {} PROVE low = aligned
    OBVIOUS
  <2>1. A = {aligned}
    OBVIOUS
  <2> HIDE DEF A
  <2>2. low \in A
    BY <1>9
  <2> HIDE DEF low
  <2> QED BY <2>1, <2>2
<1> HIDE DEF A, low
<1>11. p.conf = low /\ p.id = s.id /\ DOMAIN p = {"id", "conf"}
  BY DEF IsScenario, low
<1> HIDE DEF p
<1>12. s.conf \in 0..100
  BY DEF IsScenario
<1>13. CappedOK(p, s, tier)
  <2>1. CASE s.id = "direct_vps"
    <3>1. s.id \notin CdnTunnelIds /\ s.id # "cdn_fronting"
      BY <2>1 DEF CdnTunnelIds
    <3>2. tier = "unconfirmed" => 48 <= p.conf
      BY <1>2, <1>7, <1>10, <1>11, <2>1
    <3>3. s.conf <= 25 => p.conf <= 48
      BY <1>4, <1>6, <1>7, <1>9, <1>11, <1>12, <2>1
    <3> QED BY <1>9, <1>11, <3>1, <3>2, <3>3 DEF CappedOK
  <2>2. CASE s.id # "direct_vps"
    <3>1. s.id \in CdnTunnelIds /\ tier = "unconfirmed" => p.conf <= 42
      BY <1>7, <1>9, <1>11
    <3>2. s.id = "cdn_fronting" /\ tier # "unconfirmed" /\ 58 <= s.conf => 58 <= p.conf
      BY <1>2, <1>5, <1>7, <1>10, <1>11
    <3> QED BY <1>9, <1>11, <2>2, <3>1, <3>2 DEF CappedOK
  <2> QED BY <2>1, <2>2
<1> QED BY <1>13 DEF p, low, A, own, many, aligned, capped, C, lower

\* So they do for every scenario, and none is dropped.
LEMMA PostProcessIs ==
  ASSUME NEW q, NEW ranked, \A s \in ranked : IsScenario(s)
  PROVE  /\ \A p \in PostProcessRanked(q, ranked) : \E s \in ranked : CappedOK(p, s, CdnFrontingTier(q))
         /\ \A s \in ranked : \E p \in PostProcessRanked(q, ranked) : CappedOK(p, s, CdnFrontingTier(q))
<1> DEFINE specific == \E s \in ranked : s.id \in CdnTunnelIds \ {"cdn_fronting"} /\ s.conf >= 70
           tier == CdnFrontingTier(q)
           capped(s) == Min({s.conf, SummaryCap} \cup (IF s.id = "cdn_fronting" /\ specific THEN {72} ELSE {}))
           anycast(s) == s.id = "load_balancer" /\ q.dep.cdn_type # "" /\ Cardinality(q.dns.a) >= 2
           Post(s) == [s EXCEPT !.conf = Min({CapTunnelConfidence(s.id, capped(s), tier)}
                         \cup (IF tier = "confirmed" /\ s.id = "direct_vps" THEN {22} ELSE {})
                         \cup (IF anycast(s) THEN {32} ELSE {}))]
<1>1. PostProcessRanked(q, ranked) = {Post(s) : s \in ranked}
  BY DEF PostProcessRanked, EdgeProven
<1>2. ASSUME NEW s \in ranked PROVE CappedOK(Post(s), s, tier)
  <2>1. anycast(s) => s.id = "load_balancer"
    OBVIOUS
  <2> HIDE DEF anycast, specific, tier
  <2>2. IsScenario(s)
    OBVIOUS
  <2> QED BY <2>1, <2>2, CappingIs
<1> HIDE DEF Post
<1> QED BY <1>1, <1>2

\* The confidences of the Result tab are percentages.
LEMMA RankedArePercents ==
  ASSUME NEW q, Scored(q)
  PROVE  \A p \in Ranked(q) : p.conf \in 0..100
<1>1. ASSUME NEW s \in RankedScenarios(q) PROVE IsScenario(s)
  <2>1. PICK id \in Matched(q) \cup Guessed(q) : s = [id |-> id, conf |-> ScenarioScore(q, id)]
    BY RankedIs
  <2> QED BY <2>1, ScenarioIsScored DEF IsScenario
<1> QED BY <1>1, PostProcessIs DEF Ranked, CappedOK

--------------------------------------------------------------------------------
(* Matches, guesses and a CDN on the wire. *)

\* A match with its place in the list.
Placed(m) == m.place \in Nat

\* The topology of a CDN is not a direct one.
LEMMA CdnTunnelIdsAre == \A t \in CdnTunnels : t[2] \notin DirectTopologyIds
<1>1. \A n : n \in {"cloudflare_cdn", "arvan_cdn", "akamai_cdn", "fastly_cdn", "cloudfront_cdn", "bunny_cdn", "gcore_cdn"}
        => n \notin DirectTopologyIds
  BY DEF DirectTopologyIds
<1>2. \A t \in CdnTunnels :
        t[2] \in {"cloudflare_cdn", "arvan_cdn", "akamai_cdn", "fastly_cdn", "cloudfront_cdn", "bunny_cdn", "gcore_cdn"}
  <2>1. \A a, b : <<a, b>>[2] = b
    OBVIOUS
  <2> TAKE t \in CdnTunnels
  <2>2. \E a, b : t = <<a, b>> /\ b \in {"cloudflare_cdn", "arvan_cdn", "akamai_cdn", "fastly_cdn", "cloudfront_cdn",
                                        "bunny_cdn", "gcore_cdn"}
    BY DEF CdnTunnels
  <2> QED BY <2>1, <2>2, Zenon
<1> QED BY <1>1, <1>2

\* The matches of CDNs have their places, which follow the order of a Python set.
LEMMA CdnMatchesPlaced ==
  ASSUME NEW c, NEW dns, NEW net, NEW conn, NEW dep, NEW setOrder, \A t \in CdnTunnels : setOrder[t[1]] \in Nat
  PROVE  \A m \in CdnMatches(c, dns, net, conn, dep, setOrder) : m.id \notin DirectTopologyIds /\ Placed(m)
<1> DEFINE onCdn == CdnIn(net)
           frontedConf == IF onCdn = {} THEN 55 ELSE Min({95, Max({ip.conf : ip \in onCdn}) + 5})
           Own(t) == {ip \in net : ip.cdn = t[1]}
           ownConf(t) == Min({98, (IF Own(t) = {} THEN 70 ELSE Max({ip.conf : ip \in Own(t)})) + 5})
           signal == onCdn # {} \/ PrimaryCdn(dep, conn) # "" \/ dns.cname \cap CdnNames # {}
           listed == Selected(<<
               <<TRUE, "cdn_type">>, <<conn.http_server # "", "http_server">>,
               <<dep.cdn_ips # {} \/ dns.a # {}, "ips">>, <<IsIp(c.address) /\ c.sni # "", "link_ip">> >>)
           ownEvidence(t) == Selected(<< <<TRUE, "cdn">>, <<Own(t) # {}, "ips">>,
                                         <<\E ip \in Own(t) : ip.asn # "", "asn">> >>)
           named == {u \in CdnTunnels : u[1] \in DetectedCdns(net, conn)}
           OwnMatch(t) == Match(t[2], ownConf(t), ownEvidence(t), 40 + setOrder[t[1]])
           fronted == Match("cdn_fronting", frontedConf, listed, 30)
<1>1. CdnMatches(c, dns, net, conn, dep, setOrder)
        = (IF ~signal THEN {} ELSE {fronted}) \cup {OwnMatch(t) : t \in named}
  BY DEF CdnMatches
<1>2. \A id, conf, e, place : Match(id, conf, e, place).id = id /\ Match(id, conf, e, place).place = place
  BY DEF Match
<1>3. fronted.id \notin DirectTopologyIds /\ Placed(fronted)
  <2>1. "cdn_fronting" \notin DirectTopologyIds /\ 30 \in Nat
    BY DEF DirectTopologyIds
  <2> HIDE DEF frontedConf, listed
  <2>2. fronted.id = "cdn_fronting" /\ fronted.place = 30
    BY <1>2
  <2> HIDE DEF fronted
  <2> QED BY <2>1, <2>2 DEF Placed
<1>4. ASSUME NEW t \in named PROVE OwnMatch(t).id \notin DirectTopologyIds /\ Placed(OwnMatch(t))
  <2>1. t[2] \notin DirectTopologyIds /\ 40 + setOrder[t[1]] \in Nat
    BY CdnTunnelIdsAre
  <2> DEFINE place == 40 + setOrder[t[1]]
  <2> HIDE DEF ownConf, ownEvidence
  <2>a. OwnMatch(t) = Match(t[2], ownConf(t), ownEvidence(t), place)
    OBVIOUS
  <2> HIDE DEF OwnMatch
  <2>2. OwnMatch(t).id = t[2] /\ OwnMatch(t).place = place
    BY <1>2, <2>a
  <2>3. place \in Nat
    BY <2>1
  <2> HIDE DEF place
  <2> QED BY <2>1, <2>2, <2>3, Zenon DEF Placed
<1> HIDE DEF signal, fronted, OwnMatch, named
<1> QED BY <1>1, <1>3, <1>4

\* An answer that names a CDN excludes both direct topologies.
LEMMA DirectNeedsNoCdn ==
  ASSUME NEW dep, NEW conn, conn.http_cdn # ""
  PROVE  /\ \A c, dns, net : DirectVpsMatch(c, dns, net, conn, dep) = {}
         /\ \A net, verified : DirectInboundMatch(net, conn, dep, verified) = {}
<1>1. PrimaryCdn(dep, conn) # ""
  BY DEF PrimaryCdn
<1> QED BY <1>1 DEF DirectVpsMatch, DirectInboundMatch

\* The matches of the direct topologies have their places.
LEMMA DirectMatchesPlaced ==
  ASSUME NEW c, NEW dns, NEW net, NEW conn, NEW dep, NEW verified
  PROVE  \A m \in DirectVpsMatch(c, dns, net, conn, dep) \cup DirectInboundMatch(net, conn, dep, verified) : Placed(m)
<1> DEFINE direct == IsIp(c.address)
           first == {n \in net : n.pos = 1 /\ n.is_datacenter}
           some == first # {}
           named == ~direct /\ dns.a # {}
           conf == FirstOf(<< <<direct, 75>>, <<some, 70>>, <<named, 60>> >>, 45)
           listed == Selected(<< <<direct, "direct_ip">>, <<some, "datacenter">>, <<named, "dns_a">> >>)
           vps == Match("direct_vps", conf, listed, 60)
           panel == {"internet_e2e_verified", "no_proxy_header"} \cup (IF conn.http_panel THEN {"panel"} ELSE {})
           inbound == Match("direct_xray_inbound", IF conn.http_panel THEN 78 ELSE 62, panel, 70)
<1>1. DirectVpsMatch(c, dns, net, conn, dep) \subseteq {vps}
  BY DEF DirectVpsMatch
<1>2. DirectInboundMatch(net, conn, dep, verified) \subseteq {inbound}
  BY DEF DirectInboundMatch
<1>3. \A id, n, e, place : Match(id, n, e, place).place = place
  BY DEF Match
<1> HIDE DEF conf, listed, panel
<1>4. vps.place = 60 /\ inbound.place = 70
  BY <1>3
<1> HIDE DEF vps, inbound
<1> QED BY <1>1, <1>2, <1>4 DEF Placed

\* All matches have their places, and none is direct behind a named CDN.
LEMMA DetectedArePlaced ==
  ASSUME NEW q, EdgesRated(q.net), IsScore(ProxyGuess(q.dep)), \A t \in CdnTunnels : q.setOrder[t[1]] \in Nat
  PROVE  /\ \A m \in DetectedTunnels(q) : Placed(m)
         /\ q.conn.http_cdn # "" => \A m \in DetectedTunnels(q) : m.id \notin DirectTopologyIds
<1> DEFINE direct == DirectVpsMatch(q.cfg, q.dns, q.net, q.conn, q.dep)
           inbound == DirectInboundMatch(q.net, q.conn, q.dep, LiveProxyOk(q))
           edge == CdnMatches(q.cfg, q.dns, q.net, q.conn, q.dep, q.setOrder)
<1>1. \A m \in DetectedTunnels(q) : m \in direct \/ m \in inbound \/ m \in edge \/ PlainMatch(m)
  BY ProtocolMatchesOK, FrontingMatchesOK, ReverseProxyMatchOK, RemarkMatchesOK DEF DetectedTunnels
<1>2. \A m \in edge : m.id \notin DirectTopologyIds /\ Placed(m)
  BY CdnMatchesPlaced
<1>3. \A m \in direct \cup inbound : Placed(m)
  BY DirectMatchesPlaced
<1>4. q.conn.http_cdn # "" => direct = {} /\ inbound = {}
  BY DirectNeedsNoCdn
<1>5. \A m : PlainMatch(m) => m.id \notin DirectTopologyIds /\ Placed(m)
  BY DEF PlainMatch, Placed
<1> HIDE DEF direct, inbound, edge
<1> QED BY <1>1, <1>2, <1>3, <1>4, <1>5

\* The same topology at the same place.
SameMatch(t, m) == t.id = m.id /\ t.place = m.place

\* The calibration of a match keeps its topology and its place,
LEMMA CalibratedTunnelKeeps ==
  ASSUME NEW m, NEW live
  PROVE  LET t == CalibratedTunnel(m, live) IN DOMAIN t = RatedFields /\ SameMatch(t, m)
<1> DEFINE cal == CalibrateEvidence(m.conf, live, Cardinality(m.evidence), DirectObservation(m.evidence),
                                    m.conf < 40 /\ Cardinality(m.evidence) < 2)
           t == CalibratedTunnel(m, live)
<1>1. t = [id |-> m.id, conf |-> m.conf, evidence |-> m.evidence, place |-> m.place,
           cal |-> cal.value, level |-> cal.level]
  BY DEF CalibratedTunnel, RatedTunnel
<1> HIDE DEF cal, t
<1>2. DOMAIN t = RatedFields /\ SameMatch(t, m)
  BY <1>1 DEF RatedFields, SameMatch
<1> QED BY <1>2 DEF t

\* and so does the rule about contradictions
LEMMA ResolvedTunnelKeeps ==
  ASSUME NEW m, DOMAIN m = RatedFields, NEW q, NEW cdnStrong
  PROVE  LET t == ResolveTunnel(m, q, cdnStrong) IN DOMAIN t = RatedFields /\ SameMatch(t, m)
<1> DEFINE onCdn == m.id \in CdnTunnelIds
           contradicted == cdnStrong /\ m.id \in DirectTopologyIds
           unseen == onCdn /\ ~CdnDetected(q) /\ m.conf < 75
           proxied == m.id = "direct_xray_inbound" /\ q.conn.http_reverse_proxy # ""
           cal == Min({m.cal} \cup (IF contradicted THEN {5500} ELSE {}) \cup (IF unseen THEN {6200} ELSE {})
                      \cup (IF proxied THEN {5000} ELSE {}))
           level == FirstOf(<< <<proxied, "Weak">>, <<contradicted, Demote(m.level, 2)>>,
                               <<unseen, Demote(m.level, 1)>> >>, m.level)
           t == ResolveTunnel(m, q, cdnStrong)
<1>1. t = [m EXCEPT !.cal = cal, !.level = level]
  BY DEF ResolveTunnel
<1> HIDE DEF t, cal, level
<1>2. DOMAIN t = RatedFields /\ SameMatch(t, m)
  BY <1>1 DEF RatedFields, SameMatch
<1> QED BY <1>2 DEF t

\* and the rule about several CDNs.
LEMMA TunnelRulesKeep ==
  ASSUME NEW S, \A m \in S : DOMAIN m = RatedFields, NEW q
  PROVE  \A t \in TunnelConflictRules(S, q) : \E m \in S : SameMatch(t, m)
<1> DEFINE onCdn(T) == {m \in T : m.id \in CdnTunnelIds}
           cdnStrong == CdnDetected(q) /\ \E m \in onCdn(S) : m.conf >= 65
           updated == {ResolveTunnel(m, q, cdnStrong) : m \in S}
           best == Max({0} \cup {m.cal : m \in onCdn(updated)})
           beaten(m) == m \in onCdn(updated) /\ m.cal < best
           lower(m) == Min({m.cal, best - 1500})
           Final(m) == IF beaten(m) THEN [m EXCEPT !.cal = lower(m), !.level = Demote(m.level, 1)] ELSE m
<1>1. TunnelConflictRules(S, q) = {Final(m) : m \in updated}
  BY DEF TunnelConflictRules
<1> HIDE DEF cdnStrong
<1>2. \A u \in updated : DOMAIN u = RatedFields /\ \E m \in S : SameMatch(u, m)
  BY ResolvedTunnelKeeps
<1> HIDE DEF updated, beaten, lower
<1>3. ASSUME NEW u \in updated PROVE SameMatch(Final(u), u)
  <2>1. Final(u) = u \/ \E cal, level : Final(u) = [u EXCEPT !.cal = cal, !.level = level]
    BY Zenon
  <2> HIDE DEF Final
  <2> QED BY <1>2, <2>1 DEF RatedFields, SameMatch
<1> HIDE DEF Final
<1> QED BY <1>1, <1>2, <1>3 DEF SameMatch

\* The same guess with the same confidence.
SameGuess(g, h) == g.name = h.name /\ g.conf = h.conf

\* The rules between the guesses lose none of them and leave the confidences alone.
LEMMA GuessRulesKeep ==
  ASSUME NEW S, \A g \in S : IsGuess(g), NEW q
  PROVE  /\ \A g \in DeploymentConflictRules(S, q) : \E h \in S : SameGuess(g, h)
         /\ \A h \in S : \E g \in DeploymentConflictRules(S, q) : SameGuess(g, h)
<1> DEFINE likely(T) == {g \in T : g.name \in CdnGuessNames /\ g.conf >= 55}
           cdnStrong == CdnDetected(q) /\ \E g \in S : g.name \in CdnGuessNames /\ g.conf >= 70
           updated == {ResolveGuess(g, q, cdnStrong) : g \in S}
           winners == {g \in likely(updated) : \A o \in likely(updated) : o.cal <= g.cal}
           winner == CHOOSE g \in winners : \A o \in winners :
                      o.conf < g.conf \/ (o.conf = g.conf /\ GuessPos(g.name) <= GuessPos(o.name))
           Lower(g) == Min({g.cal, 5800})
           Weakened(g) == IF g \in likely(updated) \ {winner}
                          THEN [g EXCEPT !.cal = Lower(g), !.level = "Weak"] ELSE g
           result == DeploymentConflictRules(S, q)
<1>1. result = IF Cardinality(likely(updated)) < 2 THEN updated ELSE {Weakened(g) : g \in updated}
  BY DEF DeploymentConflictRules
<1> HIDE DEF cdnStrong, result
<1>2. ASSUME NEW h \in S PROVE LET g == ResolveGuess(h, q, cdnStrong) IN IsGuess(g) /\ SameGuess(g, h)
  BY ResolvedStaysGuess DEF SameGuess
<1>3. /\ \A u \in updated : IsGuess(u) /\ \E h \in S : SameGuess(u, h)
      /\ \A h \in S : \E u \in updated : SameGuess(u, h)
  BY <1>2
<1> HIDE DEF updated, winner, Lower, likely
<1>4. ASSUME NEW u \in updated PROVE SameGuess(Weakened(u), u)
  <2>1. Weakened(u) = u \/ \E cal, level : Weakened(u) = [u EXCEPT !.cal = cal, !.level = level]
    BY Zenon
  <2> HIDE DEF Weakened
  <2> QED BY <1>3, <2>1 DEF IsGuess, SameGuess
<1> HIDE DEF Weakened
<1>5. /\ \A g \in result : \E u \in updated : SameGuess(g, u)
      /\ \A u \in updated : \E g \in result : SameGuess(g, u)
  BY <1>1, <1>4 DEF SameGuess
<1>6. /\ \A g \in result : \E h \in S : SameGuess(g, h)
      /\ \A h \in S : \E g \in result : SameGuess(g, h)
  BY <1>3, <1>5 DEF SameGuess
<1> QED BY <1>6 DEF result

\* Calibrated guesses with the confidences of the deployment.
GuessesFollow(guesses, scores) ==
  /\ \A g \in guesses : g.name \in GuessNames /\ g.conf = scores[g.name]
  /\ \A n \in GuessNames : \E g \in guesses : g.name = n /\ g.conf = scores[n]

\* The calibration keeps all guesses and adds no match.
LEMMA CalibrationKeeps ==
  ASSUME NEW q, GuessesScored(q.dep), NEW dpi, NEW camouflage, NEW origin
  PROVE  LET cal == CalibrationOf(q, dpi, camouflage, origin)
         IN  /\ GuessesFollow(cal.guesses, q.dep.guesses)
             /\ \A t \in cal.tunnels : \E m \in q.tun.detected : SameMatch(t, m)
<1> DEFINE live == LiveProxyOk(q)
           seen == {t \in q.tun.detected : t.evidence # {}}
           matches == {CalibratedTunnel(m, live) : m \in seen}
           scores == q.dep.guesses
           raw == {CalibratedGuess(n, scores[n], q) : n \in DOMAIN scores}
           tunnels == TunnelConflictRules(matches, q)
           guesses == DeploymentConflictRules(raw, q)
           cal == CalibrationOf(q, dpi, camouflage, origin)
<1>1. cal.tunnels = tunnels /\ cal.guesses = guesses
  BY DEF CalibrationOf
<1>2. \A g \in raw : IsGuess(g)
  BY GuessesCalibrated
<1>3. DOMAIN scores = GuessNames /\ \A n \in GuessNames : scores[n] \in 0..100
  BY DEF GuessesScored, IsScore
<1>4. \A m \in matches : DOMAIN m = RatedFields /\ \E d \in q.tun.detected : SameMatch(m, d)
  BY CalibratedTunnelKeeps
<1> HIDE DEF live, seen, matches, scores, cal
<1>5. ASSUME NEW n \in GuessNames
      PROVE  LET g == CalibratedGuess(n, scores[n], q) IN g.name = n /\ g.conf = scores[n]
  <2>1. PICK conf \in 0..100 : conf = scores[n]
    BY <1>3
  <2> QED BY <2>1, CalibratedIsGuess
<1>6. /\ \A g \in raw : g.name \in GuessNames /\ g.conf = scores[g.name]
      /\ \A n \in GuessNames : \E g \in raw : g.name = n /\ g.conf = scores[n]
  BY <1>3, <1>5
<1> HIDE DEF raw
<1>7. /\ \A g \in guesses : \E h \in raw : SameGuess(g, h)
      /\ \A h \in raw : \E g \in guesses : SameGuess(g, h)
  BY <1>2, GuessRulesKeep
<1>8. \A t \in tunnels : \E m \in matches : SameMatch(t, m)
  BY <1>4, TunnelRulesKeep
<1> HIDE DEF guesses, tunnels
<1>9. GuessesFollow(guesses, scores)
  BY <1>6, <1>7 DEF GuessesFollow, SameGuess
<1>10. \A t \in tunnels : \E m \in q.tun.detected : SameMatch(t, m)
  BY <1>4, <1>8 DEF SameMatch
<1> QED BY <1>1, <1>9, <1>10 DEF cal, scores

\* An answer over HTTP named a CDN.
OnEdge(conn) == conn.http_cdn # ""

\* A plain server is then a weak guess,
LEMMA DirectGuessOnEdge ==
  ASSUME NEW c, NEW dns, NEW net, NEW conn, OnEdge(conn)
  PROVE  GuessOf("Direct VPS", c, dns, net, conn) = 25
<1> DEFINE a == IsIp(c.address) /\ CdnEvidence(c, net, conn) = {}
           b == CdnEvidence(c, net, conn) = {} /\ dns.cname = {}
           g == GuessOf("Direct VPS", c, dns, net, conn)
<1>1. CdnEvidence(c, net, conn) # {}
  BY DEF CdnEvidence, CdnIn, OnEdge
<1>2. g = FirstOf(<< <<a, 70>>, <<b, 45>> >>, 25)
  BY Zenon DEF GuessOf
<1>3. ~a /\ ~b
  BY <1>1
<1> HIDE DEF a, b, g
<1>4. FirstOf(<< <<a, 70>>, <<b, 45>> >>, 25) = IF a THEN 70 ELSE IF b THEN 45 ELSE 25
  BY FirstOfTwo
<1>5. g = 25
  BY <1>2, <1>3, <1>4
<1> QED BY <1>5 DEF g

\* and a CDN a strong one, whatever the addresses say.
LEMMA FrontedGuessOnEdge ==
  ASSUME NEW c, NEW dns, NEW net, NEW conn, LookedUpOK(net), OnEdge(conn)
  PROVE  GuessOf("CDN Fronted", c, dns, net, conn) >= 58
<1> DEFINE cdnIps == CdnEvidence(c, net, conn)
           best == StrongestCdn(cdnIps)
           own == best.conf
           more == own + 10
           http == IF conn.http_cdn # "" THEN 88 ELSE 10
           top == Max({http, more})
           edge == IF own >= 72 THEN Min({95, top}) ELSE http
           raised == edge + 15
           conf == FrontedConf(c, dns, conn, cdnIps)
           g == GuessOf("CDN Fronted", c, dns, net, conn)
           named == c.sni \notin {"", c.address}
<1>1. cdnIps # {}
  BY DEF CdnEvidence, CdnIn, OnEdge
<1>2. conf = IF named THEN Min({95, raised}) ELSE edge
  BY <1>1, Zenon DEF FrontedConf
<1>a. http = 88
  BY Zenon DEF OnEdge
<1>3. g = conf
  BY Zenon DEF GuessOf
<1>4. best \in cdnIps
  <2>1. \A e \in cdnIps : e.conf \in 0..88 /\ e.pos \in Nat
    BY CdnEvidenceOK
  <2> HIDE DEF cdnIps
  <2> QED BY <1>1, <2>1, StrongestIsOne
<1>5. own \in 0..88
  <2>1. \A e \in cdnIps : e.conf \in 0..88
    BY CdnEvidenceOK
  <2> HIDE DEF cdnIps, best
  <2> QED BY <1>4, <2>1
<1> HIDE DEF cdnIps, best, own, conf, g, named, http
<1>6. more \in Int /\ 88 \in Int
  BY <1>5
<1> HIDE DEF more
<1>7. top \in Int /\ 88 <= top
  BY <1>6, <1>a, PairMax
<1> HIDE DEF top
<1>8. edge \in Int /\ 88 <= edge
  <2>1. Min({95, top}) = IF 95 <= top THEN 95 ELSE top
    BY <1>7, PairMin
  <2> QED BY <1>7, <1>a, <2>1
<1> HIDE DEF edge
<1>9. Min({95, raised}) = IF 95 <= raised THEN 95 ELSE raised
  BY <1>8, PairMin
<1>10. g >= 58
  BY <1>2, <1>3, <1>8, <1>9
<1> QED BY <1>10 DEF g

\* Of the guesses only that of a plain server stands for a direct topology.
LEMMA GuessIdIs ==
  /\ GuessTunnelId["Direct VPS"] = "direct_vps"
  /\ GuessTunnelId["CDN Fronted"] = "cdn_fronting"
  /\ \A n \in GuessNames \ {"Direct VPS"} : GuessTunnelId[n] \notin DirectTopologyIds
<1>1. "Direct VPS" \in GuessNames /\ "CDN Fronted" \in GuessNames
  BY GuessNamesAre, Zenon
<1>2. GuessTunnelId["Direct VPS"] = "direct_vps"
  BY <1>1, Zenon DEF GuessTunnelId
<1>3. GuessTunnelId["CDN Fronted"] = "cdn_fronting"
  BY <1>1, Zenon DEF GuessTunnelId
<1>4. ASSUME NEW n \in GuessNames, n # "Direct VPS" PROVE GuessTunnelId[n] \notin DirectTopologyIds
  <2>1. CASE n = "CDN Fronted"
    BY <2>1, Zenon DEF GuessTunnelId, DirectTopologyIds
  <2>2. CASE n = "Cloudflare CDN"
    BY <2>2, Zenon DEF GuessTunnelId, DirectTopologyIds
  <2>3. CASE n = "Arvan CDN"
    BY <2>3, Zenon DEF GuessTunnelId, DirectTopologyIds
  <2>4. CASE n = "Akamai CDN"
    BY <2>4, Zenon DEF GuessTunnelId, DirectTopologyIds
  <2>5. CASE n = "Fastly CDN"
    BY <2>5, Zenon DEF GuessTunnelId, DirectTopologyIds
  <2>6. CASE n = "AWS CloudFront"
    BY <2>6, Zenon DEF GuessTunnelId, DirectTopologyIds
  <2>7. CASE n = "BunnyCDN"
    BY <2>7, Zenon DEF GuessTunnelId, DirectTopologyIds
  <2>8. CASE n = "Gcore CDN"
    BY <2>8, Zenon DEF GuessTunnelId, DirectTopologyIds
  <2>9. CASE n = "Reverse Proxy"
    BY <2>9, Zenon DEF GuessTunnelId, DirectTopologyIds
  <2>10. CASE n = "Cloudflare Tunnel"
    BY <2>10, Zenon DEF GuessTunnelId, DirectTopologyIds
  <2>11. CASE n = "SNI Fronting"
    BY <2>11, Zenon DEF GuessTunnelId, DirectTopologyIds
  <2>12. CASE n = "Reverse Tunnel"
    BY <2>12, Zenon DEF GuessTunnelId, DirectTopologyIds
  <2>13. CASE n = "Multi Hop"
    BY <2>13, Zenon DEF GuessTunnelId, DirectTopologyIds
  <2> QED BY <2>1, <2>2, <2>3, <2>4, <2>5, <2>6, <2>7, <2>8, <2>9, <2>10, <2>11, <2>12, <2>13, <1>4, GuessNamesAre, Zenon
<1> QED BY <1>2, <1>3, <1>4

\* No answer named a CDN.
Unconfirmed(q) == CdnFrontingTier(q) = "unconfirmed"
\* The deployment names a CDN.
NamesCdn(q) == q.dep.cdn_type # ""
\* The guess of a plain server.
IsDirect(g) == g.name = "Direct VPS"
\* The guess of a CDN in front.
IsFronted(g) == g.name = "CDN Fronted"

\* What is left of the two guesses behind a named CDN.
GuessesOfEdge(guesses) ==
  /\ \A g \in guesses : IsDirect(g) => g.conf <= 25
  /\ \E g \in guesses : IsFronted(g) /\ 58 <= g.conf

\* No match is of a direct topology.
NoDirectMatch(tunnels) == \A m \in tunnels : m.id \notin DirectTopologyIds

\* A topology that was matched or guessed has its scenario,
LEMMA ScenarioOf ==
  ASSUME NEW q, Scored(q), NEW id \in Matched(q) \cup Guessed(q)
  PROVE  \E s \in RankedScenarios(q) : s.id = id /\ s.conf = ScenarioScore(q, id)
<1> DEFINE s == [id |-> id, conf |-> ScenarioScore(q, id)]
<1>1. s \in RankedScenarios(q)
  BY RankedIs
<1>2. s.id = id /\ s.conf = ScenarioScore(q, id)
  OBVIOUS
<1> QED BY <1>1, <1>2

\* and every scenario is one of those.
LEMMA ScenariosAre ==
  ASSUME NEW q, Scored(q), NEW s \in RankedScenarios(q)
  PROVE  s.id \in Matched(q) \cup Guessed(q) /\ s.conf = ScenarioScore(q, s.id) /\ IsScenario(s)
<1>1. PICK id \in Matched(q) \cup Guessed(q) : s = [id |-> id, conf |-> ScenarioScore(q, id)]
  BY RankedIs
<1>2. s.id = id /\ s.conf = ScenarioScore(q, id) /\ DOMAIN s = {"id", "conf"}
  BY <1>1
<1>3. ScenarioScore(q, id) \in 0..100
  BY ScenarioIsScored
<1> QED BY <1>2, <1>3 DEF IsScenario

\* Behind a named CDN a direct scenario stays at 25, and the CDN has at least 58.
LEMMA EdgeScenarios ==
  ASSUME NEW q, Scored(q), NamesCdn(q), NoDirectMatch(q.tun.detected), GuessesOfEdge(q.dep.guesses),
         \A g \in q.dep.guesses : g.name \in GuessNames
  PROVE  /\ \A s \in RankedScenarios(q) : s.id \in DirectTopologyIds => s.id = "direct_vps" /\ s.conf <= 25
         /\ \E s \in RankedScenarios(q) : s.id = "cdn_fronting" /\ 58 <= s.conf
<1>1. ASSUME NEW id \in DirectTopologyIds, id \in Matched(q) \cup Guessed(q)
      PROVE  id = "direct_vps" /\ ScenarioScore(q, id) <= 25
  <2>1. id \notin Matched(q)
    BY <1>1 DEF Matched, NoDirectMatch
  <2>2. \A g \in q.dep.guesses : GuessTunnelId[g.name] = id => IsDirect(g) /\ id = "direct_vps"
    BY GuessIdIs, <1>1, Zenon DEF IsDirect
  <2>3. id = "direct_vps" /\ id \in Guessed(q)
    BY <1>1, <2>1, <2>2 DEF Guessed
  <2> DEFINE n == Max(GuessScores(q, id))
  <2>4. n \in 0..100 /\ n <= 25
    <3>1. n \in GuessScores(q, id) /\ n \in 0..100
      BY <2>3, GuessScoreIs
    <3> HIDE DEF n
    <3>2. PICK g \in q.dep.guesses : GuessTunnelId[g.name] = id /\ n = g.conf
      BY <3>1 DEF GuessScores
    <3>3. g.conf <= 25
      BY <2>2, <3>2 DEF GuessesOfEdge
    <3> QED BY <3>1, <3>2, <3>3
  <2>5. ScenarioScore(q, id) = BoostConfidence(id, n, q)
    BY <2>1, <2>3 DEF ScenarioScore
  <2> HIDE DEF n
  <2>6. BoostConfidence(id, n, q) \in 0..92 /\ BoostConfidence(id, n, q) <= n
    BY <2>3, <2>4, BoostIs DEF NamesCdn
  <2> DEFINE b == BoostConfidence(id, n, q)
  <2>7. b \in 0..92 /\ b <= n
    BY <2>6
  <2> HIDE DEF b
  <2>8. b <= 25
    BY <2>4, <2>7
  <2> QED BY <2>3, <2>5, <2>8 DEF b
<1>2. /\ "cdn_fronting" \in Guessed(q)
      /\ 58 <= ScenarioScore(q, "cdn_fronting")
  <2> DEFINE id == "cdn_fronting"
  <2>1. PICK g \in q.dep.guesses : IsFronted(g) /\ 58 <= g.conf
    BY DEF GuessesOfEdge
  <2>2. GuessTunnelId[g.name] = id
    BY <2>1, GuessIdIs DEF IsFronted
  <2> HIDE DEF id
  <2>3. id \in Guessed(q) /\ g.conf \in GuessScores(q, id)
    BY <2>2 DEF Guessed, GuessScores
  <2> DEFINE n == Max(GuessScores(q, id))
             m == Max(MatchScores(q, id))
  <2>4. n \in 0..100 /\ g.conf <= n
    BY <2>3, GuessScoreIs
  <2>5. id \in Matched(q) => m \in 0..100
    BY MatchScoreIs
  <2>6. ScenarioScore(q, id) = IF id \in Matched(q) /\ n <= m THEN m ELSE BoostConfidence(id, n, q)
    BY <2>3 DEF ScenarioScore
  <2> HIDE DEF n, m
  <2>7. g.conf \in 0..100
    BY DEF Scored
  <2> DEFINE b == BoostConfidence(id, n, q)
             c == g.conf
  <2>8. b \in 0..92 /\ (58 <= n => 58 <= b)
    BY <2>4, BoostIs
  <2>9. c \in 0..100 /\ 58 <= c /\ c <= n
    BY <2>1, <2>4, <2>7
  <2>10. ScenarioScore(q, id) = IF id \in Matched(q) /\ n <= m THEN m ELSE b
    BY <2>6
  <2> HIDE DEF b, c
  <2>11. 58 <= n
    BY <2>4, <2>9
  <2>12. CASE id \in Matched(q) /\ n <= m
    <3>1. 58 <= m
      BY <2>4, <2>5, <2>11, <2>12
    <3> QED BY <2>3, <2>10, <2>12, <3>1 DEF id
  <2>13. CASE ~(id \in Matched(q) /\ n <= m)
    BY <2>3, <2>8, <2>10, <2>11, <2>13 DEF id
  <2> QED BY <2>12, <2>13
<1>3. ASSUME NEW s \in RankedScenarios(q), s.id \in DirectTopologyIds PROVE s.id = "direct_vps" /\ s.conf <= 25
  BY <1>1, <1>3, ScenariosAre
<1>4. \E s \in RankedScenarios(q) : s.id = "cdn_fronting" /\ 58 <= s.conf
  BY <1>2, ScenarioOf
<1> QED BY <1>3, <1>4

\* So the best scenario of a config behind a named CDN is not a direct one.
LEMMA EdgePrimaries ==
  ASSUME NEW q, Scored(q), ~Unconfirmed(q), NamesCdn(q), NoDirectMatch(q.tun.detected),
         GuessesOfEdge(q.dep.guesses), \A g \in q.dep.guesses : g.name \in GuessNames
  PROVE  \A p \in Primaries(Ranked(q)) : p.id \notin DirectTopologyIds
<1> SUFFICES ASSUME NEW p \in Primaries(Ranked(q)), p.id \in DirectTopologyIds PROVE FALSE
  OBVIOUS
<1> DEFINE tier == CdnFrontingTier(q)
<1>1. p \in Ranked(q) /\ \A o \in Ranked(q) : o.conf <= p.conf
  BY DEF Primaries
<1>2. /\ \A o \in Ranked(q) : \E s \in RankedScenarios(q) : CappedOK(o, s, tier)
      /\ \A s \in RankedScenarios(q) : \E o \in Ranked(q) : CappedOK(o, s, tier)
  BY ScenariosAre, PostProcessIs DEF Ranked
<1>3. tier # "unconfirmed"
  BY DEF Unconfirmed
<1> HIDE DEF tier
<1>4. PICK s \in RankedScenarios(q) : CappedOK(p, s, tier)
  BY <1>1, <1>2
<1>5. s.id = "direct_vps" /\ s.conf <= 25
  <2>1. s.id \in DirectTopologyIds
    BY <1>4 DEF CappedOK
  <2> QED BY <2>1, EdgeScenarios
<1>6. p.conf \in 0..100 /\ p.conf <= 48
  BY <1>4, <1>5 DEF CappedOK
<1>7. PICK t \in RankedScenarios(q) : t.id = "cdn_fronting" /\ 58 <= t.conf
  BY EdgeScenarios
<1>8. PICK o \in Ranked(q) : CappedOK(o, t, tier)
  BY <1>2
<1>9. o.conf \in 0..100 /\ 58 <= o.conf
  BY <1>3, <1>7, <1>8 DEF CappedOK
<1>10. o.conf <= p.conf
  BY <1>1
<1> QED BY <1>6, <1>9, <1>10

\* Without a CDN on the wire the plain server, at 48, beats every CDN, at 42.
LEMMA UnconfirmedPrimaries ==
  ASSUME NEW q, Scored(q), Unconfirmed(q), \E g \in q.dep.guesses : IsDirect(g)
  PROVE  \A p \in Primaries(Ranked(q)) : p.id \notin CdnTunnelIds
<1> SUFFICES ASSUME NEW p \in Primaries(Ranked(q)), p.id \in CdnTunnelIds PROVE FALSE
  OBVIOUS
<1> DEFINE tier == CdnFrontingTier(q)
<1>1. p \in Ranked(q) /\ \A o \in Ranked(q) : o.conf <= p.conf
  BY DEF Primaries
<1>2. /\ \A o \in Ranked(q) : \E s \in RankedScenarios(q) : CappedOK(o, s, tier)
      /\ \A s \in RankedScenarios(q) : \E o \in Ranked(q) : CappedOK(o, s, tier)
  BY ScenariosAre, PostProcessIs DEF Ranked
<1>3. tier = "unconfirmed"
  BY DEF Unconfirmed
<1> HIDE DEF tier
<1>4. PICK s \in RankedScenarios(q) : CappedOK(p, s, tier)
  BY <1>1, <1>2
<1>5. p.conf \in 0..100 /\ p.conf <= 42
  BY <1>3, <1>4 DEF CappedOK
<1>6. "direct_vps" \in Guessed(q)
  BY GuessIdIs DEF IsDirect, Guessed
<1>7. PICK t \in RankedScenarios(q) : t.id = "direct_vps"
  BY <1>6, ScenarioOf
<1>8. PICK o \in Ranked(q) : CappedOK(o, t, tier)
  BY <1>2
<1>9. o.conf \in 0..100 /\ 48 <= o.conf
  BY <1>3, <1>7, <1>8 DEF CappedOK
<1>10. o.conf <= p.conf
  BY <1>1
<1> QED BY <1>5, <1>9, <1>10

\* Among finitely ranked elements one is best and, of those, first: the sort of the code
\* has a first element.
LEMMA BestThenFirst ==
  ASSUME NEW S, S # {}, NEW f \in [S -> 0..100], NEW g \in [S -> Nat]
  PROVE  \E m \in S : \A o \in S : f[m] > f[o] \/ (f[m] = f[o] /\ g[m] <= g[o])
<1> DEFINE V == {f[m] : m \in S}
           hi == Max(V)
<1>1. Within(V, 0, 100)
  BY DEF Within
<1>2. hi \in V /\ hi \in 0..100 /\ \A x \in V : x <= hi
  <2> HIDE DEF V
  <2> QED BY <1>1, MaxMinWithin
<1> HIDE DEF hi
<1> DEFINE T == {m \in S : f[m] = hi}
           P == {g[m] : m \in T}
           lo == Min(P)
<1>3. P # {} /\ P \in SUBSET Int /\ \A x \in P : 0 <= x
  <2>1. PICK m \in S : f[m] = hi
    BY <1>2
  <2>2. g[m] \in P
    BY <2>1
  <2>3. \A x \in P : x \in Nat
    OBVIOUS
  <2> HIDE DEF P
  <2> QED BY <2>2, <2>3
<1>4. lo \in P /\ \A x \in P : lo <= x
  <2> HIDE DEF P
  <2> QED BY <1>3, BoundedMin
<1> HIDE DEF lo
<1>5. PICK m \in S : f[m] = hi /\ g[m] = lo
  BY <1>4
<1>6. ASSUME NEW o \in S PROVE f[m] > f[o] \/ (f[m] = f[o] /\ g[m] <= g[o])
  <2>1. f[o] \in 0..100 /\ f[o] <= hi
    BY <1>2
  <2>2. CASE f[o] = hi
    <3>1. g[o] \in P
      BY <2>2
    <3> QED BY <1>4, <1>5, <2>2, <3>1
  <2>3. CASE f[o] # hi
    BY <1>2, <1>5, <2>1, <2>3
  <2> QED BY <2>2, <2>3
<1> QED BY <1>6

\* Matches with percentages and places.
Tunnels(S) == \A m \in S : DOMAIN m = RatedFields /\ m.conf \in 0..100 /\ Placed(m)

\* The titles of the diagnostics are no topologies.
LEMMA TitlesAreNoTunnels == \A x \in Titles : x \notin CdnTunnelIds /\ x \notin DirectTopologyIds
BY Zenon DEF Titles, CdnTunnelIds, DirectTopologyIds

\* The alignment adds no match, and the type it chooses follows the tier.
LEMMA AlignedTypes ==
  ASSUME NEW tun, DOMAIN tun = {"detected", "primary_id", "primary_type", "primary_conf"}, Tunnels(tun.detected),
         NEW diag, diag.assessment.title \in Titles
  PROVE  LET a == AlignTunnels(tun, diag)
         IN  /\ \A m \in a.detected : m.conf \in 0..100
             /\ NoDirectMatch(tun.detected) => NoDirectMatch(a.detected)
             /\ diag.tier = "unconfirmed" => a.primary_type \notin CdnTunnelIds
             /\ diag.tier # "unconfirmed" /\ NoDirectMatch(tun.detected) => a.primary_type \notin DirectTopologyIds
<1> DEFINE tier == diag.tier
           title == diag.assessment.title
           Moved(m) == [m EXCEPT !.conf = CapTunnelConfidence(m.id, m.conf, tier),
                              !.evidence = IF m.id \in CdnTunnelIds /\ tier = "unconfirmed"
                                           THEN m.evidence \cup {"cdn_unconfirmed"} ELSE m.evidence]
           matches == {Moved(m) : m \in tun.detected}
           tops == {m \in matches : \A o \in matches : o.conf <= m.conf}
           before(m) == CHOOSE o \in tun.detected : o.id = m.id
           First(m) == \A o \in tops :
                   \/ before(m).conf > before(o).conf
                   \/ before(m).conf = before(o).conf /\ m.place <= o.place
           top == CHOOSE m \in tops : First(m)
           direct == {m \in matches : m.id = "direct_vps"}
           withdrawn == tier = "unconfirmed" /\ top.id \in CdnTunnelIds
           type == IF matches = {} THEN title ELSE IF ~withdrawn THEN top.id
                   ELSE IF direct # {} THEN "direct_vps" ELSE title
           a == AlignTunnels(tun, diag)
<1>1. a.detected = matches /\ a.primary_type = type
  <2> DEFINE c == IF matches = {} THEN tun.primary_conf
                  ELSE IF ~withdrawn THEN top.conf * 100
                  ELSE IF direct # {} THEN Max({m.conf * 100 : m \in direct}) ELSE tun.primary_conf
  <2>1. a = [tun EXCEPT !.detected = matches, !.primary_type = type, !.primary_conf = c]
    BY DEF AlignTunnels
  <2> HIDE DEF a, matches, type, c
  <2> QED BY <2>1
<1> HIDE DEF a
<1>2. ASSUME NEW m \in tun.detected
      PROVE  LET x == Moved(m) IN x.id = m.id /\ x.place = m.place /\ x.conf \in 0..100
  <2>1. DOMAIN m = RatedFields /\ m.conf \in 0..100
    BY DEF Tunnels
  <2> DEFINE c == CapTunnelConfidence(m.id, m.conf, tier)
             e == IF m.id \in CdnTunnelIds /\ tier = "unconfirmed"
                  THEN m.evidence \cup {"cdn_unconfirmed"} ELSE m.evidence
             x == Moved(m)
  <2>2. c \in 0..100
    BY <2>1, CapIs
  <2>3. x = [m EXCEPT !.conf = c, !.evidence = e]
    OBVIOUS
  <2> HIDE DEF c, e, x
  <2>4. x.id = m.id /\ x.place = m.place /\ x.conf = c
    BY <2>1, <2>3 DEF RatedFields
  <2> QED BY <2>2, <2>4 DEF x
<1> HIDE DEF Moved
<1>3. \A x \in matches : x.conf \in 0..100 /\ Placed(x) /\ \E m \in tun.detected : m.id = x.id
  BY <1>2 DEF Tunnels, Placed
<1>4. ASSUME matches # {} PROVE top \in matches
  <2> HIDE DEF matches
  <2>1. tops # {}
    <3> DEFINE V == {m.conf : m \in matches}
    <3>1. Within(V, 0, 100)
      BY <1>3, <1>4 DEF Within
    <3>2. Max(V) \in V /\ \A x \in V : x <= Max(V)
      <4> HIDE DEF V
      <4> QED BY <3>1, MaxMinWithin
    <3>3. PICK m \in matches : m.conf = Max(V)
      BY <3>2
    <3>4. m \in tops
      BY <3>2, <3>3
    <3> QED BY <3>4
  <2>2. tops \subseteq matches
    OBVIOUS
  <2> DEFINE f == [m \in tops |-> before(m).conf]
             g == [m \in tops |-> m.place]
  <2> HIDE DEF tops
  <2>3. ASSUME NEW m \in tops PROVE before(m).conf \in 0..100
    <3>1. before(m) \in tun.detected
      BY <1>3, <2>2
    <3> QED BY <3>1 DEF Tunnels
  <2> HIDE DEF before
  <2>4. f \in [tops -> 0..100] /\ g \in [tops -> Nat]
    BY <1>3, <2>2, <2>3 DEF Placed
  <2>5. \E m \in tops : \A o \in tops : f[m] > f[o] \/ (f[m] = f[o] /\ g[m] <= g[o])
    <3> HIDE DEF f, g
    <3> QED BY <2>1, <2>4, BestThenFirst
  <2>6. \E m \in tops : First(m)
    BY <2>5
  <2> HIDE DEF First
  <2>7. top \in tops
    BY <2>6
  <2> QED BY <2>2, <2>7
<1>5. NoDirectMatch(tun.detected) => NoDirectMatch(matches)
  <2> HIDE DEF matches
  <2> QED BY <1>3 DEF NoDirectMatch
<1>6. title \notin CdnTunnelIds /\ title \notin DirectTopologyIds
  BY TitlesAreNoTunnels
<1>7. "direct_vps" \notin CdnTunnelIds
  BY Zenon DEF CdnTunnelIds
<1> HIDE DEF matches, top, direct, title
<1>8. tier = "unconfirmed" => type \notin CdnTunnelIds
  BY <1>6, <1>7
<1>9. tier # "unconfirmed" /\ NoDirectMatch(matches) => type \notin DirectTopologyIds
  BY <1>4, <1>6 DEF NoDirectMatch
<1> HIDE DEF type
<1> QED BY <1>1, <1>3, <1>5, <1>8, <1>9 DEF a

\* The alignment keeps a guess a percentage and, with a CDN on the wire, keeps the two guesses
\* where they were.
LEMMA AlignedGuessIs ==
  ASSUME NEW g, RatedGuess(g), g.conf \in 0..100, NEW tier
  PROVE  LET a == AlignedGuess(g, tier)
         IN  /\ a.name = g.name /\ a.conf \in 0..100
             /\ tier # "unconfirmed" /\ IsDirect(g) => a.conf = g.conf
             /\ tier # "unconfirmed" /\ IsFronted(g) /\ 58 <= g.conf => 58 <= a.conf
<1> DEFINE c1 == g.name \in CdnGuessNames /\ tier = "unconfirmed"
           c2 == g.name \in CdnGuessNames /\ tier = "probable"
           c3 == g.name = "Direct VPS" /\ tier = "unconfirmed"
           n == g.conf
           v1 == Min({n, 40})
           v2 == Min({n, 58})
           v3 == Max({n, 52})
           conf == FirstOf(<< <<c1, v1>>, <<c2, v2>>, <<c3, v3>> >>, n)
           a == AlignedGuess(g, tier)
<1>1. a = [g EXCEPT !.conf = conf]
  BY DEF AlignedGuess
<1>2. n \in 0..100
  OBVIOUS
<1>3. IsDirect(g) => ~c2
  BY Zenon DEF IsDirect, CdnGuessNames
<1>4. tier # "unconfirmed" => ~c1 /\ ~c3
  BY Zenon
<1>5. n = g.conf
  OBVIOUS
<1> HIDE DEF n, c1, c2, c3, v1, v2, v3
<1>6. conf = IF c1 THEN v1 ELSE IF c2 THEN v2 ELSE IF c3 THEN v3 ELSE n
  BY FirstOfThree
<1>7. /\ v1 = IF n <= 40 THEN n ELSE 40
      /\ v2 = IF n <= 58 THEN n ELSE 58
      /\ v3 = IF n <= 52 THEN 52 ELSE n
  BY <1>2, PairMin, PairMax DEF v1, v2, v3
<1> HIDE DEF conf, a
<1>8. conf \in 0..100
  BY <1>2, <1>6, <1>7
<1>9. tier # "unconfirmed" /\ IsDirect(g) => conf = n
  BY <1>3, <1>4, <1>6
<1>10. tier # "unconfirmed" /\ 58 <= n => 58 <= conf
  BY <1>2, <1>4, <1>6, <1>7
<1>11. a.name = g.name /\ a.conf = conf
  BY <1>1 DEF RatedGuess
<1> QED BY <1>5, <1>8, <1>9, <1>10, <1>11 DEF a

\* The alignment keeps the matches where they were.
LEMMA AlignedPlaces ==
  ASSUME NEW tun, "detected" \in DOMAIN tun, Tunnels(tun.detected), NEW diag
  PROVE  LET a == AlignTunnels(tun, diag)
         IN  DOMAIN a = DOMAIN tun /\ \A m \in a.detected : DOMAIN m = RatedFields /\ Placed(m)
<1> DEFINE tier == diag.tier
           Conf(m) == CapTunnelConfidence(m.id, m.conf, tier)
           Marked(m) == IF m.id \in CdnTunnelIds /\ tier = "unconfirmed"
                      THEN m.evidence \cup {"cdn_unconfirmed"} ELSE m.evidence
           Moved(m) == [m EXCEPT !.conf = Conf(m), !.evidence = Marked(m)]
           a == AlignTunnels(tun, diag)
<1>1. DOMAIN a = DOMAIN tun /\ a.detected = {Moved(m) : m \in tun.detected}
  BY DEF AlignTunnels
<1> HIDE DEF a, Conf, Marked
<1>2. ASSUME NEW m \in tun.detected PROVE DOMAIN Moved(m) = RatedFields /\ Placed(Moved(m))
  BY DEF Tunnels, Placed, RatedFields
<1> HIDE DEF Moved
<1> QED BY <1>1, <1>2 DEF a

=============================================================================
