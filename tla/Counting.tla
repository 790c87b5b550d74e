--------------------------------- MODULE Counting -------------------------------
(***************************************************************************)
(* Lemmas about finite sets and numbers that the proofs share: what        *)
(* MapThenSumSet, Max and Min of the community modules are, and how many   *)
(* elements a set has.  MapThenSumSet is a recursive function over the     *)
(* subsets of a set, taken in an order CHOOSE settles; here: that the      *)
(* recursion has one solution, that an element counts once and that the    *)
(* order does not matter.                                                  *)
(*                                                                         *)
(* The inductions go by a smallest set, or a least number, that breaks a   *)
(* claim (WFMin): the library's induction theorems take an operator.       *)
(***************************************************************************)
EXTENDS Integers, FiniteSets, FiniteSetsExt, FiniteSetTheorems,
        WellFoundedInduction, TLAPS

\* The element a sum over a set takes next.
Some(S) == CHOOSE x \in S : TRUE

\* The recursion of MapThenSumSet, for the values of a function.
Adds(g, f, S) ==
    g = [s \in SUBSET S |-> IF s = {} THEN 0
                            ELSE f[Some(s)] + g[s \ {Some(s)}]]

SumOf(f, S) == (CHOOSE g : Adds(g, f, S))[S]

LEMMA SomeIsIn == ASSUME NEW S, S # {} PROVE Some(S) \in S
  BY DEF Some

\* Among sets of elements of a finite set, some set has no other one in it.
LEMMA SmallestSet ==
  ASSUME NEW S, IsFiniteSet(S), NEW T, T \subseteq SUBSET S, T # {}
  PROVE  \E x \in T : \A y \in T : y \subseteq x => y = x
<1>1. IsWellFoundedOn(StrictSubsetOrdering(S), SUBSET S)
  BY FS_StrictSubsetOrderingWellFounded, FS_FiniteSubsetsOfFinite
<1>2. \E x \in T : \A y \in T : <<y, x>> \notin StrictSubsetOrdering(S)
  BY <1>1, WFMin
<1>3. PICK x \in T : \A y \in T : <<y, x>> \notin StrictSubsetOrdering(S)
  BY <1>2
<1>4. ASSUME NEW y \in T, y \subseteq x
      PROVE  y = x
  BY <1>3, <1>4 DEF StrictSubsetOrdering
<1>. QED BY <1>4

\* Two solutions of the recursion agree wherever both are defined.
LEMMA AddsOnce ==
  ASSUME NEW S, IsFiniteSet(S), NEW f, NEW T \in SUBSET S, NEW g, NEW h,
         Adds(g, f, S), Adds(h, f, T)
  PROVE  \A s \in SUBSET T : g[s] = h[s]
<1> DEFINE bad == {s \in SUBSET T : g[s] # h[s]}
<1> SUFFICES ASSUME bad # {} PROVE FALSE
  OBVIOUS
<1>1. PICK s \in bad : \A y \in bad : y \subseteq s => y = s
  <2>1. bad \subseteq SUBSET S OBVIOUS
  <2> HIDE DEF bad
  <2>. QED BY <2>1, SmallestSet
<1>2. /\ g[s] = IF s = {} THEN 0 ELSE f[Some(s)] + g[s \ {Some(s)}]
      /\ h[s] = IF s = {} THEN 0 ELSE f[Some(s)] + h[s \ {Some(s)}]
  BY DEF Adds
<1>3. s # {} BY <1>2
<1>4. g[s \ {Some(s)}] = h[s \ {Some(s)}]
  BY <1>1, <1>3, SomeIsIn
<1>. QED BY <1>2, <1>4

\* The recursion has a solution: what it takes from smaller sets fits together.
LEMMA AddsExists ==
  ASSUME NEW S, IsFiniteSet(S), NEW f
  PROVE  \E g : Adds(g, f, S)
<1> DEFINE G(T) == CHOOSE g : Adds(g, f, T)
           bad == {T \in SUBSET S : ~ \E g : Adds(g, f, T)}
<1> SUFFICES ASSUME bad # {}
             PROVE  FALSE
  BY Zenon
<1>1. PICK T \in bad : \A y \in bad : y \subseteq T => y = T
  <2> HIDE DEF bad
  <2>1. bad \subseteq SUBSET S BY DEF bad
  <2>. QED BY <2>1, SmallestSet
<1>2. ASSUME NEW v \in SUBSET T, v # T
      PROVE  Adds(G(v), f, v)
  <2>1. \E g : Adds(g, f, v) BY <1>1, <1>2
  <2>. QED BY <2>1, Zenon
<1> DEFINE h == [s \in SUBSET T |-> IF s = {} THEN 0
                    ELSE f[Some(s)] + G(s \ {Some(s)})[s \ {Some(s)}]]
<1>3. ASSUME NEW v \in SUBSET T, v # T
      PROVE  h[v] = G(v)[v]
  <2>1. CASE v = {}
    <3>1. h[v] = 0 BY <2>1
    <3> HIDE DEF G, h
    <3>. QED BY <1>2, <1>3, <2>1, <3>1 DEF Adds
  <2>2. CASE v # {}
    <3> DEFINE w == v \ {Some(v)}
    <3>1. w \in SUBSET v /\ w \in SUBSET T /\ w # T BY <2>2, SomeIsIn
    <3>2. Adds(G(v), f, v) /\ Adds(G(w), f, w) BY <3>1, <1>2, <1>3
    <3>3. G(v)[w] = G(w)[w]
      <4> HIDE DEF G, w
      <4>1. IsFiniteSet(v) BY <1>1, FS_Subset
      <4>. QED BY <4>1, <3>1, <3>2, AddsOnce
    <3>4. G(v)[v] = f[Some(v)] + G(v)[w]
      <4> HIDE DEF G
      <4>. QED BY <2>2, <3>2 DEF Adds
    <3>5. h[v] = f[Some(v)] + G(w)[w]
      <4> HIDE DEF G
      <4>. QED BY <2>2
    <3> HIDE DEF G, h, w
    <3>. QED BY <3>3, <3>4, <3>5
  <2>. QED BY <2>1, <2>2
<1>4. Adds(h, f, T)
  <2>1. ASSUME NEW s \in SUBSET T
        PROVE  h[s] = IF s = {} THEN 0 ELSE f[Some(s)] + h[s \ {Some(s)}]
    <3>1. CASE s = {} BY <3>1
    <3>2. CASE s # {}
      <4>1. s \ {Some(s)} \in SUBSET T /\ s \ {Some(s)} # T BY <3>2, SomeIsIn
      <4>2. h[s \ {Some(s)}] = G(s \ {Some(s)})[s \ {Some(s)}] BY <4>1, <1>3
      <4>3. h[s] = f[Some(s)] + G(s \ {Some(s)})[s \ {Some(s)}]
        <5> HIDE DEF G
        <5>. QED BY <3>2
      <4> HIDE DEF G, h
      <4>. QED BY <3>2, <4>2, <4>3
    <3>. QED BY <3>1, <3>2
  <2>2. h = [s \in SUBSET T |-> h[s]] OBVIOUS
  <2> HIDE DEF h
  <2>. QED BY <2>1, <2>2 DEF Adds
<1>. QED BY <1>1, <1>4

-----------------------------------------------------------------------------
\* Whatever solves the recursion has the sum as its value.
LEMMA SumIsAdds ==
  ASSUME NEW S, IsFiniteSet(S), NEW f, NEW g, Adds(g, f, S), NEW T \in SUBSET S
  PROVE  g[T] = SumOf(f, T)
<1>1. IsFiniteSet(T) BY FS_Subset
<1>2. \E h : Adds(h, f, T) BY <1>1, AddsExists
<1>3. Adds(CHOOSE h : Adds(h, f, T), f, T) BY <1>2, Zenon
<1> DEFINE h == CHOOSE h : Adds(h, f, T)
<1>4. Adds(h, f, T) /\ SumOf(f, T) = h[T] BY <1>3, Zenon DEF SumOf
<1> HIDE DEF h
<1>. QED BY <1>4, AddsOnce

\* One step of the sum, in the order it is computed.
LEMMA SumStep ==
  ASSUME NEW S, IsFiniteSet(S), NEW f
  PROVE  /\ SumOf(f, {}) = 0
         /\ S # {} => SumOf(f, S) = f[Some(S)] + SumOf(f, S \ {Some(S)})
<1>1. PICK g : Adds(g, f, S) BY AddsExists
<1>2. \A T \in SUBSET S : g[T] = SumOf(f, T) BY <1>1, SumIsAdds
<1>3. g[S] = IF S = {} THEN 0 ELSE f[Some(S)] + g[S \ {Some(S)}] BY <1>1 DEF Adds
<1>4. g[{}] = 0 BY <1>1 DEF Adds
<1>. QED BY <1>2, <1>3, <1>4

\* Integers add up to an integer, naturals to a natural.
LEMMA SumTyped ==
  ASSUME NEW S, IsFiniteSet(S), NEW f, NEW V, V \in {Int, Nat}, \A x \in S : f[x] \in V
  PROVE  SumOf(f, S) \in V
<1> DEFINE bad == {s \in SUBSET S : SumOf(f, s) \notin V}
<1> SUFFICES ASSUME bad # {} PROVE FALSE
  OBVIOUS
<1>1. PICK s \in bad : \A y \in bad : y \subseteq s => y = s
  <2>1. bad \subseteq SUBSET S OBVIOUS
  <2> HIDE DEF bad
  <2>. QED BY <2>1, SmallestSet
<1>2. s \in SUBSET S /\ IsFiniteSet(s) BY FS_Subset
<1>3. s # {}
  <2>1. SumOf(f, {}) = 0 BY SumStep
  <2>2. 0 \in V OBVIOUS
  <2>. QED BY <2>1, <2>2
<1>4. SumOf(f, s) = f[Some(s)] + SumOf(f, s \ {Some(s)}) BY <1>2, <1>3, SumStep
<1>5. Some(s) \in s BY <1>3, SomeIsIn
<1>6. SumOf(f, s \ {Some(s)}) \in V BY <1>1, <1>2, <1>5
<1>7. SumOf(f, s) \in V BY <1>2, <1>4, <1>5, <1>6
<1>. QED BY <1>7

\* The order does not matter: any element may be taken first.
LEMMA SumTakesAny ==
  ASSUME NEW S, IsFiniteSet(S), NEW f, \A x \in S : f[x] \in Int, NEW e \in S
  PROVE  SumOf(f, S) = f[e] + SumOf(f, S \ {e})
<1> DEFINE bad == {s \in SUBSET S : \E x \in s : SumOf(f, s) # f[x] + SumOf(f, s \ {x})}
<1> SUFFICES ASSUME bad # {} PROVE FALSE
  OBVIOUS
<1>1. PICK s \in bad : \A y \in bad : y \subseteq s => y = s
  <2>1. bad \subseteq SUBSET S OBVIOUS
  <2> HIDE DEF bad
  <2>. QED BY <2>1, SmallestSet
<1>2. s \in SUBSET S /\ IsFiniteSet(s) BY FS_Subset
<1>3. PICK x \in s : SumOf(f, s) # f[x] + SumOf(f, s \ {x}) OBVIOUS
<1> DEFINE c == Some(s)
<1>4. c \in s BY SomeIsIn
<1>5. SumOf(f, s) = f[c] + SumOf(f, s \ {c}) BY <1>2, SumStep
<1>6. c # x BY <1>3, <1>5
<1>7. SumOf(f, s \ {c}) = f[x] + SumOf(f, (s \ {c}) \ {x})
  <2>1. s \ {c} \notin bad BY <1>1, <1>4
  <2>. QED BY <2>1, <1>2, <1>6
<1>8. SumOf(f, s \ {x}) = f[c] + SumOf(f, (s \ {x}) \ {c})
  <2>1. s \ {x} \notin bad BY <1>1
  <2> HIDE DEF c
  <2>. QED BY <2>1, <1>2, <1>4, <1>6
<1>9. (s \ {c}) \ {x} = (s \ {x}) \ {c} OBVIOUS
<1>10. f[x] \in Int /\ f[c] \in Int /\ SumOf(f, (s \ {x}) \ {c}) \in Int
  <2>1. IsFiniteSet((s \ {x}) \ {c}) BY <1>2, FS_Subset
  <2>. QED BY <2>1, <1>2, <1>4, SumTyped
<1>11. SumOf(f, s) = f[x] + SumOf(f, s \ {x})
  <2> DEFINE n == SumOf(f, (s \ {x}) \ {c})
  <2>1. SumOf(f, s \ {c}) = f[x] + n BY <1>7, <1>9, Zenon
  <2>2. f[x] \in Int /\ f[c] \in Int /\ n \in Int BY <1>10
  <2>3. \A i, j, k \in Int : i + (j + k) = j + (i + k) OBVIOUS
  <2> HIDE DEF c, n
  <2>4. f[c] + (f[x] + n) = f[x] + (f[c] + n) BY <2>2, <2>3
  <2>. QED BY <1>5, <1>8, <2>1, <2>4, Zenon DEF n
<1>. QED BY <1>3, <1>11

\* A new element adds its value.
LEMMA SumAdd ==
  ASSUME NEW S, IsFiniteSet(S), NEW f, NEW e, e \notin S, \A x \in S \cup {e} : f[x] \in Int
  PROVE  SumOf(f, S \cup {e}) = SumOf(f, S) + f[e]
<1>1. IsFiniteSet(S \cup {e}) BY FS_AddElement
<1>2. (S \cup {e}) \ {e} = S OBVIOUS
<1>3. SumOf(f, S) \in Int BY SumTyped
<1>. QED BY <1>1, <1>2, <1>3, SumTakesAny

\* The sum depends on the values of the elements only.
LEMMA SumCong ==
  ASSUME NEW S, IsFiniteSet(S), NEW f, NEW h, \A x \in S : f[x] = h[x]
  PROVE  SumOf(f, S) = SumOf(h, S)
<1>1. PICK g : Adds(g, f, S) BY AddsExists
<1>2. Adds(g, h, S) BY <1>1, SomeIsIn DEF Adds
<1>. QED BY <1>1, <1>2, SumIsAdds

\* A value that grows by one makes the sum grow by one.
LEMMA SumCountsUp ==
  ASSUME NEW S, IsFiniteSet(S), NEW f \in [S -> Nat], NEW e \in S
  PROVE  SumOf([f EXCEPT ![e] = @ + 1], S) = SumOf(f, S) + 1
<1> DEFINE h == [f EXCEPT ![e] = @ + 1]
<1>1. h \in [S -> Nat] /\ h[e] = f[e] + 1 /\ \A x \in S \ {e} : h[x] = f[x]
  OBVIOUS
<1>2. IsFiniteSet(S \ {e})
  BY FS_RemoveElement
<1> HIDE DEF h
<1>3. \A x \in S : f[x] \in Int /\ h[x] \in Int
  BY <1>1
<1>4. SumOf(f, S \ {e}) = SumOf(h, S \ {e})
  BY <1>1, <1>2, SumCong
<1>5. SumOf(f, S \ {e}) \in Int /\ f[e] \in Int
  BY <1>2, <1>3, SumTyped
<1>6. SumOf(f, S) = f[e] + SumOf(f, S \ {e}) /\ SumOf(h, S) = h[e] + SumOf(h, S \ {e})
  BY <1>3, SumTakesAny
<1>7. SumOf(h, S) = SumOf(f, S) + 1
  BY <1>1, <1>4, <1>5, <1>6
<1> QED
  BY <1>7 DEF h

\* Larger values, over more elements, make a larger sum.
LEMMA SumGrows ==
  ASSUME NEW T, IsFiniteSet(T), NEW S \in SUBSET T, NEW f, NEW h,
         \A x \in S : f[x] \in Nat, \A x \in T : h[x] \in Nat,
         \A x \in S : f[x] <= h[x]
  PROVE  SumOf(f, S) <= SumOf(h, T)
<1> DEFINE bad == {v \in SUBSET T : ~(SumOf(f, v \cap S) <= SumOf(h, v))}
<1> SUFFICES ASSUME bad # {} PROVE FALSE
  <2>1. T \in SUBSET T /\ T \cap S = S
    OBVIOUS
  <2>2. bad = {} => SumOf(f, T \cap S) <= SumOf(h, T)
    BY <2>1
  <2> HIDE DEF bad
  <2> QED
    BY <2>1, <2>2
<1>1. bad \subseteq SUBSET T
  OBVIOUS
<1> HIDE DEF bad
<1>2. PICK v \in bad : \A w \in bad : w \subseteq v => w = v
  BY <1>1, SmallestSet
<1>3. v \subseteq T /\ IsFiniteSet(v) /\ IsFiniteSet(v \cap S) /\ v \cap S \subseteq S
  BY <1>1, <1>2, FS_Subset
<1>4. v # {}
  <2>1. SumOf(f, {}) = 0 /\ SumOf(h, {}) = 0
    BY SumStep, FS_EmptySet
  <2>2. ~(SumOf(f, v \cap S) <= SumOf(h, v))
    BY <1>2 DEF bad
  <2>3. v = {} => v \cap S = {}
    OBVIOUS
  <2> QED
    BY <2>1, <2>2, <2>3
<1>5. PICK e \in v : TRUE
  BY <1>4
<1> DEFINE w == v \ {e}
<1>6. w \subseteq T /\ w \subseteq v /\ w # v /\ w \cap S = (v \cap S) \ {e} /\ IsFiniteSet(w)
      /\ IsFiniteSet(w \cap S)
  BY <1>3, <1>5, FS_Subset
<1>7. SumOf(f, w \cap S) <= SumOf(h, w)
  <2>1. w \notin bad
    BY <1>2, <1>6
  <2> HIDE DEF w
  <2> QED
    BY <1>6, <2>1 DEF bad
<1>8. SumOf(h, v) = h[e] + SumOf(h, w) /\ h[e] \in Nat
  <2>1. \A x \in v : h[x] \in Int
    BY <1>3
  <2> QED
    BY <1>3, <1>5, <2>1, SumTakesAny
<1>9. /\ SumOf(f, v \cap S) \in Nat /\ SumOf(h, v) \in Nat
      /\ SumOf(f, w \cap S) \in Nat /\ SumOf(h, w) \in Nat
  <2>1. \A x \in v \cap S : f[x] \in Nat
    OBVIOUS
  <2>2. \A x \in w \cap S : f[x] \in Nat
    OBVIOUS
  <2>3. \A x \in v : h[x] \in Nat
    BY <1>3
  <2>4. \A x \in w : h[x] \in Nat
    BY <1>6
  <2> HIDE DEF w
  <2> QED
    BY <1>3, <1>6, <2>1, <2>2, <2>3, <2>4, SumTyped
<1>10. SumOf(f, v \cap S) <= SumOf(h, v)
  <2>1. CASE e \in S
    <3>1. \A x \in v \cap S : f[x] \in Int
      OBVIOUS
    <3>2. SumOf(f, v \cap S) = f[e] + SumOf(f, w \cap S)
      BY <1>3, <1>5, <1>6, <2>1, <3>1, SumTakesAny
    <3>3. f[e] \in Nat /\ f[e] <= h[e]
      BY <2>1
    <3> HIDE DEF w
    <3> QED
      BY <1>7, <1>8, <1>9, <3>2, <3>3
  <2>2. CASE e \notin S
    <3>1. v \cap S = w \cap S
      BY <2>2
    <3> HIDE DEF w
    <3>2. SumOf(f, v \cap S) = SumOf(f, w \cap S)
      BY <3>1
    <3>3. \A x, y, z, t \in Nat : x <= y /\ z = t + y => x <= z
      OBVIOUS
    <3> QED
      BY <1>7, <1>8, <1>9, <3>2, <3>3
  <2> QED
    BY <2>1, <2>2
<1> QED
  BY <1>2, <1>10 DEF bad

\* The sums of the specifications, when what is added is a function.
LEMMA SumOfFunction ==
  ASSUME NEW S, NEW f
  PROVE  MapThenSumSet(LAMBDA x : f[x], S) = SumOf(f, S)
BY DEF MapThenSumSet, MapThenFoldSet, SumOf, Adds, Some

-----------------------------------------------------------------------------
LEMMA LeastNumber ==
  ASSUME NEW S \in SUBSET Nat, S # {}
  PROVE  \E n \in S : \A m \in S : n <= m
<1>1. PICK n \in S : \A m \in S : <<m, n>> \notin OpToRel(<, Nat)
  BY NatLessThanWellFounded, WFMin
<1>2. ASSUME NEW m \in S
      PROVE  n <= m
  <2>1. m \in Nat /\ n \in Nat /\ <<m, n>> \in Nat \X Nat OBVIOUS
  <2>2. ~(m < n)
    <3>1. <<m, n>>[1] = m /\ <<m, n>>[2] = n OBVIOUS
    <3>. QED BY <1>1, <2>1, <3>1, Zenon DEF OpToRel
  <2>. QED BY <2>1, <2>2
<1>. QED BY <1>2

\* The largest of a bounded set of naturals.
LEMMA MaxOfBounded ==
  ASSUME NEW S \in SUBSET Nat, S # {}, NEW top \in Nat, \A x \in S : x <= top
  PROVE  Max(S) \in S /\ \A x \in S : x <= Max(S)
<1> DEFINE above == {n \in Nat : \A x \in S : x <= n}
<1>1. PICK n \in above : \A m \in above : n <= m
  <2>1. above \in SUBSET Nat /\ above # {} OBVIOUS
  <2> HIDE DEF above
  <2>. QED BY <2>1, LeastNumber
<1>2. n \in S
  <2> SUFFICES ASSUME n \notin S PROVE FALSE
    OBVIOUS
  <2>1. n \in Nat /\ \A x \in S : x <= n /\ x # n OBVIOUS
  <2>2. n # 0
    <3>1. PICK x \in S : TRUE OBVIOUS
    <3>. QED BY <2>1, <3>1
  <2>3. n - 1 \in above BY <2>1, <2>2
  <2>. QED BY <1>1, <2>1, <2>3
<1>3. \E x \in S : \A y \in S : x >= y BY <1>2
<1>. QED BY <1>3 DEF Max

LEMMA MinOfPair ==
  ASSUME NEW x \in Int, NEW y \in Int
  PROVE  Min({x, y}) = IF x <= y THEN x ELSE y
<1>1. \E a \in {x, y} : \A b \in {x, y} : a =< b OBVIOUS
<1>2. Min({x, y}) \in {x, y} /\ \A b \in {x, y} : Min({x, y}) =< b
  BY <1>1 DEF Min
<1>. QED BY <1>2

\* How many consecutive elements of C end with d, counted by recursion from a
\* number that is not in C.
RunEnds(C, d, n) ==
    /\ \A k \in 0 .. n - 1 : d - k \in C
    /\ d - n \notin C

LEMMA RunCounts ==
  ASSUME NEW C, NEW a \in Int, NEW b \in Int, a \notin C, NEW run,
         run = CHOOSE g : g = [d \in a .. b |-> IF d \in C THEN 1 + g[d - 1] ELSE 0],
         NEW e \in a .. b
  PROVE  run[e] \in 0 .. e - a /\ RunEnds(C, e, run[e])
<1> DEFINE Solves(g) == g = [d \in a .. b |-> IF d \in C THEN 1 + g[d - 1] ELSE 0]
           ends(d) == {n \in 0 .. d - a : d - n \notin C}
           len(d) == CHOOSE n \in ends(d) : \A m \in ends(d) : n <= m
<1>1. ASSUME NEW d \in a .. b
      PROVE  len(d) \in ends(d) /\ \A m \in ends(d) : len(d) <= m
  <2>1. d - a \in ends(d) OBVIOUS
  <2>2. ends(d) \in SUBSET Nat OBVIOUS
  <2> HIDE DEF ends
  <2>3. \E n \in ends(d) : \A m \in ends(d) : n <= m BY <2>1, <2>2, LeastNumber
  <2>. QED BY <2>3
<1>2. ASSUME NEW d \in a .. b
      PROVE  len(d) = IF d \in C THEN 1 + len(d - 1) ELSE 0
  <2>1. len(d) \in ends(d) /\ \A m \in ends(d) : len(d) <= m BY <1>1
  <2>2. CASE d \notin C
    <3>1. 0 \in ends(d) BY <2>2
    <3> HIDE DEF len
    <3>. QED BY <2>1, <2>2, <3>1
  <2>3. CASE d \in C
    <3>1. d - 1 \in a .. b BY <2>3
    <3>2. len(d - 1) \in ends(d - 1) /\ \A m \in ends(d - 1) : len(d - 1) <= m
      BY <3>1, <1>1
    <3> HIDE DEF len
    <3>3. 1 + len(d - 1) \in ends(d) BY <3>1, <3>2
    <3>4. len(d) # 0 BY <2>1, <2>3
    <3>5. len(d) - 1 \in ends(d - 1) BY <2>1, <3>4, SMTT(30)
    <3>. QED BY <2>1, <2>3, <3>2, <3>3, <3>5, SMTT(30)
  <2>. QED BY <2>2, <2>3
<1>3. \E g : Solves(g)
  <2> DEFINE g == [d \in a .. b |-> len(d)]
  <2>1. ASSUME NEW d \in a .. b
        PROVE  g[d] = IF d \in C THEN 1 + g[d - 1] ELSE 0
    <3>1. d \in C => d - 1 \in a .. b OBVIOUS
    <3> HIDE DEF len
    <3>. QED BY <1>2, <3>1
  <2>2. Solves(g)
    <3>1. g = [d \in a .. b |-> g[d]] OBVIOUS
    <3> HIDE DEF g
    <3>. QED BY <2>1, <3>1
  <2>. QED BY <2>2
<1>4. Solves(run)
  <2>1. Solves(CHOOSE g : Solves(g)) BY <1>3, Zenon
  <2>. QED BY <2>1
<1>5. \A d \in a .. b : run[d] = IF d \in C THEN 1 + run[d - 1] ELSE 0 BY <1>4
<1>6. \A d \in a .. b : run[d] = len(d)
  <2> DEFINE bad == {n \in Nat : a + n \in a .. b /\ run[a + n] # len(a + n)}
  <2> SUFFICES ASSUME bad # {} PROVE FALSE
    <3> HIDE DEF len
    <3>1. ASSUME NEW d \in a .. b, run[d] # len(d)
          PROVE  bad # {}
      <4>1. d - a \in Nat /\ a + (d - a) = d OBVIOUS
      <4>2. d - a \in bad BY <3>1, <4>1
      <4>. QED BY <4>2
    <3>. QED BY <3>1
  <2>1. PICK n \in bad : \A m \in bad : n <= m
    <3>1. bad \in SUBSET Nat OBVIOUS
    <3> HIDE DEF bad
    <3>. QED BY <3>1, LeastNumber
  <2> DEFINE d == a + n
  <2>2. d \in a .. b /\ run[d] # len(d) OBVIOUS
  <2>3. len(d) = IF d \in C THEN 1 + len(d - 1) ELSE 0 BY <1>2, <2>2
  <2>4. d \in C BY <1>5, <2>2, <2>3
  <2>5. n - 1 \in Nat /\ a + (n - 1) = d - 1 /\ d - 1 \in a .. b BY <2>2, <2>4
  <2>6. n - 1 \notin bad
    <3>1. n \in Nat /\ ~(n <= n - 1) OBVIOUS
    <3> HIDE DEF bad
    <3>. QED BY <2>1, <3>1
  <2> HIDE DEF len
  <2>7. run[d - 1] = len(d - 1) BY <2>5, <2>6
  <2>. QED BY <1>5, <2>2, <2>3, <2>4, <2>7
<1>7. len(e) \in 0 .. e - a /\ RunEnds(C, e, len(e))
  <2>1. len(e) \in ends(e) /\ \A m \in ends(e) : len(e) <= m BY <1>1
  <2> HIDE DEF len
  <2>2. len(e) \in 0 .. e - a /\ e - len(e) \notin C BY <2>1
  <2>3. ASSUME NEW k \in 0 .. len(e) - 1
        PROVE  e - k \in C
    BY <2>1, <2>2
  <2>. QED BY <2>2, <2>3 DEF RunEnds
<1>. QED BY <1>6, <1>7
=============================================================================
