------------------------- MODULE ItineraryPlanProofs ------------------------
(***************************************************************************)
(* Proofs about ItineraryPlan, for plans of any size: sums over sets of    *)
(* activities, what a recalculation leaves alone and what it writes, the   *)
(* invariant, where the cascade stops, and that it repairs what it visits. *)
(***************************************************************************)
EXTENDS ItineraryPlan, FiniteSetTheorems, SequenceTheorems, WellFoundedInduction, TLAPS

-----------------------------------------------------------------------------
(* Induction over the naturals, for a set of them.                         *)

\* A set of naturals has a least element.
LEMMA LeastNatural ==
    ASSUME NEW S \in SUBSET Nat, S # {}
    PROVE  \E m \in S : \A x \in S : m <= x
<1>1. PICK m \in S : \A x \in S : ~ (<<x, m>> \in OpToRel(<, Nat))
  BY NatLessThanWellFounded, WFMin
<1>2. ASSUME NEW x \in S
      PROVE  m <= x
  <2>1. ~ (x < m)
    BY <1>1 DEF OpToRel
  <2> QED
    BY <2>1
<1> QED
  BY <1>2

\* A set with 0 that has n + 1 whenever it has n is the naturals.
LEMMA EveryNatural ==
    ASSUME NEW S, 0 \in S, \A n \in Nat : n \in S => n + 1 \in S
    PROVE  \A n \in Nat : n \in S
<1> DEFINE Bad == {n \in Nat : n \notin S}
<1> SUFFICES ASSUME Bad # {} PROVE FALSE
  OBVIOUS
<1>1. PICK m \in Bad : \A x \in Bad : m <= x
  BY LeastNatural
<1>2. m # 0 /\ m - 1 \in Nat
  OBVIOUS
<1>3. m - 1 \in S
  BY <1>1, <1>2
<1> QED
  BY <1>2, <1>3

-----------------------------------------------------------------------------
(* Sums.                                                                   *)

Numbers(w, S) == \A x \in S : w[x] \in Nat
First(S) == CHOOSE x \in S : TRUE

\* What the fold computes on the way to the sum over S.
Sums(w, S, g) ==
    g = [s \in SUBSET S |-> IF s = {} THEN 0 ELSE w[First(s)] + g[s \ {First(s)}]]

\* There is such a fold, of numbers.
LEMMA SumsExist ==
    \A w, S : IsFiniteSet(S) /\ Numbers(w, S) => \E g \in [SUBSET S -> Nat] : Sums(w, S, g)
<1> DEFINE Upto(w, S, n) ==
             \E g \in [SUBSET S -> Nat] :
                \A s \in SUBSET S :
                   Cardinality(s) <= n =>
                      g[s] = IF s = {} THEN 0 ELSE w[First(s)] + g[s \ {First(s)}]
<1> DEFINE Good(w, S) == {n \in Nat : Upto(w, S, n)}
<1> SUFFICES ASSUME NEW w, NEW S, IsFiniteSet(S), Numbers(w, S)
             PROVE  \E g \in [SUBSET S -> Nat] : Sums(w, S, g)
  OBVIOUS
<1>1. \A s \in SUBSET S : IsFiniteSet(s) /\ Cardinality(s) \in Nat
  BY FS_Subset, FS_CardinalityType
<1>2. \A s \in SUBSET S : Cardinality(s) = 0 <=> s = {}
  BY <1>1, FS_EmptySet
<1>3. \A s \in SUBSET S : s # {} =>
         First(s) \in s /\ Cardinality(s \ {First(s)}) = Cardinality(s) - 1
  BY <1>1, FS_RemoveElement DEF First
<1>4. 0 \in Good(w, S)
  <2> DEFINE g == [s \in SUBSET S |-> 0]
  <2>1. g \in [SUBSET S -> Nat]
    OBVIOUS
  <2>2. \A s \in SUBSET S : Cardinality(s) <= 0 => s = {}
    BY <1>1, <1>2
  <2> QED
    BY <2>1, <2>2
<1>5. ASSUME NEW n \in Nat, n \in Good(w, S)
      PROVE  n + 1 \in Good(w, S)
  <2>1. PICK g \in [SUBSET S -> Nat] :
           \A s \in SUBSET S :
              Cardinality(s) <= n =>
                 g[s] = IF s = {} THEN 0 ELSE w[First(s)] + g[s \ {First(s)}]
    BY <1>5
  <2> DEFINE h == [s \in SUBSET S |-> IF s = {} THEN 0
                                      ELSE w[First(s)] + g[s \ {First(s)}]]
  <2>2. h \in [SUBSET S -> Nat]
    <3>1. ASSUME NEW s \in SUBSET S, s # {}
          PROVE  w[First(s)] + g[s \ {First(s)}] \in Nat
      <4>1. w[First(s)] \in Nat
        BY <1>3, <3>1 DEF Numbers
      <4>2. g[s \ {First(s)}] \in Nat
        OBVIOUS
      <4> QED
        BY <4>1, <4>2
    <3> QED
      BY <3>1
  <2>3. \A s \in SUBSET S : Cardinality(s) <= n => h[s] = g[s]
    BY <2>1
  <2>4. ASSUME NEW s \in SUBSET S, Cardinality(s) <= n + 1, s # {}
        PROVE  h[s] = w[First(s)] + h[s \ {First(s)}]
    <3>1. s \ {First(s)} \in SUBSET S /\ Cardinality(s \ {First(s)}) <= n
      BY <1>1, <1>3, <2>4
    <3>2. h[s \ {First(s)}] = g[s \ {First(s)}]
      BY <3>1, <2>3
    <3> QED
      BY <3>2, <2>4
  <2>5. h[{}] = 0
    OBVIOUS
  <2> HIDE DEF h
  <2>6. \A s \in SUBSET S :
           Cardinality(s) <= n + 1 =>
              h[s] = IF s = {} THEN 0 ELSE w[First(s)] + h[s \ {First(s)}]
    BY <2>4, <2>5
  <2> QED
    BY <2>2, <2>6
<1>6. \A n \in Nat : n \in Good(w, S)
  <2> HIDE DEF Good
  <2> QED
    BY <1>4, <1>5, EveryNatural
<1>7. Cardinality(S) \in Nat /\ Upto(w, S, Cardinality(S))
  BY <1>1, <1>6
<1>8. PICK g \in [SUBSET S -> Nat] :
         \A s \in SUBSET S :
            Cardinality(s) <= Cardinality(S) =>
               g[s] = IF s = {} THEN 0 ELSE w[First(s)] + g[s \ {First(s)}]
  BY <1>7
<1>9. \A s \in SUBSET S : Cardinality(s) <= Cardinality(S)
  BY FS_Subset
<1>10. Sums(w, S, g)
  BY <1>8, <1>9 DEF Sums
<1> QED
  BY <1>10

\* Two such folds, over a set and one that contains it, agree.
LEMMA SumsAgree ==
    \A w, S, T, g, h :
        IsFiniteSet(T) /\ S \subseteq T /\ Sums(w, S, g) /\ Sums(w, T, h) =>
            \A s \in SUBSET S : g[s] = h[s]
<1> SUFFICES ASSUME NEW w, NEW S, NEW T, NEW g, NEW h,
                    IsFiniteSet(T), S \subseteq T, Sums(w, S, g), Sums(w, T, h)
             PROVE  \A s \in SUBSET S : g[s] = h[s]
  OBVIOUS
<1> DEFINE Good == {n \in Nat : \A s \in SUBSET S : Cardinality(s) <= n => g[s] = h[s]}
<1>1. \A s \in SUBSET S : IsFiniteSet(s) /\ Cardinality(s) \in Nat
  BY FS_Subset, FS_CardinalityType
<1>2. \A s \in SUBSET S : Cardinality(s) = 0 <=> s = {}
  BY <1>1, FS_EmptySet
<1>3. \A s \in SUBSET S : s # {} =>
         First(s) \in s /\ Cardinality(s \ {First(s)}) = Cardinality(s) - 1
  BY <1>1, FS_RemoveElement DEF First
<1>4. \A s \in SUBSET S : s \in SUBSET T
  OBVIOUS
<1>5. g[{}] = 0 /\ h[{}] = 0
  BY DEF Sums
<1>6. \A s \in SUBSET S : s # {} => /\ g[s] = w[First(s)] + g[s \ {First(s)}]
                                    /\ h[s] = w[First(s)] + h[s \ {First(s)}]
  BY <1>4 DEF Sums
<1>7. 0 \in Good
  <2>1. \A s \in SUBSET S : Cardinality(s) <= 0 => s = {}
    BY <1>1, <1>2
  <2> QED
    BY <2>1, <1>5
<1>8. ASSUME NEW n \in Nat, n \in Good
      PROVE  n + 1 \in Good
  <2> SUFFICES ASSUME NEW s \in SUBSET S, Cardinality(s) <= n + 1
               PROVE  g[s] = h[s]
    OBVIOUS
  <2>1. CASE s = {}
    BY <2>1, <1>5
  <2>2. CASE s # {}
    <3>1. s \ {First(s)} \in SUBSET S /\ Cardinality(s \ {First(s)}) <= n
      BY <1>1, <1>3, <2>2
    <3>2. g[s \ {First(s)}] = h[s \ {First(s)}]
      BY <3>1, <1>8
    <3> QED
      BY <3>2, <1>6, <2>2
  <2> QED
    BY <2>1, <2>2
<1>9. \A n \in Nat : n \in Good
  <2> HIDE DEF Good
  <2> QED
    BY <1>7, <1>8, EveryNatural
<1> QED
  BY <1>9, <1>1

\* The sum is what such a fold has for S.
LEMMA SumIs ==
    \A w, S : IsFiniteSet(S) /\ Numbers(w, S) =>
        \E g \in [SUBSET S -> Nat] : Sums(w, S, g) /\ SumFunctionOnSet(w, S) = g[S]
<1> SUFFICES ASSUME NEW w, NEW S, IsFiniteSet(S), Numbers(w, S)
             PROVE  \E g \in [SUBSET S -> Nat] :
                       Sums(w, S, g) /\ SumFunctionOnSet(w, S) = g[S]
  OBVIOUS
<1> DEFINE g == CHOOSE f : f = [s \in SUBSET S |->
                   IF s = {} THEN 0
                   ELSE w[CHOOSE x \in s : TRUE] + f[s \ {CHOOSE x \in s : TRUE}]]
<1>1. SumFunctionOnSet(w, S) = g[S]
  BY DEF SumFunctionOnSet, FoldFunctionOnSet, MapThenFoldSet
<1>2. PICK f \in [SUBSET S -> Nat] : Sums(w, S, f)
  BY SumsExist
<1>3. \E x : x = [s \in SUBSET S |->
                   IF s = {} THEN 0
                   ELSE w[CHOOSE y \in s : TRUE] + x[s \ {CHOOSE y \in s : TRUE}]]
  BY <1>2 DEF Sums, First
<1>4. g = [s \in SUBSET S |->
             IF s = {} THEN 0
             ELSE w[CHOOSE x \in s : TRUE] + g[s \ {CHOOSE x \in s : TRUE}]]
  BY <1>3
<1> HIDE DEF g
<1>5. Sums(w, S, g)
  BY <1>4 DEF Sums, First
<1>6. S \subseteq S
  OBVIOUS
<1>7. \A s \in SUBSET S : g[s] = f[s]
  BY <1>2, <1>5, <1>6, SumsAgree
<1>8. DOMAIN g = SUBSET S /\ g = [s \in SUBSET S |-> g[s]]
  BY <1>5 DEF Sums
<1>9. \A s \in SUBSET S : g[s] \in Nat
  BY <1>7
<1>10. g \in [SUBSET S -> Nat]
  BY <1>8, <1>9
<1> QED
  BY <1>1, <1>5, <1>10

\* A sum of numbers is a number, none of nothing.
LEMMA SumType ==
    \A w, S : IsFiniteSet(S) /\ Numbers(w, S) =>
        /\ SumFunctionOnSet(w, S) \in Nat
        /\ S = {} => SumFunctionOnSet(w, S) = 0
<1> SUFFICES ASSUME NEW w, NEW S, IsFiniteSet(S), Numbers(w, S)
             PROVE  /\ SumFunctionOnSet(w, S) \in Nat
                    /\ S = {} => SumFunctionOnSet(w, S) = 0
  OBVIOUS
<1>1. PICK g \in [SUBSET S -> Nat] : Sums(w, S, g) /\ SumFunctionOnSet(w, S) = g[S]
  BY SumIs
<1>2. S \in SUBSET S
  OBVIOUS
<1>3. g[{}] = 0
  BY <1>1 DEF Sums
<1> QED
  BY <1>1, <1>2, <1>3

\* The fold takes out the first element.
LEMMA SumFirst ==
    \A w, S : IsFiniteSet(S) /\ Numbers(w, S) /\ S # {} =>
        SumFunctionOnSet(w, S) = w[First(S)] + SumFunctionOnSet(w, S \ {First(S)})
<1> SUFFICES ASSUME NEW w, NEW S, IsFiniteSet(S), Numbers(w, S), S # {}
             PROVE  SumFunctionOnSet(w, S)
                       = w[First(S)] + SumFunctionOnSet(w, S \ {First(S)})
  OBVIOUS
<1> DEFINE T == S \ {First(S)}
<1>1. IsFiniteSet(T) /\ Numbers(w, T) /\ T \subseteq S
  BY FS_Subset DEF Numbers
<1> HIDE DEF T
<1>2. PICK g \in [SUBSET S -> Nat] : Sums(w, S, g) /\ SumFunctionOnSet(w, S) = g[S]
  BY SumIs
<1>3. PICK h \in [SUBSET T -> Nat] : Sums(w, T, h) /\ SumFunctionOnSet(w, T) = h[T]
  BY SumIs, <1>1
<1>4. h[T] = g[T]
  BY <1>1, <1>2, <1>3, SumsAgree
<1>5. g[S] = w[First(S)] + g[S \ {First(S)}]
  <2>1. S \in SUBSET S
    OBVIOUS
  <2> QED
    BY <1>2, <2>1 DEF Sums
<1> QED
  BY <1>2, <1>3, <1>4, <1>5 DEF T

\* Any element may be taken out first.
LEMMA SumAny ==
    \A w, S : IsFiniteSet(S) /\ Numbers(w, S) =>
        \A x \in S : SumFunctionOnSet(w, S) = w[x] + SumFunctionOnSet(w, S \ {x})
<1> DEFINE Holds(w, S) ==
             \A x \in S : SumFunctionOnSet(w, S) = w[x] + SumFunctionOnSet(w, S \ {x})
<1> DEFINE Good == {n \in Nat : \A w, S : IsFiniteSet(S) /\ Numbers(w, S) /\ Cardinality(S) <= n
                                             => Holds(w, S)}
<1>1. 0 \in Good
  <2>1. ASSUME NEW S, IsFiniteSet(S), Cardinality(S) <= 0
        PROVE  S = {}
    BY <2>1, FS_EmptySet, FS_CardinalityType
  <2> QED
    BY <2>1
<1>2. ASSUME NEW n \in Nat, n \in Good
      PROVE  n + 1 \in Good
  <2> SUFFICES ASSUME NEW w, NEW S, IsFiniteSet(S), Numbers(w, S), Cardinality(S) <= n + 1,
                      NEW x \in S
               PROVE  SumFunctionOnSet(w, S) = w[x] + SumFunctionOnSet(w, S \ {x})
    OBVIOUS
  <2> DEFINE c == First(S)
  <2>1. c \in S
    BY DEF First
  <2>2. SumFunctionOnSet(w, S) = w[c] + SumFunctionOnSet(w, S \ {c})
    BY SumFirst
  <2> HIDE DEF c
  <2>3. ASSUME NEW y \in S
        PROVE  /\ IsFiniteSet(S \ {y}) /\ Numbers(w, S \ {y}) /\ Cardinality(S \ {y}) <= n
               /\ IsFiniteSet((S \ {c}) \ {y}) /\ Numbers(w, (S \ {c}) \ {y})
    <3>1. IsFiniteSet(S \ {y}) /\ Cardinality(S \ {y}) = Cardinality(S) - 1
      BY FS_RemoveElement
    <3>2. IsFiniteSet((S \ {c}) \ {y})
      BY FS_Subset
    <3>3. Cardinality(S) \in Nat
      BY FS_CardinalityType
    <3> QED
      BY <3>1, <3>2, <3>3 DEF Numbers
  <2>4. CASE x = c
    BY <2>2, <2>4
  <2>5. CASE x # c
    <3>1. SumFunctionOnSet(w, S \ {c}) = w[x] + SumFunctionOnSet(w, (S \ {c}) \ {x})
      <4>1. Holds(w, S \ {c})
        BY <1>2, <2>1, <2>3
      <4> QED
        BY <4>1, <2>5
    <3>2. SumFunctionOnSet(w, S \ {x}) = w[c] + SumFunctionOnSet(w, (S \ {x}) \ {c})
      <4>1. Holds(w, S \ {x})
        BY <1>2, <2>3
      <4> QED
        BY <4>1, <2>1, <2>5
    <3>3. (S \ {c}) \ {x} = (S \ {x}) \ {c}
      OBVIOUS
    <3>4. /\ w[x] \in Nat /\ w[c] \in Nat
          /\ SumFunctionOnSet(w, (S \ {c}) \ {x}) \in Nat
      BY <2>1, <2>3, SumType DEF Numbers
    <3> DEFINE rest == SumFunctionOnSet(w, (S \ {c}) \ {x})
    <3>5. /\ SumFunctionOnSet(w, S) = w[c] + (w[x] + rest)
          /\ w[x] + SumFunctionOnSet(w, S \ {x}) = w[x] + (w[c] + rest)
          /\ rest \in Nat
      BY <2>2, <3>1, <3>2, <3>3, <3>4
    <3> HIDE DEF rest
    <3> QED
      BY <3>4, <3>5
  <2> QED
    BY <2>4, <2>5
<1>3. \A n \in Nat : n \in Good
  <2> HIDE DEF Good
  <2> QED
    BY <1>1, <1>2, EveryNatural
<1>4. \A S : IsFiniteSet(S) => Cardinality(S) \in Nat
  BY FS_CardinalityType
<1> QED
  BY <1>3, <1>4

\* A part of the numbers has no greater sum.
LEMMA SumPart ==
    \A w, S, T : IsFiniteSet(S) /\ Numbers(w, S) /\ T \subseteq S =>
        SumFunctionOnSet(w, T) <= SumFunctionOnSet(w, S)
<1> DEFINE Holds(w, S) ==
             \A T \in SUBSET S : SumFunctionOnSet(w, T) <= SumFunctionOnSet(w, S)
<1> DEFINE Good == {n \in Nat : \A w, S : IsFiniteSet(S) /\ Numbers(w, S) /\ Cardinality(S) <= n
                                             => Holds(w, S)}
<1>1. 0 \in Good
  <2>1. ASSUME NEW w, NEW S, IsFiniteSet(S), Numbers(w, S), Cardinality(S) <= 0
        PROVE  Holds(w, S)
    <3>1. S = {}
      BY <2>1, FS_EmptySet, FS_CardinalityType
    <3>2. SumFunctionOnSet(w, S) \in Nat
      BY <2>1, SumType
    <3> QED
      BY <3>1, <3>2
  <2> QED
    BY <2>1
<1>2. ASSUME NEW n \in Nat, n \in Good
      PROVE  n + 1 \in Good
  <2> SUFFICES ASSUME NEW w, NEW S, IsFiniteSet(S), Numbers(w, S), Cardinality(S) <= n + 1,
                      NEW T \in SUBSET S
               PROVE  SumFunctionOnSet(w, T) <= SumFunctionOnSet(w, S)
    OBVIOUS
  <2>1. SumFunctionOnSet(w, S) \in Nat
    BY SumType
  <2>2. CASE T = S
    BY <2>1, <2>2
  <2>3. CASE T # S
    <3>1. PICK x \in S : x \notin T
      BY <2>3
    <3>2. IsFiniteSet(S \ {x}) /\ Numbers(w, S \ {x}) /\ Cardinality(S \ {x}) <= n
      <4>1. IsFiniteSet(S \ {x}) /\ Cardinality(S \ {x}) = Cardinality(S) - 1
        BY FS_RemoveElement
      <4>2. Cardinality(S) \in Nat
        BY FS_CardinalityType
      <4> QED
        BY <4>1, <4>2 DEF Numbers
    <3>3. T \in SUBSET (S \ {x})
      BY <3>1
    <3>4. SumFunctionOnSet(w, T) <= SumFunctionOnSet(w, S \ {x})
      <4>1. Holds(w, S \ {x})
        BY <1>2, <3>2
      <4> QED
        BY <4>1, <3>3
    <3>5. SumFunctionOnSet(w, S) = w[x] + SumFunctionOnSet(w, S \ {x})
      BY SumAny
    <3>6. IsFiniteSet(T) /\ Numbers(w, T)
      BY FS_Subset DEF Numbers
    <3>7. /\ w[x] \in Nat /\ SumFunctionOnSet(w, S \ {x}) \in Nat
          /\ SumFunctionOnSet(w, T) \in Nat
      BY <3>2, <3>6, SumType DEF Numbers
    <3> QED
      BY <3>4, <3>5, <3>7
  <2> QED
    BY <2>2, <2>3
<1>3. \A n \in Nat : n \in Good
  <2> HIDE DEF Good
  <2> QED
    BY <1>1, <1>2, EveryNatural
<1>4. \A S : IsFiniteSet(S) => Cardinality(S) \in Nat
  BY FS_CardinalityType
<1> QED
  BY <1>3, <1>4

\* The sum looks at the numbers over the set only.
LEMMA SumSame ==
    \A w, v, S : IsFiniteSet(S) /\ Numbers(w, S) /\ (\A x \in S : w[x] = v[x]) =>
        SumFunctionOnSet(w, S) = SumFunctionOnSet(v, S)
<1> DEFINE Good == {n \in Nat : \A w, v, S :
             /\ IsFiniteSet(S) /\ Numbers(w, S) /\ (\A x \in S : w[x] = v[x])
             /\ Cardinality(S) <= n
             => SumFunctionOnSet(w, S) = SumFunctionOnSet(v, S)}
<1>1. 0 \in Good
  <2>1. ASSUME NEW w, NEW v, NEW S, IsFiniteSet(S), Cardinality(S) <= 0
        PROVE  SumFunctionOnSet(w, S) = SumFunctionOnSet(v, S)
    <3>1. S = {} /\ Numbers(w, S) /\ Numbers(v, S)
      BY <2>1, FS_EmptySet, FS_CardinalityType DEF Numbers
    <3> QED
      BY <2>1, <3>1, SumType
  <2> QED
    BY <2>1
<1>2. ASSUME NEW n \in Nat, n \in Good
      PROVE  n + 1 \in Good
  <2> SUFFICES ASSUME NEW w, NEW v, NEW S, IsFiniteSet(S), Numbers(w, S),
                      \A x \in S : w[x] = v[x], Cardinality(S) <= n + 1
               PROVE  SumFunctionOnSet(w, S) = SumFunctionOnSet(v, S)
    OBVIOUS
  <2>1. Numbers(v, S)
    BY DEF Numbers
  <2>2. CASE S = {}
    BY <2>1, <2>2, SumType
  <2>3. CASE S # {}
    <3>1. First(S) \in S
      BY <2>3 DEF First
    <3> DEFINE T == S \ {First(S)}
    <3>2. IsFiniteSet(T) /\ Cardinality(T) = Cardinality(S) - 1
      BY <3>1, FS_RemoveElement
    <3>3. Cardinality(S) \in Nat
      BY FS_CardinalityType
    <3>4. Numbers(w, T) /\ \A x \in T : w[x] = v[x]
      BY DEF Numbers
    <3>5. Cardinality(T) <= n
      BY <3>2, <3>3
    <3>6. /\ SumFunctionOnSet(w, S) = w[First(S)] + SumFunctionOnSet(w, T)
          /\ SumFunctionOnSet(v, S) = v[First(S)] + SumFunctionOnSet(v, T)
      BY <2>1, <2>3, SumFirst
    <3> HIDE DEF T
    <3>7. SumFunctionOnSet(w, T) = SumFunctionOnSet(v, T)
      BY <1>2, <3>2, <3>4, <3>5
    <3> QED
      BY <3>1, <3>6, <3>7
  <2> QED
    BY <2>2, <2>3
<1>3. \A n \in Nat : n \in Good
  <2> HIDE DEF Good
  <2> QED
    BY <1>1, <1>2, EveryNatural
<1>4. \A S : IsFiniteSet(S) => Cardinality(S) \in Nat
  BY FS_CardinalityType
<1> QED
  BY <1>3, <1>4

-----------------------------------------------------------------------------
(* Tables.                                                                 *)

DayRow == [start : StartTimes \union {None}, from : MaybePlace, travel : Nat, cost : Nat]
PlanRow == [from : MaybePlace, travel : Nat, budget : Nat, own : BOOLEAN]

\* The tables of a plan, as TypeOK has them.
Whole(t) ==
    /\ t \in [plan : PlanRow, day : Seq(DayRow), item : [Activities -> ItemType]]
    /\ Len(t.day) <= MaxDays
    /\ \A a \in Activities : t.item[a].day \in 0 .. Len(t.day)

\* The greatest of some numbers is one of them.
LEMMA MaxMember ==
    ASSUME NEW n \in Nat, NEW S \in SUBSET (1 .. n), S # {}
    PROVE  Max(S) \in S
<1> DEFINE T == {n - x : x \in S}
<1>1. T \in SUBSET Nat
  OBVIOUS
<1>2. T # {}
  OBVIOUS
<1>3. PICK m \in T : \A x \in T : m <= x
  <2> HIDE DEF T
  <2> QED
    BY <1>1, <1>2, LeastNatural
<1>4. PICK y \in S : m = n - y
  BY <1>3
<1>5. \A x \in S : n - y <= n - x
  BY <1>3, <1>4
<1>6. \A x \in S : y >= x
  BY <1>5
<1> QED
  BY <1>6 DEF Max

\* The greater of two numbers is one of them.
LEMMA GreaterOfTwo ==
    ASSUME NEW a \in Nat, NEW b \in Nat
    PROVE  Max({a, b}) \in Nat /\ Max({a, b}) >= a /\ Max({a, b}) >= b
<1>1. \E x \in {a, b} : \A y \in {a, b} : x >= y
  BY a >= b \/ b >= a
<1> QED
  BY <1>1 DEF Max

\* There are finitely many activities, and the sums of their legs and costs are numbers.
LEMMA FiniteActivities ==
    IsFiniteSet(Activities) /\ \A S \in SUBSET Activities : IsFiniteSet(S)
<1>1. MaxActivities \in Int /\ 1 \in Int
  BY BoundsAssumption
<1>2. IsFiniteSet(Activities)
  BY <1>1, FS_Interval DEF Activities
<1> QED
  BY <1>2, FS_Subset

LEMMA SumsOfTables ==
    ASSUME NEW t, Whole(t), NEW S \in SUBSET Activities
    PROVE  SumLegs(t, S) \in Nat /\ SumCosts(t, S) \in Nat
<1> DEFINE legs == [a \in Activities |-> t.item[a].leg]
           costs == [a \in Activities |-> t.item[a].cost]
<1>1. Numbers(legs, S) /\ Numbers(costs, S)
  BY DEF Whole, ItemType, Numbers
<1>2. IsFiniteSet(S)
  BY FiniteActivities
<1> HIDE DEF legs, costs
<1>3. SumFunctionOnSet(legs, S) \in Nat /\ SumFunctionOnSet(costs, S) \in Nat
  BY <1>1, <1>2, SumType
<1> QED
  BY <1>3 DEF SumLegs, SumCosts, legs, costs

\* Costs of activities that keep theirs have the same sum.
LEMMA SameCosts ==
    ASSUME NEW t, NEW u, Whole(t), NEW S \in SUBSET Activities,
           \A a \in S : u.item[a].cost = t.item[a].cost
    PROVE  SumCosts(u, S) = SumCosts(t, S)
<1> DEFINE costs == [a \in Activities |-> t.item[a].cost]
           others == [a \in Activities |-> u.item[a].cost]
<1>1. Numbers(costs, S) /\ \A a \in S : costs[a] = others[a]
  BY DEF Whole, ItemType, Numbers
<1>2. IsFiniteSet(S)
  BY FiniteActivities
<1> HIDE DEF costs, others
<1>3. SumFunctionOnSet(costs, S) = SumFunctionOnSet(others, S)
  BY <1>1, <1>2, SumSame
<1> QED
  BY <1>3 DEF SumCosts, costs, others

\* Fewer activities do not cost more.
LEMMA LessCosts ==
    ASSUME NEW t, Whole(t), NEW S \in SUBSET Activities, NEW T \in SUBSET S
    PROVE  SumCosts(t, T) <= SumCosts(t, S)
<1> DEFINE costs == [a \in Activities |-> t.item[a].cost]
<1>1. Numbers(costs, S)
  BY DEF Whole, ItemType, Numbers
<1>2. IsFiniteSet(S) /\ T \subseteq S
  BY FiniteActivities
<1> HIDE DEF costs
<1>3. SumFunctionOnSet(costs, T) <= SumFunctionOnSet(costs, S)
  BY <1>1, <1>2, SumPart
<1> QED
  BY <1>3 DEF SumCosts, costs

-----------------------------------------------------------------------------
(* The schedule of a day.                                                  *)

\* An order of a day has each of its activities.
LEMMA OrderOfAll ==
    ASSUME NEW t, NEW d, NEW s \in Orders(t, d)
    PROVE  \E n \in Nat : /\ s \in [1 .. n -> DayItems(t, d)] /\ Len(s) = n
                          /\ \A a \in DayItems(t, d) : \E i \in 1 .. n : s[i] = a
<1> DEFINE S == DayItems(t, d)
           n == Cardinality(S)
<1>1. IsFiniteSet(S) /\ n \in Nat
  BY FiniteActivities, FS_CardinalityType DEF DayItems
<1>2. s \in [1 .. n -> S] /\ \A i, j \in 1 .. n : i # j => s[i] # s[j]
  BY DEF Orders, SetToSeqs
<1> HIDE DEF S
<1>3. s \in Injection(1 .. n, S)
  BY <1>2 DEF Injection, IsInjective
<1>4. 1 \in Int /\ n \in Int /\ ~ (1 > n + 1)
  BY <1>1
<1>5. Cardinality(1 .. n) = n
  BY <1>1, <1>4, FS_Interval
<1>6. s \in Surjection(1 .. n, S)
  BY <1>1, <1>3, <1>5, FS_Injection
<1>7. Len(s) = n
  BY <1>1, <1>2
<1> QED
  BY <1>1, <1>2, <1>6, <1>7 DEF Surjection, S

\* A clock that starts at a number and goes on by numbers.
Clock(n, c, leg, f) ==
    f = [i \in 0 .. n |-> IF i = 0 THEN c ELSE f[i - 1] + leg[i] + Duration]

LEMMA ClockExists ==
    ASSUME NEW n \in Nat, NEW c \in Nat, NEW leg \in [1 .. n -> Nat]
    PROVE  \E f : Clock(n, c, leg, f)
<1> DEFINE Good == {k \in Nat : \E f : DOMAIN f = 0 .. n /\ \A i \in 0 .. n : i <= k =>
                       f[i] = IF i = 0 THEN c ELSE f[i - 1] + leg[i] + Duration}
<1>1. 0 \in Good
  <2> DEFINE f == [i \in 0 .. n |-> c]
  <2>1. DOMAIN f = 0 .. n /\ \A i \in 0 .. n : i <= 0 => i = 0 /\ f[i] = c
    OBVIOUS
  <2> HIDE DEF f
  <2>2. DOMAIN f = 0 .. n /\ \A i \in 0 .. n : i <= 0 =>
           f[i] = IF i = 0 THEN c ELSE f[i - 1] + leg[i] + Duration
    BY <2>1
  <2> QED
    BY <2>2
<1>2. ASSUME NEW k \in Nat, k \in Good
      PROVE  k + 1 \in Good
  <2>1. PICK f : DOMAIN f = 0 .. n /\ \A i \in 0 .. n : i <= k =>
                    f[i] = IF i = 0 THEN c ELSE f[i - 1] + leg[i] + Duration
    BY <1>2
  <2> DEFINE g == [i \in 0 .. n |-> IF i = 0 THEN c ELSE f[i - 1] + leg[i] + Duration]
  <2>2. DOMAIN g = 0 .. n /\ \A i \in 0 .. n :
           g[i] = IF i = 0 THEN c ELSE f[i - 1] + leg[i] + Duration
    OBVIOUS
  <2> HIDE DEF g
  <2>3. \A i \in 0 .. n : i <= k => g[i] = f[i]
    BY <2>1, <2>2
  <2>4. ASSUME NEW i \in 0 .. n, i <= k + 1, i # 0
        PROVE  g[i] = g[i - 1] + leg[i] + Duration
    <3>1. i - 1 \in 0 .. n /\ i - 1 <= k
      BY <2>4
    <3>2. g[i - 1] = f[i - 1]
      BY <3>1, <2>3
    <3> QED
      BY <3>2, <2>2, <2>4
  <2>5. DOMAIN g = 0 .. n /\ \A i \in 0 .. n : i <= k + 1 =>
           g[i] = IF i = 0 THEN c ELSE g[i - 1] + leg[i] + Duration
    BY <2>2, <2>4
  <2> QED
    BY <2>5
<1>3. \A k \in Nat : k \in Good
  <2> HIDE DEF Good
  <2> QED
    BY <1>1, <1>2, EveryNatural
<1>4. PICK f : DOMAIN f = 0 .. n /\ \A i \in 0 .. n : i <= n =>
                  f[i] = IF i = 0 THEN c ELSE f[i - 1] + leg[i] + Duration
  BY <1>3
<1> DEFINE g == [i \in 0 .. n |-> f[i]]
<1>5. g = [i \in 0 .. n |-> IF i = 0 THEN c ELSE g[i - 1] + leg[i] + Duration]
  <2>1. \A i \in 0 .. n : i # 0 => i - 1 \in 0 .. n
    OBVIOUS
  <2> QED
    BY <1>4, <2>1
<1> QED
  BY <1>5 DEF Clock

LEMMA ClockType ==
    ASSUME NEW n \in Nat, NEW c \in Nat, NEW leg \in [1 .. n -> Nat], NEW f,
           Clock(n, c, leg, f)
    PROVE  \A i \in 0 .. n : f[i] \in Nat
<1> DEFINE Good == {k \in Nat : \A i \in 0 .. n : i <= k => f[i] \in Nat}
<1>1. \A i \in 0 .. n : f[i] = IF i = 0 THEN c ELSE f[i - 1] + leg[i] + Duration
  BY DEF Clock
<1>2. 0 \in Good
  BY <1>1
<1>3. ASSUME NEW k \in Nat, k \in Good
      PROVE  k + 1 \in Good
  <2> SUFFICES ASSUME NEW i \in 0 .. n, i <= k + 1
               PROVE  f[i] \in Nat
    OBVIOUS
  <2>1. CASE i = 0
    BY <1>1, <2>1
  <2>2. CASE i # 0
    <3>1. i - 1 \in 0 .. n /\ i - 1 <= k /\ i \in 1 .. n
      BY <2>2
    <3>2. f[i - 1] \in Nat /\ leg[i] \in Nat /\ Duration \in Nat
      BY <3>1, <1>3, TimesAssumption
    <3>3. f[i] = f[i - 1] + leg[i] + Duration
      BY <1>1, <2>2
    <3> QED
      BY <3>2, <3>3
  <2> QED
    BY <2>1, <2>2
<1>4. \A k \in Nat : k \in Good
  <2> HIDE DEF Good
  <2> QED
    BY <1>2, <1>3, EveryNatural
<1> QED
  BY <1>4

LEMMA LegToType ==
    ASSUME NEW t, Whole(t), NEW d, NEW s \in Orders(t, d), NEW i \in DOMAIN s,
           NEW origin \in MaybePlace
    PROVE  LegTo(t, s, i, origin) \in Nat
<1> DEFINE before == {j \in 1 .. i - 1 : t.item[s[j]].place # None}
           place == IF before = {} THEN origin ELSE t.item[s[Max(before)]].place
<1>1. PICK n \in Nat : s \in [1 .. n -> DayItems(t, d)]
  BY OrderOfAll
<1>2. \A j \in 1 .. n : t.item[s[j]].place \in MaybePlace
  BY <1>1 DEF Whole, ItemType, DayItems
<1>3. i \in 1 .. n /\ before \in SUBSET (1 .. n)
  BY <1>1
<1>4. before # {} => Max(before) \in 1 .. n
  <2> HIDE DEF before
  <2> QED
    BY <1>3, MaxMember
<1>5. place \in MaybePlace
  BY <1>2, <1>4
<1>6. LegTo(t, s, i, origin) = Leg(place, t.item[s[i]].place)
  BY DEF LegTo
<1> HIDE DEF place
<1>7. \A p, q \in MaybePlace : Leg(p, q) \in Nat
  BY TravelAssumption DEF Leg, MaybePlace
<1> QED
  BY <1>2, <1>3, <1>5, <1>6, <1>7

\* An activity with another leg and another time.
Timed(x, leg, start) == [x EXCEPT !.leg = leg, !.start = start]

LEMMA TimedType ==
    \A x \in ItemType, leg \in Nat, start \in Times :
        /\ Timed(x, leg, start) \in ItemType
        /\ Timed(x, leg, start).day = x.day /\ Timed(x, leg, start).cost = x.cost
  BY DEF ItemType, Timed

\* Adding to a time of day and wrapping around is adding to the time and wrapping around.
LEMMA WrapsOnce ==
    ASSUME NEW m \in Nat \ {0}, NEW x \in Nat, NEW y \in Nat
    PROVE  ((x % m) + y) % m = (x + y) % m
<1> DEFINE q == x \div m
           r == x % m
           a == (r + y) \div m
           b == (r + y) % m
           c == (x + y) \div m
           d == (x + y) % m
<1>1. \A z \in Nat : z \div m \in Int /\ z % m \in 0 .. m - 1 /\ z = m * (z \div m) + (z % m)
  OBVIOUS
<1>2. /\ q \in Int /\ r \in 0 .. m - 1 /\ x = m * q + r
      /\ a \in Int /\ b \in 0 .. m - 1 /\ r + y = m * a + b
      /\ c \in Int /\ d \in 0 .. m - 1 /\ x + y = m * c + d
  <2>1. r \in Nat /\ q \in Int /\ x = m * q + r /\ r \in 0 .. m - 1
    BY <1>1
  <2> HIDE DEF r, q
  <2>2. r + y \in Nat /\ x + y \in Nat
    BY <2>1
  <2> QED
    BY <1>1, <2>1, <2>2
<1> HIDE DEF q, r, a, b, c, d
<1>3. m * q + m * a + b = m * c + d
  BY <1>2
<1>4. m * (c - q - a) = m * c - m * q - m * a
  BY <1>2
<1> DEFINE k == c - q - a
<1>5. k \in Int /\ m * k = b - d
  BY <1>2, <1>3, <1>4
<1> HIDE DEF k
<1>6. b - d < m /\ b - d > - m
  BY <1>2
<1>7. k >= 1 => m * k >= m
  BY <1>5
<1>8. k <= -1 => m * k <= - m
  BY <1>5
<1>9. k = 0
  BY <1>5, <1>6, <1>7, <1>8
<1>10. b = d
  BY <1>2, <1>5, <1>9
<1> QED
  BY <1>10 DEF b, d, r

\* Those of the first k activities of s that are somewhere.
Placed(t, s, k) == {j \in 1 .. k : t.item[s[j]].place # None}

\* The place before an activity that LegTo takes is where a traveller is.
LEMMA WhereaboutsAre ==
    ASSUME NEW t, NEW n \in Nat, NEW s, Len(s) = n, NEW origin, NEW i \in 1 .. n
    PROVE  Whereabouts(t, s, origin, i - 1)
              = IF Placed(t, s, i - 1) = {} THEN origin
                ELSE t.item[s[Max(Placed(t, s, i - 1))]].place
<1> DEFINE place(j) == t.item[s[j]].place
           Been(k) == Placed(t, s, k)
           Is(f) == f = [j \in 0 .. n |-> IF j = 0 THEN origin
                                          ELSE IF place(j) = None THEN f[j - 1] ELSE place(j)]
           at == CHOOSE f : Is(f)
           g == [k \in 0 .. n |-> IF Been(k) = {} THEN origin ELSE place(Max(Been(k)))]
<1>1. g[0] = origin
  <2>1. Been(0) = {} /\ 0 \in 0 .. n
    BY DEF Placed
  <2> QED
    BY <2>1
<1>2. ASSUME NEW k \in 1 .. n
      PROVE  g[k] = IF place(k) = None THEN g[k - 1] ELSE place(k)
  <2>1. k \in 0 .. n /\ k - 1 \in 0 .. n /\ k \in 1 .. k
    OBVIOUS
  <2>2. CASE place(k) = None
    <3>1. Been(k) = Been(k - 1)
      <4>1. \A j : j \in 1 .. k <=> j \in 1 .. k - 1 \/ j = k
        OBVIOUS
      <4> QED
        BY <4>1, <2>2 DEF Placed
    <3> HIDE DEF Been, place
    <3> QED
      BY <2>1, <2>2, <3>1
  <2>3. CASE place(k) # None
    <3>1. k \in Been(k) /\ \A j \in Been(k) : j \in 1 .. k
      BY <2>1, <2>3 DEF Placed
    <3> HIDE DEF Been, place
    <3>2. Max(Been(k)) = k
      <4>1. \A j \in Been(k) : j \in Nat /\ k >= j
        BY <3>1
      <4>2. \A x \in Been(k) : (\A y \in Been(k) : x >= y) => x = k
        BY <3>1, <4>1
      <4> QED
        BY <3>1, <4>1, <4>2 DEF Max
    <3> QED
      BY <2>1, <2>3, <3>1, <3>2
  <2> QED
    BY <2>2, <2>3
<1> HIDE DEF place, Been
<1>3. Is(g)
  <2>1. \A k \in 0 .. n : k # 0 => k \in 1 .. n
    OBVIOUS
  <2>2. g = [k \in 0 .. n |-> g[k]]
    OBVIOUS
  <2> HIDE DEF g
  <2>3. \A k \in 0 .. n : g[k] = IF k = 0 THEN origin
                                 ELSE IF place(k) = None THEN g[k - 1] ELSE place(k)
    BY <1>1, <1>2, <2>1
  <2> QED
    BY <2>2, <2>3
<1> HIDE DEF g
<1>4. Is(at)
  <2> HIDE DEF Is
  <2> QED
    BY <1>3
<1>5. Whereabouts(t, s, origin, i - 1) = at[i - 1]
  BY DEF Whereabouts, place
<1> HIDE DEF at
<1>6. /\ at[0] = origin
      /\ \A k \in 1 .. n : at[k] = IF place(k) = None THEN at[k - 1] ELSE place(k)
  BY <1>4
<1> HIDE DEF Is
<1> DEFINE Good == {k \in Nat : k <= n => at[k] = g[k]}
<1>7. 0 \in Good
  BY <1>1, <1>6
<1>8. ASSUME NEW k \in Nat, k \in Good
      PROVE  k + 1 \in Good
  <2> SUFFICES ASSUME k + 1 <= n PROVE at[k + 1] = g[k + 1]
    OBVIOUS
  <2> DEFINE l == k + 1
  <2>1. l \in 1 .. n /\ l - 1 = k /\ k <= n
    OBVIOUS
  <2>2. at[k] = g[k]
    BY <1>8, <2>1
  <2> HIDE DEF l
  <2>3. at[l] = g[l]
    BY <1>2, <1>6, <2>1, <2>2
  <2> QED
    BY <2>3 DEF l
<1>9. \A k \in Nat : k \in Good
  <2> HIDE DEF Good
  <2> QED
    BY <1>7, <1>8, EveryNatural
<1>10. i - 1 \in Nat /\ i - 1 <= n /\ i - 1 \in 0 .. n
  OBVIOUS
<1>11. at[i - 1] = g[i - 1]
  BY <1>9, <1>10
<1> QED
  BY <1>5, <1>10, <1>11 DEF g, Been, place

\* So the leg to an activity is the way from there.
LEMMA LegToIs ==
    ASSUME NEW t, NEW n \in Nat, NEW s, Len(s) = n, NEW origin, NEW i \in 1 .. n
    PROVE  LegTo(t, s, i, origin) = Leg(Whereabouts(t, s, origin, i - 1), t.item[s[i]].place)
<1> DEFINE place == IF Placed(t, s, i - 1) = {} THEN origin
                    ELSE t.item[s[Max(Placed(t, s, i - 1))]].place
<1>1. Whereabouts(t, s, origin, i - 1) = place
  BY WhereaboutsAre
<1>2. LegTo(t, s, i, origin) = Leg(place, t.item[s[i]].place)
  BY DEF LegTo, Placed
<1> QED
  BY <1>1, <1>2

\* The schedule of a day is that of a clock, which starts when the day does and goes on by
\* legs and stays.
ScheduledBy(t, d, s, origin, clock) ==
    /\ Len(s) \in Nat /\ DOMAIN s = 1 .. Len(s)
    /\ clock[0] = FirstStart(t, d, s) /\ \A i \in 0 .. Len(s) : clock[i] \in Nat
    /\ \A i \in 1 .. Len(s) :
          /\ clock[i] = clock[i - 1] + LegTo(t, s, i, origin) + Duration
          /\ Scheduled(t, d, s, origin)[i]
                = Timed(t.item[s[i]], LegTo(t, s, i, origin), formatTime(clock[i] - Duration))

LEMMA ScheduledByClock ==
    ASSUME NEW t, Whole(t), NEW d \in DOMAIN t.day, NEW s \in Orders(t, d),
           NEW origin \in MaybePlace, DOMAIN s # {}
    PROVE  \E clock : ScheduledBy(t, d, s, origin, clock)
<1>1. PICK n \in Nat : s \in [1 .. n -> DayItems(t, d)] /\ Len(s) = n
  BY OrderOfAll
<1>0. 1 \in 1 .. n
  BY <1>1
<1> DEFINE leg == [j \in 1 .. n |-> LegTo(t, s, j, origin)]
           clock == CHOOSE f : f = [j \in 0 .. Len(s) |->
                      IF j = 0 THEN FirstStart(t, d, s)
                      ELSE f[j - 1] + LegTo(t, s, j, origin) + Duration]
<1>2. \A i \in 1 .. n : Scheduled(t, d, s, origin)[i]
         = Timed(t.item[s[i]], LegTo(t, s, i, origin), formatTime(clock[i] - Duration))
  BY <1>1 DEF Scheduled, Timed
<1>3. leg \in [1 .. n -> Nat]
  BY <1>1, LegToType
<1>4. FirstStart(t, d, s) \in Nat
  <2>1. s[1] \in Activities
    BY <1>0, <1>1 DEF DayItems
  <2> DEFINE first == t.item[s[1]].start
             own == t.day[d].start
  <2>2. first \in Times \union {None}
    BY <2>1 DEF Whole, ItemType
  <2>3. own \in StartTimes \union {None}
    <3>1. t.day[d] \in DayRow
      BY DEF Whole
    <3> QED
      BY <3>1 DEF DayRow
  <2>4. FirstStart(t, d, s) = IF own # None THEN own ELSE IF first # None THEN first
                              ELSE DefaultStart
    BY DEF FirstStart
  <2> HIDE DEF first, own
  <2>5. StartTimes \subseteq Times /\ DefaultStart \in Times /\ Times \subseteq Nat
    BY TimesAssumption DEF Times
  <2> QED
    BY <2>2, <2>3, <2>4, <2>5
<1>5. \A f : f = [j \in 0 .. Len(s) |->
                      IF j = 0 THEN FirstStart(t, d, s)
                      ELSE f[j - 1] + LegTo(t, s, j, origin) + Duration]
             <=> Clock(n, FirstStart(t, d, s), leg, f)
  <2> DEFINE c == FirstStart(t, d, s)
             One(f) == [j \in 0 .. Len(s) |->
                          IF j = 0 THEN c ELSE f[j - 1] + LegTo(t, s, j, origin) + Duration]
             Other(f) == [j \in 0 .. n |-> IF j = 0 THEN c ELSE f[j - 1] + leg[j] + Duration]
  <2>1. \A j \in 0 .. n : j # 0 => leg[j] = LegTo(t, s, j, origin)
    OBVIOUS
  <2> HIDE DEF leg, c
  <2>2. ASSUME NEW f
        PROVE  One(f) = Other(f)
    BY <1>1, <2>1
  <2> QED
    BY <2>2 DEF Clock, c
<1>6. \E f : Clock(n, FirstStart(t, d, s), leg, f)
  BY <1>3, <1>4, ClockExists
<1>7. Clock(n, FirstStart(t, d, s), leg, clock)
  BY <1>5, <1>6
<1>l. \A i \in 1 .. n : leg[i] = LegTo(t, s, i, origin)
  OBVIOUS
<1> HIDE DEF clock, leg
<1>8. \A i \in 0 .. n : clock[i] \in Nat
  BY <1>3, <1>4, <1>7, ClockType
<1>9. clock[0] = FirstStart(t, d, s)
  BY <1>7 DEF Clock
<1>10. \A i \in 1 .. n : clock[i] = clock[i - 1] + LegTo(t, s, i, origin) + Duration
  <2>1. \A i \in 1 .. n : i \in 0 .. n /\ i # 0
    OBVIOUS
  <2>2. \A i \in 1 .. n : clock[i] = clock[i - 1] + leg[i] + Duration
    BY <1>7, <2>1 DEF Clock
  <2> QED
    BY <1>l, <2>2
<1>11. Len(s) = n /\ n \in Nat /\ DOMAIN s = 1 .. n
  BY <1>1
<1>12. ScheduledBy(t, d, s, origin, clock)
  BY <1>2, <1>8, <1>9, <1>10, <1>11 DEF ScheduledBy
<1> QED
  BY <1>12

\* The recalculation gives an activity a leg and a time of day, and leaves the rest of it.
LEMMA ScheduledType ==
    ASSUME NEW t, Whole(t), NEW d \in DOMAIN t.day, NEW s \in Orders(t, d),
           NEW origin \in MaybePlace, NEW i \in DOMAIN s
    PROVE  \E leg \in Nat, start \in Times :
              Scheduled(t, d, s, origin)[i] = Timed(t.item[s[i]], leg, start)
<1>0. PICK clock : ScheduledBy(t, d, s, origin, clock)
  BY ScheduledByClock
<1>1. /\ i \in 1 .. Len(s) /\ Len(s) \in Nat
      /\ \A j \in 0 .. Len(s) : clock[j] \in Nat
      /\ \A j \in 1 .. Len(s) : Scheduled(t, d, s, origin)[j]
            = Timed(t.item[s[j]], LegTo(t, s, j, origin), formatTime(clock[j] - Duration))
  BY <1>0 DEF ScheduledBy
<1>2. clock[i] \in Nat
  BY <1>1
<1>3. formatTime(clock[i] - Duration) \in Times
  BY <1>2, TimesAssumption DEF formatTime, Times
<1>4. LegTo(t, s, i, origin) \in Nat
  BY LegToType
<1> QED
  BY <1>1, <1>2, <1>3, <1>4

\* The first activity is at the start of the day and the way to it, each other at the end
\* of the one before and the way from there.
LEMMA ScheduledInTurn ==
    ASSUME NEW t, Whole(t), NEW d \in DOMAIN t.day, NEW s \in Orders(t, d),
           NEW origin \in MaybePlace, NEW i \in DOMAIN s
    PROVE  LET row == Scheduled(t, d, s, origin)
           IN  /\ row[i].leg = Leg(Whereabouts(t, s, origin, i - 1), t.item[s[i]].place)
               /\ i = 1 /\ t.day[d].start # None =>
                     row[i].start = (t.day[d].start + row[i].leg) % Midnight
               /\ i > 1 => row[i].start = (row[i - 1].start + Duration + row[i].leg) % Midnight
<1> DEFINE row == Scheduled(t, d, s, origin)
           leg(j) == LegTo(t, s, j, origin)
           n == Len(s)
<1>0. PICK clock : ScheduledBy(t, d, s, origin, clock)
  BY ScheduledByClock
<1>1. /\ n \in Nat /\ Len(s) = n /\ DOMAIN s = 1 .. n
      /\ clock[0] = FirstStart(t, d, s) /\ \A j \in 0 .. n : clock[j] \in Nat
      /\ \A j \in 1 .. n :
            /\ clock[j] = clock[j - 1] + leg(j) + Duration
            /\ row[j] = Timed(t.item[s[j]], leg(j), formatTime(clock[j] - Duration))
  BY <1>0 DEF ScheduledBy
<1> HIDE DEF n
<1>2. i \in 1 .. n
  BY <1>1
<1>3. \A j \in 1 .. n : leg(j) \in Nat
  BY <1>1, LegToType
<1>4. \A j \in 1 .. n : t.item[s[j]] \in ItemType
  <2>1. PICK l \in Nat : s \in [1 .. l -> DayItems(t, d)] /\ Len(s) = l
    BY OrderOfAll
  <2>2. \A j \in 1 .. n : s[j] \in Activities
    BY <1>1, <2>1 DEF DayItems
  <2> QED
    BY <2>2 DEF Whole
<1>5. leg(i) = Leg(Whereabouts(t, s, origin, i - 1), t.item[s[i]].place)
  <2>1. n \in Nat /\ Len(s) = n
    BY <1>1
  <2> QED
    BY <1>2, <2>1, LegToIs
<1> HIDE DEF row, leg
<1>6. \A j \in 1 .. n : row[j].leg = leg(j) /\ row[j].start = (clock[j] - Duration) % Midnight
  BY <1>1, <1>4 DEF Timed, ItemType, formatTime
<1>7. Duration \in Nat /\ Midnight \in Nat \ {0}
  BY TimesAssumption
<1>8. \A j \in 1 .. n : j - 1 \in 0 .. n /\ clock[j] - Duration = clock[j - 1] + leg(j)
  BY <1>1, <1>3, <1>7
<1>9. ASSUME i = 1, t.day[d].start # None
      PROVE  row[i].start = (t.day[d].start + row[i].leg) % Midnight
  <2>1. FirstStart(t, d, s) = t.day[d].start
    BY <1>9 DEF FirstStart
  <2>2. clock[i] - Duration = t.day[d].start + leg(i)
    BY <1>1, <1>2, <1>8, <1>9, <2>1
  <2> QED
    BY <1>2, <1>6, <2>2
<1>10. ASSUME i > 1
       PROVE  row[i].start = (row[i - 1].start + Duration + row[i].leg) % Midnight
  <2> DEFINE k == i - 1
             x == clock[k] - Duration
             y == Duration + leg(i)
  <2>1. k \in 1 .. n /\ k \in 0 .. n /\ k - 1 \in 0 .. n
    BY <1>1, <1>2, <1>10
  <2>2. x = clock[k - 1] + leg(k)
    BY <1>8, <2>1
  <2>3. x \in Nat
    BY <1>1, <1>3, <2>1, <2>2
  <2>4. y \in Nat /\ leg(i) \in Nat
    BY <1>2, <1>3, <1>7
  <2>5. clock[i] - Duration = x + y
    <3>1. clock[i] - Duration = clock[k] + leg(i)
      BY <1>2, <1>8
    <3>2. clock[k] \in Nat
      BY <1>1, <2>1
    <3> QED
      BY <1>7, <2>4, <3>1, <3>2
  <2>6. row[k].start = x % Midnight /\ row[i].start = (clock[i] - Duration) % Midnight
        /\ row[i].leg = leg(i)
    BY <1>2, <1>6, <2>1
  <2> HIDE DEF k, x
  <2>7. ((x % Midnight) + y) % Midnight = (x + y) % Midnight
    BY <1>7, <2>3, <2>4, WrapsOnce
  <2>8. (x % Midnight) + Duration + leg(i) = (x % Midnight) + y
    <3>1. x % Midnight \in Nat
      BY <1>7, <2>3
    <3> HIDE DEF y
    <3> QED
      BY <1>7, <2>4, <3>1 DEF y
  <2> QED
    BY <2>5, <2>6, <2>7, <2>8 DEF k
<1> QED
  BY <1>2, <1>5, <1>6, <1>9, <1>10 DEF row

-----------------------------------------------------------------------------
(* A recalculation.                                                        *)

\* What it leaves alone: activities but for their legs and times, days but for their
\* totals, and altogether those that the cascade does not reach.  It has the budget cover
\* the costs, unless the day is empty.
Kept(t, d, u) ==
    /\ Len(u.day) = Len(t.day)
    /\ \A a \in Activities :
          /\ u.item[a].day = t.item[a].day /\ u.item[a].cost = t.item[a].cost
          /\ t.item[a].day \notin Reached(t, d) => u.item[a] = t.item[a]
    /\ \A e \in DOMAIN t.day :
          /\ u.day[e].from = t.day[e].from
          /\ e \notin Reached(t, d) => u.day[e] = t.day[e]
    /\ IF DayItems(t, d) = {} THEN u.plan = t.plan
       ELSE ~ u.plan.own /\ u.plan.budget >= SumCosts(u, PlanItems(u))

LEMMA RecalculatedKeeps ==
    ASSUME NEW t, Whole(t), NEW d \in DOMAIN t.day, NEW u \in Recalculations(t, d)
    PROVE  Whole(u) /\ Kept(t, d, u)
<1> DEFINE R == Reached(t, d)
<1>1. PICK order, origin :
         /\ \A e \in R : order[e] \in Orders(t, e) /\ origin[e] \in MaybePlace
         /\ u = Recalculated(t, d, order, origin)
  BY DEF Recalculations
<1>2. /\ \A e \in R : order[e] \in Orders(t, e) /\ origin[e] \in MaybePlace
      /\ R \subseteq DOMAIN t.day /\ DOMAIN t.day = 1 .. Len(t.day) /\ Len(t.day) \in Nat
  <2>1. t.day \in Seq(DayRow)
    BY DEF Whole
  <2>2. DOMAIN t.day = 1 .. Len(t.day) /\ Len(t.day) \in Nat
    BY <2>1
  <2>3. R \subseteq d .. Len(t.day) /\ d \in 1 .. Len(t.day)
    BY <2>2 DEF Reached
  <2>4. R \subseteq 1 .. Len(t.day)
    BY <2>2, <2>3
  <2> HIDE DEF R
  <2> QED
    BY <1>1, <2>2, <2>4
<1> DEFINE at(a) == CHOOSE i \in DOMAIN order[t.item[a].day] : order[t.item[a].day][i] = a
           new == [a \in Activities |->
                     IF t.item[a].day \in R
                     THEN Scheduled(t, t.item[a].day, order[t.item[a].day],
                                    origin[t.item[a].day])[at(a)]
                     ELSE t.item[a]]
           v == [t EXCEPT !.item = new]
           days == [e \in DOMAIN t.day |->
                      IF e \in R THEN [t.day[e] EXCEPT !.travel = SumLegs(v, DayItems(v, e)),
                                                       !.cost = SumCosts(v, DayItems(v, e))]
                                 ELSE t.day[e]]
<1>3. u = [v EXCEPT !.day = days,
                    !.plan = IF DayItems(t, d) = {} THEN @ ELSE PlanTotals(v, d)]
  BY <1>1 DEF Recalculated
<1>4. \A a \in Activities : t.item[a] \in ItemType
  BY DEF Whole
<1>5. ASSUME NEW a \in Activities, t.item[a].day \in R
      PROVE  \E leg \in Nat, start \in Times :
                new[a] = Timed(t.item[a], leg, start)
  <2> DEFINE e == t.item[a].day
             s == order[e]
             o == origin[e]
             i == CHOOSE k \in DOMAIN s : s[k] = a
  <2>1. e \in DOMAIN t.day /\ s \in Orders(t, e) /\ o \in MaybePlace
    BY <1>2, <1>5
  <2>2. new[a] = Scheduled(t, e, s, o)[i]
    BY <1>5
  <2>3. a \in DayItems(t, e)
    BY DEF DayItems
  <2> HIDE DEF e, s, o
  <2>4. PICK n \in Nat : /\ s \in [1 .. n -> DayItems(t, e)] /\ Len(s) = n
                      /\ \A b \in DayItems(t, e) : \E k \in 1 .. n : s[k] = b
    BY <2>1, OrderOfAll
  <2>5. \E k \in DOMAIN s : s[k] = a
    BY <2>3, <2>4
  <2>6. i \in DOMAIN s /\ s[i] = a
    BY <2>5
  <2> HIDE DEF i, new
  <2>7. \E leg \in Nat, start \in Times :
           Scheduled(t, e, s, o)[i] = Timed(t.item[s[i]], leg, start)
    BY <2>1, <2>6, ScheduledType
  <2> QED
    BY <2>2, <2>6, <2>7
<1>6. \A a \in Activities :
         /\ new[a] \in ItemType
         /\ new[a].day = t.item[a].day /\ new[a].cost = t.item[a].cost
         /\ t.item[a].day \notin R => new[a] = t.item[a]
  <2> SUFFICES ASSUME NEW a \in Activities
               PROVE  /\ new[a] \in ItemType
                      /\ new[a].day = t.item[a].day /\ new[a].cost = t.item[a].cost
                      /\ t.item[a].day \notin R => new[a] = t.item[a]
    OBVIOUS
  <2>1. CASE t.item[a].day \in R
    <3> HIDE DEF new
    <3>1. PICK leg \in Nat, start \in Times : new[a] = Timed(t.item[a], leg, start)
      BY <1>5, <2>1
    <3>2. new[a] \in ItemType /\ new[a].day = t.item[a].day /\ new[a].cost = t.item[a].cost
      BY <1>4, <3>1, TimedType
    <3> QED
      BY <2>1, <3>2
  <2>2. CASE t.item[a].day \notin R
    <3>1. new[a] = t.item[a]
      BY <2>2
    <3> HIDE DEF new
    <3> QED
      BY <1>4, <2>2, <3>1
  <2> QED
    BY <2>1, <2>2
<1>7. new = [a \in Activities |-> new[a]]
  OBVIOUS
<1> HIDE DEF new
<1>8. /\ v.item = new /\ v.plan = t.plan /\ v.day = t.day
      /\ v \in [plan : PlanRow, day : Seq(DayRow), item : [Activities -> ItemType]]
  BY <1>6, <1>7 DEF Whole
<1>9. Whole(v)
  BY <1>6, <1>8 DEF Whole
<1> HIDE DEF v
<1>10. \A S \in SUBSET Activities : SumLegs(v, S) \in Nat /\ SumCosts(v, S) \in Nat
  BY <1>9, SumsOfTables
<1>11. PlanItems(v) \in SUBSET Activities /\ \A e : DayItems(v, e) \in SUBSET Activities
  BY DEF PlanItems, DayItems
<1>12. \A e \in DOMAIN t.day :
          days[e] \in DayRow /\ days[e].from = t.day[e].from /\ (e \notin R => days[e] = t.day[e])
  <2> SUFFICES ASSUME NEW e \in DOMAIN t.day
               PROVE  /\ days[e] \in DayRow /\ days[e].from = t.day[e].from
                      /\ e \notin R => days[e] = t.day[e]
    OBVIOUS
  <2>1. t.day[e] \in DayRow
    BY DEF Whole
  <2>2. SumLegs(v, DayItems(v, e)) \in Nat /\ SumCosts(v, DayItems(v, e)) \in Nat
    BY <1>10, <1>11
  <2> QED
    BY <2>1, <2>2 DEF DayRow
<1>13. days \in Seq(DayRow) /\ Len(days) = Len(t.day) /\ DOMAIN days = DOMAIN t.day
  <2>1. DOMAIN days = 1 .. Len(t.day)
    BY <1>2
  <2> HIDE DEF days
  <2>2. days \in [1 .. Len(t.day) -> DayRow]
    <3>1. days = [e \in DOMAIN t.day |-> days[e]]
      BY DEF days
    <3> QED
      BY <1>2, <1>12, <3>1
  <2> DEFINE L == Len(t.day)
  <2>3. days \in [1 .. L -> DayRow] /\ L \in Nat
    BY <1>2, <2>2
  <2> HIDE DEF L
  <2>4. days \in Seq(DayRow) /\ Len(days) = L
    BY <2>3
  <2> QED
    BY <1>2, <2>1, <2>4 DEF L
<1> HIDE DEF days
<1>14. /\ u.item = new /\ u.day = days
       /\ u.plan = IF DayItems(t, d) = {} THEN t.plan ELSE PlanTotals(v, d)
       /\ u = [plan |-> u.plan, day |-> u.day, item |-> u.item]
  BY <1>3, <1>8
<1>15. t.plan \in PlanRow
  BY DEF Whole
<1>16. /\ PlanTotals(v, d) \in PlanRow /\ ~ PlanTotals(v, d).own
       /\ PlanTotals(v, d).budget >= SumCosts(v, PlanItems(v))
  <2>1. /\ SumLegs(v, PlanItems(v)) \in Nat /\ SumCosts(v, PlanItems(v)) \in Nat
    BY <1>10, <1>11
  <2>2. v.plan \in PlanRow /\ v.plan.budget \in Nat
    BY <1>8, <1>15 DEF PlanRow
  <2> DEFINE budget == Max({v.plan.budget, SumCosts(v, PlanItems(v))})
  <2>3. budget \in Nat /\ budget >= SumCosts(v, PlanItems(v))
    BY <2>1, <2>2, GreaterOfTwo
  <2>4. PlanTotals(v, d) = [v.plan EXCEPT !.travel = SumLegs(v, PlanItems(v)), !.own = FALSE,
                                          !.budget = budget]
    BY DEF PlanTotals
  <2> HIDE DEF budget
  <2> QED
    BY <2>1, <2>2, <2>3, <2>4 DEF PlanRow
<1>17. SumCosts(u, PlanItems(u)) = SumCosts(v, PlanItems(v))
  BY <1>8, <1>14 DEF SumCosts, PlanItems
<1>18. Whole(u)
  <2>1. u.plan \in PlanRow /\ u.item \in [Activities -> ItemType]
    BY <1>6, <1>7, <1>14, <1>15, <1>16
  <2>2. \A a \in Activities : u.item[a].day \in 0 .. Len(u.day)
    BY <1>6, <1>13, <1>14 DEF Whole
  <2>3. u \in [plan : PlanRow, day : Seq(DayRow), item : [Activities -> ItemType]]
    BY <1>13, <1>14, <2>1
  <2>4. Len(u.day) <= MaxDays
    BY <1>13, <1>14 DEF Whole
  <2> QED
    BY <2>2, <2>3, <2>4 DEF Whole
<1>19. Kept(t, d, u)
  BY <1>6, <1>12, <1>13, <1>14, <1>16, <1>17 DEF Kept
<1> QED
  BY <1>18, <1>19

\* No activity is in an order twice.
LEMMA OrderOnce ==
    ASSUME NEW t, NEW d, NEW s \in Orders(t, d)
    PROVE  \A i, j \in DOMAIN s : s[i] = s[j] => i = j
<1> DEFINE n == Cardinality(DayItems(t, d))
<1>1. s \in [1 .. n -> DayItems(t, d)] /\ \A i, j \in 1 .. n : i # j => s[i] # s[j]
  BY DEF Orders, SetToSeqs
<1> QED
  BY <1>1

\* What a day and those before it have that orders and origins are found by.
SameOrders(t, u) ==
    /\ \A a \in Activities :
          /\ u.item[a].day = t.item[a].day /\ u.item[a].idx = t.item[a].idx
          /\ u.item[a].place = t.item[a].place
    /\ DOMAIN u.day = DOMAIN t.day /\ \A e \in DOMAIN t.day : u.day[e].from = t.day[e].from
    /\ u.plan.from = t.plan.from

LEMMA SameOrdersSame ==
    ASSUME NEW t, NEW u, SameOrders(t, u), NEW e \in DOMAIN t.day
    PROVE  /\ \A f : DayItems(u, f) = DayItems(t, f) /\ Orders(u, f) = Orders(t, f)
           /\ Origins(u, e) = Origins(t, e)
<1>1. \A f : DayItems(u, f) = DayItems(t, f)
  BY DEF SameOrders, DayItems
<1>2. ASSUME NEW f, NEW s \in SetToSeqs(DayItems(t, f))
      PROVE  \A i \in DOMAIN s : s[i] \in Activities /\ u.item[s[i]].idx = t.item[s[i]].idx
                                 /\ u.item[s[i]].place = t.item[s[i]].place
  <2> DEFINE n == Cardinality(DayItems(t, f))
  <2>1. s \in [1 .. n -> DayItems(t, f)]
    BY DEF SetToSeqs
  <2>2. \A i \in DOMAIN s : s[i] \in Activities
    BY <2>1 DEF DayItems
  <2> QED
    BY <2>2 DEF SameOrders
<1>3. \A f : Orders(u, f) = Orders(t, f)
  BY <1>1, <1>2 DEF Orders
<1>4. LastPlaces(u, e) = LastPlaces(t, e)
  <2> DEFINE S == Orders(t, e - 1)
  <2>1. CASE e = 1 \/ DayItems(t, e - 1) = {}
    BY <1>1, <2>1 DEF LastPlaces
  <2>2. CASE ~ (e = 1 \/ DayItems(t, e - 1) = {})
    <3>1. ASSUME NEW s \in S
          PROVE  u.item[s[Len(s)]].place = t.item[s[Len(s)]].place
      <4>1. PICK n \in Nat : /\ s \in [1 .. n -> DayItems(t, e - 1)] /\ Len(s) = n
                             /\ \A a \in DayItems(t, e - 1) : \E i \in 1 .. n : s[i] = a
        BY OrderOfAll
      <4>2. \E a : a \in DayItems(t, e - 1)
        BY <2>2
      <4>3. n \in 1 .. n
        BY <4>1, <4>2
      <4>4. s[Len(s)] \in Activities
        BY <4>1, <4>3 DEF DayItems
      <4> QED
        BY <4>4 DEF SameOrders
    <3>2. LastPlaces(t, e) = {t.item[s[Len(s)]].place : s \in S}
      BY <2>2 DEF LastPlaces
    <3>3. LastPlaces(u, e) = {u.item[s[Len(s)]].place : s \in S}
      BY <1>1, <1>3, <2>2 DEF LastPlaces
    <3> HIDE DEF S
    <3> QED
      BY <3>1, <3>2, <3>3
  <2> QED
    BY <2>1, <2>2
<1>5. Origins(u, e) = Origins(t, e)
  BY <1>4 DEF Origins, SameOrders
<1> QED
  BY <1>1, <1>3, <1>5

\* The activities of s are at the same places.
SamePlaces(t, u, s) ==
    Len(s) \in Nat /\ \A j \in 1 .. Len(s) : u.item[s[j]].place = t.item[s[j]].place

\* So is then a traveller.
LEMMA SameWhereabouts ==
    ASSUME NEW t, NEW u, NEW s, SamePlaces(t, u, s), NEW origin
    PROVE  \A k : Whereabouts(u, s, origin, k) = Whereabouts(t, s, origin, k)
<1> DEFINE Is(v, f) == f = [j \in 0 .. Len(s) |->
                             IF j = 0 THEN origin
                             ELSE IF v.item[s[j]].place = None THEN f[j - 1] ELSE v.item[s[j]].place]
<1>1. \A j \in 0 .. Len(s) : j # 0 => u.item[s[j]].place = t.item[s[j]].place
  BY DEF SamePlaces
<1>2. ASSUME NEW f
      PROVE  Is(u, f) <=> Is(t, f)
  BY <1>1
<1>3. (CHOOSE f : Is(u, f)) = (CHOOSE f : Is(t, f))
  <2> HIDE DEF Is
  <2> QED
    BY <1>2
<1> QED
  BY <1>3 DEF Whereabouts

\* What a recalculation writes: totals of the plan and of each day it visits, and the
\* activities of such a day as Scheduled has them, in some order and from some origin.
Written(t, d, u) ==
    /\ SameOrders(t, u)
    /\ \A e \in Reached(t, d) :
          /\ u.day[e].start = t.day[e].start
          /\ u.day[e].travel = SumLegs(u, DayItems(u, e))
          /\ u.day[e].cost = SumCosts(u, DayItems(u, e))
          /\ \E s \in Orders(t, e), origin \in Origins(t, e) :
                /\ origin \in MaybePlace
                /\ \A i \in DOMAIN s : u.item[s[i]] = Scheduled(t, e, s, origin)[i]
    /\ DayItems(t, d) # {} => u.plan.travel = SumLegs(u, PlanItems(u))

LEMMA RecalculatedWrites ==
    ASSUME NEW t, Whole(t), NEW d \in DOMAIN t.day, NEW u \in Recalculations(t, d)
    PROVE  Written(t, d, u)
<1> DEFINE R == Reached(t, d)
<1>1. PICK order, origin :
         /\ \A e \in R : order[e] \in Orders(t, e) /\ origin[e] \in MaybePlace
                         /\ origin[e] \in Origins(t, e)
         /\ u = Recalculated(t, d, order, origin)
  BY DEF Recalculations
<1>2. R \subseteq DOMAIN t.day
  <2>1. t.day \in Seq(DayRow)
    BY DEF Whole
  <2>2. DOMAIN t.day = 1 .. Len(t.day) /\ Len(t.day) \in Nat
    BY <2>1
  <2>3. R \subseteq d .. Len(t.day) /\ d \in 1 .. Len(t.day)
    BY <2>2 DEF Reached
  <2>4. R \subseteq 1 .. Len(t.day)
    BY <2>2, <2>3
  <2> HIDE DEF R
  <2> QED
    BY <2>2, <2>4
<1> DEFINE at(a) == CHOOSE i \in DOMAIN order[t.item[a].day] : order[t.item[a].day][i] = a
           new == [a \in Activities |->
                     IF t.item[a].day \in R
                     THEN Scheduled(t, t.item[a].day, order[t.item[a].day],
                                    origin[t.item[a].day])[at(a)]
                     ELSE t.item[a]]
           v == [t EXCEPT !.item = new]
           days == [e \in DOMAIN t.day |->
                      IF e \in R THEN [t.day[e] EXCEPT !.travel = SumLegs(v, DayItems(v, e)),
                                                       !.cost = SumCosts(v, DayItems(v, e))]
                                 ELSE t.day[e]]
<1>3. u = [v EXCEPT !.day = days,
                    !.plan = IF DayItems(t, d) = {} THEN @ ELSE PlanTotals(v, d)]
  BY <1>1 DEF Recalculated
<1>4. ASSUME NEW e \in R, NEW i \in DOMAIN order[e]
      PROVE  /\ order[e][i] \in Activities /\ t.item[order[e][i]].day = e
             /\ new[order[e][i]] = Scheduled(t, e, order[e], origin[e])[i]
  <2> DEFINE s == order[e]
             o == origin[e]
             a == s[i]
             k == CHOOSE j \in DOMAIN s : s[j] = a
  <2>1. e \in DOMAIN t.day /\ s \in Orders(t, e)
    BY <1>1, <1>2
  <2>2. PICK n \in Nat : s \in [1 .. n -> DayItems(t, e)]
    <3> HIDE DEF s
    <3> QED
      BY <2>1, OrderOfAll
  <2>3. a \in DayItems(t, e)
    BY <2>2
  <2>4. a \in Activities /\ t.item[a].day = e
    BY <2>3 DEF DayItems
  <2>5. new[a] = Scheduled(t, e, s, o)[k]
    BY <2>4
  <2>6. k \in DOMAIN s /\ s[k] = a
    OBVIOUS
  <2>7. k = i
    <3>1. i \in DOMAIN s /\ s[k] = s[i]
      BY <2>6
    <3> HIDE DEF s, k, a
    <3>2. \A x, y \in DOMAIN s : s[x] = s[y] => x = y
      BY <2>1, OrderOnce
    <3> QED
      BY <2>6, <3>1, <3>2
  <2> HIDE DEF new, k
  <2> QED
    BY <2>4, <2>5, <2>7
<1>5. ASSUME NEW a \in Activities
      PROVE  new[a].day = t.item[a].day /\ new[a].idx = t.item[a].idx /\ new[a].place = t.item[a].place
  <2>1. CASE t.item[a].day \notin R
    BY <2>1
  <2>2. CASE t.item[a].day \in R
    <3> DEFINE e == t.item[a].day
               s == order[e]
               o == origin[e]
    <3>1. e \in R /\ e \in DOMAIN t.day /\ s \in Orders(t, e) /\ o \in MaybePlace /\ a \in DayItems(t, e)
      BY <1>1, <1>2, <2>2 DEF DayItems
    <3> HIDE DEF s, o, e, new
    <3>2. PICK n \in Nat : /\ s \in [1 .. n -> DayItems(t, e)]
                           /\ \A b \in DayItems(t, e) : \E k \in 1 .. n : s[k] = b
      BY <3>1, OrderOfAll
    <3>3. PICK i \in DOMAIN s : s[i] = a
      BY <3>1, <3>2
    <3>4. new[a] = Scheduled(t, e, s, o)[i]
      BY <1>4, <3>1, <3>3 DEF s, o
    <3>5. PICK leg \in Nat, start \in Times : Scheduled(t, e, s, o)[i] = Timed(t.item[s[i]], leg, start)
      BY <3>1, ScheduledType
    <3>6. new[a] = Timed(t.item[a], leg, start) /\ t.item[a] \in ItemType
      BY <3>3, <3>4, <3>5 DEF Whole
    <3> QED
      BY <3>6 DEF Timed, ItemType
  <2> QED
    BY <2>1, <2>2
<1> HIDE DEF new
<1>6. t = [plan |-> t.plan, day |-> t.day, item |-> t.item]
  BY DEF Whole
<1>7. v.item = new /\ v.day = t.day /\ v.plan = t.plan /\ v = [plan |-> t.plan, day |-> t.day, item |-> new]
  BY <1>6
<1> HIDE DEF v
<1>8. /\ u.item = new /\ u.day = days
      /\ u.plan = IF DayItems(t, d) = {} THEN t.plan ELSE PlanTotals(v, d)
  BY <1>3, <1>7
<1>9. \A S : SumLegs(u, S) = SumLegs(v, S) /\ SumCosts(u, S) = SumCosts(v, S)
  BY <1>7, <1>8 DEF SumLegs, SumCosts
<1>10. PlanItems(u) = PlanItems(v) /\ \A e : DayItems(u, e) = DayItems(v, e)
  BY <1>7, <1>8 DEF PlanItems, DayItems
<1>11. ASSUME NEW e \in DOMAIN t.day
       PROVE  /\ days[e].from = t.day[e].from
              /\ e \in R => /\ days[e].start = t.day[e].start
                            /\ days[e].travel = SumLegs(v, DayItems(v, e))
                            /\ days[e].cost = SumCosts(v, DayItems(v, e))
  <2>1. t.day[e] \in DayRow
    BY DEF Whole
  <2> HIDE DEF R
  <2> QED
    BY <2>1 DEF DayRow
<1>12. DOMAIN days = DOMAIN t.day
  OBVIOUS
<1> HIDE DEF days
<1>13. t.plan \in PlanRow
  BY DEF Whole
<1>14. PlanTotals(v, d).from = t.plan.from /\ PlanTotals(v, d).travel = SumLegs(v, PlanItems(v))
  BY <1>7, <1>13 DEF PlanTotals, PlanRow
<1>15. SameOrders(t, u)
  BY <1>5, <1>8, <1>11, <1>12, <1>14 DEF SameOrders
<1>16. ASSUME NEW e \in R
       PROVE  /\ u.day[e].start = t.day[e].start
              /\ u.day[e].travel = SumLegs(u, DayItems(u, e))
              /\ u.day[e].cost = SumCosts(u, DayItems(u, e))
              /\ \E s \in Orders(t, e), o \in Origins(t, e) :
                    /\ o \in MaybePlace
                    /\ \A i \in DOMAIN s : u.item[s[i]] = Scheduled(t, e, s, o)[i]
  <2>1. e \in DOMAIN t.day
    BY <1>2
  <2>2. order[e] \in Orders(t, e) /\ origin[e] \in Origins(t, e) /\ origin[e] \in MaybePlace
    BY <1>1
  <2>3. \A i \in DOMAIN order[e] : u.item[order[e][i]] = Scheduled(t, e, order[e], origin[e])[i]
    BY <1>4, <1>8
  <2> QED
    BY <1>8, <1>9, <1>10, <1>11, <2>1, <2>2, <2>3
<1> QED
  BY <1>8, <1>9, <1>10, <1>14, <1>15, <1>16 DEF Written

\* So the days it visits are consistent, however stale they were.
LEMMA RecalculatedConsistent ==
    ASSUME NEW t, Whole(t), NEW d \in DOMAIN t.day, NEW u \in Recalculations(t, d),
           NEW e \in Reached(t, d), e \in DOMAIN t.day
    PROVE  Consistent(u, e)
<1>1. Written(t, d, u)
  BY RecalculatedWrites
<1>2. SameOrders(t, u)
  BY <1>1 DEF Written
<1>3. /\ u.day[e].start = t.day[e].start
      /\ u.day[e].travel = SumLegs(u, DayItems(u, e))
      /\ u.day[e].cost = SumCosts(u, DayItems(u, e))
  BY <1>1 DEF Written
<1>4. PICK s \in Orders(t, e), origin \in Origins(t, e) :
         /\ origin \in MaybePlace
         /\ \A i \in DOMAIN s : u.item[s[i]] = Scheduled(t, e, s, origin)[i]
  BY <1>1 DEF Written
<1>5. s \in Orders(u, e) /\ origin \in Origins(u, e)
  BY <1>2, <1>4, SameOrdersSame
<1>6. PICK n \in Nat : s \in [1 .. n -> DayItems(t, e)] /\ Len(s) = n
  BY OrderOfAll
<1>7. \A j \in 1 .. n : u.item[s[j]].place = t.item[s[j]].place
  <2>1. \A j \in 1 .. n : s[j] \in Activities
    BY <1>6 DEF DayItems
  <2> QED
    BY <1>2, <2>1 DEF SameOrders
<1>8. \A k : Whereabouts(u, s, origin, k) = Whereabouts(t, s, origin, k)
  <2>1. SamePlaces(t, u, s)
    BY <1>6, <1>7 DEF SamePlaces
  <2> QED
    BY <2>1, SameWhereabouts
<1>9. ASSUME NEW i \in DOMAIN s
      PROVE  LET x == u.item[s[i]]
             IN  /\ x.leg = Leg(Whereabouts(u, s, origin, i - 1), x.place)
                 /\ i = 1 /\ u.day[e].start # None =>
                       x.start = (u.day[e].start + x.leg) % Midnight
                 /\ i > 1 => x.start = (u.item[s[i - 1]].start + Duration + x.leg) % Midnight
  <2> DEFINE row == Scheduled(t, e, s, origin)
  <2>1. i \in 1 .. n
    BY <1>6
  <2>2. /\ row[i].leg = Leg(Whereabouts(t, s, origin, i - 1), t.item[s[i]].place)
        /\ i = 1 /\ t.day[e].start # None => row[i].start = (t.day[e].start + row[i].leg) % Midnight
        /\ i > 1 => row[i].start = (row[i - 1].start + Duration + row[i].leg) % Midnight
    BY <1>4, ScheduledInTurn
  <2>3. Whereabouts(u, s, origin, i - 1) = Whereabouts(t, s, origin, i - 1)
    BY <1>8
  <2>4. u.item[s[i]] = row[i] /\ (i > 1 => u.item[s[i - 1]] = row[i - 1])
    <3>1. i > 1 => i - 1 \in DOMAIN s
      BY <1>6, <2>1
    <3> QED
      BY <1>4, <3>1
  <2> HIDE DEF row
  <2>5. u.item[s[i]].place = t.item[s[i]].place
    BY <1>7, <2>1
  <2> QED
    BY <1>3, <2>2, <2>3, <2>4, <2>5
<1> QED
  BY <1>3, <1>5, <1>9 DEF Consistent

-----------------------------------------------------------------------------
(* Recalculations one after another.                                       *)

Covered(t) == t.plan.own \/ t.plan.budget >= SumCosts(t, PlanItems(t))

\* Activities keep their days and costs, and days their number.
SameRows(t, u) ==
    /\ Len(u.day) = Len(t.day)
    /\ \A a \in Activities : u.item[a].day = t.item[a].day /\ u.item[a].cost = t.item[a].cost

LEMMA SameRowsSame ==
    ASSUME NEW t, Whole(t), NEW u, SameRows(t, u)
    PROVE  /\ \A d : DayItems(u, d) = DayItems(t, d)
           /\ PlanItems(u) = PlanItems(t)
           /\ SumCosts(u, PlanItems(u)) = SumCosts(t, PlanItems(t))
<1>1. (\A d : DayItems(u, d) = DayItems(t, d)) /\ PlanItems(u) = PlanItems(t)
  BY DEF SameRows, DayItems, PlanItems
<1>2. PlanItems(t) \in SUBSET Activities
  BY DEF PlanItems
<1>3. SumCosts(u, PlanItems(t)) = SumCosts(t, PlanItems(t))
  BY <1>2, SameCosts DEF SameRows
<1> QED
  BY <1>1, <1>3

\* A recalculation covers the costs of a plan whose day has activities, and otherwise
\* leaves them covered.
LEMMA RecalculatedCovers ==
    ASSUME NEW t, Whole(t), NEW d \in DOMAIN t.day, NEW u \in Recalculations(t, d)
    PROVE  /\ Whole(u) /\ SameRows(t, u)
           /\ DayItems(t, d) # {} => ~ u.plan.own /\ u.plan.budget >= SumCosts(u, PlanItems(u))
           /\ DayItems(t, d) # {} \/ Covered(t) => Covered(u)
<1>1. Whole(u) /\ Kept(t, d, u)
  BY RecalculatedKeeps
<1>2. SameRows(t, u)
  BY <1>1 DEF Kept, SameRows
<1>3. SumCosts(u, PlanItems(u)) = SumCosts(t, PlanItems(t))
  BY <1>2, SameRowsSame
<1> QED
  BY <1>1, <1>2, <1>3 DEF Kept, Covered

\* What EachRecalculated has found after the first days.
AfterDays(t, f) ==
    f = [d \in 0 .. Len(t.day) |->
            IF d = 0 THEN {t}
            ELSE IF DayItems(t, d) = {} THEN f[d - 1]
            ELSE UNION {Recalculations(u, d) : u \in f[d - 1]}]

LEMMA AfterDaysExists ==
    ASSUME NEW t, Whole(t)
    PROVE  \E f : AfterDays(t, f)
<1> DEFINE n == Len(t.day)
           body(f, d) == IF d = 0 THEN {t}
                         ELSE IF DayItems(t, d) = {} THEN f[d - 1]
                         ELSE UNION {Recalculations(u, d) : u \in f[d - 1]}
           Good == {k \in Nat : \E f : \A d \in 0 .. n : d <= k => f[d] = body(f, d)}
<1>1. n \in Nat
  BY DEF Whole
<1>2. ASSUME NEW f, NEW g, NEW d, f[d - 1] = g[d - 1]
      PROVE  body(f, d) = body(g, d)
  BY <1>2
<1> HIDE DEF n, body
<1>3. 0 \in Good
  <2> DEFINE f == [d \in 0 .. n |-> {t}]
  <2>1. \A d \in 0 .. n : d <= 0 => f[d] = body(f, d)
    BY DEF body
  <2> QED
    BY <2>1
<1>4. ASSUME NEW k \in Nat, k \in Good
      PROVE  k + 1 \in Good
  <2>1. PICK f : \A d \in 0 .. n : d <= k => f[d] = body(f, d)
    BY <1>4
  <2> DEFINE g == [d \in 0 .. n |-> body(f, d)]
  <2>2. \A d \in 0 .. n : g[d] = body(f, d)
    OBVIOUS
  <2> HIDE DEF g
  <2>3. \A d \in 0 .. n : d <= k => g[d] = f[d]
    BY <2>1, <2>2
  <2>4. ASSUME NEW d \in 0 .. n, d <= k + 1
        PROVE  g[d] = body(g, d)
    <3>1. CASE d = 0
      BY <2>2, <3>1 DEF body
    <3>2. CASE d # 0
      <4>1. d - 1 \in 0 .. n /\ d - 1 <= k
        BY <1>1, <2>4, <3>2
      <4>2. g[d - 1] = f[d - 1]
        BY <2>3, <4>1
      <4> QED
        BY <1>2, <2>2, <4>2
    <3> QED
      BY <3>1, <3>2
  <2> QED
    BY <2>4
<1>5. \A k \in Nat : k \in Good
  <2> HIDE DEF Good
  <2> QED
    BY <1>3, <1>4, EveryNatural
<1>6. PICK f : \A d \in 0 .. n : d <= n => f[d] = body(f, d)
  BY <1>1, <1>5
<1> DEFINE g == [d \in 0 .. n |-> f[d]]
<1>7. ASSUME NEW d \in 0 .. n
      PROVE  body(f, d) = body(g, d)
  <2>1. CASE d = 0
    BY <2>1 DEF body
  <2>2. CASE d # 0
    <3>1. g[d - 1] = f[d - 1]
      BY <1>1, <2>2
    <3> HIDE DEF g
    <3> QED
      BY <1>2, <3>1
  <2> QED
    BY <2>1, <2>2
<1>8. \A d \in 0 .. n : f[d] = body(f, d)
  BY <1>1, <1>6
<1>9. g = [d \in 0 .. n |-> body(g, d)]
  BY <1>7, <1>8
<1> QED
  BY <1>9 DEF AfterDays, n, body

\* The days of a new plan are recalculated one after another; once one with activities is,
\* the budget covers the costs.
LEMMA EachRecalculatedCovers ==
    ASSUME NEW t, Whole(t), NEW u \in EachRecalculated(t)
    PROVE  /\ Whole(u) /\ SameRows(t, u)
           /\ PlanItems(t) = {} \/ Covered(u)
<1> DEFINE n == Len(t.day)
           after == CHOOSE f : f = [d \in 0 .. Len(t.day) |->
                       IF d = 0 THEN {t}
                       ELSE IF DayItems(t, d) = {} THEN f[d - 1]
                       ELSE UNION {Recalculations(v, d) : v \in f[d - 1]}]
           Holds(d) == \A v \in after[d] :
                          /\ Whole(v) /\ SameRows(t, v)
                          /\ (\E e \in 1 .. d : DayItems(t, e) # {}) => Covered(v)
           Good == {k \in Nat : k <= n => Holds(k)}
<1>1. u \in after[n]
  BY DEF EachRecalculated
<1>2. AfterDays(t, after)
  <2>1. \E f : AfterDays(t, f)
    BY AfterDaysExists
  <2> QED
    BY <2>1 DEF AfterDays
<1> HIDE DEF after
<1>3. n \in Nat
  BY DEF Whole
<1>4. 0 \in Good
  <2>1. after[0] = {t}
    BY <1>2, <1>3 DEF AfterDays
  <2>2. SameRows(t, t)
    BY DEF SameRows
  <2> QED
    BY <2>1, <2>2
<1>5. ASSUME NEW k \in Nat, k \in Good
      PROVE  k + 1 \in Good
  <2> SUFFICES ASSUME k + 1 <= n
               PROVE  Holds(k + 1)
    OBVIOUS
  <2>1. Holds(k)
    BY <1>3, <1>5
  <2>2. after[k + 1] = IF DayItems(t, k + 1) = {} THEN after[k]
                       ELSE UNION {Recalculations(v, k + 1) : v \in after[k]}
    <3>1. k + 1 \in 0 .. n /\ k + 1 # 0 /\ (k + 1) - 1 = k
      BY <1>3
    <3> QED
      BY <1>2, <3>1 DEF AfterDays
  <2>3. CASE DayItems(t, k + 1) = {}
    <3>1. \A e \in 1 .. k + 1 : DayItems(t, e) # {} => e \in 1 .. k
      BY <2>3
    <3> QED
      BY <2>1, <2>2, <2>3, <3>1
  <2>4. CASE DayItems(t, k + 1) # {}
    <3> SUFFICES ASSUME NEW w \in after[k + 1]
                 PROVE  Whole(w) /\ SameRows(t, w) /\ Covered(w)
      OBVIOUS
    <3>1. PICK v \in after[k] : w \in Recalculations(v, k + 1)
      BY <2>2, <2>4
    <3>2. Whole(v) /\ SameRows(t, v)
      BY <2>1
    <3>3. DayItems(v, k + 1) # {} /\ k + 1 \in DOMAIN v.day
      <4>1. DayItems(v, k + 1) = DayItems(t, k + 1)
        BY <3>2, SameRowsSame
      <4>2. v.day \in Seq(DayRow) /\ Len(v.day) = n
        BY <3>2 DEF Whole, SameRows
      <4> QED
        BY <1>3, <2>4, <4>1, <4>2
    <3>4. Whole(w) /\ SameRows(v, w) /\ Covered(w)
      BY <3>1, <3>2, <3>3, RecalculatedCovers
    <3>5. SameRows(t, w)
      BY <3>2, <3>4 DEF SameRows
    <3> QED
      BY <3>4, <3>5
  <2> QED
    BY <2>3, <2>4
<1>6. Holds(n)
  <2>1. \A k \in Nat : k \in Good
    <3> HIDE DEF Good
    <3> QED
      BY <1>4, <1>5, EveryNatural
  <2> QED
    BY <1>3, <2>1
<1>7. Whole(u) /\ SameRows(t, u) /\ ((\E e \in 1 .. n : DayItems(t, e) # {}) => Covered(u))
  BY <1>1, <1>6
<1>8. ASSUME PlanItems(t) # {}
      PROVE  \E e \in 1 .. n : DayItems(t, e) # {}
  <2>1. PICK a \in Activities : t.item[a].day # 0
    BY <1>8 DEF PlanItems
  <2>2. t.item[a].day \in 1 .. n /\ a \in DayItems(t, t.item[a].day)
    BY <1>3, <2>1 DEF Whole, DayItems
  <2> QED
    BY <2>2
<1> QED
  BY <1>7, <1>8

\* Optimizing the order of a day leaves covered costs covered.
LEMMA OptimizedCovers ==
    ASSUME NEW t, Whole(t), NEW d \in DOMAIN t.day, NEW u \in OptimizedDay(t, d)
    PROVE  Whole(u) /\ SameRows(t, u) /\ (Covered(t) => Covered(u))
<1> DEFINE Sights == {a \in DayItems(t, d) : t.item[a].place \notin Lodgings \union {None}}
           items(v) == [a \in Activities |->
              IF a \in Sights THEN [t.item[a] EXCEPT !.idx = (CHOOSE i \in DOMAIN v : v[i] = a) - 1]
                              ELSE t.item[a]]
           Reordered(v) == [t EXCEPT !.item = items(v)]
<1>1. \/ u = t
      \/ \E v \in SetToSeqs(Sights) : u \in Recalculations(Reordered(v), d)
  BY DEF OptimizedDay
<1>2. CASE u = t
  BY <1>2 DEF SameRows
<1>3. ASSUME NEW v \in SetToSeqs(Sights), u \in Recalculations(Reordered(v), d)
      PROVE  Whole(u) /\ SameRows(t, u) /\ (Covered(t) => Covered(u))
  <2> DEFINE w == Reordered(v)
             n == Cardinality(Sights)
  <2>1. IsFiniteSet(Sights) /\ n \in Nat
    <3>1. Sights \in SUBSET Activities
      BY DEF DayItems
    <3> QED
      BY <3>1, FiniteActivities, FS_CardinalityType
  <2>2. v \in [1 .. n -> Sights] /\ \A i, j \in 1 .. n : i # j => v[i] # v[j]
    BY DEF SetToSeqs
  <2>3. \A a \in Sights : \E i \in 1 .. n : v[i] = a
    <3> HIDE DEF Sights
    <3>1. v \in Injection(1 .. n, Sights)
      BY <2>2 DEF Injection, IsInjective
    <3>2. 1 \in Int /\ n \in Int /\ ~ (1 > n + 1)
      BY <2>1
    <3>3. Cardinality(1 .. n) = n
      BY <2>1, <3>2, FS_Interval
    <3>4. v \in Surjection(1 .. n, Sights)
      BY <2>1, <3>1, <3>3, FS_Injection
    <3> QED
      BY <3>4 DEF Surjection
  <2>4. ASSUME NEW a \in Activities
        PROVE  /\ items(v)[a] \in ItemType
               /\ items(v)[a].day = t.item[a].day /\ items(v)[a].cost = t.item[a].cost
    <3>1. t.item[a] \in ItemType
      BY DEF Whole
    <3>2. CASE a \notin Sights
      BY <3>1, <3>2
    <3>3. CASE a \in Sights
      <4> DEFINE i == CHOOSE k \in DOMAIN v : v[k] = a
      <4>1. i \in 1 .. n
        BY <2>2, <2>3, <3>3
      <4>2. items(v)[a] = [t.item[a] EXCEPT !.idx = i - 1]
        BY <3>3
      <4>3. i - 1 \in Nat
        BY <2>1, <4>1
      <4>4. ASSUME NEW x \in ItemType, NEW k \in Nat, NEW y, y = [x EXCEPT !.idx = k]
            PROVE  y \in ItemType /\ y.day = x.day /\ y.cost = x.cost
        BY <4>4 DEF ItemType
      <4> HIDE DEF i, items
      <4> QED
        BY <3>1, <4>2, <4>3, <4>4
    <3> QED
      BY <3>2, <3>3
  <2>5. items(v) = [a \in Activities |-> items(v)[a]]
    OBVIOUS
  <2> HIDE DEF items
  <2>6. /\ w.item = items(v) /\ w.day = t.day /\ w.plan = t.plan
        /\ w \in [plan : PlanRow, day : Seq(DayRow), item : [Activities -> ItemType]]
    BY <2>4, <2>5 DEF Whole
  <2>7. Whole(w) /\ SameRows(t, w)
    BY <2>4, <2>6 DEF Whole, SameRows
  <2> HIDE DEF w
  <2>8. u \in Recalculations(w, d) /\ d \in DOMAIN w.day
    BY <1>3, <2>6 DEF w
  <2>9. Covered(t) => Covered(w)
    BY <2>6, <2>7, SameRowsSame DEF Covered
  <2>10. Whole(u) /\ SameRows(w, u) /\ (Covered(w) => Covered(u))
    BY <2>7, <2>8, RecalculatedCovers
  <2> QED
    BY <2>7, <2>9, <2>10 DEF SameRows
<1> QED
  BY <1>1, <1>2, <1>3

\* What optimizeRoute has found after the first days.
AfterOptimizing(t, D, n, f) ==
    f = [d \in 0 .. n |->
            IF d = 0 THEN {t}
            ELSE IF d \in D THEN UNION {OptimizedDay(u, d) : u \in f[d - 1]}
            ELSE f[d - 1]]

LEMMA AfterOptimizingExists ==
    ASSUME NEW t, NEW D, NEW n \in Nat
    PROVE  \E f : AfterOptimizing(t, D, n, f)
<1> DEFINE body(f, d) == IF d = 0 THEN {t}
                         ELSE IF d \in D THEN UNION {OptimizedDay(u, d) : u \in f[d - 1]}
                         ELSE f[d - 1]
           Good == {k \in Nat : \E f : \A d \in 0 .. n : d <= k => f[d] = body(f, d)}
<1>1. ASSUME NEW f, NEW g, NEW d, f[d - 1] = g[d - 1]
      PROVE  body(f, d) = body(g, d)
  BY <1>1
<1>2. ASSUME NEW f
      PROVE  body(f, 0) = {t}
  OBVIOUS
<1> HIDE DEF body
<1>3. 0 \in Good
  <2> DEFINE f == [d \in 0 .. n |-> {t}]
  <2>1. \A d \in 0 .. n : d <= 0 => f[d] = body(f, d)
    BY <1>2
  <2> QED
    BY <2>1
<1>4. ASSUME NEW k \in Nat, k \in Good
      PROVE  k + 1 \in Good
  <2>1. PICK f : \A d \in 0 .. n : d <= k => f[d] = body(f, d)
    BY <1>4
  <2> DEFINE g == [d \in 0 .. n |-> body(f, d)]
  <2>2. \A d \in 0 .. n : g[d] = body(f, d)
    OBVIOUS
  <2> HIDE DEF g
  <2>3. \A d \in 0 .. n : d <= k => g[d] = f[d]
    BY <2>1, <2>2
  <2>4. ASSUME NEW d \in 0 .. n, d <= k + 1
        PROVE  g[d] = body(g, d)
    <3>1. CASE d = 0
      BY <1>2, <2>2, <3>1
    <3>2. CASE d # 0
      <4>1. d - 1 \in 0 .. n /\ d - 1 <= k
        BY <2>4, <3>2
      <4>2. g[d - 1] = f[d - 1]
        BY <2>3, <4>1
      <4> QED
        BY <1>1, <2>2, <4>2
    <3> QED
      BY <3>1, <3>2
  <2> QED
    BY <2>4
<1>5. \A k \in Nat : k \in Good
  <2> HIDE DEF Good
  <2> QED
    BY <1>3, <1>4, EveryNatural
<1>6. PICK f : \A d \in 0 .. n : d <= n => f[d] = body(f, d)
  BY <1>5
<1> DEFINE g == [d \in 0 .. n |-> f[d]]
<1>7. ASSUME NEW d \in 0 .. n
      PROVE  body(f, d) = body(g, d)
  <2>1. CASE d = 0
    BY <1>2, <2>1
  <2>2. CASE d # 0
    <3>1. g[d - 1] = f[d - 1]
      BY <2>2
    <3> HIDE DEF g
    <3> QED
      BY <1>1, <3>1
  <2> QED
    BY <2>1, <2>2
<1>8. \A d \in 0 .. n : f[d] = body(f, d)
  BY <1>6
<1>9. g = [d \in 0 .. n |-> body(g, d)]
  BY <1>7, <1>8
<1> QED
  BY <1>9 DEF AfterOptimizing, body

\* Optimizing several days, one after another, leaves covered costs covered.
LEMMA OptimizedDaysCover ==
    ASSUME NEW t, Whole(t), NEW D, NEW n \in Nat, n = Len(t.day),
           NEW f, AfterOptimizing(t, D, n, f), NEW u \in f[n]
    PROVE  Whole(u) /\ SameRows(t, u) /\ (Covered(t) => Covered(u))
<1> DEFINE Holds(d) == \A v \in f[d] : Whole(v) /\ SameRows(t, v) /\ (Covered(t) => Covered(v))
           Good == {k \in Nat : k <= n => Holds(k)}
<1>1. 0 \in Good
  <2>1. f[0] = {t}
    BY DEF AfterOptimizing
  <2>2. SameRows(t, t)
    BY DEF SameRows
  <2> QED
    BY <2>1, <2>2
<1>2. ASSUME NEW k \in Nat, k \in Good
      PROVE  k + 1 \in Good
  <2> SUFFICES ASSUME k + 1 <= n
               PROVE  Holds(k + 1)
    OBVIOUS
  <2>1. Holds(k)
    BY <1>2
  <2>2. f[k + 1] = IF k + 1 \in D THEN UNION {OptimizedDay(v, k + 1) : v \in f[k]} ELSE f[k]
    <3>1. k + 1 \in 0 .. n /\ k + 1 # 0 /\ (k + 1) - 1 = k
      OBVIOUS
    <3> QED
      BY <3>1 DEF AfterOptimizing
  <2>3. CASE k + 1 \notin D
    BY <2>1, <2>2, <2>3
  <2>4. CASE k + 1 \in D
    <3> SUFFICES ASSUME NEW w \in f[k + 1]
                 PROVE  Whole(w) /\ SameRows(t, w) /\ (Covered(t) => Covered(w))
      OBVIOUS
    <3>1. PICK v \in f[k] : w \in OptimizedDay(v, k + 1)
      BY <2>2, <2>4
    <3>2. Whole(v) /\ SameRows(t, v) /\ (Covered(t) => Covered(v))
      BY <2>1
    <3>3. k + 1 \in DOMAIN v.day
      <4>1. v.day \in Seq(DayRow) /\ Len(v.day) = n
        BY <3>2 DEF Whole, SameRows
      <4> QED
        BY <4>1
    <3>4. Whole(w) /\ SameRows(v, w) /\ (Covered(v) => Covered(w))
      BY <3>1, <3>2, <3>3, OptimizedCovers
    <3> QED
      BY <3>2, <3>4 DEF SameRows
  <2> QED
    BY <2>3, <2>4
<1>3. \A k \in Nat : k \in Good
  <2> HIDE DEF Good
  <2> QED
    BY <1>1, <1>2, EveryNatural
<1> QED
  BY <1>3

-----------------------------------------------------------------------------
(* The requests.                                                           *)

Inv == Whole(Tables) /\ edited \in 0 .. Len(day) /\ Covered(Tables)

\* The tables may be saved.
LEMMA Saved ==
    ASSUME NEW t, Whole(t), Covered(t), Save(t), edited' \in 0 .. Len(t.day)
    PROVE  Inv' /\ Tables' = t
<1>1. t = [plan |-> t.plan, day |-> t.day, item |-> t.item]
  BY DEF Whole
<1>2. Tables' = t
  BY <1>1 DEF Tables, Save
<1>3. Whole(Tables') /\ Covered(Tables') /\ edited' \in 0 .. Len(day')
  BY <1>2 DEF Save
<1> QED
  BY <1>2, <1>3 DEF Inv

\* An edit of day d: the other days and their activities are as before.
EditOf(t, d) ==
    /\ Whole(t) /\ d \in DOMAIN t.day /\ Len(t.day) = Len(day)
    /\ DayItems(t, d) # {} \/ Covered(t)
    /\ \A e \in DOMAIN day \ {d} :
          /\ t.day[e] = day[e]
          /\ \A a \in Activities : item[a].day = e \/ t.item[a].day = e => t.item[a] = item[a]

Stops ==
    edited' # 0 =>
       \A e \in DOMAIN day :
          \/ Downstream(e)'
          \/ /\ day'[e] = day[e]
             /\ \A a \in Activities :
                   item[a].day = e \/ item'[a].day = e => item'[a] = item[a]

LEMMA TablesType ==
    ASSUME Inv
    PROVE  /\ plan \in PlanRow /\ day \in Seq(DayRow) /\ item \in [Activities -> ItemType]
           /\ DOMAIN day = 1 .. Len(day) /\ Len(day) \in Nat /\ Len(day) <= MaxDays
           /\ \A a \in Activities : item[a].day \in 0 .. Len(day)
<1>1. Tables.plan = plan /\ Tables.day = day /\ Tables.item = item
  BY DEF Tables
<1>2. plan \in PlanRow /\ day \in Seq(DayRow) /\ item \in [Activities -> ItemType]
  BY <1>1 DEF Inv, Whole
<1>3. DOMAIN day = 1 .. Len(day) /\ Len(day) \in Nat
  BY <1>2
<1> QED
  BY <1>1, <1>2, <1>3 DEF Inv, Whole

\* An edit and the recalculation of its day keep the invariant, stop where the cascade
\* does, and repair the days up to there.
LEMMA EditStep ==
    ASSUME Inv, NEW d, Edits(d), NEW t, EditOf(t, d), SaveRecalculated(t, d)
    PROVE  Inv' /\ Stops /\ Repaired'
<1>1. PICK u \in Recalculations(t, d) : Save(u)
  BY DEF SaveRecalculated
<1>2. Whole(t) /\ d \in DOMAIN t.day
  BY DEF EditOf
<1>3. Whole(u) /\ Kept(t, d, u) /\ Covered(u)
  BY <1>1, <1>2, RecalculatedKeeps, RecalculatedCovers DEF EditOf
<1>4. t.day \in Seq(DayRow) /\ Len(u.day) = Len(day) /\ Len(t.day) = Len(day)
  BY <1>3 DEF EditOf, Kept, Whole
<1>5. /\ DOMAIN t.day = 1 .. Len(day) /\ DOMAIN day = 1 .. Len(day) /\ Len(day) \in Nat
      /\ d \in 1 .. Len(day)
  BY <1>2, <1>4, TablesType
<1>6. edited' = d
  BY DEF Edits
<1>7. Inv' /\ Tables' = u
  <2>1. edited' \in 0 .. Len(u.day)
    BY <1>4, <1>5, <1>6
  <2> QED
    BY <1>1, <1>3, <2>1, Saved
<1>8. plan' = u.plan /\ day' = u.day /\ item' = u.item
  BY <1>1 DEF Save
<1>9. ASSUME NEW e \in DOMAIN day, e \in Reached(t, d)
      PROVE  Downstream(e)'
  <2>1. e \in d .. Len(day) /\ \A f \in d + 1 .. e : t.day[f].from = None /\ DayItems(t, f - 1) # {}
    BY <1>4, <1>9 DEF Reached
  <2>2. ASSUME NEW f \in d + 1 .. e
        PROVE  day'[f].from = None /\ \E a \in Activities : item'[a].day = f - 1
    <3>1. f \in DOMAIN t.day
      BY <1>5, <2>1
    <3>2. day'[f].from = None
      BY <1>3, <1>8, <2>1, <3>1 DEF Kept
    <3>3. PICK a \in Activities : t.item[a].day = f - 1
      BY <2>1 DEF DayItems
    <3>4. item'[a].day = f - 1
      BY <1>3, <1>8, <3>3 DEF Kept
    <3> QED
      BY <3>2, <3>4
  <2>3. e = d \/ d < e
    BY <1>5, <2>1
  <2> QED
    BY <1>6, <2>2, <2>3 DEF Downstream
<1>10. ASSUME NEW e \in DOMAIN day, e \notin Reached(t, d)
       PROVE  /\ day'[e] = day[e]
              /\ \A a \in Activities :
                    item[a].day = e \/ item'[a].day = e => item'[a] = item[a]
  <2>1. e # d
    BY <1>4, <1>5, <1>10 DEF Reached
  <2>2. /\ t.day[e] = day[e]
        /\ \A a \in Activities : item[a].day = e \/ t.item[a].day = e => t.item[a] = item[a]
    BY <2>1 DEF EditOf
  <2>3. day'[e] = day[e]
    BY <1>3, <1>5, <1>8, <1>10, <2>2 DEF Kept
  <2>4. ASSUME NEW a \in Activities, item[a].day = e \/ item'[a].day = e
        PROVE  item'[a] = item[a]
    <3>1. item'[a].day = t.item[a].day
      BY <1>3, <1>8 DEF Kept
    <3>2. t.item[a] = item[a] /\ t.item[a].day = e
      BY <2>2, <2>4, <3>1
    <3> QED
      BY <1>3, <1>8, <1>10, <3>2 DEF Kept
  <2> QED
    BY <2>3, <2>4
<1>11. Stops
  BY <1>9, <1>10 DEF Stops
<1>12. ASSUME NEW e \in DOMAIN day', Downstream(e)'
       PROVE  Consistent(Tables, e)'
  <2>1. e \in 1 .. Len(day) /\ e \in DOMAIN t.day
    <3>1. u.day \in Seq(DayRow)
      BY <1>3 DEF Whole
    <3>2. DOMAIN u.day = 1 .. Len(u.day)
      BY <3>1
    <3> QED
      BY <1>4, <1>5, <1>8, <1>12, <3>2
  <2>2. e = d \/ (d < e /\ \A f \in d + 1 .. e :
                            day'[f].from = None /\ \E a \in Activities : item'[a].day = f - 1)
    BY <1>6, <1>12 DEF Downstream
  <2>3. ASSUME NEW f \in d + 1 .. e
        PROVE  t.day[f].from = None /\ DayItems(t, f - 1) # {}
    <3>1. d < e /\ f \in DOMAIN t.day
      BY <1>5, <2>1, <2>3
    <3>2. PICK a \in Activities : item'[a].day = f - 1
      <4>1. \A g \in d + 1 .. e : \E a \in Activities : item'[a].day = g - 1
        BY <1>5, <2>1, <2>2, <3>1
      <4> QED
        BY <2>3, <4>1
    <3>3. a \in DayItems(t, f - 1)
      BY <1>3, <1>8, <3>2 DEF Kept, DayItems
    <3>4. t.day[f].from = None
      BY <1>3, <1>5, <1>8, <2>2, <2>3, <3>1 DEF Kept
    <3> QED
      BY <3>3, <3>4
  <2>4. e \in d .. Len(t.day)
    BY <1>4, <1>5, <2>1, <2>2
  <2>5. e \in Reached(t, d)
    BY <2>3, <2>4 DEF Reached
  <2>6. Consistent(u, e)
    BY <1>1, <1>2, <2>1, <2>5, RecalculatedConsistent
  <2> QED
    BY <1>7, <2>6 DEF Consistent
<1>13. DayItems(Tables, edited)' # {} => plan'.travel = SumLegs(Tables, PlanItems(Tables))'
  <2>1. Written(t, d, u)
    BY <1>1, <1>2, RecalculatedWrites
  <2>2. DayItems(u, d) # {} => u.plan.travel = SumLegs(u, PlanItems(u))
    BY <1>2, <2>1, SameOrdersSame DEF Written
  <2> QED
    BY <1>6, <1>7, <1>8, <2>2 DEF DayItems, SumLegs, PlanItems
<1>14. Repaired'
  BY <1>12, <1>13 DEF Repaired
<1> QED
  BY <1>7, <1>11, <1>14

-----------------------------------------------------------------------------
(* Edits of activities.                                                    *)

\* Costs that are covered stay so when no activity is new and none costs more.
LEMMA LessStaysCovered ==
    ASSUME NEW t, Whole(t), Covered(t), NEW u, u.plan.own = t.plan.own,
           u.plan.budget = t.plan.budget,
           \A a \in Activities : u.item[a].day # 0 =>
              t.item[a].day # 0 /\ u.item[a].cost = t.item[a].cost
    PROVE  Covered(u)
<1>1. PlanItems(u) \in SUBSET PlanItems(t) /\ PlanItems(t) \in SUBSET Activities
  BY DEF PlanItems
<1>2. SumCosts(u, PlanItems(u)) = SumCosts(t, PlanItems(u))
  <2>1. PlanItems(u) \in SUBSET Activities
    BY <1>1
  <2>2. \A a \in PlanItems(u) : u.item[a].cost = t.item[a].cost
    BY DEF PlanItems
  <2> QED
    BY <2>1, <2>2, SameCosts
<1>3. SumCosts(t, PlanItems(u)) <= SumCosts(t, PlanItems(t))
  BY <1>1, LessCosts
<1>4. SumCosts(t, PlanItems(u)) \in Nat /\ SumCosts(t, PlanItems(t)) \in Nat
  BY <1>1, SumsOfTables
<1>5. t.plan.budget \in Nat
  BY DEF Whole, PlanRow
<1> QED
  BY <1>2, <1>3, <1>4, <1>5 DEF Covered

LEMMA EditOfItems ==
    ASSUME Inv, NEW d \in DOMAIN day, NEW new \in [Activities -> ItemType],
           \A a \in Activities :
              new[a] = item[a] \/ (item[a].day \in {0, d} /\ new[a].day \in {0, d}),
           \/ \E a \in Activities : new[a].day = d
           \/ \A a \in Activities : new[a].day # 0 =>
                 item[a].day # 0 /\ new[a].cost = item[a].cost
    PROVE  EditOf([Tables EXCEPT !.item = new], d)
<1> DEFINE t == [Tables EXCEPT !.item = new]
<1>1. t = [plan |-> plan, day |-> day, item |-> new]
  BY DEF Tables
<1> HIDE DEF t
<1>2. t.plan = plan /\ t.day = day /\ t.item = new
  BY <1>1
<1>3. /\ plan \in PlanRow /\ day \in Seq(DayRow)
      /\ DOMAIN day = 1 .. Len(day) /\ Len(day) \in Nat /\ Len(day) <= MaxDays
      /\ \A a \in Activities : item[a].day \in 0 .. Len(day)
  BY TablesType
<1>4. \A a \in Activities : new[a].day \in 0 .. Len(day)
  BY <1>3
<1>5. Whole(t)
  BY <1>1, <1>2, <1>3, <1>4 DEF Whole
<1>6. DayItems(t, d) # {} \/ Covered(t)
  <2>1. CASE \E a \in Activities : new[a].day = d
    BY <1>2, <2>1 DEF DayItems
  <2>2. CASE \A a \in Activities : new[a].day # 0 =>
                item[a].day # 0 /\ new[a].cost = item[a].cost
    <3>1. Whole(Tables) /\ Covered(Tables)
      BY DEF Inv
    <3>2. Tables.item = item /\ Tables.plan = plan
      BY DEF Tables
    <3>3. Covered(t)
      BY <1>2, <2>2, <3>1, <3>2, LessStaysCovered
    <3> QED
      BY <3>3
  <2> QED
    BY <2>1, <2>2
<1>7. ASSUME NEW e \in DOMAIN day \ {d}
      PROVE  /\ t.day[e] = day[e]
             /\ \A a \in Activities : item[a].day = e \/ t.item[a].day = e => t.item[a] = item[a]
  BY <1>2, <1>3
<1> QED
  BY <1>2, <1>5, <1>6, <1>7 DEF EditOf, t

LEMMA MinMember ==
    ASSUME NEW n \in Nat, NEW S \in SUBSET (1 .. n), S # {}
    PROVE  Min(S) \in S
<1>1. S \in SUBSET Nat
  OBVIOUS
<1>2. \E m \in S : \A x \in S : m <= x
  BY <1>1, LeastNatural
<1> QED
  BY <1>2 DEF Min

\* Of some activities, one has the greatest number.
LEMMA Greatest ==
    ASSUME NEW n \in Nat, NEW f \in [1 .. n -> Nat]
    PROVE  \A S \in SUBSET (1 .. n) : S # {} => \E a \in S : \A b \in S : f[a] >= f[b]
<1> DEFINE Good == {k \in Nat : \A S \in SUBSET (1 .. n) : S # {} /\ (\A a \in S : a <= k) =>
                                  \E a \in S : \A b \in S : f[a] >= f[b]}
<1>1. 0 \in Good
  <2>1. \A S \in SUBSET (1 .. n) : (\A a \in S : a <= 0) => S = {}
    OBVIOUS
  <2> QED
    BY <2>1
<1>2. ASSUME NEW k \in Nat, k \in Good
      PROVE  k + 1 \in Good
  <2> SUFFICES ASSUME NEW S \in SUBSET (1 .. n), S # {}, \A a \in S : a <= k + 1
               PROVE  \E a \in S : \A b \in S : f[a] >= f[b]
    OBVIOUS
  <2>1. CASE k + 1 \notin S
    <3>1. \A a \in S : a <= k
      BY <2>1
    <3> QED
      BY <1>2, <3>1
  <2>2. CASE S = {k + 1}
    BY <2>2
  <2>3. CASE k + 1 \in S /\ S # {k + 1}
    <3> DEFINE T == S \ {k + 1}
    <3>1. T \in SUBSET (1 .. n) /\ T # {} /\ \A a \in T : a <= k
      BY <2>3
    <3>2. PICK a \in T : \A b \in T : f[a] >= f[b]
      BY <1>2, <3>1
    <3>3. CASE f[a] >= f[k + 1]
      BY <2>3, <3>2, <3>3
    <3>4. CASE ~ (f[a] >= f[k + 1])
      <4>1. \A b \in S : f[b] \in Nat
        OBVIOUS
      <4>2. \A b \in S : f[k + 1] >= f[b]
        BY <2>3, <3>2, <3>4, <4>1
      <4> QED
        BY <2>3, <4>2
    <3> QED
      BY <3>3, <3>4
  <2> QED
    BY <2>1, <2>2, <2>3
<1>3. \A k \in Nat : k \in Good
  <2> HIDE DEF Good
  <2> QED
    BY <1>1, <1>2, EveryNatural
<1>4. n \in Good
  BY <1>3
<1> QED
  BY <1>4

LEMMA NextIdxType ==
    ASSUME Inv, NEW d
    PROVE  NextIdx(d) \in Nat
<1> DEFINE S == DayItems(Tables, d)
           f == [a \in Activities |-> item[a].idx]
<1>1. f \in [1 .. MaxActivities -> Nat] /\ MaxActivities \in Nat
  BY TablesType, BoundsAssumption DEF ItemType, Activities
<1>2. S \in SUBSET (1 .. MaxActivities)
  BY DEF DayItems, Activities
<1>3. {item[a].idx : a \in S} = {f[a] : a \in S}
  BY <1>2 DEF Activities
<1>4. NextIdx(d) = IF S = {} THEN 0 ELSE Max({f[a] : a \in S}) + 1
  BY <1>3 DEF NextIdx
<1>5. CASE S # {}
  <2> HIDE DEF f, S
  <2>1. PICK a \in S : \A b \in S : f[a] >= f[b]
    BY <1>1, <1>2, <1>5, Greatest
  <2>2. \E x \in {f[b] : b \in S} : \A y \in {f[b] : b \in S} : x >= y
    BY <2>1
  <2>3. Max({f[b] : b \in S}) \in {f[b] : b \in S}
    BY <2>2 DEF Max
  <2>4. Max({f[b] : b \in S}) \in Nat
    BY <1>1, <1>2, <2>3
  <2> QED
    BY <1>4, <1>5, <2>4
<1> QED
  BY <1>4, <1>5

LEMMA AddActivityStep ==
    ASSUME Inv, NEW d, NEW place \in MaybePlace, NEW cost \in Costs,
           NEW start \in StartTimes \union {None}, NEW ownIdx \in {None, 0},
           addActivity(d, place, cost, start, ownIdx)
    PROVE  Inv' /\ Stops /\ Repaired'
<1> DEFINE a == Min(Activities \ PlanItems(Tables))
           idx == IF ownIdx = None THEN NextIdx(d) ELSE ownIdx
           x == NewItem(d, idx, place, cost, start)
           new == [item EXCEPT ![a] = x]
<1>1. Edits(d) /\ d \in DOMAIN day /\ d \in Nat /\ d <= Len(day)
  BY TablesType DEF addActivity, Edits
<1>2. PlanItems(Tables) # Activities
  BY DEF addActivity
<1>3. SaveRecalculated([Tables EXCEPT !.item[a] = x], d)
  BY DEF addActivity
<1>4. a \in Activities /\ item[a].day = 0
  <2> DEFINE S == Activities \ PlanItems(Tables)
  <2>1. S \in SUBSET (1 .. MaxActivities) /\ S # {} /\ MaxActivities \in Nat
    BY <1>2, BoundsAssumption DEF PlanItems, Activities
  <2>2. a \in S
    <3> HIDE DEF S
    <3>1. Min(S) \in S
      BY <2>1, MinMember
    <3> QED
      BY <3>1 DEF S
  <2> QED
    BY <2>2 DEF PlanItems, Tables
<1>5. idx \in Nat
  BY NextIdxType
<1> HIDE DEF a, idx
<1>6. x \in ItemType /\ x.day = d
  <2>1. cost \in Nat /\ start \in Times \union {None}
    BY CostsAssumption, TimesAssumption
  <2> QED
    BY <1>1, <1>5, <2>1 DEF NewItem, NoItem, ItemType
<1> HIDE DEF x
<1>7. item \in [Activities -> ItemType]
  BY TablesType
<1>8. /\ new \in [Activities -> ItemType] /\ new[a] = x
      /\ \A b \in Activities : b # a => new[b] = item[b]
  BY <1>4, <1>6, <1>7
<1>9. [Tables EXCEPT !.item[a] = x] = [Tables EXCEPT !.item = new]
  BY DEF Tables
<1> HIDE DEF new
<1>10. /\ \A b \in Activities :
             new[b] = item[b] \/ (item[b].day \in {0, d} /\ new[b].day \in {0, d})
       /\ \E b \in Activities : new[b].day = d
  BY <1>4, <1>6, <1>8
<1>11. EditOf([Tables EXCEPT !.item = new], d)
  BY <1>1, <1>8, <1>10, EditOfItems
<1> QED
  BY <1>1, <1>3, <1>9, <1>11, EditStep

LEMMA UpdateActivityStep ==
    ASSUME Inv, NEW d, NEW a \in Activities, NEW place \in MaybePlace, NEW cost \in Costs,
           NEW start \in StartTimes \union {None}, updateActivity(d, a, place, cost, start)
    PROVE  Inv' /\ Stops /\ Repaired'
<1> DEFINE x == [item[a] EXCEPT !.place = place, !.cost = cost, !.start = start]
           new == [item EXCEPT ![a] = x]
<1>1. Edits(d) /\ d \in DOMAIN day /\ item[a].day = d
  BY DEF updateActivity, Edits
<1>2. item \in [Activities -> ItemType] /\ item[a] \in ItemType
  BY TablesType
<1>3. x \in ItemType /\ x.day = d
  <2>1. cost \in Nat /\ start \in Times \union {None}
    BY CostsAssumption, TimesAssumption
  <2> QED
    BY <1>1, <1>2, <2>1 DEF ItemType
<1>4. [Tables EXCEPT !.item[a].place = place, !.item[a].cost = cost, !.item[a].start = start]
         = [Tables EXCEPT !.item = new]
  BY <1>2 DEF Tables
<1>5. SaveRecalculated([Tables EXCEPT !.item = new], d)
  BY <1>4 DEF updateActivity
<1> HIDE DEF x
<1>6. /\ new \in [Activities -> ItemType] /\ new[a] = x
      /\ \A b \in Activities : b # a => new[b] = item[b]
  BY <1>2, <1>3
<1> HIDE DEF new
<1>7. /\ \A b \in Activities :
            new[b] = item[b] \/ (item[b].day \in {0, d} /\ new[b].day \in {0, d})
      /\ \E b \in Activities : new[b].day = d
  BY <1>1, <1>3, <1>6
<1>8. EditOf([Tables EXCEPT !.item = new], d)
  BY <1>1, <1>6, <1>7, EditOfItems
<1> QED
  BY <1>1, <1>5, <1>8, EditStep

LEMMA ReorderStep ==
    ASSUME Inv, NEW d, NEW S \in SUBSET Activities, NEW idx \in [S -> 0 .. 1],
           reorderActivities(d, S, idx)
    PROVE  Inv' /\ Stops /\ Repaired'
<1> DEFINE new == [a \in Activities |->
                     IF a \in S THEN [item[a] EXCEPT !.idx = idx[a]] ELSE item[a]]
<1>1. Edits(d) /\ d \in DOMAIN day
  BY DEF reorderActivities, Edits
<1>2. \A a \in S : item[a].day = d
  BY DEF reorderActivities, DayItems, Tables
<1>3. SaveRecalculated([Tables EXCEPT !.item = new], d)
  BY DEF reorderActivities
<1>4. ASSUME NEW a \in Activities
      PROVE  /\ new[a] \in ItemType
             /\ new[a].day = item[a].day /\ new[a].cost = item[a].cost
             /\ new[a] = item[a] \/ item[a].day = d
  <2>1. item[a] \in ItemType
    BY TablesType
  <2>2. CASE a \in S
    <3>1. idx[a] \in Nat
      BY <2>2
    <3> QED
      BY <1>2, <2>1, <2>2, <3>1 DEF ItemType
  <2>3. CASE a \notin S
    BY <2>1, <2>3
  <2> QED
    BY <2>2, <2>3
<1>5. new = [a \in Activities |-> new[a]]
  OBVIOUS
<1> HIDE DEF new
<1>6. new \in [Activities -> ItemType]
  BY <1>4, <1>5
<1>7. /\ \A a \in Activities :
            new[a] = item[a] \/ (item[a].day \in {0, d} /\ new[a].day \in {0, d})
      /\ \A a \in Activities : new[a].day # 0 => item[a].day # 0 /\ new[a].cost = item[a].cost
  BY <1>4
<1>8. EditOf([Tables EXCEPT !.item = new], d)
  BY <1>1, <1>6, <1>7, EditOfItems
<1> QED
  BY <1>1, <1>3, <1>8, EditStep

LEMMA DeleteActivityStep ==
    ASSUME Inv, NEW d, NEW a \in Activities, deleteActivity(d, a)
    PROVE  Inv' /\ Stops /\ Repaired'
<1> DEFINE left == [item EXCEPT ![a] = NoItem]
           t == [Tables EXCEPT !.item[a] = NoItem]
<1>1. Edits(d) /\ d \in DOMAIN day /\ d # 0 /\ item[a].day = d
  BY TablesType DEF deleteActivity, Edits
<1>2. t = [Tables EXCEPT !.item = left] /\ t.item = left
  BY DEF Tables
<1> DEFINE moved(x, s, b) == [x EXCEPT !.idx = (CHOOSE i \in DOMAIN s : s[i] = b) - 1]
           given(s) == [b \in Activities |->
              IF t.item[b].day = d THEN moved(t.item[b], s, b) ELSE t.item[b]]
           new(s) == [b \in Activities |->
              IF left[b].day = d THEN moved(left[b], s, b) ELSE left[b]]
<1>3. PICK s \in Orders(t, d) : SaveRecalculated([t EXCEPT !.item = given(s)], d)
  BY DEF deleteActivity
<1>4. PICK n \in Nat : /\ s \in [1 .. n -> DayItems(t, d)] /\ Len(s) = n
                       /\ \A b \in DayItems(t, d) : \E i \in 1 .. n : s[i] = b
  BY OrderOfAll
<1>5. NoItem \in ItemType /\ NoItem.day = 0
  BY DEF NoItem, ItemType, MaybePlace
<1>6. /\ left \in [Activities -> ItemType] /\ left[a] = NoItem
      /\ \A b \in Activities : b # a => left[b] = item[b]
  BY <1>5, TablesType
<1>7. \A b \in Activities : left[b].day = d => \E i \in 1 .. n : s[i] = b
  BY <1>2, <1>4 DEF DayItems
<1>8. [t EXCEPT !.item = new(s)] = [Tables EXCEPT !.item = new(s)]
  BY <1>2 DEF Tables
<1> HIDE DEF left, t
<1>9. SaveRecalculated([Tables EXCEPT !.item = new(s)], d)
  <2>1. given(s) = new(s)
    BY <1>2
  <2> HIDE DEF given, new
  <2> QED
    BY <1>3, <1>8, <2>1
<1>10. ASSUME NEW b \in Activities
       PROVE  /\ new(s)[b] \in ItemType
              /\ new(s)[b].day = left[b].day /\ new(s)[b].cost = left[b].cost
              /\ new(s)[b] = left[b] \/ left[b].day = d
  <2>1. left[b] \in ItemType
    BY <1>6
  <2>2. CASE left[b].day = d
    <3> DEFINE i == CHOOSE k \in DOMAIN s : s[k] = b
    <3>1. i \in 1 .. n
      BY <1>4, <1>7, <2>2
    <3>2. new(s)[b] = [left[b] EXCEPT !.idx = i - 1] /\ i - 1 \in Nat
      BY <2>2, <3>1
    <3>3. ASSUME NEW x \in ItemType, NEW k \in Nat, NEW y, y = [x EXCEPT !.idx = k]
          PROVE  y \in ItemType /\ y.day = x.day /\ y.cost = x.cost
      BY <3>3 DEF ItemType
    <3> HIDE DEF i, new
    <3> QED
      BY <2>1, <2>2, <3>2, <3>3
  <2>3. CASE left[b].day # d
    BY <2>1, <2>3
  <2> QED
    BY <2>2, <2>3
<1>11. new(s) = [b \in Activities |-> new(s)[b]]
  OBVIOUS
<1> HIDE DEF new
<1>12. new(s) \in [Activities -> ItemType]
  BY <1>10, <1>11
<1>13. /\ \A b \in Activities :
             new(s)[b] = item[b] \/ (item[b].day \in {0, d} /\ new(s)[b].day \in {0, d})
       /\ \A b \in Activities : new(s)[b].day # 0 => item[b].day # 0 /\ new(s)[b].cost = item[b].cost
  BY <1>1, <1>5, <1>6, <1>10
<1>14. EditOf([Tables EXCEPT !.item = new(s)], d)
  BY <1>1, <1>12, <1>13, EditOfItems
<1> QED
  BY <1>1, <1>9, <1>14, EditStep

-----------------------------------------------------------------------------
(* Edits of days and of the plan.                                          *)

LEMMA UpdateDayStep ==
    ASSUME Inv, NEW d, NEW start \in StartTimes \union {None}, NEW from \in MaybePlace,
           updateDay(d, start, from)
    PROVE  Inv' /\ Stops /\ Repaired'
<1> DEFINE x == [day[d] EXCEPT !.start = start, !.from = from]
           days == [day EXCEPT ![d] = x]
           t == [Tables EXCEPT !.day = days]
<1>1. Edits(d) /\ d \in DOMAIN day
  BY DEF updateDay, Edits
<1>2. /\ plan \in PlanRow /\ day \in Seq(DayRow) /\ item \in [Activities -> ItemType]
      /\ DOMAIN day = 1 .. Len(day) /\ Len(day) \in Nat /\ Len(day) <= MaxDays
      /\ \A a \in Activities : item[a].day \in 0 .. Len(day)
  BY TablesType
<1>3. x \in DayRow
  <2>1. day[d] \in DayRow
    BY <1>1, <1>2
  <2> QED
    BY <2>1 DEF DayRow
<1>4. [Tables EXCEPT !.day[d].start = start, !.day[d].from = from] = t
  BY <1>1, <1>2 DEF Tables
<1>5. SaveRecalculated(t, d)
  BY <1>4 DEF updateDay
<1> HIDE DEF x
<1>6. /\ days \in Seq(DayRow) /\ Len(days) = Len(day)
      /\ \A e \in DOMAIN day : e # d => days[e] = day[e]
  BY <1>1, <1>2, <1>3, ExceptSeq
<1> HIDE DEF days
<1>7. t = [plan |-> plan, day |-> days, item |-> item]
  BY DEF Tables
<1> HIDE DEF t
<1>8. t.plan = plan /\ t.day = days /\ t.item = item
  BY <1>7
<1>9. Whole(t)
  BY <1>2, <1>6, <1>7, <1>8 DEF Whole
<1>10. Covered(t)
  <2>1. Whole(Tables) /\ Covered(Tables)
    BY DEF Inv
  <2>2. Tables.plan = plan /\ Tables.item = item
    BY DEF Tables
  <2> QED
    BY <1>8, <2>1, <2>2, LessStaysCovered
<1>11. DOMAIN t.day = DOMAIN day /\ Len(t.day) = Len(day)
  BY <1>2, <1>6, <1>8
<1>12. EditOf(t, d)
  BY <1>1, <1>6, <1>8, <1>9, <1>10, <1>11 DEF EditOf
<1> QED
  BY <1>1, <1>5, <1>12, EditStep

\* A new start of the plan recalculates from its first day on.
LEMMA UpdateItineraryStep ==
    ASSUME Inv, NEW from \in MaybePlace, NEW start \in StartTimes \union {None},
           updateItinerary(from, start)
    PROVE  Inv'
<1> DEFINE at == IF start = None THEN day[1].start ELSE start
           x == [day[1] EXCEPT !.start = at]
           days == [day EXCEPT ![1] = x]
           head == [plan EXCEPT !.from = from]
           t == [plan |-> head, day |-> days, item |-> item]
<1>1. edited' = 0 /\ day # <<>>
  BY DEF updateItinerary, NoDay, Live
<1>2. /\ plan \in PlanRow /\ day \in Seq(DayRow) /\ item \in [Activities -> ItemType]
      /\ DOMAIN day = 1 .. Len(day) /\ Len(day) \in Nat /\ Len(day) <= MaxDays
      /\ \A a \in Activities : item[a].day \in 0 .. Len(day)
  BY TablesType
<1>3. 1 \in DOMAIN day
  BY <1>1, <1>2, EmptySeq
<1>4. day[1] \in DayRow
  BY <1>2, <1>3
<1>5. x \in DayRow
  BY <1>4 DEF DayRow
<1>6. head \in PlanRow /\ head.own = plan.own /\ head.budget = plan.budget
  BY <1>2 DEF PlanRow
<1>7. WithStart(Tables, from, start) = t
  <2> DEFINE r == [Tables EXCEPT !.plan.from = from]
  <2>1. WithStart(Tables, from, start)
           = [r EXCEPT !.day[1].start = IF start = None THEN @ ELSE start]
    BY DEF WithStart
  <2>2. r = [plan |-> head, day |-> day, item |-> item]
    BY DEF Tables
  <2> HIDE DEF r, head
  <2>3. r.day = day
    BY <2>2
  <2>4. [r EXCEPT !.day[1].start = IF start = None THEN @ ELSE start] = [r EXCEPT !.day = days]
    BY <2>3
  <2> HIDE DEF days
  <2>5. [r EXCEPT !.day = days] = t
    BY <2>2
  <2> QED
    BY <2>1, <2>4, <2>5
<1>8. SaveRecalculated(t, 1)
  BY <1>7 DEF updateItinerary
<1> HIDE DEF x, head
<1>9. days \in Seq(DayRow) /\ Len(days) = Len(day)
  BY <1>2, <1>3, <1>5, ExceptSeq
<1> HIDE DEF days
<1>10. t.plan = head /\ t.day = days /\ t.item = item
  OBVIOUS
<1>11. Whole(t)
  <2>1. t \in [plan : PlanRow, day : Seq(DayRow), item : [Activities -> ItemType]]
    BY <1>2, <1>6, <1>9
  <2> HIDE DEF t
  <2> QED
    BY <1>2, <1>9, <1>10, <2>1 DEF Whole
<1> HIDE DEF t
<1>12. Covered(t)
  <2>1. Whole(Tables) /\ Covered(Tables)
    BY DEF Inv
  <2>2. Tables.plan = plan /\ Tables.item = item
    BY DEF Tables
  <2> QED
    BY <1>6, <1>10, <2>1, <2>2, LessStaysCovered
<1>13. 1 \in DOMAIN t.day
  BY <1>2, <1>3, <1>9, <1>10
<1>14. PICK u \in Recalculations(t, 1) : Save(u)
  BY <1>8 DEF SaveRecalculated
<1>15. Whole(u) /\ SameRows(t, u) /\ Covered(u)
  BY <1>11, <1>12, <1>13, RecalculatedCovers
<1>16. edited' \in 0 .. Len(u.day)
  BY <1>1, <1>2, <1>9, <1>10, <1>15 DEF SameRows
<1> QED
  BY <1>14, <1>15, <1>16, Saved

LEMMA AddDayStep ==
    ASSUME Inv, NEW start \in StartTimes \union {None}, NEW from \in MaybePlace,
           addDay(start, from)
    PROVE  Inv'
<1> DEFINE x == NewDay(start, from)
           days == Append(day, x)
           t == [plan |-> plan, day |-> days, item |-> item]
<1>1. /\ plan \in PlanRow /\ day \in Seq(DayRow) /\ item \in [Activities -> ItemType]
      /\ DOMAIN day = 1 .. Len(day) /\ Len(day) \in Nat /\ Len(day) <= MaxDays
      /\ \A a \in Activities : item[a].day \in 0 .. Len(day)
  BY TablesType
<1>2. edited' = 0 /\ Len(day) < MaxDays /\ plan' = plan /\ day' = days /\ item' = item
  BY DEF addDay, NoDay
<1>3. x \in DayRow
  BY DEF NewDay, DayRow
<1> HIDE DEF x
<1>4. days \in Seq(DayRow) /\ Len(days) = Len(day) + 1
  BY <1>1, <1>3, AppendProperties
<1> HIDE DEF days
<1>5. t.plan = plan /\ t.day = days /\ t.item = item
  OBVIOUS
<1>6. t \in [plan : PlanRow, day : Seq(DayRow), item : [Activities -> ItemType]]
  BY <1>1, <1>4
<1>7. Save(t)
  BY <1>2, <1>5 DEF Save
<1> HIDE DEF t
<1>8. Whole(t)
  BY <1>1, <1>2, <1>4, <1>5, <1>6, BoundsAssumption DEF Whole
<1>9. Covered(t)
  <2>1. Whole(Tables) /\ Covered(Tables)
    BY DEF Inv
  <2>2. Tables.plan = plan /\ Tables.item = item
    BY DEF Tables
  <2> QED
    BY <1>5, <2>1, <2>2, LessStaysCovered
<1>10. edited' \in 0 .. Len(t.day)
  BY <1>1, <1>2, <1>4, <1>5
<1> QED
  BY <1>7, <1>8, <1>9, <1>10, Saved

\* Without activities nothing is to be covered.
LEMMA NothingToCover ==
    ASSUME NEW t, Whole(t), PlanItems(t) = {}
    PROVE  Covered(t)
<1>1. SumCosts(t, {}) = 0
  <2> DEFINE costs == [a \in Activities |-> t.item[a].cost]
  <2>1. Numbers(costs, {}) /\ IsFiniteSet({})
    BY FS_EmptySet DEF Numbers
  <2> HIDE DEF costs
  <2>2. SumFunctionOnSet(costs, {}) = 0
    BY <2>1, SumType
  <2> QED
    BY <2>2 DEF SumCosts, costs
<1>2. t.plan.budget \in Nat
  BY DEF Whole, PlanRow
<1> QED
  BY <1>1, <1>2 DEF Covered

LEMMA DeleteItineraryStep ==
    ASSUME Inv, deleteItinerary
    PROVE  Inv'
<1> DEFINE none == [a \in Activities |-> NoItem]
           t == [plan |-> NoPlan, day |-> <<>>, item |-> none]
<1>1. edited' = 0 /\ Save(t)
  BY DEF deleteItinerary, NoDay
<1>2. NoPlan \in PlanRow
  BY DEF NoPlan, PlanRow, MaybePlace
<1>3. NoItem \in ItemType /\ NoItem.day = 0
  BY DEF NoItem, ItemType, MaybePlace
<1>4. <<>> \in Seq(DayRow) /\ Len(<<>>) = 0
  BY EmptySeq
<1>5. none \in [Activities -> ItemType] /\ \A a \in Activities : none[a].day = 0
  BY <1>3
<1> HIDE DEF none
<1>6. t.plan = NoPlan /\ t.day = <<>> /\ t.item = none
  OBVIOUS
<1>7. t \in [plan : PlanRow, day : Seq(DayRow), item : [Activities -> ItemType]]
  BY <1>2, <1>4, <1>5
<1> HIDE DEF t
<1>8. Whole(t)
  BY <1>4, <1>5, <1>6, <1>7, BoundsAssumption DEF Whole
<1>9. PlanItems(t) = {}
  BY <1>5, <1>6 DEF PlanItems
<1>10. edited' \in 0 .. Len(t.day)
  BY <1>1, <1>4, <1>6
<1> QED
  BY <1>1, <1>8, <1>9, <1>10, NothingToCover, Saved

LEMMA DeleteDayStep ==
    ASSUME Inv, NEW d, deleteDay(d)
    PROVE  Inv'
<1> DEFINE n == Len(day)
           days == RemoveAt(day, d)
           fell(a) == [item[a] EXCEPT !.day = @ - 1]
           new == [a \in Activities |-> IF item[a].day = d THEN NoItem
                                        ELSE IF item[a].day > d THEN fell(a) ELSE item[a]]
           t == [plan |-> plan, day |-> days, item |-> new]
<1>1. /\ plan \in PlanRow /\ day \in Seq(DayRow) /\ item \in [Activities -> ItemType]
      /\ DOMAIN day = 1 .. n /\ n \in Nat /\ n <= MaxDays
      /\ \A a \in Activities : item[a].day \in 0 .. n
  BY TablesType
<1>2. CASE n = 1
  BY <1>2, DeleteItineraryStep DEF deleteDay
<1>3. CASE n # 1
  <2>1. /\ edited' = 0 /\ plan' = plan /\ day' = days /\ item' = new /\ d \in 1 .. n
    BY <1>1, <1>3 DEF deleteDay, NoDay
  <2>2. days \in Seq(DayRow) /\ Len(days) = n - 1
    <3> DEFINE before == SubSeq(day, 1, d - 1)
               after == SubSeq(day, d + 1, n)
    <3>1. /\ 1 \in Int /\ d - 1 \in Int /\ d + 1 \in Int /\ n \in Int
          /\ \A i \in 1 .. d - 1 : day[i] \in DayRow
          /\ \A i \in d + 1 .. n : day[i] \in DayRow
      BY <1>1, <2>1
    <3>2. before \in Seq(DayRow) /\ Len(before) = d - 1
      <4>1. before \in Seq(DayRow)
            /\ Len(before) = IF 1 <= d - 1 THEN (d - 1) - 1 + 1 ELSE 0
        BY <3>1, SubSeqProperties
      <4> QED
        BY <1>1, <2>1, <4>1
    <3>3. after \in Seq(DayRow) /\ Len(after) = n - d
      <4>1. after \in Seq(DayRow)
            /\ Len(after) = IF d + 1 <= n THEN n - (d + 1) + 1 ELSE 0
        BY <3>1, SubSeqProperties
      <4> QED
        BY <1>1, <2>1, <4>1
    <3> HIDE DEF before, after
    <3>4. /\ before \o after \in Seq(DayRow)
          /\ Len(before \o after) = Len(before) + Len(after)
      BY <3>2, <3>3, ConcatProperties
    <3>5. days = before \o after
      BY DEF RemoveAt, before, after
    <3>6. (d - 1) + (n - d) = n - 1
      BY <1>1, <2>1
    <3>7. Len(before) + Len(after) = n - 1
      BY <3>2, <3>3, <3>6
    <3> HIDE DEF days, n
    <3> QED
      BY <3>4, <3>5, <3>7
  <2> HIDE DEF days
  <2>3. NoItem \in ItemType /\ NoItem.day = 0
    BY DEF NoItem, ItemType, MaybePlace
  <2>4. ASSUME NEW a \in Activities
        PROVE  /\ new[a] \in ItemType /\ new[a].day \in 0 .. n - 1
               /\ new[a].day # 0 => item[a].day # 0 /\ new[a].cost = item[a].cost
    <3>1. item[a] \in ItemType /\ item[a].day \in 0 .. n
      BY <1>1
    <3>2. CASE item[a].day = d
      <4>1. new[a] = NoItem
        BY <3>2
      <4> QED
        BY <1>1, <2>1, <2>3, <4>1
    <3>3. CASE item[a].day > d
      <4>1. new[a] = [item[a] EXCEPT !.day = item[a].day - 1]
        BY <2>1, <3>1, <3>3
      <4>2. item[a].day - 1 \in Nat /\ item[a].day - 1 \in 0 .. n - 1 /\ item[a].day # 0
        BY <1>1, <2>1, <3>1, <3>3
      <4>3. ASSUME NEW x \in ItemType, NEW k \in Nat, NEW y, y = [x EXCEPT !.day = k]
            PROVE  y \in ItemType /\ y.day = k /\ y.cost = x.cost
        BY <4>3 DEF ItemType
      <4> HIDE DEF new
      <4> QED
        BY <3>1, <4>1, <4>2, <4>3
    <3>4. CASE item[a].day # d /\ ~ (item[a].day > d)
      <4>1. new[a] = item[a]
        BY <3>4
      <4>2. item[a].day \in 0 .. n - 1
        BY <1>1, <2>1, <3>1, <3>4
      <4> QED
        BY <3>1, <4>1, <4>2
    <3> QED
      BY <3>2, <3>3, <3>4
  <2>5. new = [a \in Activities |-> new[a]]
    OBVIOUS
  <2> HIDE DEF new
  <2>6. new \in [Activities -> ItemType]
    BY <2>4, <2>5
  <2>7. t.plan = plan /\ t.day = days /\ t.item = new
    OBVIOUS
  <2>8. t \in [plan : PlanRow, day : Seq(DayRow), item : [Activities -> ItemType]]
    BY <1>1, <2>2, <2>6
  <2>9. Save(t)
    BY <2>1, <2>7 DEF Save
  <2> HIDE DEF t
  <2>10. Whole(t)
    BY <1>1, <2>2, <2>4, <2>7, <2>8, BoundsAssumption DEF Whole
  <2>11. Covered(t)
    <3>1. Whole(Tables) /\ Covered(Tables)
      BY DEF Inv
    <3>2. Tables.plan = plan /\ Tables.item = item
      BY DEF Tables
    <3> QED
      BY <2>4, <2>7, <3>1, <3>2, LessStaysCovered
  <2>12. edited' \in 0 .. Len(t.day)
    BY <1>1, <2>1, <2>2, <2>7
  <2> QED
    BY <2>9, <2>10, <2>11, <2>12, Saved
<1> QED
  BY <1>2, <1>3

LEMMA DuplicateStep ==
    ASSUME Inv, duplicateItinerary
    PROVE  Inv'
<1> DEFINE head == [plan EXCEPT !.travel = 0]
           days == [d \in DOMAIN day |-> NewDay(None, None)]
           new == [a \in Activities |->
              IF item[a].place \in Lodgings THEN [item[a] EXCEPT !.place = None] ELSE item[a]]
           t == [plan |-> head, day |-> days, item |-> new]
<1>1. /\ plan \in PlanRow /\ day \in Seq(DayRow) /\ item \in [Activities -> ItemType]
      /\ DOMAIN day = 1 .. Len(day) /\ Len(day) \in Nat /\ Len(day) <= MaxDays
      /\ \A a \in Activities : item[a].day \in 0 .. Len(day)
  BY TablesType
<1>2. edited' = 0 /\ plan' = head /\ day' = days /\ item' = new
  BY DEF duplicateItinerary, NoDay
<1>3. head \in PlanRow /\ head.own = plan.own /\ head.budget = plan.budget
  BY <1>1 DEF PlanRow
<1>4. days \in Seq(DayRow) /\ Len(days) = Len(day)
  <2>1. NewDay(None, None) \in DayRow
    BY DEF NewDay, DayRow, MaybePlace
  <2>2. days \in [1 .. Len(day) -> DayRow]
    BY <1>1, <2>1
  <2> DEFINE n == Len(day)
  <2>3. days \in [1 .. n -> DayRow] /\ n \in Nat
    BY <1>1, <2>2
  <2> HIDE DEF days, n
  <2>4. days \in Seq(DayRow) /\ Len(days) = n
    BY <2>3
  <2> QED
    BY <2>4 DEF n
<1>5. ASSUME NEW a \in Activities
      PROVE  new[a] \in ItemType /\ new[a].day = item[a].day /\ new[a].cost = item[a].cost
  <2>1. item[a] \in ItemType
    BY <1>1
  <2>2. ASSUME NEW x \in ItemType, NEW y, y = [x EXCEPT !.place = None]
        PROVE  y \in ItemType /\ y.day = x.day /\ y.cost = x.cost
    BY <2>2 DEF ItemType, MaybePlace
  <2>3. new[a] = item[a] \/ new[a] = [item[a] EXCEPT !.place = None]
    OBVIOUS
  <2> HIDE DEF new
  <2> QED
    BY <2>1, <2>2, <2>3
<1>6. new = [a \in Activities |-> new[a]]
  OBVIOUS
<1> HIDE DEF head, days, new
<1>7. new \in [Activities -> ItemType]
  BY <1>5, <1>6
<1>8. t.plan = head /\ t.day = days /\ t.item = new
  OBVIOUS
<1>9. t \in [plan : PlanRow, day : Seq(DayRow), item : [Activities -> ItemType]]
  BY <1>3, <1>4, <1>7
<1> HIDE DEF t
<1>10. Whole(t)
  BY <1>1, <1>4, <1>5, <1>8, <1>9 DEF Whole
<1>11. Covered(t)
  <2>1. Whole(Tables) /\ Covered(Tables)
    BY DEF Inv
  <2>2. Tables.plan = plan /\ Tables.item = item
    BY DEF Tables
  <2> QED
    BY <1>3, <1>5, <1>8, <2>1, <2>2, LessStaysCovered
<1>12. Save(t) /\ edited' \in 0 .. Len(t.day)
  BY <1>1, <1>2, <1>4, <1>8 DEF Save
<1> QED
  BY <1>10, <1>11, <1>12, Saved

\* The budget of a template is its own, whatever its activities cost.
LEMMA ApplyTemplateStep ==
    ASSUME Inv, NEW template \in Templates, applyTemplate(template)
    PROVE  Inv'
<1> DEFINE head == [NoPlan EXCEPT !.travel = template.travel, !.budget = template.budget,
                                  !.own = TRUE]
           row(d) == [NewDay(None, None) EXCEPT !.travel = template.day[d].travel,
                                                !.cost = template.day[d].cost]
           days == [d \in DOMAIN template.day |-> row(d)]
           t == [plan |-> head, day |-> days, item |-> template.item]
           n == Len(template.day)
<1>1. edited' = 0 /\ plan' = head /\ day' = days /\ item' = template.item
  BY DEF applyTemplate, NoDay
<1>2. /\ template.travel \in Nat /\ template.budget \in Nat
      /\ template.day \in Seq([travel : Nat, cost : Nat])
      /\ template.item \in [Activities -> ItemType]
      /\ n <= MaxDays /\ \A a \in Activities : template.item[a].day \in 0 .. n
  BY TemplatesAssumption DEF TemplateType
<1>3. n \in Nat /\ DOMAIN template.day = 1 .. n
  BY <1>2
<1>4. head \in PlanRow /\ head.own
  BY <1>2 DEF NoPlan, PlanRow, MaybePlace
<1>5. days \in Seq(DayRow) /\ Len(days) = n
  <2>1. ASSUME NEW d \in 1 .. n
        PROVE  row(d) \in DayRow
    <3>1. template.day[d] \in [travel : Nat, cost : Nat]
      BY <1>2, ElementOfSeq
    <3> QED
      BY <3>1 DEF NewDay, DayRow, MaybePlace
  <2> HIDE DEF row
  <2>2. days \in [1 .. n -> DayRow]
    BY <1>3, <2>1
  <2> HIDE DEF days, n
  <2> QED
    BY <1>3, <2>2
<1> HIDE DEF head, days, n
<1>6. t.plan = head /\ t.day = days /\ t.item = template.item
  OBVIOUS
<1>7. t \in [plan : PlanRow, day : Seq(DayRow), item : [Activities -> ItemType]]
  BY <1>2, <1>4, <1>5
<1> HIDE DEF t
<1>8. Whole(t)
  BY <1>2, <1>5, <1>6, <1>7 DEF Whole
<1>9. Covered(t)
  BY <1>4, <1>6 DEF Covered
<1>10. Save(t) /\ edited' \in 0 .. Len(t.day)
  BY <1>1, <1>3, <1>5, <1>6 DEF Save
<1> QED
  BY <1>8, <1>9, <1>10, Saved

\* A new plan with activities is recalculated, and one without them has nothing to cover.
LEMMA CreateStep ==
    ASSUME Inv, NEW n \in 1 .. MaxDays, NEW on \in [Activities -> 0 .. n],
           NEW place \in [Activities -> MaybePlace], NEW from \in MaybePlace,
           NEW cost \in Costs, NEW budget \in Budgets,
           createItinerary(n, from, on, place, cost, budget)
    PROVE  Inv'
<1> DEFINE rank(a) == Cardinality({b \in Activities : b < a /\ on[b] = on[a]})
           head == [NoPlan EXCEPT !.from = from, !.budget = budget]
           days == [d \in 1 .. n |-> NewDay(None, None)]
           new == [a \in Activities |-> IF on[a] = 0 THEN NoItem
                                        ELSE NewItem(on[a], rank(a), place[a], cost, None)]
           t == [plan |-> head, day |-> days, item |-> new]
<1>1. edited' = 0
  BY DEF createItinerary, NoDay
<1>2. PICK u \in EachRecalculated(t) : Save(u)
  BY DEF createItinerary
<1>3. n \in Nat /\ n <= MaxDays /\ cost \in Nat /\ budget \in Nat
  BY CostsAssumption, BoundsAssumption
<1>4. head \in PlanRow
  BY <1>3 DEF NoPlan, PlanRow
<1>5. days \in Seq(DayRow) /\ Len(days) = n
  <2>1. NewDay(None, None) \in DayRow
    BY DEF NewDay, DayRow, MaybePlace
  <2>2. days \in [1 .. n -> DayRow]
    BY <2>1
  <2> HIDE DEF days
  <2> QED
    BY <1>3, <2>2
<1>6. ASSUME NEW a \in Activities
      PROVE  new[a] \in ItemType /\ new[a].day \in 0 .. n
  <2>1. CASE on[a] = 0
    BY <1>3, <2>1 DEF NoItem, ItemType, MaybePlace
  <2>2. CASE on[a] # 0
    <3> DEFINE k == rank(a)
    <3>1. k \in Nat
      <4>1. {b \in Activities : b < a /\ on[b] = on[a]} \in SUBSET Activities
        OBVIOUS
      <4> QED
        BY <4>1, FiniteActivities, FS_CardinalityType
    <3>2. new[a] = NewItem(on[a], k, place[a], cost, None)
      BY <2>2
    <3> HIDE DEF k, new
    <3>3. on[a] \in 0 .. n /\ on[a] \in Nat /\ place[a] \in MaybePlace
      BY <1>3
    <3>4. ASSUME NEW e \in Nat, NEW j \in Nat, NEW p \in MaybePlace
          PROVE  LET x == NewItem(e, j, p, cost, None)
                 IN  x \in ItemType /\ x.day = e
      BY <1>3, <3>4 DEF NewItem, NoItem, ItemType
    <3> QED
      BY <3>1, <3>2, <3>3, <3>4
  <2> QED
    BY <2>1, <2>2
<1>7. new = [a \in Activities |-> new[a]]
  OBVIOUS
<1> HIDE DEF head, days, new
<1>8. new \in [Activities -> ItemType]
  BY <1>6, <1>7
<1>9. t.plan = head /\ t.day = days /\ t.item = new
  OBVIOUS
<1>10. t \in [plan : PlanRow, day : Seq(DayRow), item : [Activities -> ItemType]]
  BY <1>4, <1>5, <1>8
<1> HIDE DEF t
<1>11. Whole(t)
  BY <1>3, <1>5, <1>6, <1>9, <1>10 DEF Whole
<1>12. Whole(u) /\ SameRows(t, u) /\ (PlanItems(t) = {} \/ Covered(u))
  BY <1>11, EachRecalculatedCovers
<1>13. Covered(u)
  <2>1. PlanItems(u) = PlanItems(t)
    BY <1>11, <1>12, SameRowsSame
  <2> QED
    BY <1>12, <2>1, NothingToCover
<1>14. edited' \in 0 .. Len(u.day)
  BY <1>1, <1>3, <1>5, <1>9, <1>12 DEF SameRows
<1> QED
  BY <1>2, <1>12, <1>13, <1>14, Saved

LEMMA OptimizeStep ==
    ASSUME Inv, NEW D, optimizeRoute(D)
    PROVE  Inv'
<1> DEFINE n == Len(day)
           after == CHOOSE f : f = [d \in 0 .. Len(day) |->
              IF d = 0 THEN {Tables}
              ELSE IF d \in D THEN UNION {OptimizedDay(t, d) : t \in f[d - 1]}
              ELSE f[d - 1]]
<1>1. edited' = 0 /\ \E t \in after[n] : Save(t)
  BY DEF optimizeRoute, NoDay
<1>2. n \in Nat /\ Tables.day = day /\ Whole(Tables) /\ Covered(Tables)
  BY TablesType DEF Inv, Tables
<1>3. AfterOptimizing(Tables, D, n, after)
  <2>1. \E f : AfterOptimizing(Tables, D, n, f)
    BY <1>2, AfterOptimizingExists
  <2> QED
    BY <2>1 DEF AfterOptimizing
<1> HIDE DEF after
<1>4. PICK u \in after[n] : Save(u)
  BY <1>1
<1>5. n = Len(Tables.day)
  BY <1>2
<1> HIDE DEF n
<1>6. Whole(u) /\ SameRows(Tables, u) /\ (Covered(Tables) => Covered(u))
  BY <1>2, <1>3, <1>4, <1>5, OptimizedDaysCover
<1>7. edited' \in 0 .. Len(u.day)
  BY <1>1, <1>2, <1>5, <1>6 DEF SameRows
<1> QED
  BY <1>2, <1>4, <1>6, <1>7, Saved

-----------------------------------------------------------------------------
(* The invariant.                                                          *)

LEMMA InitInv == Init => Inv
<1> SUFFICES ASSUME Init
             PROVE  Inv
  OBVIOUS
<1> DEFINE none == [a \in Activities |-> NoItem]
<1>1. Tables = [plan |-> NoPlan, day |-> <<>>, item |-> none] /\ edited = 0 /\ day = <<>>
  BY DEF Init, Tables
<1>2. NoPlan \in PlanRow
  BY DEF NoPlan, PlanRow, MaybePlace
<1>3. NoItem \in ItemType /\ NoItem.day = 0
  BY DEF NoItem, ItemType, MaybePlace
<1>4. <<>> \in Seq(DayRow) /\ Len(<<>>) = 0
  BY EmptySeq
<1>5. none \in [Activities -> ItemType] /\ \A a \in Activities : none[a].day = 0
  BY <1>3
<1> HIDE DEF none
<1>6. Tables.plan = NoPlan /\ Tables.day = <<>> /\ Tables.item = none
  BY <1>1
<1>7. Tables \in [plan : PlanRow, day : Seq(DayRow), item : [Activities -> ItemType]]
  BY <1>1, <1>2, <1>4, <1>5
<1>8. Whole(Tables)
  BY <1>4, <1>5, <1>6, <1>7, BoundsAssumption DEF Whole
<1>9. PlanItems(Tables) = {}
  BY <1>5, <1>6 DEF PlanItems
<1>10. edited \in 0 .. Len(day)
  BY <1>1, <1>4
<1> QED
  BY <1>8, <1>9, <1>10, NothingToCover DEF Inv

LEMMA EditDayStep ==
    ASSUME Inv, NEW d, EditDay(d)
    PROVE  Inv' /\ Stops /\ Repaired'
<1>1. Departures \subseteq MaybePlace
  BY PlacesAssumption
<1>2. CASE \E start \in StartTimes \union {None}, from \in Departures : updateDay(d, start, from)
  BY <1>1, <1>2, UpdateDayStep
<1>3. CASE \E place \in MaybePlace, cost \in Costs, start \in StartTimes \union {None} :
              \E ownIdx \in {None, 0} : addActivity(d, place, cost, start, ownIdx)
  BY <1>3, AddActivityStep
<1>4. CASE \E place \in MaybePlace, cost \in Costs, start \in StartTimes \union {None} :
              \E a \in Activities : updateActivity(d, a, place, cost, start)
  BY <1>4, UpdateActivityStep
<1>5. CASE \E a \in Activities : deleteActivity(d, a)
  BY <1>5, DeleteActivityStep
<1>6. CASE \E S \in SUBSET Activities : \E idx \in [S -> 0 .. 1] : reorderActivities(d, S, idx)
  BY <1>6, ReorderStep
<1> QED
  BY <1>2, <1>3, <1>4, <1>5, <1>6 DEF EditDay

\* Requests about the plan are no edits of a day.
LEMMA NoEditStops == edited' = 0 => Stops /\ Repaired'
  BY DEF Stops, Repaired

LEMMA NextInv ==
    ASSUME Inv, Next
    PROVE  Inv' /\ Stops /\ Repaired'
<1>1. Departures \subseteq MaybePlace
  BY PlacesAssumption
<1>2. CASE Create
  <2>1. PICK n \in 1 .. MaxDays :
           \E on \in [Activities -> 0 .. n], place \in [Activities -> MaybePlace],
              from \in Departures, cost \in Costs, budget \in Budgets :
                 createItinerary(n, from, on, place, cost, budget)
    BY <1>2 DEF Create
  <2>2. edited' = 0
    BY <2>1 DEF createItinerary, NoDay
  <2>3. Inv'
    BY <1>1, <2>1, CreateStep
  <2> QED
    BY <2>2, <2>3, NoEditStops
<1>3. CASE \E template \in Templates : applyTemplate(template)
  BY <1>3, ApplyTemplateStep, NoEditStops DEF applyTemplate, NoDay
<1>4. CASE \E from \in Departures, start \in StartTimes \union {None} : updateItinerary(from, start)
  BY <1>1, <1>4, UpdateItineraryStep, NoEditStops DEF updateItinerary, NoDay
<1>5. CASE \E from \in Departures, start \in StartTimes \union {None} :
              updateActiveTripStart(from, start)
  BY <1>1, <1>5, UpdateItineraryStep, NoEditStops DEF updateActiveTripStart, updateItinerary, NoDay
<1>6. CASE \E from \in Departures, start \in StartTimes \union {None} : addDay(start, from)
  BY <1>1, <1>6, AddDayStep, NoEditStops DEF addDay, NoDay
<1>7. CASE duplicateItinerary
  BY <1>7, DuplicateStep, NoEditStops DEF duplicateItinerary, NoDay
<1>8. CASE deleteItinerary
  BY <1>8, DeleteItineraryStep, NoEditStops DEF deleteItinerary, NoDay
<1>9. CASE \E d \in 1 .. MaxDays : deleteDay(d)
  BY <1>9, DeleteDayStep, NoEditStops DEF deleteDay, deleteItinerary, NoDay
<1>10. CASE \E D : optimizeRoute(D)
  BY <1>10, OptimizeStep, NoEditStops DEF optimizeRoute, NoDay
<1>11. CASE \E d \in 1 .. MaxDays : EditDay(d)
  BY <1>11, EditDayStep
<1> QED
  BY <1>2, <1>3, <1>4, <1>5, <1>6, <1>7, <1>8, <1>9, <1>10, <1>11 DEF Next

LEMMA StutterInv ==
    ASSUME Inv, UNCHANGED vars
    PROVE  Inv'
<1>1. Tables' = Tables /\ edited' = edited /\ day' = day
  BY DEF vars, Tables
<1> QED
  BY <1>1 DEF Inv

LEMMA InvSound == Inv => PlanInv
<1> SUFFICES ASSUME Inv
             PROVE  PlanInv
  OBVIOUS
<1>1. /\ plan \in PlanRow /\ day \in Seq(DayRow) /\ item \in [Activities -> ItemType]
      /\ DOMAIN day = 1 .. Len(day) /\ Len(day) \in Nat /\ Len(day) <= MaxDays
      /\ \A a \in Activities : item[a].day \in 0 .. Len(day)
  BY TablesType
<1>2. \A d \in DOMAIN day : day[d] \in DayRow
  BY <1>1
<1>3. TypeOK
  BY <1>1, <1>2 DEF TypeOK, Inv, PlanRow, DayRow
<1>4. BudgetCovers
  <2>1. Covered(Tables) /\ Tables.plan = plan
    BY DEF Inv, Tables
  <2> QED
    BY <2>1 DEF BudgetCovers, Covered
<1> QED
  BY <1>3, <1>4 DEF PlanInv

\* Spec => []Inv, and every step stops where the cascade does and has repaired the days
\* up to there.
LEMMA InvAlways == Spec => []Inv /\ [][Stops /\ Repaired']_vars
<1>1. Inv /\ [Next]_vars => Inv'
  BY NextInv, StutterInv
<1>2. Inv /\ [Next]_vars => [Stops /\ Repaired']_vars
  BY NextInv
<1> QED
  BY InitInv, <1>1, <1>2, PTL DEF Spec

-----------------------------------------------------------------------------
(* The theorems.                                                           *)

\* Whatever requests make, copy, edit, recalculate and delete a plan: its activities are on
\* its days, also after deleteDay renumbers them; its times are times of a day, however
\* often formatTime wraps them; and its budget is not below its costs, because a request
\* that adds an activity or raises a cost reaches the maximum that
\* recalculateItineraryTotals takes, and one that returns before it has at most removed
\* activities.
THEOREM PlanInvAlways == Spec => []PlanInv
  BY InvAlways, InvSound, PTL

\* The loop of recalculateDayRouteAndSchedule writes no day before the edited one, and
\* none from the first on that has its own start or comes after a day left empty.
THEOREM CascadeStopsAlways == Spec => CascadeStops
<1>1. Spec => [][Stops]_vars
  BY InvAlways, PTL
<1> QED
  BY <1>1 DEF Stops, CascadeStops

\* Whatever deleteDay, duplicateItinerary and applyTemplate left stale: after an edit of a
\* day recalculateDayRouteAndSchedule has given it, and each day after it up to the end of
\* the cascade, the legs from where a traveller comes, the times that follow from them, and
\* the totals; and the plan the sum of all legs.
THEOREM EditRepairsAlways == Spec => EditRepairs
<1>1. Spec => [][Repaired']_vars
  BY InvAlways, PTL
<1> QED
  BY <1>1 DEF EditRepairs

=============================================================================
