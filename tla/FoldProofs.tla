----------------------------- MODULE FoldProofs ----------------------------
(***************************************************************************)
(* Facts about the folds of the community modules, which sum up requests   *)
(* and walk over lists of nodes in the models.                             *)
(*                                                                         *)
(* They need induction.  Here a property is a set, of numbers or of sets,  *)
(* and induction says what such a set contains; it follows from the least  *)
(* element of a set of numbers.                                            *)
(***************************************************************************)
EXTENDS Integers, FiniteSets, Functions, FiniteSetsExt, FiniteSetTheorems, TLAPS

\* A set of natural numbers that is not empty has a least element.
LEMMA LeastNumber ==
  ASSUME NEW T \in SUBSET Nat, T # {}
  PROVE  \E m \in T : \A k \in T : m <= k
  <1> DEFINE R == OpToRel(<, Nat)
  <1>1. IsWellFoundedOn(R, Nat)
    BY NatLessThanWellFounded
  <1>2. \A k, m \in Nat : <<k, m>> \in R <=> k < m
    BY DEF OpToRel
  <1> HIDE DEF R
  <1>3. PICK m \in T : \A k \in T : ~(<<k, m>> \in R)
    BY <1>1, WFMin
  <1>4. \A k \in T : k \in Nat /\ m \in Nat /\ ~(k < m)
    BY <1>2, <1>3
  <1>5. QED BY <1>4

\* Induction over the natural numbers, for a set G of numbers.
LEMMA NumberInduction ==
  ASSUME NEW G, 0 \in G, \A n \in Nat : n \in G => n + 1 \in G
  PROVE  \A n \in Nat : n \in G
  <1> DEFINE Bad == Nat \ G
  <1>1. SUFFICES ASSUME Bad # {} PROVE FALSE
    OBVIOUS
  <1>2. PICK m \in Bad : \A k \in Bad : m <= k
    BY <1>1, LeastNumber
  <1>3. m \in Nat /\ m # 0
    BY <1>2
  <1>4. m - 1 \in Nat /\ m - 1 \notin Bad
    BY <1>2, <1>3
  <1>5. (m - 1) + 1 \in G
    BY <1>4
  <1>6. QED BY <1>2, <1>3, <1>5

\* Induction over the subsets of a finite set, for a set G of sets: one that has
\* what is left of T when an element is taken out has T.
LEMMA SubsetInduction ==
  ASSUME NEW S, IsFiniteSet(S), NEW G, {} \in G,
         \A T \in SUBSET S : T # {} /\ (\A x \in T : T \ {x} \in G) => T \in G
  PROVE  \A T \in SUBSET S : T \in G
  <1> DEFINE Good == {n \in Nat : \A T \in SUBSET S : Cardinality(T) = n => T \in G}
  <1>1. \A T \in SUBSET S : IsFiniteSet(T) /\ Cardinality(T) \in Nat
    BY FS_Subset, FS_CardinalityType
  <1>2. 0 \in Good
    BY <1>1, FS_EmptySet
  <1>3. ASSUME NEW n \in Nat, n \in Good PROVE n + 1 \in Good
    <2>1. SUFFICES ASSUME NEW T \in SUBSET S, Cardinality(T) = n + 1 PROVE T \in G
      OBVIOUS
    <2>2. T # {}
      <3>1. Cardinality({}) = 0 /\ n + 1 # 0
        BY FS_EmptySet
      <3>2. QED BY <2>1, <3>1
    <2>3. ASSUME NEW x \in T PROVE T \ {x} \in G
      <3>1. Cardinality(T \ {x}) = Cardinality(T) - 1
        BY <1>1, FS_RemoveElement
      <3>2. Cardinality(T \ {x}) = n
        BY <2>1, <3>1
      <3>3. QED BY <1>3, <3>2
    <2>4. QED BY <2>2, <2>3
  <1>4. \A n \in Nat : n \in Good
    <2> HIDE DEF Good
    <2>1. QED BY <1>2, <1>3, NumberInduction
  <1>5. QED BY <1>1, <1>4

\* g takes the elements out of a subset of S in the order c chooses them.
IsFold(g, S, base, step, c) ==
    \A T \in SUBSET S :
        g[T] = IF T = {} THEN base ELSE step[<<c[T], g[T \ {c[T]}]>>]

\* A fold over the subsets of a finite set is well defined.
LEMMA FoldExists ==
  ASSUME NEW S, IsFiniteSet(S), NEW V, NEW base \in V, NEW step \in [S \X V -> V],
         NEW c, \A T \in SUBSET S : T # {} => c[T] \in T
  PROVE  \E g \in [SUBSET S -> V] : IsFold(g, S, base, step, c)
  <1> DEFINE Eq(g, T) == g[T] = IF T = {} THEN base ELSE step[<<c[T], g[T \ {c[T]}]>>]
             Good == {n \in Nat : \E g \in [SUBSET S -> V] :
                         \A T \in SUBSET S : Cardinality(T) <= n => Eq(g, T)}
  <1>1. \A T \in SUBSET S : IsFiniteSet(T) /\ Cardinality(T) \in Nat
    BY FS_Subset, FS_CardinalityType
  <1>2. \A T \in SUBSET S : T # {} => /\ T \ {c[T]} \in SUBSET S
                                      /\ Cardinality(T \ {c[T]}) = Cardinality(T) - 1
    BY <1>1, FS_RemoveElement
  <1>3. 0 \in Good
    <2> DEFINE g == [T \in SUBSET S |-> base]
    <2>1. g \in [SUBSET S -> V]
      OBVIOUS
    <2>2. \A T \in SUBSET S : Cardinality(T) <= 0 => T = {}
      BY <1>1, FS_EmptySet
    <2>3. \A T \in SUBSET S : Cardinality(T) <= 0 => Eq(g, T)
      BY <2>2
    <2>4. QED BY <2>1, <2>3
  <1>4. ASSUME NEW n \in Nat, n \in Good PROVE n + 1 \in Good
    <2>1. PICK g \in [SUBSET S -> V] :
             \A T \in SUBSET S : Cardinality(T) <= n => Eq(g, T)
      BY <1>4
    <2> DEFINE h == [T \in SUBSET S |->
                        IF Cardinality(T) = n + 1
                        THEN step[<<c[T], g[T \ {c[T]}]>>] ELSE g[T]]
    <2>2. \A T \in SUBSET S : Cardinality(T) = n + 1 => T # {}
      <3>1. Cardinality({}) = 0 /\ n + 1 # 0
        BY FS_EmptySet
      <3>2. QED BY <3>1
    <2>3. h \in [SUBSET S -> V]
      <3>1. ASSUME NEW T \in SUBSET S, Cardinality(T) = n + 1
            PROVE  step[<<c[T], g[T \ {c[T]}]>>] \in V
        <4>1. c[T] \in S /\ g[T \ {c[T]}] \in V
          BY <1>2, <2>2, <3>1
        <4>2. QED BY <4>1
      <3>2. QED BY <3>1
    <2>4. \A T \in SUBSET S : Cardinality(T) <= n => h[T] = g[T]
      BY <1>1
    <2>5. ASSUME NEW T \in SUBSET S, Cardinality(T) <= n + 1 PROVE Eq(h, T)
      <3>1. CASE T = {}
        BY <1>1, <2>1, <2>4, <3>1, FS_EmptySet
      <3>2. CASE T # {}
        <4>1. T \ {c[T]} \in SUBSET S /\ Cardinality(T \ {c[T]}) <= n
          BY <1>1, <1>2, <2>5, <3>2
        <4>2. h[T \ {c[T]}] = g[T \ {c[T]}]
          BY <2>4, <4>1
        <4>3. h[T] = step[<<c[T], g[T \ {c[T]}]>>]
          <5>1. CASE Cardinality(T) = n + 1
            BY <5>1
          <5>2. CASE Cardinality(T) <= n
            BY <2>1, <2>4, <3>2, <5>2
          <5>3. QED BY <1>1, <2>5, <5>1, <5>2
        <4>4. QED BY <3>2, <4>2, <4>3
      <3>3. QED BY <3>1, <3>2
    <2>6. QED
      <3> HIDE DEF h, Eq
      <3>1. QED BY <2>3, <2>5
  <1>5. \A n \in Nat : n \in Good
    <2> HIDE DEF Good
    <2>1. QED BY <1>3, <1>4, NumberInduction
  <1>6. Cardinality(S) \in Good
    BY <1>1, <1>5
  <1>7. PICK g \in [SUBSET S -> V] :
           \A T \in SUBSET S : Cardinality(T) <= Cardinality(S) => Eq(g, T)
    BY <1>6
  <1>8. \A T \in SUBSET S : Cardinality(T) <= Cardinality(S)
    BY FS_Subset
  <1>9. QED BY <1>7, <1>8 DEF IsFold

-----------------------------------------------------------------------------
(* Folds over the positions of a list, the last position taken out first.  *)

\* The greatest of some positions is one of them; of the first i it is i.
LEMMA LastPosition ==
  ASSUME NEW n \in Nat
  PROVE  /\ \A T \in SUBSET (1..n) : T # {} => Max(T) \in T
         /\ \A i \in 1..n : Max(1..i) = i /\ (1..i) \ {i} = 1..(i - 1)
  <1>1. ASSUME NEW T \in SUBSET (1..n), T # {} PROVE Max(T) \in T
    <2> DEFINE U == {n - t : t \in T}
    <2>1. U \in SUBSET Nat /\ U # {}
      <3>1. \A t \in T : t \in Int /\ t <= n
        BY <1>1
      <3>2. \A t \in T : n - t \in Nat
        BY <3>1
      <3>3. PICK t : t \in T
        BY <1>1
      <3>4. n - t \in U
        BY <3>3
      <3>5. QED BY <3>2, <3>4
    <2>2. PICK m \in U : \A k \in U : m <= k
      <3> HIDE DEF U
      <3>1. QED BY <2>1, LeastNumber
    <2>3. PICK t \in T : m = n - t
      BY <2>2
    <2>4. \A y \in T : t >= y
      <3>1. SUFFICES ASSUME NEW y \in T PROVE t >= y
        OBVIOUS
      <3>2. n - y \in U /\ y \in Int /\ t \in Int
        BY <1>1
      <3>3. n - t <= n - y
        BY <2>2, <2>3, <3>2
      <3>4. QED BY <3>2, <3>3
    <2>5. QED BY <2>3, <2>4 DEF Max
  <1>2. ASSUME NEW i \in 1..n PROVE Max(1..i) = i
    <2>1. i \in 1..i /\ \A y \in 1..i : i >= y
      OBVIOUS
    <2>2. Max(1..i) \in 1..i /\ \A y \in 1..i : Max(1..i) >= y
      BY <2>1 DEF Max
    <2>3. QED BY <2>1, <2>2
  <1>3. \A i \in 1..n : (1..i) \ {i} = 1..(i - 1)
    OBVIOUS
  <1>4. QED BY <1>1, <1>2, <1>3

\* The order FoldLeft goes in: the last position is the one taken out.
LastOf(n) == [T \in SUBSET (1..n) |-> Max(T)]

\* g has the results of a walk over n positions: g[1..i] after the first i.
IsWalk(g, n, base, step) ==
    /\ IsFold(g, 1..n, base, step, LastOf(n))
    /\ g[1..0] = base
    /\ \A i \in 1..n : g[1..i] = step[<<i, g[1..(i - 1)]>>]

\* A walk over n positions is well defined, and goes from each to the next.
LEMMA WalkExists ==
  ASSUME NEW n \in Nat, NEW V, NEW base \in V, NEW step \in [(1..n) \X V -> V]
  PROVE  \E g \in [SUBSET (1..n) -> V] : IsWalk(g, n, base, step)
  <1> DEFINE S == 1..n
             c == LastOf(n)
  <1>1. IsFiniteSet(S)
    BY FS_Interval
  <1>2. \A T \in SUBSET S : c[T] = Max(T)
    BY DEF LastOf
  <1>3. \A T \in SUBSET S : T # {} => c[T] \in T
    BY <1>2, LastPosition
  <1>4. PICK g \in [SUBSET S -> V] : IsFold(g, S, base, step, c)
    <2>1. step \in [S \X V -> V]
      OBVIOUS
    <2> HIDE DEF S, c
    <2>2. QED BY <1>1, <1>3, <2>1, FoldExists
  <1>5. g[1..0] = base
    <2>1. 1..0 = {}
      OBVIOUS
    <2>2. QED BY <1>4, <2>1 DEF IsFold
  <1>6. ASSUME NEW i \in 1..n PROVE g[1..i] = step[<<i, g[1..(i - 1)]>>]
    <2>1. 1..i \in SUBSET S /\ 1..i # {}
      OBVIOUS
    <2>2. c[1..i] = i /\ (1..i) \ {i} = 1..(i - 1)
      BY <1>2, <2>1, LastPosition
    <2> HIDE DEF c, S
    <2>3. QED BY <1>4, <2>1, <2>2 DEF IsFold
  <1>7. QED BY <1>4, <1>5, <1>6 DEF IsWalk

\* g and h take the same step from each subset of the n positions to the next.
SameSteps(g, h, n) ==
    /\ g[{}] = h[{}]
    /\ \A T \in SUBSET (1..n) :
          T # {} /\ g[T \ {Max(T)}] = h[T \ {Max(T)}] => g[T] = h[T]

\* Such walks end with the same result.
LEMMA WalkUnique ==
  ASSUME NEW n \in Nat, NEW g, NEW h, SameSteps(g, h, n)
  PROVE  g[1..n] = h[1..n]
  <1> DEFINE S == 1..n
             G == {T \in SUBSET S : g[T] = h[T]}
  <1>1. IsFiniteSet(S)
    BY FS_Interval
  <1>2. {} \in G
    BY DEF SameSteps
  <1>3. ASSUME NEW T \in SUBSET S, T # {}, \A x \in T : T \ {x} \in G PROVE T \in G
    <2>1. T \ {Max(T)} \in G
      BY <1>3, LastPosition
    <2>2. QED BY <1>3, <2>1 DEF SameSteps
  <1>4. \A T \in SUBSET S : T \in G
    <2> HIDE DEF S, G
    <2>1. QED BY <1>1, <1>2, <1>3, SubsetInduction
  <1>5. QED BY <1>4

-----------------------------------------------------------------------------
(* Sums of the values f[x] of a function, for x in a finite set.           *)

\* The element the sum takes first.
First(T) == CHOOSE x \in T : TRUE

\* g has the sum over T for each subset T of S.
SumsUp(g, S, f) ==
    \A T \in SUBSET S : g[T] = IF T = {} THEN 0 ELSE f[First(T)] + g[T \ {First(T)}]

\* The sum over S is computed by a function g on the subsets of S.
LEMMA SumIsFold ==
  ASSUME NEW S, IsFiniteSet(S), NEW f, \A x \in S : f[x] \in Nat
  PROVE  \E g \in [SUBSET S -> Nat] :
            /\ SumFunctionOnSet(f, S) = g[S]
            /\ SumsUp(g, S, f)
  <1> DEFINE c == [T \in SUBSET S |-> First(T)]
             step == [p \in S \X Nat |-> f[p[1]] + p[2]]
             Body(g) == [T \in SUBSET S |->
                            IF T = {} THEN 0
                            ELSE f[First(T)] + g[T \ {First(T)}]]
             it == CHOOSE g : g = Body(g)
  <1>1. SumFunctionOnSet(f, S) = it[S]
    BY Zenon DEF SumFunctionOnSet, FoldFunctionOnSet, MapThenFoldSet, First
  <1>2. \A T \in SUBSET S : T # {} => c[T] \in T
    BY DEF First
  <1>3. step \in [S \X Nat -> Nat]
    OBVIOUS
  <1>4. PICK g \in [SUBSET S -> Nat] : IsFold(g, S, 0, step, c)
    <2> HIDE DEF c, step
    <2>1. QED BY <1>2, <1>3, FoldExists
  <1>5. ASSUME NEW T \in SUBSET S
        PROVE  g[T] = IF T = {} THEN 0
                      ELSE f[First(T)] + g[T \ {First(T)}]
    <2>1. CASE T = {}
      BY <1>4, <2>1 DEF IsFold
    <2>2. CASE T # {}
      <3>1. c[T] = First(T) /\ c[T] \in S /\ T \ {c[T]} \in SUBSET S
        BY <1>2, <2>2
      <3>2. g[T] = step[<<c[T], g[T \ {c[T]}]>>]
        BY <1>4, <2>2 DEF IsFold
      <3>3. step[<<c[T], g[T \ {c[T]}]>>] = f[c[T]] + g[T \ {c[T]}]
        <4> HIDE DEF c
        <4>1. c[T] \in S /\ g[T \ {c[T]}] \in Nat
          BY <3>1
        <4>2. QED BY <4>1
      <3>4. QED BY <2>2, <3>1, <3>2, <3>3
    <2>3. QED BY <2>1, <2>2
  <1>6. g = Body(g)
    BY <1>5
  <1>7. it = Body(it)
    <2> HIDE DEF Body
    <2>1. QED BY <1>6
  <1>8. it = g
    <2> DEFINE G == {T \in SUBSET S : it[T] = g[T]}
    <2>1. \A T \in SUBSET S : it[T] = Body(it)[T]
      <3> HIDE DEF it, Body
      <3>1. QED BY <1>7
    <2> HIDE DEF it
    <2>2. {} \in G
      BY <1>5, <2>1
    <2>3. ASSUME NEW T \in SUBSET S, T # {}, \A x \in T : T \ {x} \in G PROVE T \in G
      <3>1. First(T) \in T
        BY <2>3 DEF First
      <3>2. it[T \ {First(T)}] = g[T \ {First(T)}]
        BY <2>3, <3>1
      <3>3. QED BY <1>5, <2>1, <2>3, <3>2
    <2>4. \A T \in SUBSET S : it[T] = g[T]
      <3>1. \A T \in SUBSET S : T \in G
        <4> HIDE DEF G
        <4>1. QED BY <2>2, <2>3, SubsetInduction
      <3>2. QED BY <3>1
    <2>5. it = [T \in SUBSET S |-> it[T]]
      <3>1. it = [T \in SUBSET S |-> Body(it)[T]]
        BY <1>7
      <3> HIDE DEF Body
      <3>2. QED BY <2>1, <3>1
    <2>6. QED BY <2>4, <2>5
  <1>9. QED
    <2> HIDE DEF it
    <2>1. QED BY <1>1, <1>5, <1>8 DEF SumsUp

\* The sum over no elements.
LEMMA SumEmpty == ASSUME NEW f PROVE SumFunctionOnSet(f, {}) = 0
  BY FS_EmptySet, SumIsFold DEF SumsUp

\* A sum of natural numbers is one.
LEMMA SumType ==
  ASSUME NEW S, IsFiniteSet(S), NEW f, \A x \in S : f[x] \in Nat
  PROVE  SumFunctionOnSet(f, S) \in Nat
  <1>1. PICK g \in [SUBSET S -> Nat] : SumFunctionOnSet(f, S) = g[S] /\ SumsUp(g, S, f)
    BY SumIsFold
  <1>2. QED BY <1>1

\* Functions with the same values on S have the same sum over S.
LEMMA SumSame ==
  ASSUME NEW S, IsFiniteSet(S), NEW f, NEW h, \A x \in S : f[x] \in Nat /\ h[x] = f[x]
  PROVE  SumFunctionOnSet(h, S) = SumFunctionOnSet(f, S)
  <1>1. PICK g \in [SUBSET S -> Nat] :
           /\ SumFunctionOnSet(f, S) = g[S]
           /\ SumsUp(g, S, f)
    BY SumIsFold
  <1>2. PICK k \in [SUBSET S -> Nat] :
           /\ SumFunctionOnSet(h, S) = k[S]
           /\ SumsUp(k, S, h)
    BY SumIsFold
  <1> DEFINE G == {T \in SUBSET S : k[T] = g[T]}
  <1>3. {} \in G
    BY <1>1, <1>2 DEF SumsUp
  <1>4. ASSUME NEW T \in SUBSET S, T # {}, \A x \in T : T \ {x} \in G PROVE T \in G
    <2>1. First(T) \in T /\ First(T) \in S
      BY <1>4 DEF First
    <2>2. k[T \ {First(T)}] = g[T \ {First(T)}] /\ h[First(T)] = f[First(T)]
      BY <1>4, <2>1
    <2>3. QED BY <1>1, <1>2, <1>4, <2>2 DEF SumsUp
  <1>5. \A T \in SUBSET S : T \in G
    <2> HIDE DEF G
    <2>1. QED BY <1>3, <1>4, SubsetInduction
  <1>6. QED BY <1>1, <1>2, <1>5

\* The sum over S is that over S without the element the fold takes first, and
\* its value.
LEMMA SumChosen ==
  ASSUME NEW S, IsFiniteSet(S), S # {}, NEW f, \A x \in S : f[x] \in Nat
  PROVE  /\ First(S) \in S
         /\ SumFunctionOnSet(f, S) = f[First(S)] + SumFunctionOnSet(f, S \ {First(S)})
  <1> DEFINE c == First(S)
             R == S \ {c}
  <1>0. c \in S
    BY DEF First
  <1>1. R \in SUBSET S /\ IsFiniteSet(R)
    BY FS_Subset
  <1>2. PICK g \in [SUBSET S -> Nat] :
           /\ SumFunctionOnSet(f, S) = g[S]
           /\ SumsUp(g, S, f)
    BY SumIsFold
  <1>3. PICK k \in [SUBSET R -> Nat] :
           /\ SumFunctionOnSet(f, R) = k[R]
           /\ SumsUp(k, R, f)
    <2> HIDE DEF R
    <2>1. QED BY <1>1, SumIsFold
  <1> DEFINE G == {T \in SUBSET R : k[T] = g[T]}
  <1>4. \A T \in SUBSET R : T \in G
    <2> HIDE DEF R
    <2>1. {} \in G
      BY <1>1, <1>2, <1>3 DEF SumsUp
    <2>2. ASSUME NEW T \in SUBSET R, T # {}, \A x \in T : T \ {x} \in G PROVE T \in G
      <3>1. First(T) \in T /\ T \in SUBSET S
        BY <1>1, <2>2 DEF First
      <3>2. QED BY <1>2, <1>3, <2>2, <3>1 DEF SumsUp
    <2> HIDE DEF G
    <2>3. QED BY <1>1, <2>1, <2>2, SubsetInduction
  <1>5. k[R] = g[R]
    BY <1>4
  <1>6. g[S] = f[c] + g[R]
    BY <1>2 DEF SumsUp
  <1>7. QED BY <1>0, <1>2, <1>3, <1>5, <1>6

\* The order does not matter: any element may be taken out.
LEMMA SumRemove ==
  ASSUME NEW S, IsFiniteSet(S), NEW f, \A x \in S : f[x] \in Nat
  PROVE  \A x \in S : SumFunctionOnSet(f, S) = f[x] + SumFunctionOnSet(f, S \ {x})
  <1> DEFINE Sum(T) == SumFunctionOnSet(f, T)
             G == {T \in SUBSET S : \A x \in T : Sum(T) = f[x] + Sum(T \ {x})}
  <1>1. \A T \in SUBSET S : IsFiniteSet(T) /\ Sum(T) \in Nat
    BY FS_Subset, SumType
  <1>2. {} \in G
    OBVIOUS
  <1>3. ASSUME NEW T \in SUBSET S, T # {}, \A x \in T : T \ {x} \in G PROVE T \in G
    <2>1. PICK c \in T : Sum(T) = f[c] + Sum(T \ {c})
      <3>1. IsFiniteSet(T) /\ \A x \in T : f[x] \in Nat
        BY <1>1
      <3>2. First(T) \in T /\ Sum(T) = f[First(T)] + Sum(T \ {First(T)})
        BY ONLY T # {}, <1>3, <3>1, SumChosen
      <3>3. QED BY <3>2
    <2>2. ASSUME NEW x \in T, x # c PROVE Sum(T) = f[x] + Sum(T \ {x})
      <3> DEFINE rest == Sum((T \ {c}) \ {x})
      <3>1. Sum(T \ {c}) = f[x] + rest
        BY <1>3, <2>2
      <3>2. Sum(T \ {x}) = f[c] + rest
        <4>1. (T \ {x}) \ {c} = (T \ {c}) \ {x}
          OBVIOUS
        <4>2. Sum(T \ {x}) = f[c] + Sum((T \ {x}) \ {c})
          BY <1>3, <2>2
        <4>3. QED BY <4>1, <4>2
      <3>3. f[x] \in Nat /\ f[c] \in Nat /\ rest \in Nat
        BY <1>1
      <3> HIDE DEF rest, Sum
      <3>4. QED BY <2>1, <3>1, <3>2, <3>3
    <2>3. QED BY <2>1, <2>2
  <1>4. \A T \in SUBSET S : T \in G
    <2> HIDE DEF G
    <2>1. QED BY <1>2, <1>3, SubsetInduction
  <1>5. QED BY <1>4

\* One more element adds its value.
LEMMA SumAdd ==
  ASSUME NEW S, IsFiniteSet(S), NEW f, NEW x, x \notin S,
         \A y \in S \cup {x} : f[y] \in Nat
  PROVE  SumFunctionOnSet(f, S \cup {x}) = f[x] + SumFunctionOnSet(f, S)
  <1>1. IsFiniteSet(S \cup {x}) /\ (S \cup {x}) \ {x} = S
    BY FS_AddElement
  <1>2. QED BY <1>1, SumRemove

\* A value summed over S is that many times the value.
LEMMA SumConstant ==
  ASSUME NEW S, IsFiniteSet(S), NEW f, NEW k \in Nat, \A x \in S : f[x] = k
  PROVE  SumFunctionOnSet(f, S) = Cardinality(S) * k
  <1> DEFINE Sum(T) == SumFunctionOnSet(f, T)
             G == {T \in SUBSET S : Sum(T) = Cardinality(T) * k}
  <1>1. \A T \in SUBSET S : IsFiniteSet(T) /\ Cardinality(T) \in Nat /\ \A x \in T : f[x] \in Nat
    BY FS_Subset, FS_CardinalityType
  <1>2. {} \in G
    <2>1. Cardinality({}) = 0 /\ 0 * k = 0
      BY FS_EmptySet
    <2>2. QED BY <2>1, SumEmpty
  <1>3. ASSUME NEW T \in SUBSET S, T # {}, \A x \in T : T \ {x} \in G PROVE T \in G
    <2>1. PICK x : x \in T
      BY <1>3
    <2>2. Sum(T) = f[x] + Sum(T \ {x})
      BY <1>1, <2>1, SumRemove
    <2>3. Cardinality(T \ {x}) = Cardinality(T) - 1
      BY <1>1, <2>1, FS_RemoveElement
    <2>4. Sum(T \ {x}) = Cardinality(T \ {x}) * k /\ f[x] = k
      BY <1>3, <2>1
    <2>5. (Cardinality(T) - 1) * k = Cardinality(T) * k - k /\ Cardinality(T) * k \in Int
      BY <1>1
    <2>6. Sum(T) = Cardinality(T) * k
      <3> HIDE DEF Sum
      <3>1. QED BY <2>2, <2>3, <2>4, <2>5
    <2>7. QED BY <2>6
  <1>4. \A T \in SUBSET S : T \in G
    <2> HIDE DEF G
    <2>1. QED BY <1>2, <1>3, SubsetInduction
  <1>5. QED BY <1>4

\* A sum over more elements is not smaller.
LEMMA SumGrows ==
  ASSUME NEW S, IsFiniteSet(S), NEW R \in SUBSET S, NEW f, \A x \in S : f[x] \in Nat
  PROVE  SumFunctionOnSet(f, R) <= SumFunctionOnSet(f, S)
  <1> DEFINE Sum(T) == SumFunctionOnSet(f, T)
             G == {T \in SUBSET S : R \subseteq T => Sum(R) <= Sum(T)}
  <1>1. \A T \in SUBSET S : IsFiniteSet(T) /\ Sum(T) \in Nat
    BY FS_Subset, SumType
  <1>2. {} \in G
    <2>1. R \subseteq {} => R = {}
      OBVIOUS
    <2>2. Sum({}) \in Nat
      BY <1>1
    <2> HIDE DEF Sum
    <2>3. QED BY <2>1, <2>2
  <1>3. ASSUME NEW T \in SUBSET S, T # {}, \A x \in T : T \ {x} \in G PROVE T \in G
    <2>1. SUFFICES ASSUME R \subseteq T PROVE Sum(R) <= Sum(T)
      OBVIOUS
    <2>2. CASE R = T
      <3>1. Sum(T) \in Nat
        BY <1>1
      <3> HIDE DEF Sum
      <3>2. QED BY <2>2, <3>1
    <2>3. CASE R # T
      <3>1. PICK x \in T : x \notin R
        BY <2>1, <2>3
      <3>2. Sum(R) <= Sum(T \ {x})
        BY <1>3, <2>1, <3>1
      <3>3. \A y \in T : f[y] \in Nat
        OBVIOUS
      <3>4. Sum(T) = f[x] + Sum(T \ {x})
        BY <1>1, <3>3, SumRemove
      <3>5. Sum(R) \in Nat /\ Sum(T \ {x}) \in Nat /\ f[x] \in Nat
        BY <1>1
      <3> HIDE DEF Sum
      <3>6. QED BY <3>2, <3>4, <3>5
    <2>4. QED BY <2>2, <2>3
  <1>4. \A T \in SUBSET S : T \in G
    <2> HIDE DEF G
    <2>1. QED BY <1>2, <1>3, SubsetInduction
  <1>5. S \in G
    BY <1>4
  <1>6. QED BY <1>5
=============================================================================
