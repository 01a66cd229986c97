----------------------------- MODULE Induction ------------------------------
(***************************************************************************)
(* Induction over the natural numbers and over finite sets, said of sets:  *)
(* the induction theorems of the library are about an operator, which the  *)
(* provers cannot instantiate; these can be cited with the set of those    *)
(* for which something holds.  With them, sums over a finite set: that     *)
(* they exist, are unique, and how they grow with what is summed.          *)
(***************************************************************************)
EXTENDS Integers, FiniteSetTheorems, WellFoundedInduction, TLAPS

(* A nonempty set of natural numbers has a least element. *)
LEMMA LeastNatural ==
  ASSUME NEW S \in SUBSET Nat, S # {}
  PROVE  \E m \in S : \A n \in S : m <= n
<1> DEFINE R == StrictSubsetOrdering(Nat)
           T == {0..k : k \in S}
<1>1. IsWellFoundedOn(R, FiniteSubsetsOf(Nat))
  BY FS_StrictSubsetOrderingWellFounded
<1>2. T \subseteq FiniteSubsetsOf(Nat)
  <2> SUFFICES ASSUME NEW k \in S PROVE 0..k \in FiniteSubsetsOf(Nat)
    OBVIOUS
  <2>1. 0..k \subseteq Nat /\ IsFiniteSet(0..k)
    BY FS_Interval
  <2> QED
    BY <2>1 DEF FiniteSubsetsOf
<1>3. T # {}
  OBVIOUS
<1>4. PICK x \in T : \A y \in T : ~(<<y, x>> \in R)
  <2> HIDE DEF R, T
  <2> QED
    BY <1>1, <1>2, <1>3, WFMin
<1>5. PICK m \in S : x = 0..m
  OBVIOUS
<1>6. ASSUME NEW n \in S, n < m PROVE FALSE
  <2>1. 0..n \subseteq 0..m /\ 0..n # 0..m /\ 0..m \subseteq Nat
    <3>1. m \in 0..m /\ m \notin 0..n
      BY <1>6
    <3> QED
      BY <1>6, <3>1
  <2>2. <<0..n, 0..m>> \in R
    BY <2>1 DEF StrictSubsetOrdering
  <2> QED
    BY <1>4, <1>5, <2>2
<1> QED
  BY <1>6

(* A nonempty set of integers between two bounds has both extremes. *)
LEMMA LeastOfInterval ==
  ASSUME NEW a \in Int, NEW b \in Int, NEW S \in SUBSET (a..b), S # {}
  PROVE  \E m \in S : \A x \in S : m <= x
<1> DEFINE T == {x - a : x \in S}
<1>1. T \in SUBSET Nat /\ T # {}
  OBVIOUS
<1>2. PICK t \in T : \A u \in T : t <= u
  <2> HIDE DEF T
  <2> QED
    BY <1>1, LeastNatural
<1>3. PICK m \in S : t = m - a
  OBVIOUS
<1>4. ASSUME NEW x \in S PROVE m <= x
  <2>1. x - a \in T
    OBVIOUS
  <2> HIDE DEF T
  <2> QED
    BY <1>2, <1>3, <2>1
<1> QED
  BY <1>4

LEMMA GreatestOfInterval ==
  ASSUME NEW a \in Int, NEW b \in Int, NEW S \in SUBSET (a..b), S # {}
  PROVE  \E m \in S : \A x \in S : m >= x
<1> DEFINE T == {b - x : x \in S}
<1>1. T \in SUBSET Nat /\ T # {}
  OBVIOUS
<1>2. PICK t \in T : \A u \in T : t <= u
  <2> HIDE DEF T
  <2> QED
    BY <1>1, LeastNatural
<1>3. PICK m \in S : t = b - m
  OBVIOUS
<1>4. ASSUME NEW x \in S PROVE m >= x
  <2>1. b - x \in T
    OBVIOUS
  <2> HIDE DEF T
  <2> QED
    BY <1>2, <1>3, <2>1
<1> QED
  BY <1>4

(* Induction up to a bound. *)
LEMMA IntervalInduction ==
  ASSUME NEW n \in Nat, NEW S, 0 \in S,
         \A i \in 1..n : i - 1 \in S => i \in S
  PROVE  0..n \subseteq S
<1> DEFINE Missing == {i \in 0..n : i \notin S}
<1> SUFFICES ASSUME Missing # {} PROVE FALSE
  OBVIOUS
<1>1. PICK m \in Missing : \A i \in Missing : m <= i
  <2>1. Missing \in SUBSET (0..n)
    OBVIOUS
  <2> HIDE DEF Missing
  <2> QED
    BY <2>1, LeastOfInterval
<1>2. m \in 1..n /\ m - 1 \in 0..n
  OBVIOUS
<1>3. m - 1 \notin Missing
  <2> HIDE DEF Missing
  <2> QED
    BY <1>1, <1>2
<1> QED
  BY <1>2, <1>3

-----------------------------------------------------------------------------
(* A loop of n rounds that stays in a set D of states has a run. *)
IsLoop(D, first, n, step) ==
  first \in D /\ n \in Nat /\ step \in [1..n -> [D -> D]]

IsRun(run, D, first, n, step) ==
  /\ run \in [0..n -> D]
  /\ run[0] = first
  /\ \A i \in 1..n : run[i] = step[i][run[i - 1]]

LEMMA LoopHasRun ==
  ASSUME NEW D, NEW first, NEW n, NEW step, IsLoop(D, first, n, step)
  PROVE  \E run : IsRun(run, D, first, n, step)
<1> USE DEF IsLoop
<1> DEFINE Run(k, g) == /\ g \in [0..k -> D]
                        /\ g[0] = first
                        /\ \A i \in 1..k : g[i] = step[i][g[i - 1]]
           S == {k \in 0..n : \E g \in [0..k -> D] : Run(k, g)}
<1>1. 0 \in S
  <2> DEFINE g0 == [i \in 0..0 |-> first]
  <2>1. g0 \in [0..0 -> D] /\ Run(0, g0)
    OBVIOUS
  <2>2. 0 \in 0..n
    OBVIOUS
  <2> HIDE DEF g0, Run
  <2> QED
    BY <2>1, <2>2
<1>2. ASSUME NEW k \in 1..n, k - 1 \in S PROVE k \in S
  <2>1. PICK g \in [0..(k - 1) -> D] : Run(k - 1, g)
    BY <1>2
  <2> DEFINE h == [i \in 0..k |-> IF i = k THEN step[k][g[k - 1]] ELSE g[i]]
  <2>2. g[k - 1] \in D /\ step[k][g[k - 1]] \in D
    BY <2>1
  <2>3. h \in [0..k -> D]
    BY <2>1, <2>2
  <2>4. h[0] = first
    BY <2>1
  <2>5. ASSUME NEW i \in 1..k PROVE h[i] = step[i][h[i - 1]]
    <3>1. i - 1 \in 0..k /\ i - 1 # k /\ h[i - 1] = g[i - 1]
      OBVIOUS
    <3>2. CASE i = k
      BY <3>1, <3>2
    <3>3. CASE i # k
      <4>1. i \in 1..(k - 1) /\ h[i] = g[i]
        BY <3>3
      <4> QED
        BY <2>1, <3>1, <4>1
    <3> QED
      BY <3>2, <3>3
  <2>6. Run(k, h)
    BY <2>3, <2>4, <2>5
  <2>7. k \in 0..n
    OBVIOUS
  <2> HIDE DEF h, Run
  <2> QED
    BY <2>3, <2>6, <2>7
<1>3. 0..n \subseteq S
  <2> HIDE DEF S
  <2> QED
    BY <1>1, <1>2, IntervalInduction
<1>4. n \in S
  <2> HIDE DEF S
  <2> QED
    BY <1>3
<1>5. PICK g \in [0..n -> D] : Run(n, g)
  BY <1>4
<1> QED
  BY <1>5 DEF IsRun

-----------------------------------------------------------------------------
(* Induction over the subsets of a finite set. *)
LEMMA SubsetInduction ==
  ASSUME NEW S, IsFiniteSet(S), NEW P,
         \A T \in SUBSET S : (\A U \in SUBSET T : U # T => U \in P) => T \in P
  PROVE  SUBSET S \subseteq P
<1> DEFINE R == StrictSubsetOrdering(S)
           Missing == {T \in SUBSET S : T \notin P}
<1> SUFFICES ASSUME Missing # {} PROVE FALSE
  OBVIOUS
<1>1. IsWellFoundedOn(R, FiniteSubsetsOf(S)) /\ FiniteSubsetsOf(S) = SUBSET S
  BY FS_StrictSubsetOrderingWellFounded, FS_FiniteSubsetsOfFinite
<1>2. PICK T \in Missing : \A U \in Missing : ~(<<U, T>> \in R)
  <2>1. Missing \subseteq FiniteSubsetsOf(S)
    BY <1>1
  <2> HIDE DEF R, Missing
  <2> QED
    BY <1>1, <2>1, WFMin
<1>3. ASSUME NEW U \in SUBSET T, U # T PROVE U \in P
  <2>1. <<U, T>> \in R
    BY <1>3 DEF StrictSubsetOrdering
  <2> HIDE DEF R
  <2> QED
    BY <1>2, <2>1
<1> QED
  BY <1>3

(***************************************************************************)
(* SumFunctionOnSet adds the values of a function one element at a time,   *)
(* in an order nothing is said of.  The partial sums are those of one      *)
(* function on the subsets, and the order does not matter.                 *)
(***************************************************************************)
Chosen(T) == CHOOSE x \in T : TRUE

IsSumOf(g, S, f) ==
  /\ g \in [SUBSET S -> Int]
  /\ \A T \in SUBSET S :
       g[T] = IF T = {} THEN 0 ELSE f[Chosen(T)] + g[T \ {Chosen(T)}]

LEMMA SumsExist ==
  ASSUME NEW S, IsFiniteSet(S), NEW f \in [S -> Int]
  PROVE  \E g : IsSumOf(g, S, f)
<1> DEFINE D == [SUBSET S -> Int]
           n == Cardinality(S) + 1
           first == [T \in SUBSET S |-> 0]
           next(h) == [T \in SUBSET S |->
                         IF T = {} THEN 0 ELSE f[Chosen(T)] + h[T \ {Chosen(T)}]]
           step == [i \in 1..n |-> [h \in D |-> next(h)]]
<1>1. Cardinality(S) \in Nat /\ n \in Nat
  BY FS_CardinalityType
<1>2. \A T \in SUBSET S : T # {} =>
        /\ Chosen(T) \in T /\ T \ {Chosen(T)} \in SUBSET S
        /\ f[Chosen(T)] \in Int
  BY DEF Chosen
<1>3. \A h \in D : next(h) \in D
  BY <1>2
<1>4. first \in D
  OBVIOUS
<1> HIDE DEF first, next, n
<1>5. step \in [1..n -> [D -> D]]
  BY <1>3
<1>6. \A i \in 1..n : \A h \in D : step[i][h] = next(h)
  OBVIOUS
<1> HIDE DEF step, D
<1>7. PICK run : IsRun(run, D, first, n, step)
  <2>1. IsLoop(D, first, n, step)
    BY <1>1, <1>4, <1>5 DEF IsLoop
  <2> QED
    BY <2>1, LoopHasRun
<1>8. \A i \in 1..n : run[i - 1] \in D /\ run[i] = next(run[i - 1])
  BY <1>1, <1>6, <1>7 DEF IsRun
\* After k rounds the sums of the sets of fewer than k elements are settled.
<1> DEFINE Settled == {k \in 0..(n - 1) : \A T \in SUBSET S :
                          Cardinality(T) < k => run[k + 1][T] = run[k][T]}
<1>9. 0 \in Settled
  <2>1. \A T \in SUBSET S : Cardinality(T) \in Nat
    BY FS_Subset, FS_CardinalityType
  <2> QED
    BY <1>1, <2>1 DEF n
<1>10. ASSUME NEW k \in 1..(n - 1), k - 1 \in Settled PROVE k \in Settled
  <2> SUFFICES ASSUME NEW T \in SUBSET S, Cardinality(T) < k
               PROVE  run[k + 1][T] = run[k][T]
    BY <1>1
  <2>1. /\ run[k + 1] = next(run[k]) /\ run[k] = next(run[k - 1])
    <3>1. k \in 1..n /\ k + 1 \in 1..n /\ (k + 1) - 1 = k
      BY <1>1
    <3> QED
      BY <1>8, <3>1
  <2>2. CASE T = {}
    BY <2>1, <2>2 DEF next
  <2>3. CASE T # {}
    <3> DEFINE U == T \ {Chosen(T)}
    <3>1. U \in SUBSET S /\ Cardinality(U) < k - 1
      <4>1. Chosen(T) \in T
        BY <1>2, <2>3
      <4>2. IsFiniteSet(T)
        BY FS_Subset
      <4>3. Cardinality(U) = Cardinality(T) - 1 /\ Cardinality(T) \in Nat
        BY <4>1, <4>2, FS_RemoveElement, FS_CardinalityType
      <4> HIDE DEF U
      <4>4. Cardinality(U) < k - 1
        BY <1>1, <4>3
      <4> QED
        BY <4>4 DEF U
    <3>2. run[k][U] = run[k - 1][U]
      <4>1. (k - 1) + 1 = k
        BY <1>1
      <4> QED
        BY <1>10, <3>1, <4>1
    <3> QED
      BY <2>1, <2>3, <3>2 DEF next
  <2> QED
    BY <2>2, <2>3
<1>11. 0..(n - 1) \subseteq Settled
  <2>1. n - 1 \in Nat
    BY <1>1 DEF n
  <2> HIDE DEF Settled
  <2> QED
    BY <1>9, <1>10, <2>1, IntervalInduction
<1> DEFINE g == run[n - 1]
<1>12. g \in D /\ run[n] = next(g)
  <2>1. n \in 1..n
    BY <1>1 DEF n
  <2> QED
    BY <1>8, <2>1
<1>13. \A T \in SUBSET S : T # S => run[n][T] = g[T]
  <2> SUFFICES ASSUME NEW T \in SUBSET S, T # S PROVE run[n][T] = g[T]
    OBVIOUS
  <2>1. Cardinality(T) < n - 1
    <3>1. Cardinality(T) <= Cardinality(S) /\ Cardinality(T) # Cardinality(S)
      BY FS_Subset
    <3>2. Cardinality(T) \in Nat
      BY FS_Subset, FS_CardinalityType
    <3> QED
      BY <1>1, <3>1, <3>2 DEF n
  <2>2. n - 1 \in Settled /\ (n - 1) + 1 = n
    <3>1. n - 1 \in 0..(n - 1) /\ (n - 1) + 1 = n
      BY <1>1 DEF n
    <3> HIDE DEF Settled
    <3> QED
      BY <1>11, <3>1
  <2> QED
    BY <2>1, <2>2
\* One more round settles the whole set.
<1>14. next(run[n]) = run[n]
  <2> SUFFICES ASSUME NEW T \in SUBSET S, T # {}
               PROVE  run[n][T \ {Chosen(T)}] = g[T \ {Chosen(T)}]
    BY <1>12 DEF next
  <2>1. T \ {Chosen(T)} \in SUBSET S /\ T \ {Chosen(T)} # S
    BY <1>2
  <2> HIDE DEF g
  <2> QED
    BY <1>13, <2>1
<1>15. run[n] \in D
  <2>1. n \in 0..n
    BY <1>1 DEF n
  <2> QED
    BY <1>7, <2>1 DEF IsRun
<1> DEFINE h == run[n]
<1> HIDE DEF h
<1>16. h \in [SUBSET S -> Int] /\ h = next(h)
  BY <1>14, <1>15 DEF h, D
<1>17. IsSumOf(h, S, f)
  BY <1>16 DEF IsSumOf, next
<1> QED
  BY <1>17

AddsUp(h, T, f) ==
  \A U \in SUBSET T :
    h[U] = IF U = {} THEN 0 ELSE f[Chosen(U)] + h[U \ {Chosen(U)}]

LEMMA SumsAreUnique ==
  ASSUME NEW S, IsFiniteSet(S), NEW f, NEW g, IsSumOf(g, S, f),
         NEW T \in SUBSET S, NEW h, AddsUp(h, T, f)
  PROVE  \A U \in SUBSET T : h[U] = g[U]
<1> DEFINE P == {U \in SUBSET T : h[U] = g[U]}
<1>1. IsFiniteSet(T)
  BY FS_Subset
<1>2. ASSUME NEW U \in SUBSET T, \A V \in SUBSET U : V # U => V \in P
      PROVE  U \in P
  <2>1. CASE U = {}
    BY <2>1 DEF IsSumOf, AddsUp
  <2>2. CASE U # {}
    <3>1. Chosen(U) \in U
      BY <2>2 DEF Chosen
    <3>2. h[U \ {Chosen(U)}] = g[U \ {Chosen(U)}]
      BY <1>2, <3>1
    <3> QED
      BY <2>2, <3>2 DEF IsSumOf, AddsUp
  <2> QED
    BY <2>1, <2>2
<1>3. SUBSET T \subseteq P
  <2> HIDE DEF P
  <2> QED
    BY <1>1, <1>2, SubsetInduction
<1> QED
  BY <1>3

LEMMA SumIsOf ==
  ASSUME NEW S, IsFiniteSet(S), NEW f, NEW g, IsSumOf(g, S, f), NEW T \in SUBSET S
  PROVE  SumFunctionOnSet(f, T) = g[T]
<1> DEFINE Equation(h) ==
             h = [U \in SUBSET T |->
                    IF U = {} THEN 0 ELSE f[Chosen(U)] + h[U \ {Chosen(U)}]]
           sums == CHOOSE h : Equation(h)
<1>1. SumFunctionOnSet(f, T) = sums[T]
  BY DEF SumFunctionOnSet, FoldFunctionOnSet, MapThenFoldSet, Chosen
<1>2. Equation([U \in SUBSET T |-> g[U]])
  <2>1. \A U \in SUBSET T : U \in SUBSET S /\ U \ {Chosen(U)} \in SUBSET T
    OBVIOUS
  <2> QED
    BY <2>1 DEF IsSumOf
<1>3. Equation(sums)
  <2> HIDE DEF Equation
  <2> QED
    BY <1>2
<1> HIDE DEF sums
<1>4. AddsUp(sums, T, f)
  BY <1>3 DEF AddsUp
<1> HIDE DEF Equation
<1>5. \A U \in SUBSET T : sums[U] = g[U]
  BY <1>4, SumsAreUnique
<1> QED
  BY <1>1, <1>5

(* The order does not matter: any element may be the one that is added last. *)
LEMMA SumOrder ==
  ASSUME NEW S, IsFiniteSet(S), NEW f \in [S -> Int], NEW g, IsSumOf(g, S, f),
         NEW U \in SUBSET S, NEW y \in U
  PROVE  g[U] = f[y] + g[U \ {y}]
<1> DEFINE P == {T \in SUBSET S : \A x \in T : g[T] = f[x] + g[T \ {x}]}
<1>1. ASSUME NEW T \in SUBSET S, \A V \in SUBSET T : V # T => V \in P
      PROVE  T \in P
  <2> SUFFICES ASSUME NEW x \in T PROVE g[T] = f[x] + g[T \ {x}]
    OBVIOUS
  <2> DEFINE c == Chosen(T)
  <2>1. c \in T /\ g[T] = f[c] + g[T \ {c}]
    BY DEF Chosen, IsSumOf
  <2> HIDE DEF c
  <2>2. CASE x # c
    <3>1. /\ T \ {c} \in SUBSET T /\ T \ {c} # T /\ x \in T \ {c}
          /\ T \ {x} \in SUBSET T /\ T \ {x} # T /\ c \in T \ {x}
          /\ (T \ {c}) \ {x} = (T \ {x}) \ {c}
      BY <2>1, <2>2
    <3>2. g[T \ {c}] = f[x] + g[(T \ {c}) \ {x}]
      BY <1>1, <3>1
    <3>3. g[T \ {x}] = f[c] + g[(T \ {x}) \ {c}]
      BY <1>1, <3>1
    <3>4. f[x] \in Int /\ f[c] \in Int /\ g[(T \ {x}) \ {c}] \in Int
      BY <2>1 DEF IsSumOf
    <3> DEFINE rest == g[(T \ {x}) \ {c}]
    <3>5. g[T \ {c}] = f[x] + rest /\ g[T \ {x}] = f[c] + rest /\ rest \in Int
      BY <3>1, <3>2, <3>3, <3>4
    <3> HIDE DEF rest
    <3> QED
      BY <2>1, <3>4, <3>5
  <2> QED
    BY <2>1, <2>2
<1>2. SUBSET S \subseteq P
  <2> HIDE DEF P
  <2> QED
    BY <1>1, SubsetInduction
<1>3. U \in P
  <2> HIDE DEF P
  <2> QED
    BY <1>2
<1> QED
  BY <1>3

(* What SumFunctionOnSet does: it is nothing over nothing, and any element *)
(* adds its value to what the others make.                                 *)
LEMMA SumStep ==
  ASSUME NEW S, IsFiniteSet(S), NEW f \in [S -> Int]
  PROVE  /\ SumFunctionOnSet(f, {}) = 0
         /\ \A T \in SUBSET S :
              /\ SumFunctionOnSet(f, T) \in Int
              /\ \A x \in T :
                   SumFunctionOnSet(f, T) = f[x] + SumFunctionOnSet(f, T \ {x})
<1>1. PICK g : IsSumOf(g, S, f)
  BY SumsExist
<1>2. \A T \in SUBSET S : SumFunctionOnSet(f, T) = g[T]
  BY <1>1, SumIsOf
<1>3. ASSUME NEW T \in SUBSET S, NEW x \in T
      PROVE  g[T] = f[x] + g[T \ {x}]
  BY <1>1, SumOrder
<1>4. g[{}] = 0 /\ \A T \in SUBSET S : g[T] \in Int
  BY <1>1 DEF IsSumOf
<1>5. {} \in SUBSET S /\ \A T \in SUBSET S : \A x \in T : T \ {x} \in SUBSET S
  OBVIOUS
<1> QED
  BY <1>2, <1>3, <1>4, <1>5

(* A sum grows with what is added. *)
LEMMA SumGrows ==
  ASSUME NEW S, IsFiniteSet(S), NEW f \in [S -> Int],
         NEW R, IsFiniteSet(R), NEW h \in [R -> Int],
         NEW T, T \subseteq S, T \subseteq R, \A x \in T : f[x] <= h[x]
  PROVE  SumFunctionOnSet(f, T) <= SumFunctionOnSet(h, T)
<1> DEFINE P == {U \in SUBSET T : SumFunctionOnSet(f, U) <= SumFunctionOnSet(h, U)}
<1>1. IsFiniteSet(T)
  BY FS_Subset
<1>2. ASSUME NEW U \in SUBSET T, \A V \in SUBSET U : V # U => V \in P
      PROVE  U \in P
  <2>1. CASE U = {}
    BY <2>1, SumStep
  <2>2. CASE U # {}
    <3>1. PICK x \in U : TRUE
      BY <2>2
    <3> DEFINE V == U \ {x}
    <3>2. SumFunctionOnSet(f, V) <= SumFunctionOnSet(h, V)
      BY <1>2
    <3>3. /\ SumFunctionOnSet(f, U) = f[x] + SumFunctionOnSet(f, V)
          /\ SumFunctionOnSet(h, U) = h[x] + SumFunctionOnSet(h, V)
      BY SumStep
    <3>4. SumFunctionOnSet(f, V) \in Int /\ SumFunctionOnSet(h, V) \in Int
      BY SumStep
    <3>5. f[x] \in Int /\ h[x] \in Int /\ f[x] <= h[x]
      OBVIOUS
    <3> HIDE DEF V
    <3> QED
      BY <3>2, <3>3, <3>4, <3>5
  <2> QED
    BY <2>1, <2>2
<1>3. SUBSET T \subseteq P
  <2> HIDE DEF P
  <2> QED
    BY <1>1, <1>2, SubsetInduction
<1> QED
  BY <1>3

(* One value changes and no other grows: the sum grows by no more than the *)
(* difference.                                                             *)
LEMMA SumGrowsAtOne ==
  ASSUME NEW S, IsFiniteSet(S), NEW f \in [S -> Int], NEW h \in [S -> Int],
         NEW x \in S, \A y \in S : y # x => h[y] <= f[y]
  PROVE  SumFunctionOnSet(h, S) <= SumFunctionOnSet(f, S) + (h[x] - f[x])
<1> DEFINE T == S \ {x}
<1>1. /\ SumFunctionOnSet(f, S) = f[x] + SumFunctionOnSet(f, T)
      /\ SumFunctionOnSet(h, S) = h[x] + SumFunctionOnSet(h, T)
  BY SumStep
<1>2. SumFunctionOnSet(f, T) \in Int /\ SumFunctionOnSet(h, T) \in Int
  BY SumStep
<1>3. SumFunctionOnSet(h, T) <= SumFunctionOnSet(f, T)
  BY SumGrows
<1>4. f[x] \in Int /\ h[x] \in Int
  OBVIOUS
<1> HIDE DEF T
<1> QED
  BY <1>1, <1>2, <1>3, <1>4

(* Sums over a finite set, of which the functions summed have something    *)
(* to say element by element.                                              *)
LEMMA SumBound ==
  ASSUME NEW S, IsFiniteSet(S), NEW f \in [S -> Int], NEW g \in [S -> Int],
         NEW a \in Int, NEW b \in Int, NEW c \in Int,
         \A x \in S : a * f[x] <= b * g[x] + c
  PROVE  a * SumFunctionOnSet(f, S) <= b * SumFunctionOnSet(g, S) + c * Cardinality(S)
<1> DEFINE P == {U \in SUBSET S :
                  a * SumFunctionOnSet(f, U)
                    <= b * SumFunctionOnSet(g, U) + c * Cardinality(U)}
<1>1. ASSUME NEW U \in SUBSET S, \A V \in SUBSET U : V # U => V \in P
      PROVE  U \in P
  <2>1. CASE U = {}
    <3>1. SumFunctionOnSet(f, U) = 0 /\ SumFunctionOnSet(g, U) = 0 /\ Cardinality(U) = 0
      BY <2>1, SumStep, FS_EmptySet
    <3>2. a * 0 <= b * 0 + c * 0
      OBVIOUS
    <3> QED
      BY <3>1, <3>2
  <2>2. CASE U # {}
    <3>1. PICK x \in U : TRUE
      BY <2>2
    <3> DEFINE V == U \ {x}
               fV == SumFunctionOnSet(f, V)
               gV == SumFunctionOnSet(g, V)
               n == Cardinality(V)
    <3>2. a * fV <= b * gV + c * n
      BY <1>1
    <3>3. /\ SumFunctionOnSet(f, U) = f[x] + fV
          /\ SumFunctionOnSet(g, U) = g[x] + gV
          /\ fV \in Int /\ gV \in Int /\ f[x] \in Int /\ g[x] \in Int
      BY SumStep
    <3>4. Cardinality(U) = n + 1 /\ n \in Nat
      <4>1. IsFiniteSet(U) /\ IsFiniteSet(V)
        BY FS_Subset
      <4>2. Cardinality(V) = Cardinality(U) - 1
        BY <3>1, <4>1, FS_RemoveElement
      <4>3. Cardinality(V) \in Nat /\ Cardinality(U) \in Nat
        BY <4>1, FS_CardinalityType
      <4> QED
        BY <4>2, <4>3
    <3>5. a * f[x] <= b * g[x] + c
      OBVIOUS
    <3> HIDE DEF V, fV, gV, n
    <3>6. \A p, q, r, s, t \in Int :
            /\ a * (p + q) = a * p + a * q
            /\ b * (r + s) = b * r + b * s
            /\ c * (t + 1) = c * t + c
            /\ a * p \in Int /\ a * q \in Int /\ b * r \in Int /\ b * s \in Int
            /\ c * t \in Int
      OBVIOUS
    <3>7. a * (f[x] + fV) = a * f[x] + a * fV /\ b * (g[x] + gV) = b * g[x] + b * gV
          /\ c * (n + 1) = c * n + c
          /\ a * f[x] \in Int /\ a * fV \in Int /\ b * g[x] \in Int /\ b * gV \in Int
          /\ c * n \in Int
      BY <3>3, <3>4, <3>6
    <3>8. a * (f[x] + fV) <= b * (g[x] + gV) + c * (n + 1)
      BY <3>2, <3>5, <3>7
    <3> QED
      BY <3>3, <3>4, <3>8
  <2> QED
    BY <2>1, <2>2
<1>2. SUBSET S \subseteq P
  <2> HIDE DEF P
  <2> QED
    BY <1>1, SubsetInduction
<1>3. S \in P
  <2> HIDE DEF P
  <2> QED
    BY <1>2
<1> QED
  BY <1>3

(* The sum of differences is the difference of the sums. *)
LEMMA SumDifference ==
  ASSUME NEW S, IsFiniteSet(S),
         NEW f \in [S -> Int], NEW g \in [S -> Int], NEW h \in [S -> Int],
         \A x \in S : f[x] = g[x] - h[x]
  PROVE  SumFunctionOnSet(f, S) = SumFunctionOnSet(g, S) - SumFunctionOnSet(h, S)
<1> DEFINE P == {U \in SUBSET S :
                  SumFunctionOnSet(f, U)
                    = SumFunctionOnSet(g, U) - SumFunctionOnSet(h, U)}
<1>1. ASSUME NEW U \in SUBSET S, \A V \in SUBSET U : V # U => V \in P
      PROVE  U \in P
  <2>1. CASE U = {}
    BY <2>1, SumStep
  <2>2. CASE U # {}
    <3>1. PICK x \in U : TRUE
      BY <2>2
    <3> DEFINE V == U \ {x}
    <3>2. SumFunctionOnSet(f, V) = SumFunctionOnSet(g, V) - SumFunctionOnSet(h, V)
      BY <1>1
    <3>3. /\ SumFunctionOnSet(f, U) = f[x] + SumFunctionOnSet(f, V)
          /\ SumFunctionOnSet(g, U) = g[x] + SumFunctionOnSet(g, V)
          /\ SumFunctionOnSet(h, U) = h[x] + SumFunctionOnSet(h, V)
      BY SumStep
    <3>4. /\ SumFunctionOnSet(f, V) \in Int /\ SumFunctionOnSet(g, V) \in Int
          /\ SumFunctionOnSet(h, V) \in Int
      BY SumStep
    <3>5. f[x] \in Int /\ g[x] \in Int /\ h[x] \in Int /\ f[x] = g[x] - h[x]
      OBVIOUS
    <3> HIDE DEF V
    <3> QED
      BY <3>2, <3>3, <3>4, <3>5
  <2> QED
    BY <2>1, <2>2
<1>2. SUBSET S \subseteq P
  <2> HIDE DEF P
  <2> QED
    BY <1>1, SubsetInduction
<1>3. S \in P
  <2> HIDE DEF P
  <2> QED
    BY <1>2
<1> QED
  BY <1>3

(* A part of a sum of naturals is no more than the whole. *)
LEMMA SumOfPart ==
  ASSUME NEW S, IsFiniteSet(S), NEW f \in [S -> Nat], NEW T \in SUBSET S
  PROVE  /\ SumFunctionOnSet(f, T) <= SumFunctionOnSet(f, S)
         /\ SumFunctionOnSet(f, T) \in Nat
<1> DEFINE P == {U \in SUBSET S :
                  /\ SumFunctionOnSet(f, U \cap T) <= SumFunctionOnSet(f, U)
                  /\ SumFunctionOnSet(f, U \cap T) \in Nat}
<1>0. f \in [S -> Int]
  OBVIOUS
<1>1. ASSUME NEW U \in SUBSET S, \A V \in SUBSET U : V # U => V \in P
      PROVE  U \in P
  <2>1. CASE U = {}
    BY <2>1, <1>0, SumStep
  <2>2. CASE U # {}
    <3>1. PICK x \in U : TRUE
      BY <2>2
    <3> DEFINE V == U \ {x}
    <3>2. /\ SumFunctionOnSet(f, V \cap T) <= SumFunctionOnSet(f, V)
          /\ SumFunctionOnSet(f, V \cap T) \in Nat
      BY <1>1
    <3>3. /\ SumFunctionOnSet(f, U) = f[x] + SumFunctionOnSet(f, V)
          /\ SumFunctionOnSet(f, V) \in Int /\ f[x] \in Nat
      BY <1>0, SumStep
    <3>4. CASE x \in T
      <4>1. SumFunctionOnSet(f, U \cap T)
              = f[x] + SumFunctionOnSet(f, (U \cap T) \ {x})
        BY <1>0, <3>4, SumStep
      <4>2. (U \cap T) \ {x} = V \cap T
        OBVIOUS
      <4> HIDE DEF V
      <4> QED
        BY <3>2, <3>3, <4>1, <4>2
    <3>5. CASE x \notin T
      <4>1. U \cap T = V \cap T
        BY <3>5
      <4> HIDE DEF V
      <4> QED
        BY <3>2, <3>3, <4>1
    <3> QED
      BY <3>4, <3>5
  <2> QED
    BY <2>1, <2>2
<1>2. SUBSET S \subseteq P
  <2> HIDE DEF P
  <2> QED
    BY <1>1, SubsetInduction
<1>3. S \in P /\ S \cap T = T
  <2> HIDE DEF P
  <2> QED
    BY <1>2
<1> QED
  BY <1>3

=============================================================================
