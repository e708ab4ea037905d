----------------------------- MODULE DataFacts -----------------------------
(***************************************************************************)
(* Facts about data for the proofs of the other modules: induction on the  *)
(* natural numbers and on a measure, recursive definitions, sums over      *)
(* finite sets, folds over sequences, concatenation, and the places of an  *)
(* element in a sequence.                                                  *)
(*                                                                         *)
(* The induction theorems of the library quantify over a predicate; here a *)
(* SET of values stands for it, and everything follows from the pigeonhole *)
(* principle for finite sets.                                              *)
(***************************************************************************)
EXTENDS Integers, Sequences, FiniteSets, SequencesExt,
        FiniteSetTheorems, SequenceTheorems, TLAPS

-----------------------------------------------------------------------------
(* Induction: a set with 0 in it, and n + 1 with every n, has every        *)
(* natural number.  Were m missing, k |-> k + 1 would map its elements up  *)
(* to m, one to one, to fewer.                                             *)
LEMMA SetInduction ==
  ASSUME NEW S, 0 \in S, \A n \in Nat : n \in S => n + 1 \in S
  PROVE  Nat \subseteq S
<1> SUFFICES ASSUME NEW m \in Nat, m \notin S PROVE FALSE
  OBVIOUS
<1> DEFINE A == (0..m) \cap S
           f == [k \in A |-> k + 1]
<1>1. IsFiniteSet(A)
  <2>1. IsFiniteSet(0..m)
    BY FS_Interval
  <2>2. A \in SUBSET (0..m)
    OBVIOUS
  <2> HIDE DEF A
  <2> QED
    BY <2>1, <2>2, FS_Subset
<1>2. IsFiniteSet(A \ {0}) /\ Cardinality(A \ {0}) < Cardinality(A)
  <2>1. 0 \in A
    OBVIOUS
  <2> HIDE DEF A, f
  <2>2. Cardinality(A) \in Nat
    BY <1>1, FS_CardinalityType
  <2>3. /\ IsFiniteSet(A \ {0})
        /\ Cardinality(A \ {0}) = IF 0 \in A THEN Cardinality(A) - 1 ELSE Cardinality(A)
    BY <1>1, FS_RemoveElement
  <2> QED
    BY <2>1, <2>2, <2>3
<1>3. f \in [A -> A \ {0}]
  <2>1. ASSUME NEW k \in A PROVE k + 1 \in A \ {0}
    <3>1. k \in Nat /\ k \in S /\ k <= m /\ k # m
      OBVIOUS
    <3>2. k + 1 \in S /\ k + 1 \in 0..m /\ k + 1 # 0
      BY <3>1
    <3> QED
      BY <3>2
  <2> HIDE DEF A
  <2> QED
    BY <2>1
<1>4. PICK x, y \in A : x # y /\ f[x] = f[y]
  <2> HIDE DEF A, f
  <2> QED
    BY <1>1, <1>2, <1>3, FS_PigeonHole
<1>5. \A k \in A : k \in Nat /\ f[k] = k + 1
  OBVIOUS
<1> HIDE DEF A, f
<1> QED
  BY <1>4, <1>5

(* A set of natural numbers that is not empty has a least element.         *)
LEMMA Least ==
  ASSUME NEW T \in SUBSET Nat, T # {}
  PROVE  \E x \in T : \A y \in T : x <= y
<1> SUFFICES ASSUME \A x \in T : \E y \in T : y < x PROVE FALSE
  OBVIOUS
<1> DEFINE S == {n \in Nat : \A k \in 0..n : k \notin T}
<1>1. 0 \in S
  OBVIOUS
<1>2. ASSUME NEW n \in Nat, n \in S PROVE n + 1 \in S
  <2>1. \A k \in 0..(n + 1) : k \in 0..n \/ k = n + 1
    OBVIOUS
  <2>2. n + 1 \notin T
    <3> SUFFICES ASSUME n + 1 \in T PROVE FALSE
      OBVIOUS
    <3>1. PICK y \in T : y < n + 1
      OBVIOUS
    <3>2. y \in 0..n
      BY <3>1
    <3> QED
      BY <1>2, <3>2
  <2> QED
    BY <1>2, <2>1, <2>2
<1>3. Nat \subseteq S
  <2> HIDE DEF S
  <2> QED BY <1>1, <1>2, SetInduction
<1>4. \A n \in Nat : n \in 0..n
  OBVIOUS
<1> QED
  BY <1>3, <1>4

-----------------------------------------------------------------------------
Steps(V) == [Nat \X V -> V]

IteratesTo(f, base, step) == f[0] = base /\ \A n \in Nat : f[n + 1] = step[<<n, f[n]>>]

(* Primitive recursion defines a function on the natural numbers.          *)
LEMMA NatRecursion ==
  ASSUME NEW V, NEW base \in V, NEW step \in Steps(V)
  PROVE  \E f \in [Nat -> V] : IteratesTo(f, base, step)
<1> USE DEF Steps, IteratesTo
<1> DEFINE Upto(n, g) == /\ g \in [0..n -> V] /\ g[0] = base
                         /\ \A k \in 0..(n - 1) : g[k + 1] = step[<<k, g[k]>>]
<1>1. \A n \in Nat : \E g : Upto(n, g)
  <2> DEFINE S == {n \in Nat : \E g : Upto(n, g)}
  <2>1. 0 \in S
    <3>1. Upto(0, [k \in 0..0 |-> base])
      OBVIOUS
    <3> QED
      BY <3>1
  <2>2. ASSUME NEW n \in Nat, n \in S PROVE n + 1 \in S
    <3>1. PICK g : Upto(n, g)
      BY <2>2
    <3> DEFINE h == [k \in 0..(n + 1) |-> IF k <= n THEN g[k] ELSE step[<<n, g[n]>>]]
    <3>2. g[n] \in V /\ <<n, g[n]>> \in Nat \X V
      BY <3>1
    <3>3. step[<<n, g[n]>>] \in V
      BY <3>2
    <3>4. h \in [0..(n + 1) -> V] /\ h[0] = base
      BY <3>1, <3>3
    <3>5. ASSUME NEW k \in 0..n PROVE h[k + 1] = step[<<k, h[k]>>]
      <4>1. CASE k = n
        <5>1. k + 1 \in 0..(n + 1) /\ ~(k + 1 <= n) /\ k \in 0..(n + 1) /\ k <= n
          BY <4>1
        <5> QED
          BY <4>1, <5>1
      <4>2. CASE k < n
        <5>1. k \in 0..(n - 1) /\ k + 1 <= n /\ k + 1 \in 0..(n + 1) /\ k \in 0..(n + 1)
          BY <4>2
        <5>2. g[k + 1] = step[<<k, g[k]>>]
          BY <3>1, <5>1
        <5> QED
          BY <5>1, <5>2
      <4> QED
        BY <4>1, <4>2
    <3>6. (n + 1) - 1 = n
      OBVIOUS
    <3> HIDE DEF h
    <3>7. Upto(n + 1, h)
      BY <3>4, <3>5, <3>6
    <3> QED
      BY <3>7
  <2>3. Nat \subseteq S
    <3> HIDE DEF S
    <3> QED BY <2>1, <2>2, SetInduction
  <2> QED
    BY <2>3
<1>2. ASSUME NEW m \in Nat, NEW n \in Nat, NEW g, NEW h, Upto(m, g), Upto(n, h),
             NEW k \in Nat, k <= m, k <= n
      PROVE  g[k] = h[k]
  <2> DEFINE S == {i \in Nat : i <= m /\ i <= n => g[i] = h[i]}
  <2>1. 0 \in S
    BY <1>2
  <2>2. ASSUME NEW i \in Nat, i \in S PROVE i + 1 \in S
    <3> SUFFICES ASSUME i + 1 <= m, i + 1 <= n PROVE g[i + 1] = h[i + 1]
      OBVIOUS
    <3>1. i \in 0..(m - 1) /\ i \in 0..(n - 1) /\ g[i] = h[i]
      BY <2>2
    <3> QED
      BY <1>2, <3>1
  <2>3. Nat \subseteq S
    <3> HIDE DEF S
    <3> QED BY <2>1, <2>2, SetInduction
  <2> QED
    BY <1>2, <2>3
<1> DEFINE part == [n \in Nat |-> CHOOSE g : Upto(n, g)]
           f == [n \in Nat |-> part[n][n]]
<1>3. \A n \in Nat : Upto(n, part[n])
  <2> SUFFICES ASSUME NEW n \in Nat PROVE Upto(n, CHOOSE g : Upto(n, g))
    OBVIOUS
  <2> HIDE DEF Upto
  <2> QED
    BY <1>1
<1>4. f \in [Nat -> V]
  <2> SUFFICES ASSUME NEW n \in Nat PROVE part[n][n] \in V
    OBVIOUS
  <2> HIDE DEF part
  <2>1. part[n] \in [0..n -> V]
    BY <1>3
  <2> QED
    BY <2>1
<1>5. f[0] = base
  <2> HIDE DEF part
  <2> QED
    BY <1>3
<1>6. ASSUME NEW n \in Nat PROVE f[n + 1] = step[<<n, f[n]>>]
  <2> HIDE DEF part
  <2>1. f[n + 1] = part[n + 1][n + 1] /\ f[n] = part[n][n]
    OBVIOUS
  <2>2. n \in 0..((n + 1) - 1)
    OBVIOUS
  <2>3. part[n + 1][n + 1] = step[<<n, part[n + 1][n]>>]
    BY <1>3, <2>2
  <2>4. part[n + 1][n] = part[n][n]
    <3> HIDE DEF Upto
    <3> QED
      BY <1>2, <1>3
  <2> QED
    BY <2>1, <2>3, <2>4
<1> HIDE DEF f
<1> QED
  BY <1>4, <1>5, <1>6

(* A function on D whose value at x is determined by its values at the     *)
(* points with a smaller measure.                                          *)
Recurs(step, mu, D, V) ==
  /\ mu \in [D -> Nat] /\ step \in [D \X [D -> V] -> V] /\ V # {}
  /\ \A x \in D : \A g, h \in [D -> V] :
       (\A y \in D : mu[y] < mu[x] => g[y] = h[y]) => step[<<x, g>>] = step[<<x, h>>]

Solves(f, step, D) == \A x \in D : f[x] = step[<<x, f>>]

(* A function is defined by recursion on a measure of its argument: it is  *)
(* the limit of the functions that one more unfolding makes right for one  *)
(* more value of the measure.                                              *)
LEMMA Recursion ==
  ASSUME NEW D, NEW V, NEW mu, NEW step, Recurs(step, mu, D, V)
  PROVE  \E f \in [D -> V] : Solves(f, step, D)
<1> USE DEF Recurs, Solves
<1>1. PICK v \in V : TRUE
  OBVIOUS
<1> DEFINE Vs == [D -> V]
           again == [p \in Nat \X Vs |-> [x \in D |-> step[<<x, p[2]>>]]]
           first == [x \in D |-> v]
<1>2. first \in Vs /\ again \in [Nat \X Vs -> Vs]
  OBVIOUS
<1>3. PICK F \in [Nat -> Vs] : IteratesTo(F, first, again)
  <2>1. again \in Steps(Vs)
    BY <1>2 DEF Steps
  <2> HIDE DEF Vs, again, first
  <2> QED
    BY <1>2, <2>1, NatRecursion
<1>4. ASSUME NEW n \in Nat, NEW x \in D
      PROVE  F[n + 1][x] = step[<<x, F[n]>>] /\ F[n] \in [D -> V]
  <2>1. F[n] \in Vs
    <3> HIDE DEF Vs
    <3> QED
      OBVIOUS
  <2> DEFINE p == <<n, F[n]>>
  <2>2. p \in Nat \X Vs /\ p[2] = F[n]
    <3> HIDE DEF Vs
    <3> QED
      BY <2>1
  <2>3. again[p] = [y \in D |-> step[<<y, p[2]>>]]
    <3> HIDE DEF p, Vs
    <3> QED
      BY <2>2
  <2>4. F[n + 1] = again[p]
    <3> HIDE DEF Vs, again
    <3> QED
      BY <1>3 DEF IteratesTo
  <2> HIDE DEF again, p
  <2>5. F[n + 1][x] = step[<<x, F[n]>>]
    BY <2>2, <2>3, <2>4
  <2> QED
    BY <2>1, <2>5
<1> HIDE DEF Vs, again, first
<1> DEFINE Settled == {n \in Nat : \A x \in D : mu[x] < n => F[n + 1][x] = F[n][x]}
<1>5. Nat \subseteq Settled
  <2>1. 0 \in Settled
    OBVIOUS
  <2>2. ASSUME NEW n \in Nat, n \in Settled PROVE n + 1 \in Settled
    <3> SUFFICES ASSUME NEW x \in D, mu[x] < n + 1
                 PROVE  F[(n + 1) + 1][x] = F[n + 1][x]
      OBVIOUS
    <3>1. \A y \in D : mu[y] < mu[x] => F[n + 1][y] = F[n][y]
      <4> SUFFICES ASSUME NEW y \in D, mu[y] < mu[x] PROVE F[n + 1][y] = F[n][y]
        OBVIOUS
      <4>1. mu[y] < n
        OBVIOUS
      <4> QED
        BY <2>2, <4>1
    <3>2. F[n] \in [D -> V] /\ F[n + 1] \in [D -> V] /\ n + 1 \in Nat
      <4>1. n + 1 \in Nat
        OBVIOUS
      <4> QED
        BY <1>4, <4>1
    <3>3. step[<<x, F[n + 1]>>] = step[<<x, F[n]>>]
      BY <3>1, <3>2
    <3>4. F[(n + 1) + 1][x] = step[<<x, F[n + 1]>>]
      BY <1>4, <3>2
    <3>5. F[n + 1][x] = step[<<x, F[n]>>]
      BY <1>4
    <3> QED
      BY <3>3, <3>4, <3>5
  <2> HIDE DEF Settled
  <2> QED
    BY <2>1, <2>2, SetInduction
<1>6. ASSUME NEW x \in D, NEW n \in Nat PROVE F[mu[x] + 1 + n][x] = F[mu[x] + 1][x]
  <2> DEFINE Same == {i \in Nat : F[mu[x] + 1 + i][x] = F[mu[x] + 1][x]}
  <2>1. 0 \in Same
    OBVIOUS
  <2>2. ASSUME NEW i \in Nat, i \in Same PROVE i + 1 \in Same
    <3>1. mu[x] + 1 + i \in Nat /\ mu[x] < mu[x] + 1 + i
      OBVIOUS
    <3>2. F[(mu[x] + 1 + i) + 1][x] = F[mu[x] + 1 + i][x]
      BY <1>5, <3>1
    <3>3. mu[x] + 1 + (i + 1) = (mu[x] + 1 + i) + 1
      OBVIOUS
    <3> HIDE DEF Settled
    <3>4. F[mu[x] + 1 + (i + 1)][x] = F[mu[x] + 1][x]
      BY <2>2, <3>2, <3>3
    <3> QED
      BY <3>4
  <2> HIDE DEF Same
  <2>3. Nat \subseteq Same
    BY <2>1, <2>2, SetInduction
  <2> QED
    BY <2>3 DEF Same
<1> DEFINE f == [x \in D |-> F[mu[x] + 1][x]]
<1>7. f \in [D -> V]
  <2> SUFFICES ASSUME NEW x \in D PROVE F[mu[x] + 1][x] \in V
    OBVIOUS
  <2>1. mu[x] + 1 \in Nat
    OBVIOUS
  <2> QED
    BY <1>4, <2>1
<1>8. ASSUME NEW x \in D PROVE f[x] = step[<<x, f>>]
  <2>1. f[x] = step[<<x, F[mu[x]]>>]
    BY <1>4
  <2>2. ASSUME NEW y \in D, mu[y] < mu[x] PROVE F[mu[x]][y] = f[y]
    <3>1. mu[x] - (mu[y] + 1) \in Nat /\ mu[y] + 1 + (mu[x] - (mu[y] + 1)) = mu[x]
      BY <2>2
    <3>2. F[mu[y] + 1 + (mu[x] - (mu[y] + 1))][y] = F[mu[y] + 1][y]
      BY <1>6, <3>1
    <3> QED
      BY <3>1, <3>2
  <2>3. F[mu[x]] \in [D -> V]
    BY <1>4
  <2> HIDE DEF f
  <2> QED
    BY <1>7, <2>1, <2>2, <2>3
<1> HIDE DEF f
<1> QED
  BY <1>7, <1>8

(* Induction on a measure: what holds of x whenever it holds of all that   *)
(* measure less holds of all.                                              *)
LEMMA MeasureInduction ==
  ASSUME NEW D, NEW mu \in [D -> Nat], NEW H \in SUBSET D,
         \A x \in D : (\A y \in D : mu[y] < mu[x] => y \in H) => x \in H
  PROVE  H = D
<1> SUFFICES ASSUME NEW z \in D, z \notin H PROVE FALSE
  OBVIOUS
<1> DEFINE T == {mu[x] : x \in D \ H}
<1>1. PICK n \in T : \A m \in T : n <= m
  <2>1. T \in SUBSET Nat /\ T # {}
    OBVIOUS
  <2> HIDE DEF T
  <2> QED
    BY <2>1, Least
<1>2. PICK x \in D \ H : n = mu[x]
  OBVIOUS
<1>3. \A y \in D : mu[y] < mu[x] => y \in H
  BY SMTT(30), <1>1, <1>2
<1> QED
  BY <1>2, <1>3

-----------------------------------------------------------------------------
(* Sums over a finite set, SumFunctionOnSet of the community modules: the  *)
(* recursive function g that it is defined by, on the subsets of S.        *)
Pick(s) == CHOOSE x \in s : TRUE

Adds(g, F, S) ==
  /\ DOMAIN g = SUBSET S
  /\ \A T \in SUBSET S : g[T] = IF T = {} THEN 0 ELSE F[Pick(T)] + g[T \ {Pick(T)}]

IntOn(F, S) == IsFiniteSet(S) /\ \A x \in S : F[x] \in Int

(* Without one of its elements a set is smaller. *)
LEMMA SubsetSize ==
  ASSUME NEW S, IsFiniteSet(S), NEW T \in SUBSET S, NEW x \in T
  PROVE  /\ IsFiniteSet(T) /\ Cardinality(T) \in Nat
         /\ Cardinality(T \ {x}) \in Nat /\ Cardinality(T \ {x}) < Cardinality(T)
<1>1. IsFiniteSet(T)
  BY FS_Subset
<1>2. Cardinality(T) \in Nat
  BY <1>1, FS_CardinalityType
<1>3. IsFiniteSet(T \ {x}) /\ Cardinality(T \ {x}) = Cardinality(T) - 1
  BY <1>1, FS_RemoveElement
<1>4. Cardinality(T \ {x}) \in Nat
  BY <1>3, FS_CardinalityType
<1> QED
  BY <1>1, <1>2, <1>3, <1>4

(* What holds of a subset of S whenever it holds of its own subsets holds  *)
(* of all.                                                                 *)
LEMMA SubsetInduction ==
  ASSUME NEW S, IsFiniteSet(S), NEW H \in SUBSET (SUBSET S),
         \A T \in SUBSET S : (\A U \in SUBSET T : U # T => U \in H) => T \in H
  PROVE  H = SUBSET S
<1> DEFINE D == SUBSET S
           mu == [T \in D |-> Cardinality(T)]
<1>1. \A T \in D : IsFiniteSet(T) /\ Cardinality(T) \in Nat
  BY FS_Subset, FS_CardinalityType
<1>2. mu \in [D -> Nat]
  BY <1>1
<1>3. ASSUME NEW T \in D, \A U \in D : mu[U] < mu[T] => U \in H PROVE T \in H
  <2>1. ASSUME NEW U \in SUBSET T, U # T PROVE U \in H
    <3>1. IsFiniteSet(T) /\ U \in D
      BY <1>1
    <3>2. Cardinality(U) <= Cardinality(T) /\ Cardinality(U) # Cardinality(T)
      BY <2>1, <3>1, FS_Subset
    <3>3. Cardinality(U) < Cardinality(T)
      BY <1>1, <3>1, <3>2
    <3> QED
      BY <1>3, <3>1, <3>3
  <2> QED
    BY <2>1
<1> HIDE DEF D, mu
<1>4. H \in SUBSET D
  BY DEF D
<1>5. H = D
  BY <1>2, <1>3, <1>4, MeasureInduction
<1> QED
  BY <1>5 DEF D

(* There is such a g. *)
LEMMA AddsExists ==
  ASSUME NEW S, NEW F, IntOn(F, S)
  PROVE  \E g : Adds(g, F, S)
<1> DEFINE D == SUBSET S
           mu == [T \in D |-> Cardinality(T)]
           step == [p \in D \X [D -> Int] |->
                      IF p[1] = {} THEN 0 ELSE F[Pick(p[1])] + p[2][p[1] \ {Pick(p[1])}]]
<1>1. \A T \in D : T # {} => Pick(T) \in T /\ T \ {Pick(T)} \in D /\ F[Pick(T)] \in Int
  BY DEF Pick, IntOn
<1>2. mu \in [D -> Nat]
  BY FS_Subset, FS_CardinalityType DEF IntOn
<1>3. ASSUME NEW T \in D, NEW g \in [D -> Int]
      PROVE  step[<<T, g>>] = IF T = {} THEN 0 ELSE F[Pick(T)] + g[T \ {Pick(T)}]
  OBVIOUS
<1>4. step \in [D \X [D -> Int] -> Int]
  <2> SUFFICES ASSUME NEW T \in D, NEW g \in [D -> Int]
               PROVE  (IF T = {} THEN 0 ELSE F[Pick(T)] + g[T \ {Pick(T)}]) \in Int
    OBVIOUS
  <2> QED
    BY <1>1
<1>5. ASSUME NEW T \in D, NEW g \in [D -> Int], NEW h \in [D -> Int],
             \A U \in D : mu[U] < mu[T] => g[U] = h[U]
      PROVE  step[<<T, g>>] = step[<<T, h>>]
  <2>1. CASE T = {}
    BY <1>3, <2>1
  <2>2. CASE T # {}
    <3>1. mu[T \ {Pick(T)}] < mu[T]
      BY <1>1, <2>2, SubsetSize DEF IntOn
    <3>2. g[T \ {Pick(T)}] = h[T \ {Pick(T)}]
      BY <1>1, <1>5, <2>2, <3>1
    <3> HIDE DEF step, D, mu
    <3> QED
      BY <1>3, <2>2, <3>2
  <2> QED
    BY <2>1, <2>2
<1>6. PICK g \in [D -> Int] : Solves(g, step, D)
  <2> HIDE DEF D, mu, step
  <2>1. \A T \in D : \A g, h \in [D -> Int] :
          (\A U \in D : mu[U] < mu[T] => g[U] = h[U]) => step[<<T, g>>] = step[<<T, h>>]
    BY <1>5
  <2>2. Int # {}
    OBVIOUS
  <2>3. Recurs(step, mu, D, Int)
    BY <1>2, <1>4, <2>1, <2>2, Zenon DEF Recurs
  <2> QED
    BY <2>3, Recursion
<1>7. Adds(g, F, S)
  <2>1. \A T \in D : g[T] = IF T = {} THEN 0 ELSE F[Pick(T)] + g[T \ {Pick(T)}]
    <3> HIDE DEF step, D
    <3> QED
      BY <1>3, <1>6 DEF Solves
  <2> QED
    BY <2>1 DEF Adds
<1> QED
  BY <1>7

(* It depends on the values of the function on the set only. *)
LEMMA AddsAgree ==
  ASSUME NEW S, NEW F, IntOn(F, S), NEW g, Adds(g, F, S),
         NEW R, NEW G, IntOn(G, R), NEW h, Adds(h, G, R),
         NEW T \in SUBSET S, T \in SUBSET R, \A x \in T : F[x] = G[x]
  PROVE  g[T] = h[T] /\ g[T] \in Int
<1> DEFINE H == {U \in SUBSET T : g[U] = h[U] /\ g[U] \in Int}
<1>1. IsFiniteSet(T) /\ H \in SUBSET (SUBSET T)
  BY FS_Subset DEF IntOn
<1>2. ASSUME NEW U \in SUBSET T, \A W \in SUBSET U : W # U => W \in H PROVE U \in H
  <2>1. U \in SUBSET S /\ U \in SUBSET R
    OBVIOUS
  <2>2. CASE U = {}
    <3>1. g[U] = 0
      BY <2>1, <2>2 DEF Adds
    <3>2. h[U] = 0
      BY <2>1, <2>2 DEF Adds
    <3> QED
      BY <3>1, <3>2
  <2>3. CASE U # {}
    <3>1. Pick(U) \in U
      BY <2>3 DEF Pick
    <3>2. U \ {Pick(U)} \in H
      BY <1>2, <3>1
    <3>3. g[U] = F[Pick(U)] + g[U \ {Pick(U)}]
      BY <2>1, <2>3 DEF Adds
    <3>4. h[U] = G[Pick(U)] + h[U \ {Pick(U)}]
      BY <2>1, <2>3 DEF Adds
    <3>5. F[Pick(U)] = G[Pick(U)] /\ F[Pick(U)] \in Int
      BY <2>1, <3>1 DEF IntOn
    <3> QED
      BY <3>2, <3>3, <3>4, <3>5
  <2> QED
    BY <2>2, <2>3
<1> HIDE DEF H
<1>3. H = SUBSET T
  BY <1>1, <1>2, SubsetInduction
<1> QED
  BY <1>3 DEF H

(* The element to take out may be any, not just the one that is picked.    *)
LEMMA AddsAny ==
  ASSUME NEW S, NEW F, IntOn(F, S), NEW g, Adds(g, F, S), NEW T \in SUBSET S, NEW x \in T
  PROVE  g[T] = F[x] + g[T \ {x}]
<1> DEFINE H == {U \in SUBSET S : \A y \in U : g[U] = F[y] + g[U \ {y}]}
<1>1. \A U \in SUBSET S : g[U] \in Int
  BY AddsAgree
<1>2. ASSUME NEW U \in SUBSET S, \A W \in SUBSET U : W # U => W \in H PROVE U \in H
  <2> SUFFICES ASSUME NEW y \in U PROVE g[U] = F[y] + g[U \ {y}]
    OBVIOUS
  <2> DEFINE c == Pick(U)
  <2>1. c \in U
    BY DEF Pick
  <2>2. g[U] = F[c] + g[U \ {c}]
    BY DEF Adds
  <2> HIDE DEF c
  <2>3. CASE c = y
    BY <2>2, <2>3
  <2>4. CASE c # y
    <3> DEFINE W == (U \ {c}) \ {y}
    <3>1. U \ {c} \in H /\ U \ {y} \in H
      BY <1>2, <2>1
    <3>2. W = (U \ {y}) \ {c}
      OBVIOUS
    <3>3. g[U \ {c}] = F[y] + g[W]
      BY <2>4, <3>1
    <3>4. g[U \ {y}] = F[c] + g[(U \ {y}) \ {c}]
      BY <2>1, <2>4, <3>1
    <3>5. F[c] \in Int /\ F[y] \in Int /\ g[W] \in Int
      BY <1>1, <2>1 DEF IntOn
    <3> HIDE DEF W
    <3> QED
      BY <2>2, <3>2, <3>3, <3>4, <3>5
  <2> QED
    BY <2>3, <2>4
<1>3. H = SUBSET S
  <2> HIDE DEF H
  <2>1. H \in SUBSET (SUBSET S)
    BY DEF H
  <2>2. IsFiniteSet(S)
    BY DEF IntOn
  <2> QED
    BY <1>2, <2>1, <2>2, SubsetInduction
<1> QED
  BY <1>3

(* The community operator is such a g. *)
LEMMA SumIsAdds ==
  ASSUME NEW S, NEW F, IntOn(F, S)
  PROVE  \E g : Adds(g, F, S) /\ SumFunctionOnSet(F, S) = g[S]
<1> DEFINE Rec(g) == g = [s \in SUBSET S |-> IF s = {} THEN 0
                                           ELSE F[CHOOSE x \in s : TRUE]
                                                  + g[s \ {CHOOSE x \in s : TRUE}]]
<1>1. \A g : Adds(g, F, S) /\ g = [s \in SUBSET S |-> g[s]] => Rec(g)
  BY DEF Adds, Pick
<1>2. \E g : Rec(g)
  <2>1. PICK g : Adds(g, F, S)
    BY AddsExists
  <2> DEFINE h == [s \in SUBSET S |-> g[s]]
  <2>2. Adds(h, F, S)
    BY <2>1 DEF Adds, Pick
  <2>3. h = [s \in SUBSET S |-> h[s]]
    OBVIOUS
  <2> HIDE DEF h, Rec
  <2> QED
    BY <1>1, <2>2, <2>3
<1> DEFINE it == CHOOSE g : Rec(g)
<1>3. Rec(it)
  <2> HIDE DEF Rec
  <2> QED
    BY <1>2
<1>4. SumFunctionOnSet(F, S) = it[S]
  BY DEF SumFunctionOnSet, FoldFunctionOnSet, MapThenFoldSet
<1> HIDE DEF it
<1>5. Adds(it, F, S)
  BY <1>3 DEF Adds, Pick
<1> QED
  BY <1>4, <1>5

(* The sum of nothing. *)
LEMMA SumEmpty ==
  ASSUME NEW F
  PROVE  SumFunctionOnSet(F, {}) = 0
<1>1. IntOn(F, {})
  BY FS_EmptySet DEF IntOn
<1> QED
  BY <1>1, SumIsAdds DEF Adds

(* A sum is a number. *)
LEMMA SumType ==
  ASSUME NEW S, NEW F, IntOn(F, S)
  PROVE  SumFunctionOnSet(F, S) \in Int
<1>1. PICK g : Adds(g, F, S) /\ SumFunctionOnSet(F, S) = g[S]
  BY SumIsAdds
<1> QED
  BY <1>1, AddsAgree

(* Equal terms, equal sums. *)
LEMMA SumSame ==
  ASSUME NEW S, NEW F, IntOn(F, S), NEW G, \A x \in S : F[x] = G[x]
  PROVE  SumFunctionOnSet(F, S) = SumFunctionOnSet(G, S)
<1>1. IntOn(G, S)
  BY DEF IntOn
<1>2. PICK g : Adds(g, F, S) /\ SumFunctionOnSet(F, S) = g[S]
  BY SumIsAdds
<1>3. PICK h : Adds(h, G, S) /\ SumFunctionOnSet(G, S) = h[S]
  BY <1>1, SumIsAdds
<1>4. g[S] = h[S]
  BY <1>1, <1>2, <1>3, AddsAgree
<1> QED
  BY <1>2, <1>3, <1>4

(* Any one term and the sum of the others. *)
LEMMA SumRemove ==
  ASSUME NEW S, NEW F, IntOn(F, S), NEW x \in S
  PROVE  SumFunctionOnSet(F, S) = F[x] + SumFunctionOnSet(F, S \ {x})
<1> DEFINE R == S \ {x}
<1>1. IntOn(F, R)
  BY FS_RemoveElement DEF IntOn
<1>2. PICK g : Adds(g, F, S) /\ SumFunctionOnSet(F, S) = g[S]
  BY SumIsAdds
<1>3. PICK h : Adds(h, F, R) /\ SumFunctionOnSet(F, R) = h[R]
  BY <1>1, SumIsAdds
<1>4. g[R] = h[R]
  BY <1>1, <1>2, <1>3, AddsAgree
<1>5. g[S] = F[x] + g[S \ {x}]
  BY <1>2, AddsAny
<1> QED
  BY <1>2, <1>3, <1>4, <1>5

(* Natural terms: none is above the sum. *)
LEMMA SumNatural ==
  ASSUME NEW S, NEW F, IsFiniteSet(S), \A x \in S : F[x] \in Nat
  PROVE  /\ SumFunctionOnSet(F, S) \in Nat
         /\ \A x \in S : F[x] <= SumFunctionOnSet(F, S)
<1> DEFINE H == {U \in SUBSET S : SumFunctionOnSet(F, U) \in Nat}
<1>1. \A U \in SUBSET S : IntOn(F, U)
  BY FS_Subset DEF IntOn
<1>2. ASSUME NEW U \in SUBSET S, \A W \in SUBSET U : W # U => W \in H PROVE U \in H
  <2>1. CASE U = {}
    BY <2>1, SumEmpty
  <2>2. CASE U # {}
    <3>1. PICK x \in U : TRUE
      BY <2>2
    <3>2. U \ {x} \in H
      BY <1>2, <3>1
    <3>3. SumFunctionOnSet(F, U) = F[x] + SumFunctionOnSet(F, U \ {x})
      BY <1>1, SumRemove
    <3> QED
      BY <3>2, <3>3
  <2> QED
    BY <2>1, <2>2
<1>3. H = SUBSET S
  <2> HIDE DEF H
  <2>1. H \in SUBSET (SUBSET S)
    BY DEF H
  <2> QED
    BY <1>2, <2>1, SubsetInduction
<1>4. ASSUME NEW x \in S PROVE F[x] <= SumFunctionOnSet(F, S)
  <2>1. SumFunctionOnSet(F, S) = F[x] + SumFunctionOnSet(F, S \ {x})
    BY <1>1, SumRemove
  <2>2. SumFunctionOnSet(F, S \ {x}) \in Nat /\ F[x] \in Nat
    BY <1>3
  <2> HIDE DEF H
  <2> QED
    BY <2>1, <2>2
<1> QED
  BY <1>3, <1>4

(* The same terms under other names. *)
Renames(b, F, S, G, R) == b \in Bijection(S, R) /\ \A x \in S : G[b[x]] = F[x]

LEMMA SumRenamed ==
  ASSUME NEW S, NEW F, IntOn(F, S), NEW R, NEW G, NEW b, Renames(b, F, S, G, R)
  PROVE  SumFunctionOnSet(F, S) = SumFunctionOnSet(G, R)
<1> DEFINE Image(U) == {b[x] : x \in U}
           H == {U \in SUBSET S : SumFunctionOnSet(F, U) = SumFunctionOnSet(G, Image(U))}
<1>1. /\ b \in [S -> R] /\ \A x, y \in S : b[x] = b[y] => x = y
      /\ \A z \in R : \E x \in S : b[x] = z
  BY DEF Renames, Bijection, Injection, Surjection, IsInjective
<1>2. ASSUME NEW U \in SUBSET S
      PROVE  IntOn(F, U) /\ IntOn(G, Image(U))
  <2>1. IsFiniteSet(U)
    BY FS_Subset DEF IntOn
  <2> DEFINE c == [x \in U |-> b[x]]
  <2>2. c \in Surjection(U, Image(U))
    BY <1>1 DEF Surjection
  <2>3. IsFiniteSet(Image(U))
    <3> HIDE DEF c
    <3> QED
      BY <2>1, <2>2, FS_Surjection
  <2>4. \A z \in Image(U) : G[z] \in Int
    BY DEF IntOn, Renames
  <2> QED
    BY <2>1, <2>3, <2>4 DEF IntOn
<1>3. ASSUME NEW U \in SUBSET S, \A W \in SUBSET U : W # U => W \in H PROVE U \in H
  <2>1. CASE U = {}
    <3>1. Image(U) = {}
      BY <2>1
    <3> QED
      BY <2>1, <3>1, SumEmpty
  <2>2. CASE U # {}
    <3>1. PICK x \in U : TRUE
      BY <2>2
    <3>2. U \ {x} \in H
      BY <1>3, <3>1
    <3>3. SumFunctionOnSet(F, U) = F[x] + SumFunctionOnSet(F, U \ {x})
      BY <1>2, SumRemove
    <3>4. b[x] \in Image(U) /\ Image(U) \ {b[x]} = Image(U \ {x})
      BY <1>1
    <3>5. SumFunctionOnSet(G, Image(U)) = G[b[x]] + SumFunctionOnSet(G, Image(U) \ {b[x]})
      <4> HIDE DEF Image
      <4> QED
        BY <1>2, <3>4, SumRemove
    <3>6. SumFunctionOnSet(F, U \ {x}) = SumFunctionOnSet(G, Image(U \ {x}))
      BY <3>2
    <3>7. G[b[x]] = F[x]
      BY DEF Renames
    <3> HIDE DEF Image
    <3> QED
      BY <3>3, <3>4, <3>5, <3>6, <3>7
  <2> QED
    BY <2>1, <2>2
<1>4. H = SUBSET S
  <2> HIDE DEF H
  <2>1. H \in SUBSET (SUBSET S)
    BY DEF H
  <2>2. IsFiniteSet(S)
    BY DEF IntOn
  <2> QED
    BY <1>3, <2>1, <2>2, SubsetInduction
<1>5. Image(S) = R
  BY <1>1
<1>6. S \in H
  BY <1>4
<1> QED
  BY <1>5, <1>6

(* The sum of a union of two disjoint sets. *)
LEMMA SumUnion ==
  ASSUME NEW S, NEW T, NEW F, IntOn(F, S), IntOn(F, T), S \cap T = {}
  PROVE  /\ IntOn(F, S \cup T)
         /\ SumFunctionOnSet(F, S \cup T) = SumFunctionOnSet(F, S) + SumFunctionOnSet(F, T)
<1> DEFINE H == {U \in SUBSET T : SumFunctionOnSet(F, S \cup U)
                                   = SumFunctionOnSet(F, S) + SumFunctionOnSet(F, U)}
<1>1. ASSUME NEW U \in SUBSET T PROVE IntOn(F, U) /\ IntOn(F, S \cup U)
  <2>1. IsFiniteSet(U) /\ IsFiniteSet(S)
    BY FS_Subset DEF IntOn
  <2>2. IsFiniteSet(S \cup U)
    BY <2>1, FS_Union
  <2> QED
    BY <2>1, <2>2 DEF IntOn
<1>2. ASSUME NEW U \in SUBSET T, \A W \in SUBSET U : W # U => W \in H PROVE U \in H
  <2>0. SumFunctionOnSet(F, S) \in Int /\ SumFunctionOnSet(F, U) \in Int
    BY <1>1, SumType
  <2>1. CASE U = {}
    <3>1. S \cup U = S
      BY <2>1
    <3> QED
      BY <2>0, <2>1, <3>1, SumEmpty
  <2>2. CASE U # {}
    <3>1. PICK x \in U : TRUE
      BY <2>2
    <3>2. U \ {x} \in H
      BY <1>2, <3>1
    <3>3. SumFunctionOnSet(F, U) = F[x] + SumFunctionOnSet(F, U \ {x})
      BY <1>1, SumRemove
    <3>4. x \in S \cup U /\ (S \cup U) \ {x} = S \cup (U \ {x})
      OBVIOUS
    <3>5. SumFunctionOnSet(F, S \cup U) = F[x] + SumFunctionOnSet(F, (S \cup U) \ {x})
      BY <1>1, <3>4, SumRemove
    <3>6. F[x] \in Int /\ SumFunctionOnSet(F, U \ {x}) \in Int
      <4>1. U \ {x} \in SUBSET T
        OBVIOUS
      <4> QED
        BY <1>1, <4>1, SumType DEF IntOn
    <3>7. SumFunctionOnSet(F, S \cup (U \ {x}))
            = SumFunctionOnSet(F, S) + SumFunctionOnSet(F, U \ {x})
      BY <3>2
    <3>8. SumFunctionOnSet(F, S \cup U) = SumFunctionOnSet(F, S) + SumFunctionOnSet(F, U)
      <4> DEFINE all == SumFunctionOnSet(F, S \cup (U \ {x}))
                 rest == SumFunctionOnSet(F, U \ {x})
      <4>1. SumFunctionOnSet(F, S \cup U) = F[x] + all
        BY <3>4, <3>5, Zenon
      <4>2. all = SumFunctionOnSet(F, S) + rest /\ rest \in Int
        BY <3>6, <3>7
      <4> HIDE DEF H, all, rest
      <4> QED
        BY <2>0, <3>3, <3>6, <4>1, <4>2 DEF rest
    <3> QED
      BY <3>8
  <2> QED
    BY <2>1, <2>2
<1>3. H = SUBSET T
  <2> HIDE DEF H
  <2>1. H \in SUBSET (SUBSET T)
    BY DEF H
  <2>2. IsFiniteSet(T)
    BY DEF IntOn
  <2> QED
    BY <1>2, <2>1, <2>2, SubsetInduction
<1>4. T \in H
  BY <1>3
<1> QED
  BY <1>1, <1>4

-----------------------------------------------------------------------------
(* The sum of a sequence of numbers. *)
Total(s) == SumFunctionOnSet(s, 1..Len(s))

LEMMA TotalType ==
  ASSUME NEW s \in Seq(Int)
  PROVE  IntOn(s, 1..Len(s)) /\ Total(s) \in Int
<1>1. IntOn(s, 1..Len(s))
  BY FS_Interval DEF IntOn
<1> QED
  BY <1>1, SumType DEF Total

(* The empty sequence, and a sequence of one number. *)
LEMMA TotalSmall ==
  /\ Total(<< >>) = 0
  /\ \A x \in Int : Total(<<x>>) = x
<1>1. Total(<< >>) = 0
  <2>1. 1..Len(<< >>) = {}
    OBVIOUS
  <2> QED
    BY <2>1, SumEmpty DEF Total
<1>2. ASSUME NEW x \in Int PROVE Total(<<x>>) = x
  <2> DEFINE s == <<x>>
  <2>1. s \in Seq(Int) /\ Len(s) = 1 /\ s[1] = x
    OBVIOUS
  <2> HIDE DEF s
  <2>2. 1..1 = {1} /\ {1} \ {1} = {}
    OBVIOUS
  <2>3. IntOn(s, {1})
    BY <2>1, <2>2, TotalType
  <2>4. SumFunctionOnSet(s, {1}) = s[1] + SumFunctionOnSet(s, {1} \ {1})
    BY <2>3, SumRemove
  <2>5. SumFunctionOnSet(s, {}) = 0
    BY SumEmpty
  <2>6. Total(s) = x + 0
    BY <2>1, <2>2, <2>4, <2>5 DEF Total
  <2> QED
    BY <2>6 DEF s
<1> QED
  BY <1>1, <1>2

(* Two sequences, one after the other. *)
LEMMA TotalConcat ==
  ASSUME NEW s \in Seq(Int), NEW t \in Seq(Int)
  PROVE  Total(s \o t) = Total(s) + Total(t)
<1> DEFINE u == s \o t
           m == Len(s)
           n == Len(t)
           S == 1..m
           T == (m + 1)..(m + n)
           b == [i \in 1..n |-> m + i]
<1>1. m \in Nat /\ n \in Nat
  OBVIOUS
<1>2. /\ u \in Seq(Int) /\ Len(u) = m + n
      /\ \A i \in 1..m : u[i] = s[i]
      /\ \A i \in 1..n : u[m + i] = t[i]
  OBVIOUS
<1>3. b \in Bijection(1..n, T)
  <2>1. b \in [1..n -> T] /\ \A i, j \in 1..n : b[i] = b[j] => i = j
    BY <1>1
  <2>2. ASSUME NEW z \in T PROVE \E i \in 1..n : b[i] = z
    <3>1. z - m \in 1..n /\ m + (z - m) = z
      BY <1>1
    <3> QED
      BY <3>1
  <2> HIDE DEF b, T
  <2> QED
    BY <2>1, <2>2 DEF Bijection, Injection, Surjection, IsInjective
<1> HIDE DEF u, m, n
<1>4. IntOn(s, 1..m) /\ IntOn(t, 1..n)
  BY TotalType DEF m, n
<1>5. Total(s) = SumFunctionOnSet(u, S) /\ IntOn(u, S)
  <2>1. IntOn(u, S)
    BY <1>2, <1>4 DEF IntOn
  <2> QED
    BY <1>2, <1>4, <2>1, SumSame DEF Total, m
<1>6. Total(t) = SumFunctionOnSet(u, T) /\ IntOn(u, T)
  <2>1. \A i \in 1..n : u[b[i]] = t[i]
    BY <1>2
  <2>2. IntOn(u, T)
    <3>1. IsFiniteSet(T)
      BY <1>1, FS_Interval
    <3>2. \A i \in T : i \in 1..Len(u)
      BY <1>1, <1>2
    <3>3. \A i \in T : u[i] \in Int
      BY <1>2, <3>2
    <3> QED
      BY <3>1, <3>3 DEF IntOn
  <2>3. SumFunctionOnSet(t, 1..n) = SumFunctionOnSet(u, T)
    <3> HIDE DEF b, T
    <3>1. Renames(b, t, 1..n, u, T)
      BY <1>3, <2>1 DEF Renames
    <3> QED
      BY <1>4, <3>1, SumRenamed
  <2> QED
    BY <2>2, <2>3 DEF Total, n
<1>7. S \cap T = {} /\ S \cup T = 1..Len(u)
  BY <1>1, <1>2
<1>8. SumFunctionOnSet(u, S \cup T) = SumFunctionOnSet(u, S) + SumFunctionOnSet(u, T)
  <2> HIDE DEF S, T
  <2> QED
    BY <1>5, <1>6, <1>7, SumUnion
<1>9. Total(u) = SumFunctionOnSet(u, S \cup T)
  BY <1>7 DEF Total
<1> QED
  BY <1>5, <1>6, <1>8, <1>9 DEF u

-----------------------------------------------------------------------------
(* Folds over a sequence, FoldLeft of the community modules: the recursive *)
(* function f that it is defined by, on the subsets of the domain.         *)
FoldsOver(f, step, base, s) ==
  /\ DOMAIN f = SUBSET (DOMAIN s)
  /\ \A T \in SUBSET (DOMAIN s) :
       f[T] = IF T = {} THEN base ELSE step[<<f[T \ {Max(T)}], s[Max(T)]>>]

(* Of numbers up to m, one is the largest. *)
LEMMA MaxIsIn ==
  ASSUME NEW m \in Nat, NEW T \in SUBSET (1..m), T # {}
  PROVE  Max(T) \in T /\ \A y \in T : y <= Max(T)
<1> DEFINE U == {m - y : y \in T}
<1>1. U \in SUBSET Nat /\ U # {}
  <2>1. \A y \in T : y \in 1..m
    OBVIOUS
  <2>2. \A y \in T : m - y \in Nat
    BY <2>1
  <2>3. U # {}
    OBVIOUS
  <2> QED
    BY <2>2, <2>3
<1>2. PICK u \in U : \A v \in U : u <= v
  <2> HIDE DEF U
  <2> QED
    BY <1>1, Least
<1>3. PICK x \in T : u = m - x
  OBVIOUS
<1>4. \A y \in T : m - y \in U /\ y \in Int
  OBVIOUS
<1>5. \A y \in T : x >= y
  BY <1>2, <1>3, <1>4
<1>6. \E z \in T : \A y \in T : z >= y
  BY <1>5
<1> QED
  BY <1>6 DEF Max

(* There is such an f, with values among those that step yields. *)
LEMMA FoldExists ==
  ASSUME NEW V, NEW E, NEW base \in V, NEW s \in Seq(E), NEW step \in [V \X E -> V]
  PROVE  \E f \in [SUBSET (DOMAIN s) -> V] : FoldsOver(f, step, base, s)
<1> DEFINE D == SUBSET (DOMAIN s)
           mu == [T \in D |-> Cardinality(T)]
           again == [p \in D \X [D -> V] |->
                       IF p[1] = {} THEN base
                       ELSE step[<<p[2][p[1] \ {Max(p[1])}], s[Max(p[1])]>>]]
<1>1. Len(s) \in Nat /\ DOMAIN s = 1..Len(s) /\ IsFiniteSet(DOMAIN s)
  BY FS_Interval
<1>2. \A T \in D : T # {} => Max(T) \in T /\ T \ {Max(T)} \in D /\ s[Max(T)] \in E
  <2> SUFFICES ASSUME NEW T \in D, T # {}
               PROVE  Max(T) \in T /\ T \ {Max(T)} \in D /\ s[Max(T)] \in E
    OBVIOUS
  <2>1. Max(T) \in T
    BY <1>1, MaxIsIn
  <2> HIDE DEF mu, again
  <2> QED
    BY <1>1, <2>1
<1>3. mu \in [D -> Nat]
  BY <1>1, FS_Subset, FS_CardinalityType
<1>4. ASSUME NEW T \in D, NEW g \in [D -> V]
      PROVE  again[<<T, g>>] = IF T = {} THEN base
                               ELSE step[<<g[T \ {Max(T)}], s[Max(T)]>>]
  OBVIOUS
<1>5. again \in [D \X [D -> V] -> V]
  <2> SUFFICES ASSUME NEW T \in D, NEW g \in [D -> V]
               PROVE  (IF T = {} THEN base
                       ELSE step[<<g[T \ {Max(T)}], s[Max(T)]>>]) \in V
    OBVIOUS
  <2> QED
    BY <1>2
<1>6. ASSUME NEW T \in D, NEW g \in [D -> V], NEW h \in [D -> V],
             \A U \in D : mu[U] < mu[T] => g[U] = h[U]
      PROVE  again[<<T, g>>] = again[<<T, h>>]
  <2>1. CASE T = {}
    BY <1>4, <2>1
  <2>2. CASE T # {}
    <3>1. mu[T \ {Max(T)}] < mu[T]
      BY <1>1, <1>2, <2>2, SubsetSize
    <3>2. g[T \ {Max(T)}] = h[T \ {Max(T)}]
      BY <1>2, <1>6, <2>2, <3>1
    <3> HIDE DEF again, D, mu
    <3> QED
      BY <1>4, <2>2, <3>2
  <2> QED
    BY <2>1, <2>2
<1>7. PICK f \in [D -> V] : Solves(f, again, D)
  <2> HIDE DEF D, mu, again
  <2>1. \A T \in D : \A g, h \in [D -> V] :
          (\A U \in D : mu[U] < mu[T] => g[U] = h[U]) => again[<<T, g>>] = again[<<T, h>>]
    BY <1>6
  <2>2. V # {}
    OBVIOUS
  <2>3. Recurs(again, mu, D, V)
    BY <1>3, <1>5, <2>1, <2>2, Zenon DEF Recurs
  <2> QED
    BY <2>3, Recursion
<1>8. FoldsOver(f, step, base, s)
  <2>1. \A T \in D : f[T] = IF T = {} THEN base ELSE step[<<f[T \ {Max(T)}], s[Max(T)]>>]
    <3> HIDE DEF again, D
    <3> QED
      BY <1>4, <1>7 DEF Solves
  <2> QED
    BY <2>1 DEF FoldsOver
<1> QED
  BY <1>8

(* The fold of one element more. *)
LEMMA FoldPrefix ==
  ASSUME NEW E, NEW s \in Seq(E), NEW step, NEW base, NEW f, FoldsOver(f, step, base, s)
  PROVE  /\ f[1..0] = base
         /\ \A k \in 0..(Len(s) - 1) : f[1..(k + 1)] = step[<<f[1..k], s[k + 1]>>]
<1>1. Len(s) \in Nat /\ DOMAIN s = 1..Len(s)
  OBVIOUS
<1>2. 1..0 = {}
  OBVIOUS
<1>3. ASSUME NEW k \in 0..(Len(s) - 1)
      PROVE  f[1..(k + 1)] = step[<<f[1..k], s[k + 1]>>]
  <2> DEFINE T == 1..(k + 1)
  <2>0. k \in Nat /\ k + 1 <= Len(s)
    BY <1>1
  <2>1. T \in SUBSET (1..Len(s)) /\ k + 1 \in T /\ T # {} /\ \A y \in T : y \in Int /\ y <= k + 1
    <3>1. k + 1 \in 1..(k + 1)
      BY <2>0
    <3>2. \A y \in 1..(k + 1) : y \in Int /\ y <= k + 1 /\ y \in 1..Len(s)
      BY <1>1, <2>0
    <3> QED
      BY <3>1, <3>2
  <2>2. Max(T) = k + 1
    <3> HIDE DEF T
    <3>1. Max(T) \in T /\ \A y \in T : y <= Max(T)
      BY <1>1, <2>1, MaxIsIn
    <3>2. Max(T) <= k + 1 /\ k + 1 <= Max(T) /\ Max(T) \in Int
      BY <2>1, <3>1
    <3> HIDE DEF Max
    <3> QED
      BY <2>0, <3>2
  <2>3. T \ {k + 1} = 1..k
    OBVIOUS
  <2> HIDE DEF T
  <2>4. f[T] = step[<<f[T \ {Max(T)}], s[Max(T)]>>]
    BY <1>1, <2>1 DEF FoldsOver
  <2>5. f[T] = step[<<f[1..k], s[k + 1]>>]
    BY <2>2, <2>3, <2>4
  <2> QED
    BY <2>5 DEF T
<1> QED
  BY <1>1, <1>2, <1>3 DEF FoldsOver

-----------------------------------------------------------------------------
(* A list is a sequence of its own elements: records of several shapes     *)
(* have no set in common to name.                                          *)
Elements(s) == {s[k] : k \in 1..Len(s)}

IsSequence(s) == s \in Seq(Elements(s))

(* Every sequence is one. *)
LEMMA SequenceOf ==
  ASSUME NEW S, NEW s \in Seq(S)
  PROVE  IsSequence(s)
<1>1. Len(s) \in Nat /\ s \in [1..Len(s) -> Elements(s)]
  BY DEF Elements
<1> QED
  BY <1>1, SeqDef DEF IsSequence

(* What a concatenation holds, with no set to name. *)
LEMMA Concatenation ==
  ASSUME NEW s, NEW t, IsSequence(s), IsSequence(t)
  PROVE  /\ IsSequence(s \o t)
         /\ Len(s) \in Nat /\ Len(t) \in Nat /\ Len(s \o t) = Len(s) + Len(t)
         /\ \A k \in 1..Len(s) : (s \o t)[k] = s[k]
         /\ \A k \in 1..Len(s \o t) :
              k > Len(s) => /\ k - Len(s) \in 1..Len(t)
                            /\ (s \o t)[k] = t[k - Len(s)]
<1> DEFINE S == Elements(s) \cup Elements(t)
<1>1. s \in Seq(S) /\ t \in Seq(S)
  <2>1. s \in Seq(Elements(s)) /\ t \in Seq(Elements(t))
    BY DEF IsSequence
  <2> HIDE DEF S
  <2>2. Elements(s) \subseteq S /\ Elements(t) \subseteq S
    BY DEF S
  <2> QED
    BY <2>1, <2>2
<1> HIDE DEF S
<1>2. /\ s \o t \in Seq(S)
      /\ Len(s) \in Nat /\ Len(t) \in Nat /\ Len(s \o t) = Len(s) + Len(t)
  BY <1>1
<1>3. \A k \in 1..Len(s) : (s \o t)[k] = s[k]
  BY <1>1
<1>4. \A k \in 1..(Len(s) + Len(t)) :
        k > Len(s) => k - Len(s) \in 1..Len(t) /\ (s \o t)[k] = t[k - Len(s)]
  BY <1>1
<1>5. IsSequence(s \o t)
  BY <1>2, SequenceOf
<1> QED
  BY <1>2, <1>3, <1>4, <1>5

-----------------------------------------------------------------------------
(* FlattenSeq of pieces, when the concatenations of the first pieces are   *)
(* known.                                                                  *)
LEMMA FlattenIs ==
  ASSUME NEW E, NEW bs \in Seq(Seq(E)), NEW g \in [0..Len(bs) -> Seq(E)],
         g[0] = << >>, \A k \in 0..(Len(bs) - 1) : g[k + 1] = g[k] \o bs[k + 1]
  PROVE  FlattenSeq(bs) = g[Len(bs)]
<1>0. Len(bs) \in Nat /\ DOMAIN bs = 1..Len(bs) /\ \A k \in 1..Len(bs) : bs[k] \in Seq(E)
  OBVIOUS
<1>1. CASE Len(bs) = 0
  <2>1. bs = << >>
    BY <1>1
  <2> QED
    BY <1>1, <2>1 DEF FlattenSeq
<1>2. CASE Len(bs) # 0
  <2> DEFINE n == Len(bs)
             Flat(f) == f = [k \in 1..n |-> IF k = 1 THEN bs[k] ELSE f[k - 1] \o bs[k]]
             h == [k \in 1..n |-> g[k]]
             f == CHOOSE f : Flat(f)
  <2>1. FlattenSeq(bs) = f[n]
    BY <1>2 DEF FlattenSeq
  <2>2. Flat(h)
    <3>1. ASSUME NEW k \in 1..n
          PROVE  h[k] = IF k = 1 THEN bs[k] ELSE h[k - 1] \o bs[k]
      <4>1. k - 1 \in 0..(n - 1) /\ (k - 1) + 1 = k
        BY <1>0
      <4>2. g[k] = g[k - 1] \o bs[k]
        BY <4>1
      <4>3. CASE k = 1
        <5>1. g[1] = << >> \o bs[1] /\ bs[1] \in Seq(E) /\ 1 \in 1..n
          BY <1>0, <4>2, <4>3
        <5> QED
          BY <4>3, <5>1, ConcatEmptySeq
      <4>4. CASE k # 1
        BY SMTT(30), <1>0, <4>1, <4>2, <4>4
      <4> QED
        BY <4>3, <4>4
    <3>2. h = [k \in 1..n |-> h[k]]
      OBVIOUS
    <3> HIDE DEF h
    <3> QED
      BY <3>1, <3>2
  <2>3. Flat(f)
    <3> HIDE DEF h, Flat
    <3> QED
      BY <2>2, Zenon DEF f
  <2> HIDE DEF f
  <2> DEFINE S == {k \in Nat : k + 1 \in 1..n => f[k + 1] = g[k + 1]}
  <2>4. 0 \in S
    <3>1. 1 \in 1..n /\ 0 \in 0..(n - 1)
      BY <1>0, <1>2
    <3> HIDE DEF h, f
    <3>2. f[1] = bs[1]
      BY <2>3, <3>1
    <3>3. g[0 + 1] = g[0] \o bs[0 + 1]
      BY <3>1, Zenon
    <3>4. g[1] = bs[1]
      BY <1>0, <3>1, <3>3, ConcatEmptySeq
    <3> QED
      BY <3>2, <3>4
  <2> HIDE DEF h, Flat
  <2>5. ASSUME NEW k \in Nat, k \in S
        PROVE  k + 1 \in S
    <3>1. CASE (k + 1) + 1 \in 1..n
      <4>1. k + 1 \in 1..n /\ k + 1 \in 0..(n - 1) /\ (k + 1) + 1 # 1 /\ ((k + 1) + 1) - 1 = k + 1
        BY <1>0, <3>1
      <4>2. f[k + 1] = g[k + 1]
        BY <2>5, <4>1
      <4>3. f[(k + 1) + 1] = f[k + 1] \o bs[(k + 1) + 1]
        BY <2>3, <3>1, <4>1 DEF Flat
      <4>4. g[(k + 1) + 1] = g[k + 1] \o bs[(k + 1) + 1]
        BY <4>1
      <4> HIDE DEF n
      <4>5. f[(k + 1) + 1] = g[(k + 1) + 1]
        BY <4>2, <4>3, <4>4, Zenon
      <4> QED
        BY <4>5
    <3>2. CASE (k + 1) + 1 \notin 1..n
      BY <3>2
    <3> QED
      BY <3>1, <3>2
  <2> HIDE DEF S
  <2>6. Nat \subseteq S
    BY <2>4, <2>5, SetInduction
  <2>7. n - 1 \in S /\ (n - 1) + 1 = n /\ n \in 1..n
    BY <1>0, <1>2, <2>6
  <2> QED
    BY <2>1, <2>7 DEF S
<1> QED
  BY <1>1, <1>2

(* The concatenations of the first pieces. *)
Flattens(g, bs, E) ==
  /\ g \in [0..Len(bs) -> Seq(E)] /\ g[0] = << >>
  /\ \A k \in 0..(Len(bs) - 1) : g[k + 1] = g[k] \o bs[k + 1]

LEMMA FlattenExists ==
  ASSUME NEW E, NEW bs \in Seq(Seq(E))
  PROVE  \E g : Flattens(g, bs, E) /\ FlattenSeq(bs) = g[Len(bs)]
<1> DEFINE V == Seq(E)
           n == Len(bs)
           step == [p \in Nat \X V |-> IF p[1] + 1 \in 1..n THEN p[2] \o bs[p[1] + 1] ELSE p[2]]
<1>1. n \in Nat /\ \A k \in 1..n : bs[k] \in V
  OBVIOUS
<1>2. << >> \in V
  OBVIOUS
<1>3. ASSUME NEW k \in Nat, NEW s \in V
      PROVE  /\ step[<<k, s>>] = IF k + 1 \in 1..n THEN s \o bs[k + 1] ELSE s
             /\ step[<<k, s>>] \in V
  <2>1. step[<<k, s>>] = IF k + 1 \in 1..n THEN s \o bs[k + 1] ELSE s
    OBVIOUS
  <2>2. k + 1 \in 1..n => s \o bs[k + 1] \in Seq(E)
    BY <1>1
  <2> QED
    BY <2>1, <2>2
<1>4. step \in Steps(V)
  <2>1. \A p \in Nat \X V : step[p] \in V
    <3> SUFFICES ASSUME NEW k \in Nat, NEW s \in V PROVE step[<<k, s>>] \in V
      OBVIOUS
    <3> HIDE DEF step, V
    <3> QED
      BY <1>3
  <2> HIDE DEF V, n
  <2> QED
    BY <2>1 DEF Steps
<1> HIDE DEF V, step
<1>5. PICK f \in [Nat -> V] : IteratesTo(f, << >>, step)
  BY <1>2, <1>4, NatRecursion
<1> DEFINE g == [k \in 0..n |-> f[k]]
<1>6. g \in [0..n -> V]
  BY <1>1
<1>7. g[0] = << >>
  BY <1>1, <1>5 DEF IteratesTo
<1>8. ASSUME NEW k \in 0..(n - 1) PROVE g[k + 1] = g[k] \o bs[k + 1]
  <2>1. k \in Nat /\ k + 1 \in 1..n /\ k \in 0..n /\ k + 1 \in 0..n
    BY <1>1
  <2>2. f[k + 1] = step[<<k, f[k]>>]
    BY <1>5, <2>1 DEF IteratesTo
  <2>3. f[k] \in V
    BY <2>1
  <2>4. f[k + 1] = f[k] \o bs[k + 1]
    BY <1>3, <2>1, <2>2, <2>3
  <2> QED
    BY <2>1, <2>4
<1> HIDE DEF g
<1>9. Flattens(g, bs, E)
  BY <1>6, <1>7, <1>8 DEF Flattens, V
<1>10. FlattenSeq(bs) = g[n]
  BY <1>9, FlattenIs DEF Flattens
<1> QED
  BY <1>9, <1>10

(* The flattening of two lists of pieces, one after the other. *)
LEMMA FlattenConcat ==
  ASSUME NEW E, NEW bs \in Seq(Seq(E)), NEW cs \in Seq(Seq(E))
  PROVE  /\ FlattenSeq(bs) \in Seq(E) /\ FlattenSeq(cs) \in Seq(E)
         /\ FlattenSeq(bs \o cs) = FlattenSeq(bs) \o FlattenSeq(cs)
<1>1. PICK g : Flattens(g, bs, E) /\ FlattenSeq(bs) = g[Len(bs)]
  BY FlattenExists
<1>2. PICK f : Flattens(f, cs, E) /\ FlattenSeq(cs) = f[Len(cs)]
  BY FlattenExists
<1> DEFINE m == Len(bs)
           n == Len(cs)
           h == [k \in 0..(m + n) |-> IF k <= m THEN g[k] ELSE g[m] \o f[k - m]]
           ds == bs \o cs
<1>3. /\ m \in Nat /\ n \in Nat /\ ds \in Seq(Seq(E)) /\ Len(ds) = m + n
      /\ \A k \in 1..m : ds[k] = bs[k]
      /\ \A k \in 1..n : ds[m + k] = cs[k]
      /\ \A k \in 1..m : bs[k] \in Seq(E)
      /\ \A k \in 1..n : cs[k] \in Seq(E)
  OBVIOUS
<1> HIDE DEF m, n, ds
<1>4. \A k \in 0..m : g[k] \in Seq(E)
  BY <1>1 DEF Flattens, m
<1>5. \A k \in 0..n : f[k] \in Seq(E)
  BY <1>2 DEF Flattens, n
<1>6. /\ f[0] = << >> /\ g[0] = << >>
      /\ \A k \in 0..(m - 1) : g[k + 1] = g[k] \o bs[k + 1]
      /\ \A k \in 0..(n - 1) : f[k + 1] = f[k] \o cs[k + 1]
  BY <1>1, <1>2 DEF Flattens, m, n
<1>7. \A k \in 0..m : k \in 0..(m + n) /\ h[k] = g[k]
  BY <1>3
<1>8. ASSUME NEW k \in 0..n
      PROVE  m + k \in 0..(m + n) /\ h[m + k] = g[m] \o f[k]
  <2>1. m + k \in 0..(m + n) /\ (m + k) - m = k /\ (m + k <= m <=> k = 0)
    BY <1>3
  <2>2. g[m] \in Seq(E)
    BY <1>3, <1>4
  <2>3. g[m] \o << >> = g[m]
    BY <2>2, ConcatEmptySeq
  <2>4. CASE k = 0
    <3>1. h[m + k] = g[m + k] /\ m + k = m
      BY <1>3, <2>1, <2>4
    <3> QED
      BY <1>6, <2>1, <2>3, <2>4, <3>1
  <2>5. CASE k # 0
    BY <2>1, <2>5
  <2> QED
    BY <2>4, <2>5
<1>9. \A k \in 0..(m + n) : h[k] \in Seq(E)
  <2> SUFFICES ASSUME NEW k \in 0..(m + n) PROVE h[k] \in Seq(E)
    OBVIOUS
  <2>1. CASE k <= m
    BY <1>4, <1>7, <2>1
  <2>2. CASE ~(k <= m)
    <3>1. k - m \in 0..n /\ m \in 0..m
      BY <1>3, <2>2
    <3>2. f[k - m] \in Seq(E) /\ g[m] \in Seq(E)
      BY <1>4, <1>5, <3>1
    <3>3. g[m] \o f[k - m] \in Seq(E)
      BY <3>2
    <3> QED
      BY <2>2, <3>3
  <2> QED
    BY <2>1, <2>2
<1>10. h \in [0..(m + n) -> Seq(E)]
  <2>1. h = [k \in 0..(m + n) |-> h[k]]
    OBVIOUS
  <2> HIDE DEF h
  <2> QED
    BY <1>9, <2>1
<1> HIDE DEF h
<1>11. ASSUME NEW k \in 0..(m + n - 1) PROVE h[k + 1] = h[k] \o ds[k + 1]
  <2>1. CASE k < m
    <3>1. k \in 0..(m - 1) /\ k \in 0..m /\ k + 1 \in 0..m /\ k + 1 \in 1..m
      BY <1>3, <2>1
    <3> QED
      BY <1>3, <1>6, <1>7, <3>1
  <2>2. CASE ~(k < m)
    <3> DEFINE j == k - m
    <3>1. j \in 0..(n - 1) /\ j \in 0..n /\ j + 1 \in 0..n /\ j + 1 \in 1..n
          /\ k = m + j /\ k + 1 = m + (j + 1) /\ m \in 0..m
      BY <1>3, <2>2
    <3> HIDE DEF j
    <3>2. h[k] = g[m] \o f[j] /\ h[k + 1] = g[m] \o f[j + 1]
      BY <1>8, <3>1
    <3>3. f[j + 1] = f[j] \o cs[j + 1] /\ ds[k + 1] = cs[j + 1]
      BY <1>3, <1>6, <3>1
    <3>4. g[m] \in Seq(E) /\ f[j] \in Seq(E) /\ cs[j + 1] \in Seq(E)
      BY <1>3, <1>4, <1>5, <3>1
    <3>5. (g[m] \o f[j]) \o cs[j + 1] = g[m] \o (f[j] \o cs[j + 1])
      <4>1. \A x, y, z \in Seq(E) : (x \o y) \o z = x \o (y \o z)
        BY ConcatAssociative
      <4> QED
        BY <3>4, <4>1, Zenon
    <3> QED
      BY <3>2, <3>3, <3>5
  <2> QED
    BY <2>1, <2>2
<1>12. h[0] = << >>
  BY <1>3, <1>6, <1>7
<1>13. FlattenSeq(ds) = h[m + n]
  <2>1. ds \in Seq(Seq(E)) /\ m + n = Len(ds)
    BY <1>3
  <2>2. h \in [0..Len(ds) -> Seq(E)]
    BY <1>10, <2>1
  <2>3. \A k \in 0..(Len(ds) - 1) : h[k + 1] = h[k] \o ds[k + 1]
    <3> SUFFICES ASSUME NEW k \in 0..(Len(ds) - 1) PROVE h[k + 1] = h[k] \o ds[k + 1]
      OBVIOUS
    <3>1. k \in 0..(m + n - 1)
      BY <1>3, <2>1
    <3> QED
      BY <1>11, <3>1
  <2>4. FlattenSeq(ds) = h[Len(ds)]
    BY <1>12, <2>1, <2>2, <2>3, FlattenIs, Zenon
  <2> QED
    BY <2>1, <2>4
<1>14. n \in 0..n /\ m \in 0..m
  BY <1>3
<1>15. FlattenSeq(ds) = g[m] \o f[n]
  BY <1>8, <1>13, <1>14
<1> QED
  BY <1>1, <1>2, <1>4, <1>5, <1>14, <1>15 DEF m, n, ds

-----------------------------------------------------------------------------
(* A function of numbers and its sum, SumFunction of the community modules: *)
(* one number more, one number changed, and nothing but zeros.             *)
LEMMA SumJoin ==
  ASSUME NEW F, NEW G, IntOn(F, DOMAIN F), IntOn(G, DOMAIN G), NEW k,
         DOMAIN G = DOMAIN F \cup {k}, k \notin DOMAIN F, \A j \in DOMAIN F : G[j] = F[j]
  PROVE  SumFunction(G) = SumFunction(F) + G[k] /\ SumFunction(F) \in Int
<1>1. k \in DOMAIN G /\ DOMAIN G \ {k} = DOMAIN F
  OBVIOUS
<1>2. SumFunction(G) = G[k] + SumFunctionOnSet(G, DOMAIN F)
  BY <1>1, SumRemove DEF SumFunction
<1>3. SumFunctionOnSet(F, DOMAIN F) = SumFunctionOnSet(G, DOMAIN F)
  BY SumSame
<1>4. G[k] \in Int /\ SumFunction(F) \in Int
  BY <1>1, SumType DEF IntOn, SumFunction
<1>5. SumFunction(G) = G[k] + SumFunction(F)
  BY <1>2, <1>3 DEF SumFunction
<1> QED
  BY <1>4, <1>5

LEMMA SumChange ==
  ASSUME NEW F, NEW G, IntOn(F, DOMAIN F), IntOn(G, DOMAIN G), NEW k \in DOMAIN F,
         DOMAIN G = DOMAIN F, \A j \in DOMAIN F : j # k => G[j] = F[j]
  PROVE  SumFunction(G) = SumFunction(F) - F[k] + G[k]
<1> DEFINE S == DOMAIN F \ {k}
<1>1. SumFunction(F) = F[k] + SumFunctionOnSet(F, S)
  BY SumRemove DEF SumFunction
<1>2. SumFunction(G) = G[k] + SumFunctionOnSet(G, S)
  BY SumRemove DEF SumFunction
<1>3. IntOn(F, S)
  BY FS_RemoveElement DEF IntOn
<1>4. SumFunctionOnSet(F, S) = SumFunctionOnSet(G, S) /\ SumFunctionOnSet(F, S) \in Int
  BY <1>3, SumSame, SumType
<1>5. F[k] \in Int /\ G[k] \in Int
  BY DEF IntOn
<1> HIDE DEF S
<1> QED
  BY <1>1, <1>2, <1>4, <1>5

LEMMA SumZero ==
  ASSUME NEW F, IsFiniteSet(DOMAIN F), \A k \in DOMAIN F : F[k] = 0
  PROVE  IntOn(F, DOMAIN F) /\ SumFunction(F) = 0
<1>1. IntOn(F, DOMAIN F)
  BY DEF IntOn
<1> DEFINE H == {T \in SUBSET (DOMAIN F) : SumFunctionOnSet(F, T) = 0}
<1>2. ASSUME NEW T \in SUBSET (DOMAIN F), \A U \in SUBSET T : U # T => U \in H
      PROVE  T \in H
  <2>1. CASE T = {}
    BY <2>1, SumEmpty
  <2>2. CASE T # {}
    <3>1. PICK x \in T : TRUE
      BY <2>2
    <3>2. T \ {x} \in H
      BY <1>2, <3>1
    <3>3. IntOn(F, T)
      BY <1>1, FS_Subset DEF IntOn
    <3>4. SumFunctionOnSet(F, T) = F[x] + SumFunctionOnSet(F, T \ {x})
      BY <3>3, SumRemove
    <3> QED
      BY <3>2, <3>4
  <2> QED
    BY <2>1, <2>2
<1>3. H = SUBSET (DOMAIN F)
  <2>1. H \in SUBSET (SUBSET (DOMAIN F))
    OBVIOUS
  <2> HIDE DEF H
  <2> QED
    BY <1>2, <2>1, SubsetInduction
<1>4. SumFunctionOnSet(F, DOMAIN F) = 0
  BY <1>3
<1> QED
  BY <1>1, <1>4 DEF SumFunction

(* The sum of two functions, and one that is zero outside a part. *)
LEMMA SumAdd ==
  ASSUME NEW S, NEW F, NEW G, NEW H, IntOn(F, S), IntOn(G, S),
         \A x \in S : H[x] = F[x] + G[x]
  PROVE  /\ IntOn(H, S)
         /\ SumFunctionOnSet(H, S) = SumFunctionOnSet(F, S) + SumFunctionOnSet(G, S)
<1>1. IntOn(H, S) /\ IsFiniteSet(S)
  BY DEF IntOn
<1> DEFINE P == {T \in SUBSET S :
                   SumFunctionOnSet(H, T) = SumFunctionOnSet(F, T) + SumFunctionOnSet(G, T)}
<1>2. ASSUME NEW T \in SUBSET S, \A U \in SUBSET T : U # T => U \in P
      PROVE  T \in P
  <2>1. CASE T = {}
    <3>1. /\ SumFunctionOnSet(F, {}) = 0 /\ SumFunctionOnSet(G, {}) = 0
          /\ SumFunctionOnSet(H, {}) = 0
      BY SumEmpty
    <3> QED
      BY <2>1, <3>1
  <2>2. CASE T # {}
    <3>1. PICK x \in T : TRUE
      BY <2>2
    <3>2. T \ {x} \in P
      BY <1>2, <3>1
    <3>3. IsFiniteSet(T) /\ IsFiniteSet(T \ {x})
      BY <1>1, FS_Subset
    <3>4. /\ IntOn(F, T) /\ IntOn(G, T) /\ IntOn(H, T)
          /\ IntOn(F, T \ {x}) /\ IntOn(G, T \ {x})
      BY <1>1, <3>3 DEF IntOn
    <3>5. /\ SumFunctionOnSet(F, T) = F[x] + SumFunctionOnSet(F, T \ {x})
          /\ SumFunctionOnSet(G, T) = G[x] + SumFunctionOnSet(G, T \ {x})
          /\ SumFunctionOnSet(H, T) = H[x] + SumFunctionOnSet(H, T \ {x})
      BY <3>4, SumRemove
    <3>6. /\ SumFunctionOnSet(F, T \ {x}) \in Int /\ SumFunctionOnSet(G, T \ {x}) \in Int
          /\ F[x] \in Int /\ G[x] \in Int /\ H[x] = F[x] + G[x]
      BY <3>1, <3>4, SumType DEF IntOn
    <3> QED
      BY <3>2, <3>5, <3>6
  <2> QED
    BY <2>1, <2>2
<1>3. P = SUBSET S
  <2>1. P \in SUBSET (SUBSET S)
    OBVIOUS
  <2> HIDE DEF P
  <2> QED
    BY <1>1, <1>2, <2>1, SubsetInduction
<1> QED
  BY <1>1, <1>3

LEMMA SumPart ==
  ASSUME NEW S, NEW F, IntOn(F, S), NEW T \in SUBSET S, \A x \in S \ T : F[x] = 0
  PROVE  IntOn(F, T) /\ SumFunctionOnSet(F, S) = SumFunctionOnSet(F, T)
<1> DEFINE R == S \ T
           Z == [x \in R |-> F[x]]
<1>1. IsFiniteSet(T) /\ IsFiniteSet(R)
  BY FS_Subset DEF IntOn
<1>2. IntOn(F, T) /\ IntOn(F, R) /\ T \cap R = {} /\ T \cup R = S
  BY <1>1 DEF IntOn
<1>3. SumFunctionOnSet(F, S) = SumFunctionOnSet(F, T) + SumFunctionOnSet(F, R)
  BY <1>2, SumUnion
<1>4. DOMAIN Z = R /\ \A x \in R : Z[x] = 0 /\ F[x] = Z[x]
  OBVIOUS
<1> HIDE DEF Z, R
<1>5. SumFunctionOnSet(Z, R) = 0
  BY <1>1, <1>4, SumZero DEF SumFunction
<1>6. SumFunctionOnSet(F, R) = 0
  BY <1>2, <1>4, <1>5, SumSame
<1>7. SumFunctionOnSet(F, T) \in Int
  BY <1>2, SumType
<1> QED
  BY <1>2, <1>3, <1>6, <1>7

-----------------------------------------------------------------------------
(* The places of x in a sequence: how many there are, in two sequences one *)
(* after the other, and in a sequence of one element.                      *)
Where(x, s) == {i \in DOMAIN s : s[i] = x}

LEMMA WhereIsFinite ==
  ASSUME NEW S, NEW s \in Seq(S), NEW x
  PROVE  IsFiniteSet(Where(x, s)) /\ Cardinality(Where(x, s)) \in Nat
<1>1. IsFiniteSet(1..Len(s)) /\ DOMAIN s = 1..Len(s)
  BY FS_Interval
<1>2. Where(x, s) \in SUBSET (1..Len(s))
  BY <1>1 DEF Where
<1>3. IsFiniteSet(Where(x, s))
  BY <1>1, <1>2, FS_Subset
<1> QED
  BY <1>3, FS_CardinalityType

LEMMA WhereSmall ==
  ASSUME NEW x
  PROVE  /\ Cardinality(Where(x, << >>)) = 0
         /\ \A y : Cardinality(Where(x, <<y>>)) = IF y = x THEN 1 ELSE 0
<1>1. Where(x, << >>) = {}
  BY DEF Where
<1>2. ASSUME NEW y PROVE Where(x, <<y>>) = IF y = x THEN {1} ELSE {}
  <2>1. DOMAIN <<y>> = {1} /\ <<y>>[1] = y
    OBVIOUS
  <2> QED
    BY <2>1 DEF Where
<1>3. Cardinality({}) = 0 /\ Cardinality({1}) = 1
  BY FS_EmptySet, FS_Singleton
<1> QED
  BY <1>1, <1>2, <1>3

LEMMA WhereConcat ==
  ASSUME NEW S, NEW s \in Seq(S), NEW t \in Seq(S), NEW x
  PROVE  Cardinality(Where(x, s \o t)) = Cardinality(Where(x, s)) + Cardinality(Where(x, t))
<1> DEFINE u == s \o t
           m == Len(s)
           n == Len(t)
           A == Where(x, s)
           B == Where(x, t)
           C == Where(x, u)
           D == {i \in C : i > m}
           b == [i \in B |-> m + i]
<1>1. /\ u \in Seq(S) /\ Len(u) = m + n /\ m \in Nat /\ n \in Nat
      /\ DOMAIN s = 1..m /\ DOMAIN t = 1..n
      /\ \A i \in 1..m : u[i] = s[i]
      /\ \A i \in 1..n : u[m + i] = t[i]
  OBVIOUS
<1> HIDE DEF u, m, n
<1>2. DOMAIN u = 1..(m + n)
  BY <1>1
<1>3. C = A \cup D /\ A \cap D = {}
  BY <1>1, <1>2 DEF Where
<1>4. b \in Bijection(B, D)
  <2>1. \A i \in B : i \in 1..n /\ m + i \in 1..(m + n) /\ m + i > m
    BY <1>1 DEF Where
  <2>2. \A i \in B : b[i] = m + i /\ m + i \in D
    BY <1>1, <1>2, <2>1 DEF Where
  <2>3. \A i, j \in B : b[i] = b[j] => i = j
    BY <1>1, <2>1, <2>2
  <2>4. ASSUME NEW z \in D PROVE \E i \in B : b[i] = z
    <3>1. z - m \in 1..n /\ m + (z - m) = z
      BY <1>1, <1>2 DEF Where
    <3>2. z - m \in B
      BY <1>1, <3>1 DEF Where
    <3> QED
      BY <2>2, <3>1, <3>2
  <2>5. b \in [B -> D]
    BY <2>2
  <2> HIDE DEF b, B, D
  <2> QED
    BY <2>3, <2>4, <2>5 DEF Bijection, Injection, Surjection, IsInjective
<1>5. IsFiniteSet(A) /\ IsFiniteSet(B) /\ Cardinality(A) \in Nat /\ Cardinality(B) \in Nat
  BY WhereIsFinite
<1> HIDE DEF A, B, C, D, b
<1>6. IsFiniteSet(D) /\ Cardinality(D) = Cardinality(B)
  BY <1>4, <1>5, FS_Bijection DEF ExistsBijection
<1>7. Cardinality(C) = Cardinality(A) + Cardinality(D) - Cardinality({})
  BY <1>3, <1>5, <1>6, FS_Union
<1>8. Cardinality({}) = 0
  BY FS_EmptySet
<1>9. Cardinality(C) = Cardinality(A) + Cardinality(B)
  BY <1>5, <1>6, <1>7, <1>8
<1> QED
  BY <1>9 DEF A, B, C, u

-----------------------------------------------------------------------------
(* The two parts of a sequence that is cut behind its n-th element.        *)
LEMMA SequenceSplit ==
  ASSUME NEW S, NEW s \in Seq(S), NEW n \in 0..Len(s)
  PROVE  LET first == SubSeq(s, 1, n)
             rest == SubSeq(s, n + 1, Len(s))
         IN  /\ first \in Seq(S) /\ Len(first) = n
             /\ rest \in Seq(S) /\ Len(rest) = Len(s) - n
             /\ s = first \o rest
<1> DEFINE first == SubSeq(s, 1, n)
           rest == SubSeq(s, n + 1, Len(s))
<1>1. Len(s) \in Nat /\ n \in Nat /\ n <= Len(s) /\ \A k \in 1..Len(s) : s[k] \in S
  OBVIOUS
<1>2. \A k \in 1..n : k \in 1..Len(s)
  BY <1>1
<1>3. \A k \in (n + 1)..Len(s) : k \in 1..Len(s)
  BY <1>1
<1>4. first \in Seq(S) /\ Len(first) = n
  <2>1. /\ 1 \in Int /\ n \in Int
        /\ \A k \in 1..n : s[k] \in S
    BY <1>1, <1>2
  <2>2. first \in Seq(S) /\ Len(first) = IF 1 <= n THEN n - 1 + 1 ELSE 0
    BY <2>1, SubSeqProperties
  <2> QED
    BY <1>1, <2>2
<1>5. rest \in Seq(S) /\ Len(rest) = Len(s) - n
  <2>1. /\ n + 1 \in Int /\ Len(s) \in Int
        /\ \A k \in (n + 1)..Len(s) : s[k] \in S
    BY <1>1, <1>3
  <2>2. rest \in Seq(S) /\ Len(rest) = IF n + 1 <= Len(s) THEN Len(s) - (n + 1) + 1 ELSE 0
    BY <2>1, SubSeqProperties
  <2> HIDE DEF rest
  <2> QED
    BY <1>1, <2>2
<1>6. first \o rest = s
  <2>1. 1 \in 1..(Len(s) + 1) /\ n \in (1 - 1)..Len(s) /\ Len(s) \in n..Len(s)
    BY <1>1
  <2>2. SubSeq(s, 1, n) \o SubSeq(s, n + 1, Len(s)) = SubSeq(s, 1, Len(s))
    BY <2>1, ConcatAdjacentSubSeq
  <2>3. SubSeq(s, 1, Len(s)) = s
    BY SubSeqFull
  <2> QED
    BY <2>2, <2>3
<1> QED
  BY <1>4, <1>5, <1>6

LEMMA HeadAndTail ==
  ASSUME NEW S, NEW s \in Seq(S), s # << >>
  PROVE  /\ Head(s) \in S /\ Head(s) = s[1] /\ Tail(s) \in Seq(S)
         /\ Len(s) \in Nat /\ Len(s) >= 1 /\ Len(Tail(s)) = Len(s) - 1
         /\ \A k \in 1..Len(Tail(s)) : k + 1 \in 1..Len(s) /\ Tail(s)[k] = s[k + 1]
         /\ s = <<Head(s)>> \o Tail(s)
<1>1. /\ Head(s) \in S /\ Tail(s) \in Seq(S) /\ Len(s) \in Nat /\ Len(s) >= 1
      /\ Head(s) = s[1]
  OBVIOUS
<1>2. /\ Len(Tail(s)) = Len(s) - 1
      /\ \A k \in 1..Len(Tail(s)) : k + 1 \in 1..Len(s) /\ Tail(s)[k] = s[k + 1]
  BY <1>1, HeadTailProperties
<1>3. 1 \in 1..Len(s) /\ Len(s) \in 1..Len(s)
  BY <1>1
<1>4. SubSeq(s, 1, Len(s)) = <<s[1]>> \o SubSeq(s, 1 + 1, Len(s))
  BY <1>3, SubSeqRecursiveFirst
<1>5. SubSeq(s, 1, Len(s)) = s /\ Tail(s) = SubSeq(s, 2, Len(s))
  BY SubSeqFull, TailIsSubSeq
<1>6. s = <<Head(s)>> \o Tail(s)
  BY <1>1, <1>4, <1>5
<1> QED
  BY <1>1, <1>2, <1>6

(* A function on 1..n is a sequence. *)
LEMMA FunctionIsSequence ==
  ASSUME NEW S, NEW n \in Nat, NEW s \in [1..n -> S]
  PROVE  s \in Seq(S) /\ Len(s) = n
BY SeqDef

-----------------------------------------------------------------------------
(* The elements of a family of sets, each with the index of its set: there *)
(* are as many as the sets have together.                                  *)
Tagged(D, S) == {t \in D \X UNION {S[d] : d \in D} : t[2] \in S[t[1]]}

LEMMA TaggedSize ==
  ASSUME NEW D, IsFiniteSet(D), NEW S, \A d \in D : IsFiniteSet(S[d]),
         NEW C, \A d \in D : C[d] = Cardinality(S[d])
  PROVE  /\ IntOn(C, D) /\ IsFiniteSet(Tagged(D, S))
         /\ Cardinality(Tagged(D, S)) = SumFunctionOnSet(C, D)
<1>1. IntOn(C, D)
  <2>1. \A d \in D : C[d] \in Nat
    BY FS_CardinalityType
  <2> QED
    BY <2>1 DEF IntOn
<1> DEFINE H == {T \in SUBSET D : /\ IsFiniteSet(Tagged(T, S))
                                  /\ Cardinality(Tagged(T, S)) = SumFunctionOnSet(C, T)}
<1>2. ASSUME NEW T \in SUBSET D, \A U \in SUBSET T : U # T => U \in H
      PROVE  T \in H
  <2>1. CASE T = {}
    <3>1. Tagged({}, S) = {}
      BY DEF Tagged
    <3> QED
      BY <2>1, <3>1, SumEmpty, FS_EmptySet
  <2>2. CASE T # {}
    <3>1. PICK x \in T : TRUE
      BY <2>2
    <3> DEFINE U == T \ {x}
               A == Tagged(U, S)
               B == {x} \X S[x]
    <3>2. U \in H
      BY <1>2, <3>1
    <3>3. IsFiniteSet(A) /\ Cardinality(A) = SumFunctionOnSet(C, U)
      BY <3>2
    <3>4. IsFiniteSet(B) /\ Cardinality(B) = C[x] /\ C[x] \in Nat
      <4>1. IsFiniteSet({x}) /\ Cardinality({x}) = 1
        BY FS_Singleton
      <4>2. IsFiniteSet(S[x]) /\ Cardinality(S[x]) \in Nat /\ C[x] = Cardinality(S[x])
        BY <3>1, FS_CardinalityType
      <4>3. IsFiniteSet(B) /\ Cardinality(B) = Cardinality({x}) * Cardinality(S[x])
        BY <4>1, <4>2, FS_Product
      <4> HIDE DEF B
      <4>4. 1 * Cardinality(S[x]) = Cardinality(S[x])
        BY <4>2
      <4> QED
        BY <4>1, <4>2, <4>3, <4>4
    <3>5. Tagged(T, S) = A \cup B /\ A \cap B = {}
      BY <3>1 DEF Tagged
    <3>6. IntOn(C, T) /\ IntOn(C, U)
      BY <1>1, FS_Subset DEF IntOn
    <3>7. SumFunctionOnSet(C, T) = C[x] + SumFunctionOnSet(C, U) /\ SumFunctionOnSet(C, U) \in Int
      BY <3>1, <3>6, SumRemove, SumType
    <3> HIDE DEF A, B, U
    <3>8. /\ IsFiniteSet(A \cup B)
          /\ Cardinality(A \cup B) = Cardinality(A) + Cardinality(B) - Cardinality(A \cap B)
      BY <3>3, <3>4, FS_Union
    <3>9. Cardinality(A \cap B) = 0
      BY <3>5, FS_EmptySet
    <3>10. Cardinality(A \cup B) = SumFunctionOnSet(C, U) + C[x] - 0
      BY <3>3, <3>4, <3>8, <3>9
    <3>11. SumFunctionOnSet(C, T) = SumFunctionOnSet(C, U) + C[x] - 0
      BY <3>4, <3>7
    <3>12. /\ IsFiniteSet(Tagged(T, S))
           /\ Cardinality(Tagged(T, S)) = SumFunctionOnSet(C, T)
      BY <3>5, <3>8, <3>10, <3>11
    <3> QED
      BY <3>12
  <2> QED
    BY <2>1, <2>2
<1>3. H = SUBSET D
  <2>1. H \in SUBSET (SUBSET D)
    OBVIOUS
  <2> HIDE DEF H
  <2> QED
    BY <1>2, <2>1, SubsetInduction
<1> QED
  BY <1>1, <1>3

-----------------------------------------------------------------------------
(* Quotients and remainders. *)
LEMMA DivMod ==
  ASSUME NEW a \in Nat, NEW b \in Nat \ {0}
  PROVE  a \div b \in Nat /\ a % b \in 0..(b - 1) /\ a = b * (a \div b) + (a % b)
OBVIOUS

LEMMA Multiple ==
  ASSUME NEW b \in Nat \ {0}, NEW x \in Int, x >= 1
  PROVE  b * x >= b
OBVIOUS

LEMMA Multiples ==
  ASSUME NEW b \in Nat, NEW l \in Nat, NEW k \in 0..l
  PROVE  b * k \in Nat /\ b * k <= b * l
<1> DEFINE d == l - k
<1>1. d \in Nat /\ l = k + d /\ k \in Nat
  OBVIOUS
<1> HIDE DEF d
<1>2. b * d \in Nat /\ b * k \in Nat /\ b * l = b * k + b * d
  BY <1>1
<1> QED
  BY <1>2

LEMMA Distribute ==
  ASSUME NEW b \in Nat, NEW x \in Nat, NEW y \in Nat
  PROVE  b * (x + 1 + y) = b * x + b + b * y
OBVIOUS

Divided(a, b, q, r) ==
  a \in Nat /\ b \in Nat \ {0} /\ q \in Int /\ r \in 0..(b - 1) /\ a = b * q + r

LEMMA DivModUnique ==
  ASSUME NEW a, NEW b, NEW q, NEW r, Divided(a, b, q, r)
  PROVE  a \div b = q /\ a % b = r
<1>0. a \in Nat /\ b \in Nat \ {0} /\ q \in Int /\ r \in 0..(b - 1) /\ a = b * q + r
  BY DEF Divided
<1> DEFINE Q == a \div b
           R == a % b
<1>1. Q \in Nat /\ R \in 0..(b - 1) /\ a = b * Q + R
  BY <1>0, DivMod
<1> HIDE DEF Q, R
<1>2. b * (Q - q) = r - R /\ b * (q - Q) = R - r
  BY <1>0, <1>1
<1>3. ~(Q - q >= 1)
  <2> SUFFICES ASSUME Q - q >= 1 PROVE FALSE
    OBVIOUS
  <2>1. b * (Q - q) >= b
    BY <1>0, <1>1, Multiple
  <2> QED
    BY <1>0, <1>1, <1>2, <2>1
<1>4. ~(q - Q >= 1)
  <2> SUFFICES ASSUME q - Q >= 1 PROVE FALSE
    OBVIOUS
  <2>1. b * (q - Q) >= b
    BY <1>0, <1>1, Multiple
  <2> QED
    BY <1>0, <1>1, <1>2, <2>1
<1>5. Q = q
  BY <1>0, <1>1, <1>3, <1>4
<1>6. R = r
  BY <1>0, <1>1, <1>5
<1> QED
  BY <1>5, <1>6 DEF Q, R

Shifted(y, a, b, x) ==
  y \in Nat /\ a \in Nat /\ b \in Nat \ {0} /\ x \in Int /\ y = a + b * x

LEMMA ModShift ==
  ASSUME NEW y, NEW a, NEW b, NEW x, Shifted(y, a, b, x)
  PROVE  y % b = a % b /\ y \div b = a \div b + x
<1>0. y \in Nat /\ a \in Nat /\ b \in Nat \ {0} /\ x \in Int /\ y = a + b * x
  BY DEF Shifted
<1>1. a \div b \in Nat /\ a % b \in 0..(b - 1) /\ a = b * (a \div b) + (a % b)
  BY <1>0, DivMod
<1> DEFINE Q == a \div b
           R == a % b
<1> HIDE DEF Q, R
<1>2. Divided(y, b, Q + x, R)
  BY <1>0, <1>1 DEF Q, R, Divided
<1>3. y \div b = Q + x /\ y % b = R
  BY <1>2, DivModUnique
<1> QED
  BY <1>3 DEF Q, R

Addends(a, c, b) == a \in Nat /\ b \in Nat \ {0} /\ c \in Nat

LEMMA ModAdd ==
  ASSUME NEW a, NEW b, NEW c, Addends(a, c, b)
  PROVE  ((a % b) + c) % b = (a + c) % b
<1>0. a \in Nat /\ b \in Nat \ {0} /\ c \in Nat
  BY DEF Addends
<1>1. a \div b \in Nat /\ a % b \in 0..(b - 1) /\ a = b * (a \div b) + (a % b)
  BY <1>0, DivMod
<1> DEFINE Q == a \div b
           R == a % b
<1> HIDE DEF Q, R
<1>2. a + c = (R + c) + b * Q /\ R + c \in Nat /\ Q \in Int /\ a + c \in Nat
  BY <1>0, <1>1 DEF Q, R
<1> DEFINE x == R + c
           y == a + c
<1>3. y % b = x % b
  <2>1. Shifted(y, x, b, Q)
    BY <1>0, <1>2 DEF Shifted
  <2> HIDE DEF x, y
  <2> QED
    BY <2>1, ModShift
<1> QED
  BY <1>3 DEF R

(* Positions in a flat array of b rows of n elements. *)
LEMMA FlatIndex ==
  ASSUME NEW n \in Nat, NEW b \in Nat, NEW i \in 0..(b - 1), NEW j \in 0..(n - 1)
  PROVE  /\ i * n + j \in 0..(b * n - 1)
         /\ (i * n + j) \div n = i /\ (i * n + j) % n = j
<1> DEFINE p == i * n + j
<1>1. i \in Nat /\ j \in Nat /\ n \in Nat \ {0} /\ p \in Nat
  OBVIOUS
<1>2. Divided(p, n, i, j)
  BY <1>1 DEF Divided
<1>3. n * (i + 1) \in Nat /\ n * (i + 1) <= n * b
  BY <1>1, Multiples
<1>4. p \in 0..(b * n - 1)
  BY <1>1, <1>3
<1> HIDE DEF p
<1>5. p \div n = i /\ p % n = j
  BY <1>2, DivModUnique
<1> QED
  BY <1>4, <1>5 DEF p

LEMMA FlatInverse ==
  ASSUME NEW n \in Nat \ {0}, NEW b \in Nat, NEW q \in 0..(b * n - 1)
  PROVE  /\ q \div n \in 0..(b - 1) /\ q % n \in 0..(n - 1)
         /\ q = (q \div n) * n + (q % n)
<1> DEFINE Q == q \div n
           R == q % n
<1>1. q \in Nat /\ b * n \in Nat /\ q < b * n
  OBVIOUS
<1>2. Q \in Nat /\ R \in 0..(n - 1) /\ q = n * Q + R
  BY <1>1, DivMod
<1> HIDE DEF Q, R
<1>3. ~(Q >= b)
  <2> SUFFICES ASSUME Q >= b PROVE FALSE
    OBVIOUS
  <2>1. n * b <= n * Q
    BY <1>2, Multiples
  <2> QED
    BY <1>1, <1>2, <2>1
<1>4. Q \in 0..(b - 1) /\ q = Q * n + R
  BY <1>2, <1>3
<1> QED
  BY <1>2, <1>4 DEF Q, R
=============================================================================
