--------------------------- MODULE InductionLemmas ---------------------------
(***************************************************************************)
(* Induction over the natural numbers and definition by recursion, stated  *)
(* with sets and functions instead of operators: the folds of the          *)
(* community modules are recursive functions on the subsets of a set.      *)
(***************************************************************************)
EXTENDS Integers, FiniteSets, FiniteSetsExt, Lists, FiniteSetTheorems, WellFoundedInduction, TLAPS

(* A set of natural numbers has a least one.                               *)
LEMMA LeastNatural ==
  ASSUME NEW T \in SUBSET Nat, T # {}
  PROVE  \E m \in T : \A k \in T : m <= k
<1>1. \E m \in T : \A k \in T : ~(<<k, m>> \in OpToRel(<, Nat))
  BY Zenon, NatLessThanWellFounded, WFMin
<1>2. PICK m \in T : \A k \in T : ~(<<k, m>> \in OpToRel(<, Nat))
  BY Zenon, <1>1
<1>3. \A k \in T : ~(k < m)
  BY Zenon, <1>2 DEF OpToRel
<1> QED BY <1>3

(* What holds of 0 and of a number when it holds of the one before.        *)
LEMMA NaturalInduction ==
  ASSUME NEW T, 0 \in T, \A i \in Nat : i \in T => i + 1 \in T
  PROVE  Nat \subseteq T
<1> SUFFICES ASSUME Nat \ T # {} PROVE FALSE
  OBVIOUS
<1>1. PICK m \in Nat \ T : \A k \in Nat \ T : m <= k
  BY Zenon, LeastNatural
<1>2. m # 0 /\ m - 1 \in Nat /\ m - 1 \notin Nat \ T
  BY <1>1
<1> QED BY <1>1, <1>2

(* The same up to a bound.                                                 *)
LEMMA IntervalInduction ==
  ASSUME NEW n \in Nat, NEW T, 0 \in T, \A i \in 1 .. n : i - 1 \in T => i \in T
  PROVE  0 .. n \subseteq T
<1> DEFINE U == {i \in Nat : i <= n => i \in T}
<1>1. 0 \in U
  OBVIOUS
<1>2. \A i \in Nat : i \in U => i + 1 \in U
  OBVIOUS
<1>3. Nat \subseteq U
  <2> HIDE DEF U
  <2> QED BY <1>1, <1>2, NaturalInduction
<1> QED BY <1>3

(* A loop of n rounds that starts from b and takes v to step[i][v] in      *)
(* round i has intermediate values.                                        *)
IsLoop(f, n, b, step) == f[0] = b /\ \A i \in 1 .. n : f[i] = step[i][f[i - 1]]

LEMMA LoopExists ==
  ASSUME NEW n \in Nat, NEW V, NEW b \in V, NEW step \in [1 .. n -> [V -> V]]
  PROVE  \E f \in [0 .. n -> V] : IsLoop(f, n, b, step)
<1> USE DEF IsLoop
<1> DEFINE Run(f, k) == f[0] = b /\ \A i \in 1 .. k : f[i] = step[i][f[i - 1]]
           T == {k \in 0 .. n : \E f \in [0 .. n -> V] : Run(f, k)}
<1>1. 0 \in T
  <2> DEFINE f == [i \in 0 .. n |-> b]
  <2>1. f \in [0 .. n -> V] /\ f[0] = b
    OBVIOUS
  <2> HIDE DEF f
  <2> QED BY <2>1
<1>2. ASSUME NEW k \in 1 .. n, k - 1 \in T PROVE k \in T
  <2>1. PICK f \in [0 .. n -> V] : Run(f, k - 1)
    BY <1>2
  <2> DEFINE g == [f EXCEPT ![k] = step[k][f[k - 1]]]
  <2>2. k \in 0 .. n /\ k - 1 \in 0 .. n /\ f[k - 1] \in V /\ step[k][f[k - 1]] \in V
    OBVIOUS
  <2>3. /\ g \in [0 .. n -> V] /\ g[k] = step[k][f[k - 1]]
        /\ \A i \in 0 .. n : i # k => g[i] = f[i]
    BY <2>2
  <2> HIDE DEF g
  <2>4. g[0] = b /\ g[k - 1] = f[k - 1]
    BY <2>1, <2>2, <2>3
  <2>5. ASSUME NEW i \in 1 .. k PROVE g[i] = step[i][g[i - 1]]
    <3>1. CASE i = k
      BY <2>3, <2>4, <3>1
    <3>2. CASE i # k
      <4>1. i \in 1 .. k - 1 /\ i \in 0 .. n /\ i - 1 \in 0 .. n /\ i - 1 # k
        BY <3>2
      <4> QED BY <2>1, <2>3, <3>2, <4>1
    <3> QED BY <3>1, <3>2
  <2> QED BY <2>2, <2>3, <2>4, <2>5
<1>3. n \in T
  <2> HIDE DEF T
  <2>1. 0 .. n \subseteq T
    BY Zenon, <1>1, <1>2, IntervalInduction
  <2> QED BY <2>1
<1> QED BY <1>3

-----------------------------------------------------------------------------
LEMMA MaxOfSubset ==
  ASSUME NEW n \in Nat, NEW T \in SUBSET (1 .. n), T # {}
  PROVE  Max(T) \in T /\ \A k \in T : k <= Max(T)
<1> DEFINE U == {i \in Nat : n - i \in T}
<1>1. U # {}
  <2>1. PICK k \in T : TRUE
    BY Zenon
  <2>2. n - k \in U
    BY <2>1
  <2> QED BY Zenon, <2>2
<1>2. PICK m \in U : \A k \in U : m <= k
  <2> HIDE DEF U
  <2>1. U \in SUBSET Nat
    BY DEF U
  <2> QED BY <1>1, <2>1, LeastNatural
<1>3. n - m \in T /\ \A k \in T : k <= n - m
  <2>1. \A k \in T : n - k \in U
    OBVIOUS
  <2> QED BY <1>2, <2>1
<1>4. \E x \in T : \A y \in T : x >= y
  BY <1>3
<1>5. Max(T) \in T /\ \A y \in T : Max(T) >= y
  BY <1>4, Zenon DEF Max
<1> QED BY <1>5

(* The cardinalities of the subsets of a finite set.                       *)
LEMMA Cardinalities ==
  ASSUME NEW S, IsFiniteSet(S)
  PROVE  /\ Cardinality(S) \in Nat
         /\ \A T \in SUBSET S : IsFiniteSet(T) /\ Cardinality(T) \in 0 .. Cardinality(S)
         /\ \A T \in SUBSET S : Cardinality(T) <= 0 => T = {}
         /\ \A T \in SUBSET S : \A x \in T :
              T \ {x} \in SUBSET S /\ Cardinality(T \ {x}) = Cardinality(T) - 1
<1>1. Cardinality(S) \in Nat
  BY FS_CardinalityType
<1>2. ASSUME NEW T \in SUBSET S
      PROVE  IsFiniteSet(T) /\ Cardinality(T) \in 0 .. Cardinality(S)
  <2>1. IsFiniteSet(T) /\ Cardinality(T) <= Cardinality(S)
    BY FS_Subset
  <2>2. Cardinality(T) \in Nat
    BY <2>1, FS_CardinalityType
  <2> QED BY <1>1, <2>1, <2>2
<1>3. ASSUME NEW T \in SUBSET S, Cardinality(T) <= 0 PROVE T = {}
  BY <1>2, <1>3, FS_EmptySet
<1>4. ASSUME NEW T \in SUBSET S, NEW x \in T
      PROVE  T \ {x} \in SUBSET S /\ Cardinality(T \ {x}) = Cardinality(T) - 1
  BY <1>2, FS_RemoveElement
<1> QED BY <1>1, <1>2, <1>3, <1>4

(* A finite set of integers that is not empty has a largest element.       *)
LEMMA MaxOfFinite ==
  ASSUME NEW S \in SUBSET Int, IsFiniteSet(S), S # {}
  PROVE  Max(S) \in S /\ \A x \in S : x <= Max(S)
<1> DEFINE n == Cardinality(S)
           HasMax(T) == \E x \in T : \A y \in T : x >= y
           W == {k \in 0 .. n : \A T \in SUBSET S : Cardinality(T) <= k /\ T # {} => HasMax(T)}
<1>1. n \in Nat /\ \A T \in SUBSET S : IsFiniteSet(T) /\ Cardinality(T) \in 0 .. n
  BY Zenon, Cardinalities
<1>2. 0 \in W
  <2>1. ASSUME NEW T \in SUBSET S, Cardinality(T) <= 0 PROVE T = {}
    BY Zenon, <2>1, Cardinalities
  <2>2. 0 \in 0 .. n
    BY <1>1
  <2> HIDE DEF HasMax, n
  <2> QED BY Zenon, <2>1, <2>2
<1>3. ASSUME NEW k \in 1 .. n, k - 1 \in W PROVE k \in W
  <2>1. ASSUME NEW T \in SUBSET S, Cardinality(T) <= k, T # {} PROVE HasMax(T)
    <3>1. PICK z \in T : TRUE
      BY Zenon, <2>1
    <3> DEFINE U == T \ {z}
    <3>2. U \in SUBSET S /\ Cardinality(U) <= k - 1
      <4>1. Cardinality(U) = Cardinality(T) - 1
        BY <1>1, <3>1, FS_RemoveElement
      <4> QED BY <1>1, <2>1, <4>1
    <3>3. CASE U = {}
      BY <3>1, <3>3
    <3>4. CASE U # {}
      <4>1. PICK m \in U : \A y \in U : m >= y
        BY <1>3, <3>2, <3>4
      <4>2. CASE m >= z
        BY <4>1, <4>2
      <4>3. CASE ~(m >= z)
        <5>1. \A y \in T : z >= y
          BY <4>1, <4>3
        <5> QED BY <3>1, <5>1
      <4> QED BY <4>2, <4>3
    <3> QED BY <3>3, <3>4
  <2>2. k \in 0 .. n
    BY <1>1
  <2> HIDE DEF HasMax
  <2> QED BY <2>1, <2>2
<1>4. n \in W
  <2> HIDE DEF W, n
  <2>1. 0 .. n \subseteq W
    BY <1>1, <1>2, <1>3, IntervalInduction
  <2> QED BY <1>1, <2>1
<1>5. HasMax(S)
  <2> HIDE DEF HasMax
  <2> QED BY <1>1, <1>4
<1>6. Max(S) \in S /\ \A y \in S : Max(S) >= y
  BY <1>5, Zenon DEF Max
<1> QED BY <1>6

LEMMA MinOfNaturals ==
  ASSUME NEW S \in SUBSET Nat, S # {}
  PROVE  Min(S) \in S /\ \A x \in S : Min(S) <= x
<1>1. \E x \in S : \A y \in S : x <= y
  BY LeastNatural
<1> QED BY <1>1, Zenon DEF Min

LEMMA FiniteRange ==
  ASSUME NEW S, IsFiniteSet(S), NEW f
  PROVE  IsFiniteSet({f[x] : x \in S})
<1> DEFINE T == {f[x] : x \in S}
           g == [x \in S |-> f[x]]
<1>1. g \in Surjection(S, T)
  BY DEF Surjection
<1> HIDE DEF g, T
<1>2. IsFiniteSet(T)
  BY <1>1, FS_Surjection
<1> QED BY <1>2 DEF T

(* SetToSeqs(S) are the sequences in which every element of S occurs once. *)
LEMMA SeqsOfSet ==
  ASSUME NEW S, IsFiniteSet(S), NEW s \in SetToSeqs(S)
  PROVE  /\ Len(s) \in Nat /\ DOMAIN s = 1 .. Len(s) /\ s \in Seq(S)
         /\ S = {s[i] : i \in 1 .. Len(s)}
         /\ \A i, j \in 1 .. Len(s) : s[i] = s[j] => i = j
<1> DEFINE n == Cardinality(S)
           D == 1 .. n
<1>1. n \in Nat
  BY FS_CardinalityType
<1>2. s \in [D -> S] /\ \A i, j \in D : i # j => s[i] # s[j]
  BY DEF SetToSeqs
<1>3. s \in Injection(D, S) /\ Cardinality(D) = Cardinality(S)
  <2>1. Cardinality(D) = n
    BY <1>1, FS_Interval
  <2> QED BY <1>2, <2>1 DEF Injection, IsInjective
<1>4. s \in Surjection(D, S)
  <2> HIDE DEF D
  <2> QED BY <1>3, FS_Injection
<1>5. s \in Seq(S) /\ Len(s) = n
  <2> HIDE DEF n
  <2>1. s \in Seq(S)
    BY <1>1, <1>2
  <2> QED BY <1>1, <1>2, <2>1
<1>6. S = {s[i] : i \in D}
  BY <1>2, <1>4 DEF Surjection
<1> HIDE DEF n
<1> QED BY <1>1, <1>2, <1>5, <1>6

LEMMA MaxOfInterval ==
  ASSUME NEW k \in Nat \ {0}
  PROVE  Max(1 .. k) = k /\ (1 .. k) \ {k} = 1 .. (k - 1)
<1>1. 1 .. k # {} /\ k \in 1 .. k
  OBVIOUS
<1>2. Max(1 .. k) \in 1 .. k /\ k <= Max(1 .. k)
  BY Zenon, <1>1, MaxOfSubset
<1> QED BY <1>2

(* The intermediate values of a fold: one for each subset of S, from which *)
(* the element pick[T] is taken last.                                      *)
Picks(pick, S) == \A T \in SUBSET S : T # {} => pick[T] \in T
IsFold(f, S, b, step, pick) ==
  \A T \in SUBSET S : f[T] = IF T = {} THEN b ELSE step[pick[T]][f[T \ {pick[T]}]]

LEMMA FoldExists ==
  ASSUME NEW S, IsFiniteSet(S), NEW V, NEW b \in V, NEW step \in [S -> [V -> V]],
         NEW pick, Picks(pick, S)
  PROVE  \E f \in [SUBSET S -> V] : IsFold(f, S, b, step, pick)
<1> DEFINE Val(f, T) == IF T = {} THEN b ELSE step[pick[T]][f[T \ {pick[T]}]]
           Small(k) == {T \in SUBSET S : Cardinality(T) <= k}
           n == Cardinality(S)
           W == {k \in 0 .. n :
                  \E f \in [SUBSET S -> V] : \A T \in Small(k) : f[T] = Val(f, T)}
<1>1. n \in Nat /\ \A T \in SUBSET S : IsFiniteSet(T) /\ Cardinality(T) \in 0 .. n
  BY Cardinalities
<1>2. ASSUME NEW f \in [SUBSET S -> V], NEW T \in SUBSET S
      PROVE  Val(f, T) \in V
  BY <1>2 DEF Picks
<1>3. ASSUME NEW T \in SUBSET S, T # {}
      PROVE  /\ T \ {pick[T]} \in SUBSET S
             /\ Cardinality(T \ {pick[T]}) = Cardinality(T) - 1
  BY Zenon, <1>1, <1>3, FS_RemoveElement DEF Picks
<1>4. 0 \in W
  <2> DEFINE f == [T \in SUBSET S |-> b]
  <2>1. \A T \in Small(0) : T = {}
    BY <1>1, FS_EmptySet
  <2>2. f \in [SUBSET S -> V] /\ \A T \in Small(0) : f[T] = Val(f, T)
    BY <2>1
  <2> HIDE DEF f, Val, Small
  <2> QED BY <1>1, <2>2
<1>5. ASSUME NEW k \in 1 .. n, k - 1 \in W PROVE k \in W
  <2>1. PICK f \in [SUBSET S -> V] : \A T \in Small(k - 1) : f[T] = Val(f, T)
    BY Zenon, <1>5
  <2> DEFINE g == [T \in SUBSET S |-> IF T \in Small(k - 1) THEN f[T] ELSE Val(f, T)]
  <2>2. g \in [SUBSET S -> V]
    BY Zenon, <1>2
  <2>3. \A T \in SUBSET S : g[T] = Val(f, T)
    BY Zenon, <2>1
  <2>4. \A T \in Small(k - 1) : g[T] = f[T]
    OBVIOUS
  <2>5. ASSUME NEW T \in Small(k) PROVE Val(g, T) = Val(f, T)
    <3>1. CASE T = {}
      BY <3>1
    <3>2. CASE T # {}
      <4>1. T \ {pick[T]} \in Small(k - 1)
        BY <1>1, <1>3, <2>5, <3>2
      <4> QED BY Zenon, <2>4, <3>2, <4>1
    <3> QED BY Zenon, <3>1, <3>2
  <2> HIDE DEF g, Val
  <2>6. \A T \in Small(k) : g[T] = Val(g, T)
    BY <2>3, <2>5
  <2> QED BY <2>2, <2>6
<1>6. n \in W
  <2> HIDE DEF W, n
  <2>1. 0 .. n \subseteq W
    BY <1>1, <1>4, <1>5, IntervalInduction
  <2> QED BY <1>1, <2>1
<1>7. Small(n) = SUBSET S
  BY <1>1
<1> QED BY Zenon, <1>6, <1>7 DEF IsFold

-----------------------------------------------------------------------------
(***************************************************************************)
(* Sums: MapThenSumSet takes the elements in the order of CHOOSE, which    *)
(* does not matter.                                                        *)
(***************************************************************************)
Total(f, S) == MapThenSumSet(LAMBDA x : f[x], S)

(* The sums over the subsets of S, whatever element is taken last.         *)
IsSum(g, S, f) ==
  /\ g \in [SUBSET S -> Nat] /\ g[{}] = 0
  /\ \A T \in SUBSET S : \A x \in T : g[T] = f[x] + g[T \ {x}]

LEMMA AnyOrder ==
  ASSUME NEW S, IsFiniteSet(S), NEW f \in [S -> Nat], NEW g \in [SUBSET S -> Nat],
         g[{}] = 0, NEW pick, Picks(pick, S),
         \A T \in SUBSET S : T # {} => g[T] = f[pick[T]] + g[T \ {pick[T]}]
  PROVE  IsSum(g, S, f)
<1> DEFINE n == Cardinality(S)
           Ok(T) == \A x \in T : g[T] = f[x] + g[T \ {x}]
           W == {k \in 0 .. n : \A T \in SUBSET S : Cardinality(T) <= k => Ok(T)}
<1>1. n \in Nat /\ \A T \in SUBSET S : IsFiniteSet(T) /\ Cardinality(T) \in 0 .. n
  BY Cardinalities
<1>2. \A T \in SUBSET S : \A x \in T :
        T \ {x} \in SUBSET S /\ Cardinality(T \ {x}) = Cardinality(T) - 1
  BY Zenon, Cardinalities
<1>3. 0 \in W
  <2>1. ASSUME NEW T \in SUBSET S, Cardinality(T) <= 0 PROVE T = {}
    BY <2>1, Cardinalities
  <2> QED BY <1>1, <2>1
<1>4. ASSUME NEW k \in 1 .. n, k - 1 \in W PROVE k \in W
  <2> SUFFICES ASSUME NEW T \in SUBSET S, Cardinality(T) <= k, NEW x \in T
               PROVE  g[T] = f[x] + g[T \ {x}]
    OBVIOUS
  <2> DEFINE p == pick[T]
             U == T \ {p}
  <2>1. p \in T /\ g[T] = f[p] + g[U]
    BY Zenon DEF Picks
  <2>2. CASE x = p
    BY <2>1, <2>2
  <2>3. CASE x # p
    <3> HIDE DEF p
    <3>1. /\ U \in SUBSET S /\ Cardinality(U) <= k - 1 /\ x \in U
          /\ T \ {x} \in SUBSET S /\ Cardinality(T \ {x}) <= k - 1 /\ p \in T \ {x}
      BY <1>1, <1>2, <2>1, <2>3
    <3>2. Ok(U) /\ Ok(T \ {x})
      BY Zenon, <1>4, <3>1
    <3>3. g[U] = f[x] + g[U \ {x}] /\ g[T \ {x}] = f[p] + g[(T \ {x}) \ {p}]
      BY Zenon, <3>1, <3>2
    <3>4. U \ {x} = (T \ {x}) \ {p} /\ U \ {x} \in SUBSET S
      OBVIOUS
    <3>5. f[x] \in Nat /\ f[p] \in Nat /\ g[U \ {x}] \in Nat
      BY <2>1, <3>4
    <3> DEFINE rest == g[U \ {x}]
    <3>6. g[T] = f[p] + (f[x] + rest) /\ g[T \ {x}] = f[p] + rest /\ rest \in Nat
      BY Zenon, <2>1, <3>3, <3>4, <3>5
    <3> HIDE DEF rest
    <3> QED BY <3>5, <3>6
  <2> QED BY <2>2, <2>3
<1>5. n \in W
  <2> HIDE DEF W, n
  <2>1. 0 .. n \subseteq W
    BY <1>1, <1>3, <1>4, IntervalInduction
  <2> QED BY <1>1, <2>1
<1>6. ASSUME NEW T \in SUBSET S PROVE Ok(T)
  <2>1. Cardinality(T) <= n
    BY <1>1
  <2> HIDE DEF Ok, n
  <2> QED BY <1>5, <2>1
<1> QED BY <1>6 DEF IsSum

SumsBy(g, S, f, pick) ==
  /\ g \in [SUBSET S -> Nat]
  /\ \A T \in SUBSET S : g[T] = IF T = {} THEN 0 ELSE f[pick[T]] + g[T \ {pick[T]}]

LEMMA SumExists ==
  ASSUME NEW S, IsFiniteSet(S), NEW f \in [S -> Nat], NEW pick, Picks(pick, S)
  PROVE  \E g : IsSum(g, S, f) /\ SumsBy(g, S, f, pick)
<1> DEFINE step == [x \in S |-> [v \in Nat |-> f[x] + v]]
<1>1. step \in [S -> [Nat -> Nat]] /\ 0 \in Nat
  OBVIOUS
<1>2. \A x \in S, v \in Nat : step[x][v] = f[x] + v
  OBVIOUS
<1> HIDE DEF step
<1>3. PICK g \in [SUBSET S -> Nat] : IsFold(g, S, 0, step, pick)
  BY Zenon, <1>1, FoldExists
<1>4. g[{}] = 0
  BY Zenon, <1>3 DEF IsFold
<1>5. ASSUME NEW T \in SUBSET S, T # {} PROVE g[T] = f[pick[T]] + g[T \ {pick[T]}]
  <2>1. g[T] = step[pick[T]][g[T \ {pick[T]}]]
    BY Zenon, <1>3, <1>5 DEF IsFold
  <2>2. pick[T] \in S /\ g[T \ {pick[T]}] \in Nat
    BY <1>5 DEF Picks
  <2> QED BY Zenon, <1>2, <2>1, <2>2
<1>6. IsSum(g, S, f)
  BY Zenon, <1>4, <1>5, AnyOrder
<1> QED BY Zenon, <1>4, <1>5, <1>6 DEF SumsBy

(* Sums over a set are the same however they were defined.                 *)
LEMMA SumUnique ==
  ASSUME NEW S, NEW R, IsFiniteSet(S), NEW f \in [S -> Nat], NEW e \in [R -> Nat],
         NEW g, IsSum(g, S, f), NEW h, IsSum(h, R, e), S \subseteq R,
         \A x \in S : f[x] = e[x]
  PROVE  g[S] = h[S]
<1> DEFINE n == Cardinality(S)
           W == {k \in 0 .. n : \A T \in SUBSET S : Cardinality(T) <= k => g[T] = h[T]}
<1>1. n \in Nat /\ \A T \in SUBSET S : IsFiniteSet(T) /\ Cardinality(T) \in 0 .. n
  BY Cardinalities
<1>2. \A T \in SUBSET S : \A x \in T :
        T \ {x} \in SUBSET S /\ Cardinality(T \ {x}) = Cardinality(T) - 1
  BY Zenon, Cardinalities
<1>3. 0 \in W
  <2>1. ASSUME NEW T \in SUBSET S, Cardinality(T) <= 0 PROVE T = {}
    BY <2>1, Cardinalities
  <2>2. g[{}] = h[{}]
    BY DEF IsSum
  <2> QED BY <1>1, <2>1, <2>2
<1>4. ASSUME NEW k \in 1 .. n, k - 1 \in W PROVE k \in W
  <2>0. g[{}] = h[{}]
    BY DEF IsSum
  <2> SUFFICES ASSUME NEW T \in SUBSET S, Cardinality(T) <= k, T # {}
               PROVE  g[T] = h[T]
    <3>1. ASSUME NEW T \in SUBSET S, Cardinality(T) <= k PROVE g[T] = h[T]
      BY Zenon, <2>0, <3>1
    <3>2. k \in 0 .. n
      BY <1>1
    <3> QED BY <3>1, <3>2
  <2>1. PICK x \in T : TRUE
    OBVIOUS
  <2>2. g[T \ {x}] = h[T \ {x}]
    BY <1>1, <1>2, <1>4, <2>1
  <2>3. T \in SUBSET R
    OBVIOUS
  <2>4. g[T] = f[x] + g[T \ {x}] /\ h[T] = e[x] + h[T \ {x}]
    BY <2>1, <2>3 DEF IsSum
  <2> QED BY <2>1, <2>2, <2>4
<1>5. n \in W
  <2> HIDE DEF W, n
  <2>1. 0 .. n \subseteq W
    BY <1>1, <1>3, <1>4, IntervalInduction
  <2> QED BY <1>1, <2>1
<1> QED BY <1>1, <1>5

(* The recursive function that MapThenSumSet applies to S.                 *)
SumLoop(iter, S, f) ==
  iter = [T \in SUBSET S |->
            IF T = {} THEN 0
            ELSE f[CHOOSE x \in T : TRUE] + iter[T \ {CHOOSE x \in T : TRUE}]]

LEMMA SumLoopExists ==
  ASSUME NEW S, IsFiniteSet(S), NEW f, \A x \in S : f[x] \in Nat
  PROVE  \E g : SumLoop(g, S, f) /\ IsSum(g, S, [x \in S |-> f[x]])
<1> DEFINE pick == [T \in SUBSET S |-> CHOOSE x \in T : TRUE]
           e == [x \in S |-> f[x]]
<1>1. Picks(pick, S) /\ e \in [S -> Nat] /\ \A x \in S : e[x] = f[x]
  BY DEF Picks
<1>2. \A T \in SUBSET S : pick[T] = CHOOSE x \in T : TRUE
  OBVIOUS
<1> HIDE DEF pick, e
<1>3. PICK g : IsSum(g, S, e) /\ SumsBy(g, S, e, pick)
  BY <1>1, SumExists
<1>4. ASSUME NEW T \in SUBSET S
      PROVE  g[T] = IF T = {} THEN 0
                    ELSE f[CHOOSE x \in T : TRUE] + g[T \ {CHOOSE x \in T : TRUE}]
  <2>1. CASE T = {}
    BY <1>3, <2>1 DEF SumsBy
  <2>2. CASE T # {}
    <3>1. pick[T] \in S
      BY <1>1, <2>2 DEF Picks
    <3>2. g[T] = f[pick[T]] + g[T \ {pick[T]}]
      BY <1>1, <1>3, <2>2, <3>1 DEF SumsBy
    <3> QED BY Zenon, <1>2, <2>2, <3>2
  <2> QED BY <2>1, <2>2
<1>5. SumLoop(g, S, f)
  BY <1>3, <1>4 DEF SumLoop, SumsBy
<1> QED BY <1>3, <1>5 DEF e

LEMMA SumLoopUnique ==
  ASSUME NEW S, IsFiniteSet(S), NEW f, NEW g, NEW h, SumLoop(g, S, f), SumLoop(h, S, f)
  PROVE  g = h
<1> DEFINE n == Cardinality(S)
           W == {k \in 0 .. n : \A T \in SUBSET S : Cardinality(T) <= k => g[T] = h[T]}
           c(T) == CHOOSE x \in T : TRUE
<1>1. n \in Nat /\ \A T \in SUBSET S : IsFiniteSet(T) /\ Cardinality(T) \in 0 .. n
  BY Cardinalities
<1>2. \A T \in SUBSET S : \A x \in T :
        T \ {x} \in SUBSET S /\ Cardinality(T \ {x}) = Cardinality(T) - 1
  BY Zenon, Cardinalities
<1>3. /\ g[{}] = h[{}]
      /\ \A T \in SUBSET S : T # {} => /\ c(T) \in T
                                      /\ g[T] = f[c(T)] + g[T \ {c(T)}]
                                      /\ h[T] = f[c(T)] + h[T \ {c(T)}]
  BY DEF SumLoop
<1> HIDE DEF c
<1>4. 0 \in W
  <2>1. ASSUME NEW T \in SUBSET S, Cardinality(T) <= 0 PROVE T = {}
    BY <2>1, Cardinalities
  <2> QED BY <1>1, <1>3, <2>1
<1>5. ASSUME NEW k \in 1 .. n, k - 1 \in W PROVE k \in W
  <2> SUFFICES ASSUME NEW T \in SUBSET S, Cardinality(T) <= k, T # {}
               PROVE  g[T] = h[T]
    <3>1. ASSUME NEW T \in SUBSET S, Cardinality(T) <= k PROVE g[T] = h[T]
      BY <1>3, <3>1
    <3>2. k \in 0 .. n
      BY <1>1
    <3> QED BY <3>1, <3>2
  <2>1. g[T \ {c(T)}] = h[T \ {c(T)}]
    BY <1>1, <1>2, <1>3, <1>5
  <2> QED BY <1>3, <2>1
<1>6. n \in W
  <2> HIDE DEF W, n
  <2>1. 0 .. n \subseteq W
    BY <1>1, <1>4, <1>5, IntervalInduction
  <2> QED BY <1>1, <2>1
<1>7. \A T \in SUBSET S : g[T] = h[T]
  BY <1>1, <1>6
<1>8. /\ g = [T \in SUBSET S |-> g[T]]
      /\ h = [T \in SUBSET S |-> h[T]]
  BY DEF SumLoop
<1> QED BY Zenon, <1>7, <1>8

(* What MapThenSumSet computes.                                            *)
LEMMA TotalIsLoop ==
  ASSUME NEW S, IsFiniteSet(S), NEW f, \A x \in S : f[x] \in Nat,
         NEW g, SumLoop(g, S, f)
  PROVE  Total(f, S) = g[S]
<1> DEFINE it == CHOOSE iter : SumLoop(iter, S, f)
<1>1. SumLoop(it, S, f)
  OBVIOUS
<1>2. Total(f, S) = it[S]
  BY DEF Total, MapThenSumSet, MapThenFoldSet, SumLoop
<1> HIDE DEF it
<1> QED BY <1>1, <1>2, SumLoopUnique

LEMMA TotalIsSum ==
  ASSUME NEW S, IsFiniteSet(S), NEW f, \A x \in S : f[x] \in Nat
  PROVE  \E g : IsSum(g, S, [x \in S |-> f[x]]) /\ Total(f, S) = g[S]
BY SumLoopExists, TotalIsLoop

(* Only the summands count.                                                *)
LEMMA TotalSame ==
  ASSUME NEW S, IsFiniteSet(S), NEW f, NEW e, \A x \in S : f[x] \in Nat /\ e[x] = f[x]
  PROVE  Total(f, S) = Total(e, S)
<1> DEFINE f0 == [x \in S |-> f[x]]
           e0 == [x \in S |-> e[x]]
<1>1. /\ f0 \in [S -> Nat] /\ e0 \in [S -> Nat]
      /\ \A x \in S : f0[x] = e0[x]
      /\ \A x \in S : f[x] \in Nat
      /\ \A x \in S : e[x] \in Nat
  OBVIOUS
<1>2. PICK g : IsSum(g, S, f0) /\ Total(f, S) = g[S]
  BY <1>1, TotalIsSum
<1>3. PICK h : IsSum(h, S, e0) /\ Total(e, S) = h[S]
  BY <1>1, TotalIsSum
<1> HIDE DEF f0, e0
<1> QED BY <1>1, <1>2, <1>3, SumUnique

LEMMA TotalEmpty ==
  ASSUME NEW f
  PROVE  Total(f, {}) = 0
<1>1. IsFiniteSet({}) /\ \A x \in {} : f[x] \in Nat
  BY FS_EmptySet
<1>2. PICK g : IsSum(g, {}, [x \in {} |-> f[x]]) /\ Total(f, {}) = g[{}]
  BY Zenon, <1>1, TotalIsSum
<1> QED BY <1>2 DEF IsSum

(* Any summand can be taken out first.                                     *)
LEMMA TotalStep ==
  ASSUME NEW S, IsFiniteSet(S), NEW f, \A x \in S : f[x] \in Nat, NEW x \in S
  PROVE  /\ Total(f, S) \in Nat /\ Total(f, S \ {x}) \in Nat
         /\ Total(f, S) = f[x] + Total(f, S \ {x})
<1> DEFINE U == S \ {x}
           f0 == [y \in S |-> f[y]]
           e0 == [y \in U |-> f[y]]
<1>1. /\ f0 \in [S -> Nat] /\ e0 \in [U -> Nat]
      /\ \A y \in U : e0[y] = f0[y]
      /\ \A y \in U : f[y] \in Nat
      /\ f0[x] = f[x] /\ U \subseteq S /\ IsFiniteSet(U) /\ U \in SUBSET S
  BY FS_Subset
<1>2. PICK g : IsSum(g, S, f0) /\ Total(f, S) = g[S]
  BY TotalIsSum
<1>3. PICK h : IsSum(h, U, e0) /\ Total(f, U) = h[U]
  BY Zenon, <1>1, TotalIsSum
<1>4. g[S] = f0[x] + g[U] /\ g[S] \in Nat /\ g[U] \in Nat
  BY Zenon, <1>1, <1>2 DEF IsSum
<1>5. h[U] = g[U]
  <2> HIDE DEF f0, e0, U
  <2> QED BY <1>1, <1>2, <1>3, SumUnique
<1> QED BY <1>1, <1>2, <1>3, <1>4, <1>5

LEMMA TotalOne ==
  ASSUME NEW f, NEW x, f[x] \in Nat
  PROVE  Total(f, {x}) = f[x]
<1> DEFINE S == {x}
<1>1. IsFiniteSet(S)
  BY FS_Singleton
<1>2. S \ {x} = {} /\ x \in S /\ \A y \in S : f[y] \in Nat
  OBVIOUS
<1>3. Total(f, S) = f[x] + Total(f, S \ {x})
  <2> HIDE DEF S
  <2> QED BY <1>1, <1>2, TotalStep
<1>4. Total(f, S \ {x}) = 0
  BY <1>2, TotalEmpty
<1> QED BY <1>3, <1>4

LEMMA TotalType ==
  ASSUME NEW S, IsFiniteSet(S), NEW f, \A x \in S : f[x] \in Nat
  PROVE  Total(f, S) \in Nat
<1>1. CASE S = {}
  BY <1>1, TotalEmpty
<1>2. CASE S # {}
  BY Zenon, <1>2, TotalStep
<1> QED BY <1>1, <1>2

(* Sums over an interval, taken from its upper end.                        *)
LEMMA TotalLast ==
  ASSUME NEW a \in Int, NEW k \in Int, a <= k, NEW f, \A i \in a .. k : f[i] \in Nat
  PROVE  /\ Total(f, a .. k) \in Nat /\ Total(f, a .. k - 1) \in Nat
         /\ Total(f, a .. k) = f[k] + Total(f, a .. k - 1)
<1> DEFINE S == a .. k
<1>1. IsFiniteSet(S) /\ k \in S /\ S \ {k} = a .. k - 1 /\ \A i \in S : f[i] \in Nat
  BY FS_Interval
<1>2. /\ Total(f, S) \in Nat /\ Total(f, S \ {k}) \in Nat
      /\ Total(f, S) = f[k] + Total(f, S \ {k})
  <2> HIDE DEF S
  <2> QED BY <1>1, TotalStep
<1> QED BY Zenon, <1>1, <1>2

(* A longer interval has no smaller sum.                                   *)
LEMMA TotalGrows ==
  ASSUME NEW n \in Nat, NEW f, \A i \in 1 .. n : f[i] \in Nat,
         NEW j \in 0 .. n, NEW k \in j .. n
  PROVE  Total(f, 1 .. j) <= Total(f, 1 .. k)
<1> DEFINE W == {m \in 0 .. n : j <= m => Total(f, 1 .. j) <= Total(f, 1 .. m)}
<1>1. \A m \in 0 .. n : Total(f, 1 .. m) \in Nat
  <2> TAKE m \in 0 .. n
  <2>1. IsFiniteSet(1 .. m) /\ \A i \in 1 .. m : f[i] \in Nat
    BY FS_Interval
  <2> QED BY <2>1, TotalType
<1>2. 0 \in W
  <2>1. j <= 0 => j = 0
    OBVIOUS
  <2> QED BY <1>1, <2>1
<1>3. ASSUME NEW m \in 1 .. n, m - 1 \in W PROVE m \in W
  <2>1. Total(f, 1 .. m) = f[m] + Total(f, 1 .. m - 1) /\ f[m] \in Nat
    BY TotalLast
  <2>2. CASE j = m
    BY <1>1, <2>2
  <2>3. CASE j # m
    BY <1>1, <1>3, <2>1, <2>3
  <2> QED BY <2>2, <2>3
<1>4. 0 .. n \subseteq W
  <2> HIDE DEF W
  <2> QED BY <1>2, <1>3, IntervalInduction
<1> QED BY <1>4

(* The sum over the positions of a sequence without repetitions is the sum *)
(* over its elements.                                                      *)
Distinct(s, n) == \A i, j \in 1 .. n : s[i] = s[j] => i = j
Through(p, f, s, n) == \A i \in 1 .. n : f[s[i]] \in Nat /\ p[i] = f[s[i]]

LEMMA TotalOfDistinct ==
  ASSUME NEW n \in Nat, NEW s, NEW f, NEW p, Through(p, f, s, n), Distinct(s, n)
  PROVE  Total(p, 1 .. n) = Total(f, {s[i] : i \in 1 .. n})
<1> USE DEF Through, Distinct
<1> DEFINE E(k) == {s[i] : i \in 1 .. k}
           W == {k \in 0 .. n : IsFiniteSet(E(k)) /\ Total(p, 1 .. k) = Total(f, E(k))}
<1>1. 0 \in W
  <2>1. 1 .. 0 = {} /\ E(0) = {}
    OBVIOUS
  <2> QED BY <2>1, TotalEmpty, FS_EmptySet
<1>2. ASSUME NEW k \in 1 .. n, k - 1 \in W PROVE k \in W
  <2>1. E(k) = E(k - 1) \union {s[k]} /\ s[k] \in E(k)
    <3>1. 1 .. k = (1 .. k - 1) \union {k}
      OBVIOUS
    <3> QED BY <3>1
  <2>2. s[k] \notin E(k - 1)
    OBVIOUS
  <2>3. E(k) \ {s[k]} = E(k - 1)
    BY <2>1, <2>2
  <2>4. IsFiniteSet(E(k)) /\ \A x \in E(k) : f[x] \in Nat
    <3>1. \A x \in E(k) : f[x] \in Nat
      OBVIOUS
    <3>2. IsFiniteSet(E(k - 1))
      BY <1>2
    <3> HIDE DEF E
    <3> QED BY <2>1, <3>1, <3>2, FS_AddElement
  <2>5. Total(f, E(k)) = f[s[k]] + Total(f, E(k - 1))
    <3> HIDE DEF E
    <3> QED BY <2>1, <2>3, <2>4, TotalStep
  <2>6. Total(p, 1 .. k) = p[k] + Total(p, 1 .. k - 1)
    <3>1. \A i \in 1 .. k : p[i] \in Nat
      OBVIOUS
    <3> QED BY <3>1, TotalLast
  <2> HIDE DEF E
  <2> QED BY <1>2, <2>4, <2>5, <2>6
<1>3. 0 .. n \subseteq W
  <2> HIDE DEF W
  <2> QED BY <1>1, <1>2, IntervalInduction
<1> QED BY <1>3

(* The elements of such a sequence add its sum to that of a set.           *)
Outside(A, f, s, n) == (\A x \in A : f[x] \in Nat) /\ \A i \in 1 .. n : s[i] \notin A

LEMMA TotalAdded ==
  ASSUME NEW A, IsFiniteSet(A), NEW n \in Nat, NEW s, NEW f, NEW p,
         Through(p, f, s, n), Distinct(s, n), Outside(A, f, s, n)
  PROVE  /\ IsFiniteSet(A \union {s[i] : i \in 1 .. n})
         /\ Total(f, A \union {s[i] : i \in 1 .. n}) = Total(f, A) + Total(p, 1 .. n)
<1> USE DEF Through, Distinct, Outside
<1> DEFINE E(k) == A \union {s[i] : i \in 1 .. k}
           W == {k \in 0 .. n : /\ IsFiniteSet(E(k))
                                /\ Total(f, E(k)) = Total(f, A) + Total(p, 1 .. k)}
<1>0. Total(f, A) \in Nat
  BY TotalType
<1>1. 0 \in W
  <2>1. 1 .. 0 = {} /\ E(0) = A
    OBVIOUS
  <2> QED BY <1>0, <2>1, TotalEmpty
<1>2. ASSUME NEW k \in 1 .. n, k - 1 \in W PROVE k \in W
  <2>1. E(k) = E(k - 1) \union {s[k]} /\ s[k] \in E(k)
    <3>1. 1 .. k = (1 .. k - 1) \union {k}
      OBVIOUS
    <3> QED BY <3>1
  <2>2. s[k] \notin E(k - 1)
    OBVIOUS
  <2>3. E(k) \ {s[k]} = E(k - 1)
    BY <2>1, <2>2
  <2>4. IsFiniteSet(E(k)) /\ \A x \in E(k) : f[x] \in Nat
    <3>1. \A x \in E(k) : f[x] \in Nat
      OBVIOUS
    <3>2. IsFiniteSet(E(k - 1))
      BY <1>2
    <3> HIDE DEF E
    <3> QED BY <2>1, <3>1, <3>2, FS_AddElement
  <2>5. Total(f, E(k)) = f[s[k]] + Total(f, E(k - 1)) /\ Total(f, E(k - 1)) \in Nat
    <3> HIDE DEF E
    <3> QED BY <2>1, <2>3, <2>4, TotalStep
  <2>6. Total(p, 1 .. k) = p[k] + Total(p, 1 .. k - 1) /\ Total(p, 1 .. k - 1) \in Nat
    <3>1. \A i \in 1 .. k : p[i] \in Nat
      OBVIOUS
    <3> QED BY <3>1, TotalLast
  <2>7. Total(f, E(k - 1)) = Total(f, A) + Total(p, 1 .. k - 1)
    BY <1>2
  <2>8. p[k] \in Nat /\ p[k] = f[s[k]]
    OBVIOUS
  <2> HIDE DEF E
  <2>9. Total(f, E(k)) = Total(f, A) + Total(p, 1 .. k)
    BY <1>0, <2>5, <2>6, <2>7, <2>8
  <2> QED BY <2>4, <2>9
<1>3. 0 .. n \subseteq W
  <2> HIDE DEF W
  <2> QED BY <1>1, <1>2, IntervalInduction
<1>4. n \in W
  <2> HIDE DEF W
  <2> QED BY <1>3
<1> QED BY Zenon, <1>4

-----------------------------------------------------------------------------
(* FlattenSeq goes through the sequences one after the other.              *)
IsFlatten(fl, n, seqs) ==
  /\ FlattenSeq(seqs) = fl[n]
  /\ \A i \in 1 .. n : fl[i] = IF i = 1 THEN seqs[i] ELSE fl[i - 1] \o seqs[i]

LEMMA FlattenLoop ==
  ASSUME NEW T, NEW V, V = Seq(T), NEW n \in Nat \ {0}, NEW seqs \in Seq(V), Len(seqs) = n
  PROVE  \E fl \in [1 .. n -> V] : IsFlatten(fl, n, seqs)
<1> DEFINE Loop(flatten) == flatten = [i \in 1 .. Len(seqs) |->
                                         IF i = 1 THEN seqs[i] ELSE flatten[i - 1] \o seqs[i]]
           fl == CHOOSE flatten : Loop(flatten)
<1>1. DOMAIN seqs = 1 .. n /\ \A i \in 1 .. n : seqs[i] \in V
  OBVIOUS
<1>2. PICK g \in [1 .. n -> V] : Loop(g)
  <2> DEFINE step == [i \in 1 .. n |-> [v \in V |-> v \o seqs[i]]]
  <2>1. step \in [1 .. n -> [V -> V]]
    <3>1. ASSUME NEW i \in 1 .. n, NEW v \in V PROVE v \o seqs[i] \in V
      BY <1>1
    <3> QED BY <3>1
  <2>2. \A i \in 1 .. n, v \in V : step[i][v] = v \o seqs[i]
    OBVIOUS
  <2>3. <<>> \in V
    OBVIOUS
  <2> HIDE DEF step
  <2>4. PICK f \in [0 .. n -> V] : IsLoop(f, n, <<>>, step)
    BY Zenon, <2>1, <2>3, LoopExists
  <2>5. f[0] = <<>> /\ \A i \in 1 .. n : f[i] = step[i][f[i - 1]]
    BY Zenon, <2>4 DEF IsLoop
  <2>6. ASSUME NEW i \in 1 .. n
        PROVE  f[i] = IF i = 1 THEN seqs[i] ELSE f[i - 1] \o seqs[i]
    <3>1. f[i - 1] \in V
      OBVIOUS
    <3>2. f[i] = f[i - 1] \o seqs[i]
      BY Zenon, <2>2, <2>5, <3>1
    <3>3. <<>> \o seqs[i] = seqs[i]
      BY <1>1
    <3>4. CASE i = 1
      <4>1. f[i - 1] = <<>>
        BY <2>5, <3>4
      <4> QED BY <3>2, <3>3, <3>4, <4>1
    <3> QED BY Zenon, <3>2, <3>4
  <2> DEFINE g == [i \in 1 .. n |-> f[i]]
  <2>7. g = [i \in 1 .. n |-> IF i = 1 THEN seqs[i] ELSE g[i - 1] \o seqs[i]]
    <3>1. ASSUME NEW i \in 1 .. n
          PROVE  g[i] = IF i = 1 THEN seqs[i] ELSE g[i - 1] \o seqs[i]
      <4>1. i # 1 => i - 1 \in 1 .. n
        OBVIOUS
      <4> QED BY <2>6, <4>1
    <3>2. g = [i \in 1 .. n |-> g[i]]
      OBVIOUS
    <3> HIDE DEF g
    <3> QED BY Zenon, <3>1, <3>2
  <2>8. g \in [1 .. n -> V]
    OBVIOUS
  <2> HIDE DEF g
  <2> QED BY Zenon, <2>7, <2>8
<1>3. Loop(fl)
  <2> HIDE DEF Loop
  <2> QED BY <1>2
<1>4. FlattenSeq(seqs) = fl[n]
  BY DEF FlattenSeq
<1> HIDE DEF fl
<1>5. \A i \in 1 .. n : fl[i] = IF i = 1 THEN seqs[i] ELSE fl[i - 1] \o seqs[i]
  BY Zenon, <1>3
<1>6. fl = [i \in 1 .. n |-> fl[i]]
  <2>1. DOMAIN fl = 1 .. n /\ fl = [i \in DOMAIN fl |-> fl[i]]
    BY <1>3
  <2> QED BY <2>1
<1> DEFINE W == {k \in 0 .. n : k # 0 => fl[k] \in V}
<1>7. 0 \in W
  OBVIOUS
<1>8. ASSUME NEW k \in 1 .. n, k - 1 \in W PROVE k \in W
  <2>1. CASE k = 1
    BY <1>1, <1>5, <2>1
  <2>2. CASE k # 1
    <3>1. fl[k - 1] \in V
      BY <1>8, <2>2
    <3>2. seqs[k] \in V /\ fl[k] = fl[k - 1] \o seqs[k]
      BY Zenon, <1>1, <1>5, <2>2
    <3>3. fl[k] \in V
      BY <3>1, <3>2
    <3> QED BY <3>3
  <2> QED BY <2>1, <2>2
<1>9. 0 .. n \subseteq W
  <2> HIDE DEF W
  <2> QED BY Zenon, <1>7, <1>8, IntervalInduction
<1>10. fl \in [1 .. n -> V]
  <2>1. \A i \in 1 .. n : fl[i] \in V
    BY <1>9
  <2> QED BY <1>6, <2>1
<1> QED BY Zenon, <1>4, <1>5, <1>10 DEF IsFlatten

-----------------------------------------------------------------------------
(* Euclidean division, as the provers need it spelled out.                 *)
LEMMA Division ==
  ASSUME NEW a \in Nat, NEW b \in Nat \ {0}
  PROVE  /\ a \div b \in Nat /\ a % b \in 0 .. b - 1
         /\ a = (b * (a \div b)) + (a % b)
  OBVIOUS

LEMMA MultiplicationMonotone ==
  ASSUME NEW a \in Nat, NEW b \in Nat, NEW c \in Nat, a <= b
  PROVE  /\ a * c \in Nat /\ b * c \in Nat /\ a * c <= b * c
  OBVIOUS

(* A number is in one place of one interval of length b.                   *)
LEMMA OnePlace ==
  ASSUME NEW b \in Nat \ {0}, NEW i \in Nat, NEW c \in Nat, NEW j \in 1 .. b, NEW l \in 1 .. b,
         i * b + j = c * b + l
  PROVE  i = c /\ j = l
<1>1. ASSUME NEW u \in Nat, NEW v \in Nat, u < v, NEW m \in 1 .. b, NEW n \in 1 .. b
      PROVE  u * b + m # v * b + n
  <2>1. (u + 1) * b <= v * b /\ v * b \in Nat
    BY <1>1, MultiplicationMonotone
  <2>2. (u + 1) * b = u * b + b /\ u * b \in Nat
    OBVIOUS
  <2> QED BY <2>1, <2>2
<1>2. ~(i < c) /\ ~(c < i)
  BY <1>1
<1>3. i = c
  BY <1>2
<1>4. i * b \in Nat
  OBVIOUS
<1> QED BY <1>3, <1>4
=============================================================================
