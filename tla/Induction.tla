----------------------------- MODULE Induction -----------------------------
(***************************************************************************)
(* Induction and recursion over data, stated of sets and functions instead *)
(* of operators, so that each can be cited by name: a property is the set  *)
(* of numbers that have it, and the step of a recursion is a function.     *)
(***************************************************************************)
EXTENDS Integers, FiniteSetsExt, Functions, FiniteSetTheorems, WellFoundedInduction, TLAPS

Less == {pair \in Nat \X Nat : pair[1] < pair[2]}

LEMMA LessIsWellFounded == IsWellFoundedOn(Less, Nat)
  BY NatLessThanWellFounded DEF OpToRel, Less

\* A set of numbers that is not empty has a least element.
LEMMA LeastElement ==
    ASSUME NEW T, T \subseteq Nat, T # {}
    PROVE  \E x \in T : \A y \in T : x =< y
<1>1. PICK x \in T : \A y \in T : ~(<<y, x>> \in Less)
  BY LessIsWellFounded, WFMin
<1>2. \A y \in T : ~(y < x)
  BY <1>1 DEF Less
<1> QED
  BY <1>2

\* Induction over the numbers.
LEMMA SetInduction ==
    ASSUME NEW T, 0 \in T, \A n \in Nat : n \in T => n + 1 \in T
    PROVE  Nat \subseteq T
<1>1. SUFFICES ASSUME Nat \ T # {} PROVE FALSE
  OBVIOUS
<1>2. PICK x \in Nat \ T : \A y \in Nat \ T : x =< y
  <2>1. Nat \ T \subseteq Nat
    OBVIOUS
  <2> QED
    BY <1>1, <2>1, LeastElement
<1>3. x - 1 \in Nat /\ x - 1 \in T
  BY <1>2
<1> QED
  BY <1>2, <1>3

\* Induction up to a bound.
LEMMA IntervalInduction ==
    ASSUME NEW m \in Nat, NEW T, 0 \in T, \A n \in 0..(m - 1) : n \in T => n + 1 \in T
    PROVE  0..m \subseteq T
<1> DEFINE U == T \cup {n \in Nat : n > m}
<1>1. 0 \in U
  OBVIOUS
<1>2. \A n \in Nat : n \in U => n + 1 \in U
  OBVIOUS
<1>3. Nat \subseteq U
  <2> HIDE DEF U
  <2> QED
    BY <1>1, <1>2, SetInduction
<1> QED
  BY <1>3

\* A set of numbers with a bound that is not empty has a greatest element.
LEMMA GreatestElement ==
    ASSUME NEW m \in Nat, NEW T, T \subseteq 0..m, T # {}
    PROVE  \E x \in T : \A y \in T : y =< x
<1> DEFINE U == {m - x : x \in T}
<1>1. U \subseteq Nat /\ U # {}
  <2>1. \A x \in T : x \in 0..m /\ m - x \in Nat
    OBVIOUS
  <2> QED
    BY <2>1
<1>2. PICK u \in U : \A v \in U : u =< v
  <2> HIDE DEF U
  <2> QED
    BY <1>1, LeastElement
<1>3. PICK x \in T : u = m - x
  BY <1>2
<1>4. \A y \in T : m - x =< m - y
  BY <1>2, <1>3
<1> QED
  BY <1>3, <1>4

\* The function that a recursion over 0..m defines exists, with values in S when
\* its step stays in S.
Recursion(f, m, base, advance) ==
    f[0] = base /\ \A i \in 1..m : f[i] = advance[<<i, f[i - 1]>>]

LEMMA RecursionExists ==
    ASSUME NEW m \in Nat, NEW S, NEW base \in S, NEW advance \in [(1..m) \X S -> S]
    PROVE  \E f \in [0..m -> S] : Recursion(f, m, base, advance)
<1> DEFINE Reach(n, f) ==
              f \in [0..n -> S] /\ f[0] = base
                 /\ \A i \in 1..n : f[i] = advance[<<i, f[i - 1]>>]
           T == {n \in 0..m : \E f : Reach(n, f)}
<1>1. 0 \in T
  <2>1. Reach(0, [i \in 0..0 |-> base])
    OBVIOUS
  <2>2. 0 \in 0..m
    OBVIOUS
  <2> HIDE DEF Reach
  <2> QED
    BY <2>1, <2>2
<1>2. ASSUME NEW n \in 0..(m - 1), n \in T PROVE n + 1 \in T
  <2>1. PICK f : Reach(n, f)
    BY <1>2
  <2> DEFINE g == [i \in 0..(n + 1) |-> IF i = n + 1 THEN advance[<<n + 1, f[n]>>] ELSE f[i]]
  <2>2. n + 1 \in 1..m /\ f[n] \in S
    BY <2>1
  <2>3. advance[<<n + 1, f[n]>>] \in S
    BY <2>2
  <2>4. g \in [0..(n + 1) -> S]
    BY <2>1, <2>3
  <2>5. g[0] = base
    BY <2>1
  <2>6. ASSUME NEW i \in 1..(n + 1) PROVE g[i] = advance[<<i, g[i - 1]>>]
    BY <2>1
  <2>7. Reach(n + 1, g)
    <3> HIDE DEF g
    <3> QED
      BY <2>4, <2>5, <2>6
  <2>8. n + 1 \in 0..m
    BY <2>2
  <2> HIDE DEF Reach, g
  <2> QED
    BY <2>7, <2>8
<1>3. 0..m \subseteq T
  <2> HIDE DEF T
  <2> QED
    BY <1>1, <1>2, IntervalInduction
<1> QED
  BY <1>3 DEF Recursion

-----------------------------------------------------------------------------
\* Folds, whose definitions choose a function on the subsets of a set.

\* f folds advance over the subsets of S, which are taken apart by choose.
IsFoldOf(f, S, base, advance, choose) ==
    \A s \in SUBSET S :
        f[s] = IF s = {} THEN base ELSE advance[<<choose[s], f[s \ {choose[s]}]>>]

LEMMA FoldExists ==
    ASSUME NEW S, IsFiniteSet(S), NEW V, NEW base \in V, NEW advance \in [S \X V -> V],
           NEW choose, \A s \in SUBSET S : s # {} => choose[s] \in s
    PROVE  \E f \in [SUBSET S -> V] : IsFoldOf(f, S, base, advance, choose)
<1> DEFINE Upto(n) == {s \in SUBSET S : Cardinality(s) =< n}
           Reach(n, f) ==
              f \in [Upto(n) -> V] /\ \A s \in Upto(n) :
                  f[s] = IF s = {} THEN base ELSE advance[<<choose[s], f[s \ {choose[s]}]>>]
           T == {n \in Nat : \E f : Reach(n, f)}
<1>0. \A s \in SUBSET S : IsFiniteSet(s) /\ Cardinality(s) \in Nat
                             /\ (Cardinality(s) = 0 <=> s = {})
  BY FS_Subset, FS_CardinalityType, FS_EmptySet
<1>1. 0 \in T
  <2>1. Upto(0) = {{}}
    BY <1>0
  <2>2. Reach(0, [s \in {{}} |-> base])
    BY <2>1
  <2> HIDE DEF Reach
  <2> QED
    BY <2>2
<1>2. ASSUME NEW n \in Nat, n \in T PROVE n + 1 \in T
  <2>1. PICK f : Reach(n, f)
    BY <1>2
  <2> DEFINE g == [s \in Upto(n + 1) |->
                     IF s = {} THEN base ELSE advance[<<choose[s], f[s \ {choose[s]}]>>]]
  <2>2. ASSUME NEW s \in Upto(n + 1), s # {}
        PROVE  s \ {choose[s]} \in Upto(n) /\ choose[s] \in S
    BY <1>0, <2>2, FS_RemoveElement
  <2>3. \A s \in Upto(n) : s \in Upto(n + 1) /\ g[s] = f[s]
    <3>1. \A s \in Upto(n) : s \in Upto(n + 1)
      BY <1>0
    <3> HIDE DEF Upto
    <3> QED
      BY <2>1, <3>1
  <2>4. g \in [Upto(n + 1) -> V]
    <3> HIDE DEF Upto
    <3> QED
      BY <2>1, <2>2
  <2>5. Reach(n + 1, g)
    <3> HIDE DEF Upto
    <3>1. ASSUME NEW s \in Upto(n + 1)
          PROVE  g[s] = IF s = {} THEN base ELSE advance[<<choose[s], g[s \ {choose[s]}]>>]
      BY <2>2, <2>3
    <3> HIDE DEF g
    <3> QED
      BY <2>4, <3>1
  <2> HIDE DEF Reach, g
  <2> QED
    BY <2>5
<1>3. Cardinality(S) \in T
  <2> HIDE DEF T
  <2> QED
    BY <1>0, <1>1, <1>2, SetInduction
<1>4. PICK f : Reach(Cardinality(S), f)
  BY <1>3
<1>5. Upto(Cardinality(S)) = SUBSET S
  BY <1>0, FS_Subset
<1>6. f \in [SUBSET S -> V]
  BY <1>4, <1>5
<1>7. \A s \in SUBSET S : f[s] = IF s = {} THEN base ELSE advance[<<choose[s], f[s \ {choose[s]}]>>]
  BY <1>4, <1>5
<1> QED
  BY <1>6, <1>7 DEF IsFoldOf

-----------------------------------------------------------------------------
\* Sums over a finite set, one summand at a time.

\* Induction over the subsets of a finite set.
LEMMA SubsetInduction ==
    ASSUME NEW S, IsFiniteSet(S), NEW T, {} \in T,
           \A s \in SUBSET S : s # {} /\ (\A x \in s : s \ {x} \in T) => s \in T
    PROVE  SUBSET S \subseteq T
<1> DEFINE U == {n \in Nat : \A s \in SUBSET S : Cardinality(s) = n => s \in T}
<1>1. \A s \in SUBSET S : IsFiniteSet(s) /\ Cardinality(s) \in Nat
                             /\ (Cardinality(s) = 0 <=> s = {})
  BY FS_Subset, FS_CardinalityType, FS_EmptySet
<1>2. 0 \in U
  BY <1>1
<1>3. ASSUME NEW n \in Nat, n \in U PROVE n + 1 \in U
  <2> SUFFICES ASSUME NEW s \in SUBSET S, Cardinality(s) = n + 1 PROVE s \in T
    OBVIOUS
  <2>1. s # {}
    BY <1>1
  <2>2. ASSUME NEW x \in s PROVE s \ {x} \in T
    <3>1. Cardinality(s \ {x}) = n
      BY <1>1, FS_RemoveElement
    <3> QED
      BY <1>3, <3>1
  <2> QED
    BY <2>1, <2>2
<1>4. Nat \subseteq U
  <2> HIDE DEF U
  <2> QED
    BY <1>2, <1>3, SetInduction
<1> QED
  BY <1>1, <1>4

IsSum(f, S, v) ==
    f = [s \in SUBSET S |-> IF s = {} THEN 0
                            ELSE v[CHOOSE x \in s : TRUE] + f[s \ {CHOOSE x \in s : TRUE}]]

LEMMA SumExists ==
    ASSUME NEW S, IsFiniteSet(S), NEW v \in [S -> Nat]
    PROVE  \E f \in [SUBSET S -> Nat] : IsSum(f, S, v)
<1> DEFINE choose == [s \in SUBSET S |-> CHOOSE x \in s : TRUE]
           advance == [pair \in S \X Nat |-> v[pair[1]] + pair[2]]
<1>1. \A s \in SUBSET S : s # {} => choose[s] \in s
  OBVIOUS
<1>2. advance \in [S \X Nat -> Nat]
  OBVIOUS
<1>3. \A x \in S, n \in Nat : advance[<<x, n>>] = v[x] + n
  OBVIOUS
<1>4. \A s \in SUBSET S : choose[s] = CHOOSE x \in s : TRUE
  OBVIOUS
<1> HIDE DEF choose, advance
<1>5. PICK f \in [SUBSET S -> Nat] : IsFoldOf(f, S, 0, advance, choose)
  BY <1>1, <1>2, FoldExists
<1>6. ASSUME NEW s \in SUBSET S
      PROVE  f[s] = IF s = {} THEN 0
                    ELSE v[CHOOSE x \in s : TRUE] + f[s \ {CHOOSE x \in s : TRUE}]
  <2>1. f[s] = IF s = {} THEN 0 ELSE advance[<<choose[s], f[s \ {choose[s]}]>>]
    BY <1>5 DEF IsFoldOf
  <2>2. CASE s # {}
    <3>1. choose[s] \in S /\ f[s \ {choose[s]}] \in Nat
      BY <1>1, <2>2
    <3>2. f[s] = v[choose[s]] + f[s \ {choose[s]}]
      BY <1>3, <2>1, <2>2, <3>1
    <3> QED
      BY <1>4, <2>2, <3>2
  <2> QED
    BY <2>1, <2>2
<1>7. IsSum(f, S, v)
  BY <1>6 DEF IsSum
<1> QED
  BY <1>7

LEMMA SumStep ==
    ASSUME NEW S, NEW v, NEW f, IsSum(f, S, v), NEW s \in SUBSET S, s # {}
    PROVE  \E x \in s : f[s] = v[x] + f[s \ {x}]
<1> DEFINE c == CHOOSE x \in s : TRUE
<1>1. c \in s
  OBVIOUS
<1>2. f[s] = v[c] + f[s \ {c}]
  BY DEF IsSum
<1> QED
  BY <1>1, <1>2

LEMMA SumOfNone ==
    ASSUME NEW S, NEW v, NEW f, IsSum(f, S, v)
    PROVE  f[{}] = 0
  BY DEF IsSum

\* There is one sum, SumFunction.
LEMMA SumIs ==
    ASSUME NEW S, IsFiniteSet(S), NEW v \in [S -> Nat]
    PROVE  \E f \in [SUBSET S -> Nat] : IsSum(f, S, v) /\ SumFunction(v) = f[S]
<1> DEFINE g == CHOOSE f : IsSum(f, S, v)
<1>1. PICK f \in [SUBSET S -> Nat] : IsSum(f, S, v)
  BY SumExists
<1>2. IsSum(g, S, v)
  BY <1>1
<1>3. SumFunction(v) = g[S]
  BY DEF SumFunction, SumFunctionOnSet, FoldFunctionOnSet, MapThenFoldSet, IsSum
<1> HIDE DEF g
<1> DEFINE T == {s \in SUBSET S : g[s] = f[s]}
<1>4. {} \in T
  BY <1>1, <1>2, SumOfNone
<1>5. ASSUME NEW s \in SUBSET S, s # {}, \A x \in s : s \ {x} \in T
      PROVE  s \in T
  <2> DEFINE c == CHOOSE x \in s : TRUE
  <2>1. c \in s
    BY <1>5
  <2>2. f[s] = v[c] + f[s \ {c}] /\ g[s] = v[c] + g[s \ {c}]
    BY <1>1, <1>2, <1>5 DEF IsSum
  <2> QED
    BY <1>5, <2>1, <2>2
<1>6. S \in T
  <2> HIDE DEF T
  <2> QED
    BY <1>4, <1>5, SubsetInduction
<1> QED
  BY <1>1, <1>3, <1>6

LEMMA SumType ==
    ASSUME NEW S, IsFiniteSet(S), NEW v \in [S -> Nat]
    PROVE  SumFunction(v) \in Nat
<1>1. PICK f \in [SUBSET S -> Nat] : IsSum(f, S, v) /\ SumFunction(v) = f[S]
  BY SumIs
<1> QED
  BY <1>1

LEMMA SumOfZeros ==
    ASSUME NEW S, IsFiniteSet(S), NEW v \in [S -> Nat], \A x \in S : v[x] = 0
    PROVE  SumFunction(v) = 0
<1>1. PICK f \in [SUBSET S -> Nat] : IsSum(f, S, v) /\ SumFunction(v) = f[S]
  BY SumIs
<1> DEFINE T == {s \in SUBSET S : f[s] = 0}
<1>2. {} \in T
  BY <1>1, SumOfNone
<1>3. ASSUME NEW s \in SUBSET S, s # {}, \A x \in s : s \ {x} \in T
      PROVE  s \in T
  <2>1. PICK x \in s : f[s] = v[x] + f[s \ {x}]
    BY <1>1, <1>3, SumStep
  <2> QED
    BY <1>3, <2>1
<1>4. S \in T
  <2> HIDE DEF T
  <2> QED
    BY <1>2, <1>3, SubsetInduction
<1> QED
  BY <1>1, <1>4

\* A summand that grows by d makes the sum grow by d.
LEMMA SumGrows ==
    ASSUME NEW S, IsFiniteSet(S), NEW v \in [S -> Nat], NEW y \in S, NEW d \in Nat,
           NEW w \in [S -> Nat], w[y] = v[y] + d, \A x \in S \ {y} : w[x] = v[x]
    PROVE  SumFunction(w) = SumFunction(v) + d
<1>1. PICK f \in [SUBSET S -> Nat] : IsSum(f, S, v) /\ SumFunction(v) = f[S]
  BY SumIs
<1>2. PICK g \in [SUBSET S -> Nat] : IsSum(g, S, w) /\ SumFunction(w) = g[S]
  BY SumIs
<1> DEFINE T == {s \in SUBSET S : g[s] = IF y \in s THEN f[s] + d ELSE f[s]}
<1>3. {} \in T
  <2>1. g[{}] = 0 /\ f[{}] = 0
    BY <1>1, <1>2, SumOfNone
  <2> QED
    BY <2>1
<1>4. ASSUME NEW s \in SUBSET S, s # {}, \A x \in s : s \ {x} \in T
      PROVE  s \in T
  <2> DEFINE c == CHOOSE x \in s : TRUE
             rest == s \ {c}
  <2>1. c \in s /\ c \in S /\ rest \in SUBSET S /\ rest \in T
    BY <1>4
  <2>2. f[s] = v[c] + f[rest] /\ g[s] = w[c] + g[rest]
    BY <1>1, <1>2, <1>4 DEF IsSum
  <2>3. /\ f[s] \in Nat /\ g[s] \in Nat /\ f[rest] \in Nat /\ g[rest] \in Nat
        /\ v[c] \in Nat /\ w[c] \in Nat
    BY <2>1
  <2>4. g[rest] = IF y \in rest THEN f[rest] + d ELSE f[rest]
    BY <2>1
  <2> HIDE DEF c
  <2>5. CASE c = y
    <3>1. g[rest] = f[rest] /\ w[c] = v[c] + d /\ y \in s
      BY <2>1, <2>4, <2>5
    <3>2. g[s] = f[s] + d
      <4> HIDE DEF T, rest
      <4> QED
        BY <2>2, <2>3, <3>1
    <3> QED
      BY <3>1, <3>2
  <2>6. CASE c # y
    <3>1. w[c] = v[c] /\ (y \in rest <=> y \in s)
      BY <2>1, <2>6
    <3>2. g[s] = IF y \in s THEN f[s] + d ELSE f[s]
      <4> HIDE DEF T, rest
      <4> QED
        BY <2>2, <2>3, <2>4, <3>1
    <3> QED
      BY <3>2
  <2> QED
    BY <2>5, <2>6
<1>5. S \in T
  <2> HIDE DEF T
  <2>1. SUBSET S \subseteq T
    BY <1>3, <1>4, SubsetInduction
  <2> QED
    BY <2>1
<1> QED
  BY <1>1, <1>2, <1>5

-----------------------------------------------------------------------------
\* Folds from the left, whose definition takes the greatest index first.

LEMMA MaxIs ==
    ASSUME NEW m \in Nat, NEW S, S \subseteq 1..m, S # {}
    PROVE  Max(S) \in S /\ \A x \in S : x =< Max(S)
<1>1. S \subseteq 0..m
  OBVIOUS
<1>2. PICK x \in S : \A y \in S : y =< x
  BY <1>1, GreatestElement
<1>3. \A y \in S : x >= y
  BY <1>2
<1> QED
  BY <1>3 DEF Max

LEMMA MaxOfInterval ==
    ASSUME NEW m \in Nat, NEW i \in 1..m
    PROVE  Max(1..i) = i
<1>1. Max(1..i) \in 1..i /\ \A x \in 1..i : x =< Max(1..i)
  <2>1. 1..i \subseteq 1..m /\ 1..i # {}
    OBVIOUS
  <2> QED
    BY <2>1, MaxIs
<1> QED
  BY <1>1

\* The function by which FoldLeft is defined exists.
LeftFold(f, m, base, advance) ==
    \A s \in SUBSET (1..m) :
        f[s] = IF s = {} THEN base ELSE advance[<<Max(s), f[s \ {Max(s)}]>>]

LEMMA LeftFoldExists ==
    ASSUME NEW m \in Nat, NEW V, NEW base \in V, NEW advance \in [(1..m) \X V -> V]
    PROVE  \E f \in [SUBSET (1..m) -> V] : LeftFold(f, m, base, advance)
<1> DEFINE choose == [s \in SUBSET (1..m) |-> Max(s)]
<1>1. \A s \in SUBSET (1..m) : s # {} => choose[s] \in s
  BY MaxIs
<1>2. IsFiniteSet(1..m)
  BY FS_Interval
<1>3. \A s \in SUBSET (1..m) : choose[s] = Max(s)
  OBVIOUS
<1> HIDE DEF choose
<1>4. PICK f \in [SUBSET (1..m) -> V] : IsFoldOf(f, 1..m, base, advance, choose)
  BY <1>1, <1>2, FoldExists
<1>5. LeftFold(f, m, base, advance)
  BY <1>3, <1>4 DEF IsFoldOf, LeftFold
<1> QED
  BY <1>5

=============================================================================
