---------------------------- MODULE SumTheorems ----------------------------
(***************************************************************************)
(* Facts about SumFunction of Functions, which the models use to add up    *)
(* containers, workloads and Events.  It is defined by a recursive         *)
(* function on sets; that this function exists on the subsets of a finite  *)
(* set is shown by taking a smallest set on which it would not.            *)
(***************************************************************************)
EXTENDS Functions, FiniteSetTheorems, WellFoundedInduction, TLAPS, Integers

\* A set of natural numbers that is not empty has a least one.
LEMMA LeastNatural ==
  ASSUME NEW C \in SUBSET Nat, C # {}
  PROVE  \E n \in C : \A m \in C : n <= m
<1> DEFINE R == OpToRel(<, Nat)
<1>1. IsWellFoundedOn(R, Nat)
  BY NatLessThanWellFounded
<1> HIDE DEF R
<1>2. PICK n \in C : \A m \in C : ~ (<<m, n>> \in R)
  BY <1>1, WFMin
<1>3. \A m \in C : ~ (m < n)
  BY <1>2 DEF R, OpToRel
<1> QED
  BY <1>3

\* The element that a fold takes from T next.
Pick(T) == CHOOSE x \in T : TRUE

\* The sum of f over T, if g has those over smaller sets.
PartialSum(f, g, T) == IF T = {} THEN 0 ELSE f[Pick(T)] + g[T \ {Pick(T)}]

\* The recursive function behind SumFunction exists: on the subsets of a finite set
\* its equation has a solution.
LEMMA SumFunctionDef ==
  ASSUME NEW S, IsFiniteSet(S), NEW f \in [S -> Nat]
  PROVE  \E g : /\ g = [T \in SUBSET S |-> PartialSum(f, g, T)]
                /\ SumFunction(f) = g[S]
<1> DEFINE Step(g) == [T \in SUBSET S |-> PartialSum(f, g, T)]
           Upto(n) == \E g : \A T \in SUBSET S : Cardinality(T) <= n => g[T] = PartialSum(f, g, T)
           C == {n \in Nat : ~ Upto(n)}
<1>1. \A T \in SUBSET S : Cardinality(T) \in Nat /\ Cardinality(T) <= Cardinality(S)
  BY FS_Subset, FS_CardinalityType
<1>2. \A T \in SUBSET S : T # {} => /\ Pick(T) \in T
                                    /\ T \ {Pick(T)} \in SUBSET S
                                    /\ Cardinality(T \ {Pick(T)}) = Cardinality(T) - 1
  BY FS_Subset, FS_RemoveElement DEF Pick
<1>3. ASSUME NEW n \in Nat, n = 0 \/ Upto(n - 1)
      PROVE  Upto(n)
  <2>1. PICK g : n > 0 => \A T \in SUBSET S : Cardinality(T) <= n - 1 => g[T] = PartialSum(f, g, T)
    BY <1>3
  <2> DEFINE h == [T \in SUBSET S |-> IF Cardinality(T) <= n - 1 THEN g[T] ELSE PartialSum(f, g, T)]
  <2>2. ASSUME NEW T \in SUBSET S, Cardinality(T) <= n
        PROVE  h[T] = PartialSum(f, h, T)
    <3>1. h[T] = PartialSum(f, g, T)
      BY <2>1, <2>2, <1>1
    <3>2. CASE T = {}
      BY <3>1, <3>2 DEF PartialSum
    <3>3. CASE T # {}
      <4>1. h[T \ {Pick(T)}] = g[T \ {Pick(T)}]
        BY <1>1, <1>2, <2>2, <3>3
      <4> QED
        BY <3>1, <3>3, <4>1 DEF PartialSum
    <3> QED
      BY <3>2, <3>3
  <2> HIDE DEF h
  <2> QED
    BY <2>2
<1> HIDE DEF Upto
<1>4. C = {}
  <2> SUFFICES ASSUME C # {}
               PROVE  FALSE
    OBVIOUS
  <2>1. PICK n \in C : \A m \in C : n <= m
    BY LeastNatural
  <2>2. n = 0 \/ Upto(n - 1)
    BY <2>1
  <2> QED
    BY <1>3, <2>1, <2>2
<1>5. \E g : g = Step(g)
  <2>1. Upto(Cardinality(S))
    BY <1>4, FS_CardinalityType
  <2>2. PICK g : \A T \in SUBSET S : Cardinality(T) <= Cardinality(S) => g[T] = PartialSum(f, g, T)
    BY <2>1 DEF Upto
  <2> DEFINE h == [T \in SUBSET S |-> g[T]]
  <2>3. \A T \in SUBSET S : h[T] = PartialSum(f, h, T)
    BY <1>1, <1>2, <2>2 DEF PartialSum
  <2>4. h = Step(h)
    BY <2>3
  <2> QED
    BY <2>4
<1> DEFINE iter == CHOOSE g : g = Step(g)
<1>6. iter = Step(iter)
  BY <1>5
<1>7. SumFunction(f) = iter[S]
  BY DEF SumFunction, SumFunctionOnSet, FoldFunctionOnSet, MapThenFoldSet, PartialSum, Pick
<1> QED
  BY <1>6, <1>7

\* A set of subsets of S that has each subset whose smaller subsets it has.
LEMMA SubsetInduction ==
  ASSUME NEW S, IsFiniteSet(S), NEW C,
         \A T \in SUBSET S : (\A U \in SUBSET T : U # T => U \in C) => T \in C
  PROVE  \A T \in SUBSET S : T \in C
<1> DEFINE Sizes == {Cardinality(T) : T \in (SUBSET S) \ C}
<1>1. \A T \in SUBSET S : Cardinality(T) \in Nat
  BY FS_Subset, FS_CardinalityType
<1>2. \A T \in SUBSET S : \A U \in SUBSET T : U # T => Cardinality(U) < Cardinality(T)
  <2> SUFFICES ASSUME NEW T \in SUBSET S, NEW U \in SUBSET T, U # T
               PROVE  Cardinality(U) < Cardinality(T)
    OBVIOUS
  <2>1. IsFiniteSet(T)
    BY FS_Subset
  <2>2. Cardinality(U) <= Cardinality(T) /\ Cardinality(U) # Cardinality(T)
    BY <2>1, FS_Subset
  <2>3. Cardinality(U) \in Nat /\ Cardinality(T) \in Nat
    BY <1>1
  <2> QED
    BY <2>2, <2>3
<1> SUFFICES ASSUME Sizes # {}
             PROVE  FALSE
  OBVIOUS
<1>3. PICK n \in Sizes : \A m \in Sizes : n <= m
  <2>1. Sizes \in SUBSET Nat
    BY <1>1
  <2> HIDE DEF Sizes
  <2> QED
    BY <2>1, LeastNatural
<1>4. PICK T \in (SUBSET S) \ C : Cardinality(T) = n
  BY <1>3
<1>5. ASSUME NEW U \in SUBSET T, U # T
      PROVE  U \in C
  <2>1. Cardinality(U) < n /\ Cardinality(U) \in Nat /\ n \in Nat
    BY <1>1, <1>2, <1>4, <1>5
  <2>2. Cardinality(U) \notin Sizes
    BY <1>3, <2>1
  <2> QED
    BY <2>2
<1> QED
  BY <1>4, <1>5

\* The partial sums of f on the subsets of S.
Sums(S, f) ==
  CHOOSE g : /\ g = [T \in SUBSET S |-> PartialSum(f, g, T)]
             /\ SumFunction(f) = g[S]

\* They begin with 0 and grow by one element.
LEMMA SumsDef ==
  ASSUME NEW S, IsFiniteSet(S), NEW f \in [S -> Nat]
  PROVE  /\ SumFunction(f) = Sums(S, f)[S]
         /\ Sums(S, f)[{}] = 0
         /\ \A T \in SUBSET S :
              T # {} => /\ Pick(T) \in T
                        /\ Sums(S, f)[T] = f[Pick(T)] + Sums(S, f)[T \ {Pick(T)}]
<1> DEFINE g == Sums(S, f)
<1>1. /\ g = [T \in SUBSET S |-> PartialSum(f, g, T)]
      /\ SumFunction(f) = g[S]
  BY SumFunctionDef DEF Sums
<1> HIDE DEF g
<1>2. \A T \in SUBSET S : g[T] = PartialSum(f, g, T)
  BY <1>1
<1>3. g[{}] = 0
  BY <1>2 DEF PartialSum
<1>4. \A T \in SUBSET S : T # {} => Pick(T) \in T /\ g[T] = f[Pick(T)] + g[T \ {Pick(T)}]
  BY <1>2 DEF PartialSum, Pick
<1> QED
  BY <1>1, <1>3, <1>4 DEF g

\* They are natural numbers.
LEMMA SumsNat ==
  ASSUME NEW S, IsFiniteSet(S), NEW f \in [S -> Nat]
  PROVE  \A T \in SUBSET S : Sums(S, f)[T] \in Nat
<1> DEFINE g == Sums(S, f)
           C == {T \in SUBSET S : g[T] \in Nat}
<1>1. ASSUME NEW T \in SUBSET S, \A U \in SUBSET T : U # T => U \in C
      PROVE  T \in C
  <2>1. CASE T = {}
    BY <2>1, SumsDef
  <2>2. CASE T # {}
    <3> DEFINE p == Pick(T)
    <3>1. p \in T /\ g[T] = f[p] + g[T \ {p}]
      BY <2>2, SumsDef
    <3> HIDE DEF p, g
    <3>2. g[T \ {p}] \in Nat
      BY <1>1, <3>1
    <3> QED
      BY <3>1, <3>2
  <2> QED
    BY <2>1, <2>2
<1> HIDE DEF C
<1>2. \A T \in SUBSET S : T \in C
  BY <1>1, SubsetInduction
<1> QED
  BY <1>2 DEF C

\* A sum of naturals is one.
THEOREM SumNat ==
  ASSUME NEW S, IsFiniteSet(S), NEW f \in [S -> Nat]
  PROVE  SumFunction(f) \in Nat
  BY SumsDef, SumsNat

\* A sum of smaller numbers is not greater.
THEOREM SumMonotone ==
  ASSUME NEW S, IsFiniteSet(S), NEW f \in [S -> Nat], NEW h \in [S -> Nat],
         \A x \in S : f[x] <= h[x]
  PROVE  SumFunction(f) <= SumFunction(h)
<1> DEFINE a == Sums(S, f)
           b == Sums(S, h)
           C == {T \in SUBSET S : a[T] <= b[T]}
<1>1. ASSUME NEW T \in SUBSET S, \A U \in SUBSET T : U # T => U \in C
      PROVE  T \in C
  <2>1. CASE T = {}
    BY <2>1, SumsDef
  <2>2. CASE T # {}
    <3> DEFINE p == Pick(T)
    <3>1. p \in T /\ a[T] = f[p] + a[T \ {p}] /\ b[T] = h[p] + b[T \ {p}]
      BY <2>2, SumsDef
    <3>2. a[T \ {p}] \in Nat /\ b[T \ {p}] \in Nat
      BY SumsNat
    <3> HIDE DEF p, a, b
    <3>3. a[T \ {p}] <= b[T \ {p}]
      BY <1>1, <3>1
    <3> QED
      BY <3>1, <3>2, <3>3
  <2> QED
    BY <2>1, <2>2
<1> HIDE DEF C
<1>2. \A T \in SUBSET S : T \in C
  BY <1>1, SubsetInduction
<1> QED
  BY <1>2, SumsDef DEF C

\* The sum of two sums is the sum of the sums.
THEOREM SumAdd ==
  ASSUME NEW S, IsFiniteSet(S), NEW f \in [S -> Nat], NEW h \in [S -> Nat]
  PROVE  SumFunction([x \in S |-> f[x] + h[x]]) = SumFunction(f) + SumFunction(h)
<1> DEFINE k == [x \in S |-> f[x] + h[x]]
           a == Sums(S, f)
           b == Sums(S, h)
           c == Sums(S, k)
           C == {T \in SUBSET S : c[T] = a[T] + b[T]}
<1>1. k \in [S -> Nat] /\ \A x \in S : k[x] = f[x] + h[x]
  OBVIOUS
<1> HIDE DEF k
<1>2. ASSUME NEW T \in SUBSET S, \A U \in SUBSET T : U # T => U \in C
      PROVE  T \in C
  <2>1. CASE T = {}
    BY <1>1, <2>1, SumsDef
  <2>2. CASE T # {}
    <3> DEFINE p == Pick(T)
    <3>1. /\ p \in T
          /\ a[T] = f[p] + a[T \ {p}] /\ b[T] = h[p] + b[T \ {p}]
      BY <2>2, SumsDef
    <3>4. c[T] = k[p] + c[T \ {p}]
      BY <1>1, <2>2, SumsDef
    <3>2. a[T \ {p}] \in Nat /\ b[T \ {p}] \in Nat
      BY SumsNat
    <3> HIDE DEF p, a, b, c
    <3>3. c[T \ {p}] = a[T \ {p}] + b[T \ {p}]
      BY <1>2, <3>1
    <3> QED
      BY <1>1, <3>1, <3>2, <3>3, <3>4
  <2> QED
    BY <2>1, <2>2
<1> HIDE DEF C
<1>3. \A T \in SUBSET S : T \in C
  BY <1>2, SubsetInduction
<1> QED
  BY <1>1, <1>3, SumsDef DEF C, k

\* Any element of a set may be the last one added.
LEMMA SumsAny ==
  ASSUME NEW S, IsFiniteSet(S), NEW f \in [S -> Nat]
  PROVE  \A T \in SUBSET S : \A x \in T : Sums(S, f)[T] = f[x] + Sums(S, f)[T \ {x}]
<1> DEFINE g == Sums(S, f)
           C == {T \in SUBSET S : \A x \in T : g[T] = f[x] + g[T \ {x}]}
<1>1. ASSUME NEW T \in SUBSET S, \A U \in SUBSET T : U # T => U \in C
      PROVE  T \in C
  <2> SUFFICES ASSUME NEW x \in T
               PROVE  g[T] = f[x] + g[T \ {x}]
    OBVIOUS
  <2> DEFINE p == Pick(T)
  <2>1. p \in T /\ g[T] = f[p] + g[T \ {p}]
    BY SumsDef
  <2>2. \A U \in SUBSET S : g[U] \in Nat
    BY SumsNat
  <2> HIDE DEF p, g
  <2>3. CASE p = x
    BY <2>1, <2>3
  <2>4. CASE p # x
    <3>1. g[T \ {p}] = f[x] + g[(T \ {p}) \ {x}]
      BY <1>1, <2>1, <2>4
    <3>2. g[T \ {x}] = f[p] + g[(T \ {x}) \ {p}]
      BY <1>1, <2>1, <2>4
    <3>3. (T \ {p}) \ {x} = (T \ {x}) \ {p}
      OBVIOUS
    <3>4. f[p] \in Nat /\ f[x] \in Nat /\ g[(T \ {p}) \ {x}] \in Nat
      BY <2>1, <2>2
    <3> QED
      BY <2>1, <3>1, <3>2, <3>3, <3>4
  <2> QED
    BY <2>3, <2>4
<1> HIDE DEF C
<1>2. \A T \in SUBSET S : T \in C
  BY <1>1, SubsetInduction
<1> QED
  BY <1>2 DEF C

\* What is zero does not count.
THEOREM SumNarrow ==
  ASSUME NEW S, IsFiniteSet(S), NEW T \in SUBSET S, NEW f \in [S -> Nat],
         \A x \in S \ T : f[x] = 0
  PROVE  SumFunction(f) = SumFunction([x \in T |-> f[x]])
<1> DEFINE h == [x \in T |-> f[x]]
           a == Sums(S, f)
           b == Sums(T, h)
           C == {U \in SUBSET S : a[U] = b[U \cap T]}
<1>1. IsFiniteSet(T) /\ h \in [T -> Nat] /\ \A x \in T : h[x] = f[x]
  BY FS_Subset
<1> HIDE DEF h
<1>2. ASSUME NEW U \in SUBSET S, \A V \in SUBSET U : V # U => V \in C
      PROVE  U \in C
  <2>1. CASE U = {}
    <3>1. a[{}] = 0 /\ b[{}] = 0
      BY <1>1, SumsDef
    <3> QED
      BY <2>1, <3>1
  <2>2. CASE U # {}
    <3> DEFINE p == Pick(U)
    <3>1. p \in U /\ a[U] = f[p] + a[U \ {p}]
      BY <2>2, SumsDef
    <3> HIDE DEF p
    <3>2. a[U \ {p}] = b[(U \ {p}) \cap T]
      BY <1>2, <3>1
    <3>3. CASE p \in T
      <4>1. b[U \cap T] = h[p] + b[(U \cap T) \ {p}]
        BY <1>1, <3>1, <3>3, SumsAny
      <4>2. (U \cap T) \ {p} = (U \ {p}) \cap T
        OBVIOUS
      <4> HIDE DEF a, b
      <4> QED
        BY <1>1, <3>1, <3>2, <3>3, <4>1, <4>2
    <3>4. CASE p \notin T
      <4>1. (U \ {p}) \cap T = U \cap T /\ f[p] = 0 /\ b[U \cap T] \in Nat
        BY <1>1, <3>1, <3>4, SumsNat
      <4> HIDE DEF a, b
      <4> QED
        BY <3>1, <3>2, <4>1
    <3> QED
      BY <3>3, <3>4
  <2> QED
    BY <2>1, <2>2
<1> HIDE DEF C
<1>3. S \in C
  BY <1>2, SubsetInduction
<1>4. a[S] = b[T]
  <2>1. S \cap T = T
    OBVIOUS
  <2> QED
    BY <1>3, <2>1 DEF C
<1> QED
  BY <1>1, <1>4, SumsDef DEF h

\* What the partial sums of f are, as one fact.
AreSums(S, f, g) ==
  /\ SumFunction(f) = g[S] /\ g[{}] = 0
  /\ \A T \in SUBSET S : g[T] \in Nat
  /\ \A T \in SUBSET S : T # {} => Pick(T) \in T /\ g[T] = f[Pick(T)] + g[T \ {Pick(T)}]

\* There are some.
LEMMA SumsExist ==
  ASSUME NEW S, IsFiniteSet(S), NEW f \in [S -> Nat]
  PROVE  \E g : AreSums(S, f, g)
<1> DEFINE g == Sums(S, f)
<1>1. \A T \in SUBSET S : g[T] \in Nat
  BY SumsNat
<1>2. /\ SumFunction(f) = g[S] /\ g[{}] = 0
      /\ \A T \in SUBSET S :
           T # {} => Pick(T) \in T /\ g[T] = f[Pick(T)] + g[T \ {Pick(T)}]
  BY SumsDef
<1> HIDE DEF g
<1>3. AreSums(S, f, g)
  BY <1>1, <1>2 DEF AreSums
<1> QED
  BY <1>3

\* The sum of multiples is the multiple of the sum.
THEOREM SumTimes ==
  ASSUME NEW S, IsFiniteSet(S), NEW f \in [S -> Nat], NEW n \in Nat,
         NEW k \in [S -> Nat], \A x \in S : k[x] = n * f[x]
  PROVE  SumFunction(k) = n * SumFunction(f)
<1>1. PICK a : AreSums(S, f, a)
  BY SumsExist
<1>2. PICK b : AreSums(S, k, b)
  BY SumsExist
<1> DEFINE C == {T \in SUBSET S : b[T] = n * a[T]}
<1>3. ASSUME NEW T \in SUBSET S, \A U \in SUBSET T : U # T => U \in C
      PROVE  T \in C
  <2>1. CASE T = {}
    BY <1>1, <1>2, <2>1 DEF AreSums
  <2>2. CASE T # {}
    <3>1. PICK p \in T : a[T] = f[p] + a[T \ {p}] /\ b[T] = k[p] + b[T \ {p}]
      BY <1>1, <1>2, <2>2 DEF AreSums
    <3>2. b[T \ {p}] = n * a[T \ {p}]
      BY <1>3, <3>1
    <3>3. \A x, y \in Nat : n * x + n * y = n * (x + y)
      OBVIOUS
    <3>4. f[p] \in Nat /\ k[p] = n * f[p] /\ a[T \ {p}] \in Nat
      BY <1>1, <3>1 DEF AreSums
    <3> QED
      BY <3>1, <3>2, <3>3, <3>4
  <2> QED
    BY <2>1, <2>2
<1> HIDE DEF C
<1>4. S \in C
  BY <1>3, SubsetInduction
<1> QED
  BY <1>1, <1>2, <1>4 DEF AreSums, C
=============================================================================
