---------------------------- MODULE SumTheorems ----------------------------
(***************************************************************************)
(* Facts about SumFunction, the sum of the values of a function, that the  *)
(* proofs about the components share: it takes the numbers in any order,   *)
(* falls apart as its domain does, and follows the signs, the bounds and   *)
(* the order of the numbers.  With them, two forms of induction: over      *)
(* numbers and over the subsets of a finite set.                           *)
(***************************************************************************)
EXTENDS Integers, FiniteSets, Functions, FiniteSetTheorems, WellFoundedInduction, TLAPS

\* A sum over a set takes its elements one by one.
First(s) == CHOOSE x \in s : TRUE
Rest(s) == s \ {First(s)}

Sums(f, D, g) == g = [s \in D |-> IF s = {} THEN 0 ELSE f[First(s)] + g[Rest(s)]]

LEMMA Unfold ==
    ASSUME NEW f
    PROVE  SumFunction(f) = (CHOOSE g : Sums(f, SUBSET DOMAIN f, g))[DOMAIN f]
BY DEF SumFunction, SumFunctionOnSet, FoldFunctionOnSet, MapThenFoldSet,
       Sums, First, Rest

LEMMA LeastNat ==
    ASSUME NEW T \in SUBSET Nat, T # {}
    PROVE  \E x \in T : \A y \in T : x <= y
<1> DEFINE R == OpToRel(<, Nat)
<1>1. IsWellFoundedOn(R, Nat)
  BY NatLessThanWellFounded
<1>2. \A x, y \in Nat : y < x => <<y, x>> \in R
  BY DEF OpToRel
<1> HIDE DEF R
<1>3. PICK x \in T : \A y \in T : ~(<<y, x>> \in R)
  BY <1>1, WFMin
<1>4. ASSUME NEW y \in T PROVE x <= y
  <2>1. x \in Nat /\ y \in Nat
    OBVIOUS
  <2>2. ~(y < x)
    BY <1>2, <1>3, <2>1
  <2>3. QED
    BY <2>1, <2>2
<1>5. QED
  BY <1>4

\* What holds of 0 and passes on from each number to the next holds of all.
LEMMA StepInduction ==
    ASSUME NEW N \in Nat, NEW P, 0 \in P, \A k \in 0..N : k # N /\ k \in P => k + 1 \in P
    PROVE  \A k \in 0..N : k \in P
<1> DEFINE Bad == {k \in 0..N : k \notin P}
<1>1. SUFFICES ASSUME Bad # {} PROVE FALSE
  OBVIOUS
<1>2. Bad \in SUBSET Nat
  OBVIOUS
<1>3. PICK k \in Bad : \A j \in Bad : k <= j
  BY <1>1, <1>2, LeastNat
<1>4. k # 0 /\ k \in 0..N
  BY <1>3
<1>5. k - 1 \in 0..N /\ k - 1 # N /\ k - 1 \notin Bad
  BY <1>3, <1>4
<1>6. (k - 1) + 1 = k /\ k - 1 \in P
  BY <1>4, <1>5
<1>7. QED
  BY <1>3, <1>5, <1>6

\* r has what F makes of v, from 0 to N times.
Iterates(N, v, F, r) == \A k \in 0..N : r[k] = IF k = 0 THEN v ELSE F[r[k - 1]]

LEMMA Iteration ==
    ASSUME NEW N \in Nat, NEW V, NEW v \in V, NEW F \in [V -> V]
    PROVE  \E r \in [0..N -> V] : Iterates(N, v, F, r)
<1> DEFINE P == {n \in 0..N : \E r \in [0..n -> V] :
                    \A k \in 0..n : r[k] = IF k = 0 THEN v ELSE F[r[k - 1]]}
<1>1. 0 \in P
  <2> DEFINE r == [k \in 0..0 |-> v]
  <2>1. r \in [0..0 -> V] /\ \A k \in 0..0 : r[k] = IF k = 0 THEN v ELSE F[r[k - 1]]
    OBVIOUS
  <2> HIDE DEF r
  <2>2. \E q \in [0..0 -> V] : \A k \in 0..0 : q[k] = IF k = 0 THEN v ELSE F[q[k - 1]]
    BY <2>1
  <2>3. 0 \in 0..N
    OBVIOUS
  <2>4. QED
    BY <2>2, <2>3
<1>2. ASSUME NEW n \in 0..N, n # N, n \in P PROVE n + 1 \in P
  <2>1. PICK r \in [0..n -> V] : \A k \in 0..n : r[k] = IF k = 0 THEN v ELSE F[r[k - 1]]
    BY <1>2
  <2> DEFINE q == [k \in 0..(n + 1) |-> IF k = n + 1 THEN F[r[n]] ELSE r[k]]
  <2>2. q \in [0..(n + 1) -> V]
    OBVIOUS
  <2>3. \A k \in 0..(n + 1) : q[k] = IF k = 0 THEN v ELSE F[q[k - 1]]
    BY <2>1
  <2>4. n + 1 \in 0..N
    BY <1>2
  <2>5. QED
    BY <2>2, <2>3, <2>4
<1>3. N \in P
  <2>1. N \in 0..N
    OBVIOUS
  <2> HIDE DEF P
  <2>2. QED
    BY <1>1, <1>2, <2>1, StepInduction
<1>4. QED
  BY <1>3 DEF Iterates

\* What holds of {} and of a set when it holds of the rest of it holds of all.
LEMMA SubsetInduction ==
    ASSUME NEW S, IsFiniteSet(S), NEW P, {} \in P,
           \A s \in SUBSET S : s # {} /\ Rest(s) \in P => s \in P
    PROVE  S \in P
<1> DEFINE Sizes == {Cardinality(s) : s \in (SUBSET S) \ P}
<1>1. \A s \in SUBSET S : IsFiniteSet(s) /\ Cardinality(s) \in Nat
  BY FS_Subset, FS_CardinalityType
<1>2. SUFFICES ASSUME S \notin P PROVE FALSE
  OBVIOUS
<1>3. Sizes \in SUBSET Nat /\ Sizes # {}
  BY <1>1, <1>2
<1>4. PICK n \in Sizes : \A k \in Sizes : n <= k
  BY <1>3, LeastNat
<1>5. PICK s \in (SUBSET S) \ P : Cardinality(s) = n
  OBVIOUS
<1>6. s # {} /\ First(s) \in s
  BY DEF First
<1>7. Cardinality(Rest(s)) = Cardinality(s) - 1
  BY <1>1, <1>6, FS_RemoveElement DEF Rest
<1>8. Rest(s) \in (SUBSET S) \ P
  BY <1>6 DEF Rest
<1>9. Cardinality(Rest(s)) \in Sizes
  BY <1>8
<1>10. QED
  BY <1>1, <1>4, <1>5, <1>7, <1>9

\* What holds of a set when it holds of all smaller parts of it holds of all.
LEMMA SizeInduction ==
    ASSUME NEW S, IsFiniteSet(S), NEW P,
           \A s \in SUBSET S : (\A r \in (SUBSET s) \ {s} : r \in P) => s \in P
    PROVE  S \in P
<1> DEFINE Sizes == {Cardinality(s) : s \in (SUBSET S) \ P}
<1>1. \A s \in SUBSET S : IsFiniteSet(s) /\ Cardinality(s) \in Nat
  BY FS_Subset, FS_CardinalityType
<1>2. SUFFICES ASSUME S \notin P PROVE FALSE
  OBVIOUS
<1>3. Sizes \in SUBSET Nat /\ Sizes # {}
  BY <1>1, <1>2
<1>4. PICK n \in Sizes : \A k \in Sizes : n <= k
  BY <1>3, LeastNat
<1>5. PICK s \in (SUBSET S) \ P : Cardinality(s) = n
  OBVIOUS
<1>6. PICK r \in (SUBSET s) \ {s} : r \notin P
  BY <1>5
<1>7. Cardinality(r) < Cardinality(s)
  <2>1. IsFiniteSet(s) /\ r \in SUBSET s /\ r \in SUBSET S
    BY <1>1, <1>6
  <2>2. Cardinality(r) <= Cardinality(s) /\ Cardinality(r) # Cardinality(s)
    BY <1>6, <2>1, FS_Subset
  <2>3. QED
    BY <1>1, <2>1, <2>2
<1>8. Cardinality(r) \in Sizes
  BY <1>6
<1>9. n <= Cardinality(r) /\ n = Cardinality(s)
  BY <1>4, <1>5, <1>8
<1>10. Cardinality(r) \in Nat /\ Cardinality(s) \in Nat
  BY <1>1, <1>6
<1>11. QED
  BY <1>7, <1>9, <1>10

Upto(S, n) == {s \in SUBSET S : Cardinality(s) <= n}

LEMMA SumsExist ==
    ASSUME NEW S, IsFiniteSet(S), NEW f
    PROVE  \E g : Sums(f, SUBSET S, g)
<1> DEFINE Bad == {n \in Nat : ~\E g : Sums(f, Upto(S, n), g)}
<1>1. \A s \in SUBSET S : IsFiniteSet(s) /\ Cardinality(s) \in Nat
  BY FS_Subset, FS_CardinalityType
<1>2. \A s \in SUBSET S : s # {} => Cardinality(Rest(s)) = Cardinality(s) - 1 /\ Rest(s) \in SUBSET S
  <2>1. ASSUME NEW s \in SUBSET S, s # {}
        PROVE  Cardinality(Rest(s)) = Cardinality(s) - 1 /\ Rest(s) \in SUBSET S
    <3>1. First(s) \in s
      BY <2>1 DEF First
    <3>2. QED
      BY <1>1, <3>1, FS_RemoveElement DEF Rest
  <2>2. QED
    BY <2>1
<1>3. Bad = {}
  <2>1. SUFFICES ASSUME Bad # {} PROVE FALSE
    OBVIOUS
  <2>2. PICK n \in Bad : \A k \in Bad : n <= k
    BY <2>1, LeastNat
  <2>3. CASE n = 0
    <3> DEFINE g == [s \in Upto(S, 0) |-> 0]
    <3>1. \A s \in Upto(S, 0) : s = {}
      <4>1. SUFFICES ASSUME NEW s \in SUBSET S, Cardinality(s) <= 0 PROVE s = {}
        BY DEF Upto
      <4>2. Cardinality(s) = 0
        BY <1>1, <4>1
      <4>3. QED
        BY <1>1, <4>2, FS_EmptySet
    <3>2. Sums(f, Upto(S, 0), g)
      BY <3>1 DEF Sums
    <3>3. QED
      BY <2>3, <3>2
  <2>4. CASE n # 0
    <3>1. n - 1 \in Nat /\ n - 1 \notin Bad /\ n \in Nat
      BY <2>2, <2>4
    <3>2. PICK g : Sums(f, Upto(S, n - 1), g)
      BY <3>1
    <3> DEFINE h == [s \in Upto(S, n) |-> IF s = {} THEN 0 ELSE f[First(s)] + g[Rest(s)]]
    <3>3. ASSUME NEW s \in Upto(S, n), s # {} PROVE h[Rest(s)] = g[Rest(s)]
      <4>1. Rest(s) \in Upto(S, n - 1) /\ Rest(s) \in Upto(S, n)
        BY <1>1, <1>2, <3>1, <3>3 DEF Upto
      <4>2. g[Rest(s)] = IF Rest(s) = {} THEN 0 ELSE f[First(Rest(s))] + g[Rest(Rest(s))]
        BY <3>2, <4>1 DEF Sums
      <4>3. QED
        BY <4>1, <4>2
    <3>4. Sums(f, Upto(S, n), h)
      <4>1. h = [s \in Upto(S, n) |-> IF s = {} THEN 0 ELSE f[First(s)] + h[Rest(s)]]
        BY <3>3
      <4> HIDE DEF h
      <4>2. QED
        BY <4>1 DEF Sums
    <3>5. QED
      BY <3>4
  <2>5. QED
    BY <2>3, <2>4
<1>4. Cardinality(S) \in Nat /\ \E g : Sums(f, Upto(S, Cardinality(S)), g)
  BY <1>1, <1>3
<1>5. Upto(S, Cardinality(S)) = SUBSET S
  BY FS_Subset DEF Upto
<1>6. QED
  BY <1>4, <1>5

\* A sum is taken by adding one number after the other.
LEMMA SumSteps ==
    ASSUME NEW S, IsFiniteSet(S), NEW f \in [S -> Int]
    PROVE  \E g : /\ SumFunction(f) = g[S]
                  /\ g[{}] = 0
                  /\ \A s \in SUBSET S : s # {} => g[s] = f[First(s)] + g[Rest(s)]
<1> DEFINE g == CHOOSE h : Sums(f, SUBSET S, h)
<1>1. Sums(f, SUBSET S, g)
  BY SumsExist
<1>2. SumFunction(f) = g[S]
  <2>1. DOMAIN f = S
    OBVIOUS
  <2>2. QED
    BY <2>1, Unfold
<1> HIDE DEF g
<1>3. g[{}] = 0 /\ \A s \in SUBSET S : s # {} => g[s] = f[First(s)] + g[Rest(s)]
  BY <1>1 DEF Sums
<1>4. QED
  BY <1>2, <1>3

LEMMA Firsts ==
    ASSUME NEW S, NEW s \in SUBSET S, s # {}
    PROVE  First(s) \in S
BY DEF First

\* g has the sums of f over the subsets of S.
PartialSums(f, S, g) ==
    /\ g \in [SUBSET S -> Int]
    /\ SumFunction(f) = g[S]
    /\ g[{}] = 0
    /\ \A s \in SUBSET S : s # {} => g[s] = f[First(s)] + g[Rest(s)]
    /\ \A s \in SUBSET S : \A x \in s : g[s] = f[x] + g[s \ {x}]

\* The order does not matter.
LEMMA SumAnyOrder ==
    ASSUME NEW S, IsFiniteSet(S), NEW f \in [S -> Int]
    PROVE  \E g : PartialSums(f, S, g)
<1>1. PICK g : /\ SumFunction(f) = g[S]
               /\ g[{}] = 0
               /\ \A s \in SUBSET S : s # {} => g[s] = f[First(s)] + g[Rest(s)]
  BY SumSteps
<1> DEFINE P == {s \in SUBSET S : g[s] \in Int}
<1>2. ASSUME NEW T \in SUBSET S PROVE g[T] \in Int
  <2>1. IsFiniteSet(T)
    BY FS_Subset
  <2>2. {} \in P
    BY <1>1
  <2>3. ASSUME NEW s \in SUBSET T, s # {}, Rest(s) \in P PROVE s \in P
    BY <1>1, <2>3, Firsts
  <2>4. T \in P
    <3> HIDE DEF P
    <3> QED BY <2>1, <2>2, <2>3, SubsetInduction
  <2>5. QED
    BY <2>4
<1> DEFINE Q == {s \in SUBSET S : \A x \in s : g[s] = f[x] + g[s \ {x}]}
<1>3. ASSUME NEW T \in SUBSET S PROVE T \in Q
  <2>1. IsFiniteSet(T)
    BY FS_Subset
  <2>2. ASSUME NEW s \in SUBSET T, \A r \in (SUBSET s) \ {s} : r \in Q, NEW x \in s
        PROVE  g[s] = f[x] + g[s \ {x}]
    <3> DEFINE y == First(s)
    <3>1. y \in s /\ Rest(s) = s \ {y} /\ s \in SUBSET S
      BY DEF First, Rest
    <3>2. g[s] = f[y] + g[s \ {y}]
      BY <1>1, <3>1
    <3> HIDE DEF y
    <3>3. CASE y = x
      BY <3>2, <3>3
    <3>4. CASE y # x
      <4> DEFINE r == s \ {x, y}
      <4>1. s \ {y} \in Q /\ s \ {x} \in Q
        BY <2>2, <3>1
      <4>2. (s \ {y}) \ {x} = r /\ (s \ {x}) \ {y} = r /\ x \in s \ {y} /\ y \in s \ {x}
        BY <3>1, <3>4
      <4>3. g[s \ {y}] = f[x] + g[r]
        <5>1. g[s \ {y}] = f[x] + g[(s \ {y}) \ {x}]
          BY <4>1, <4>2
        <5>2. QED
          BY <4>2, <5>1
      <4>4. g[s \ {x}] = f[y] + g[r]
        <5>1. g[s \ {x}] = f[y] + g[(s \ {x}) \ {y}]
          BY <4>1, <4>2
        <5>2. QED
          BY <4>2, <5>1
      <4>5. f[x] \in Int /\ f[y] \in Int /\ g[r] \in Int
        BY <1>2, <3>1
      <4>6. QED
        BY <3>2, <4>3, <4>4, <4>5
    <3>5. QED
      BY <3>3, <3>4
  <2>3. \A s \in SUBSET T : (\A r \in (SUBSET s) \ {s} : r \in Q) => s \in Q
    BY <2>2
  <2>4. QED
    <3> HIDE DEF Q
    <3> QED BY <2>1, <2>3, SizeInduction
<1> DEFINE h == [s \in SUBSET S |-> g[s]]
<1>4. h \in [SUBSET S -> Int] /\ \A s \in SUBSET S : h[s] = g[s]
  BY <1>2
<1>5. \A s \in SUBSET S : \A x \in s : h[s] = f[x] + h[s \ {x}]
  BY <1>3
<1>6. \A s \in SUBSET S : s # {} => h[s] = f[First(s)] + h[Rest(s)]
  BY <1>1 DEF Rest
<1>7. SumFunction(f) = h[S] /\ h[{}] = 0
  BY <1>1
<1> HIDE DEF h
<1>8. QED
  BY <1>4, <1>5, <1>6, <1>7 DEF PartialSums

\* The sum over a set is that over a part of it and that over the others.
LEMMA SumSplit ==
    ASSUME NEW S, IsFiniteSet(S), NEW f \in [S -> Int], NEW A \in SUBSET S
    PROVE  SumFunction(f) = SumFunction(Restrict(f, A)) + SumFunction(Restrict(f, S \ A))
<1> DEFINE g == CHOOSE h : PartialSums(f, S, h)
<1>0. PartialSums(f, S, g)
  BY SumAnyOrder
<1> HIDE DEF g
<1>1. /\ g \in [SUBSET S -> Int]
      /\ SumFunction(f) = g[S]
      /\ g[{}] = 0
      /\ \A s \in SUBSET S : s # {} => g[s] = f[First(s)] + g[Rest(s)]
      /\ \A s \in SUBSET S : \A x \in s : g[s] = f[x] + g[s \ {x}]
  BY <1>0 DEF PartialSums
<1>2. ASSUME NEW T \in SUBSET S
      PROVE  SumFunction([x \in T |-> f[x]]) = g[T]
  <2> DEFINE h == [x \in T |-> f[x]]
  <2>1. IsFiniteSet(T) /\ h \in [T -> Int]
    BY FS_Subset
  <2>2. PICK k : /\ SumFunction(h) = k[T]
                 /\ k[{}] = 0
                 /\ \A s \in SUBSET T : s # {} => k[s] = h[First(s)] + k[Rest(s)]
    <3> HIDE DEF h
    <3> QED BY <2>1, SumSteps
  <2> DEFINE P == {s \in SUBSET T : k[s] = g[s]}
  <2>3. {} \in P
    BY <1>1, <2>2
  <2>4. ASSUME NEW s \in SUBSET T, s # {}, Rest(s) \in P PROVE s \in P
    <3>1. First(s) \in T /\ h[First(s)] = f[First(s)]
      BY <2>4, Firsts
    <3>2. k[s] = h[First(s)] + k[Rest(s)] /\ k[Rest(s)] = g[Rest(s)]
      BY <2>2, <2>4
    <3>3. g[s] = f[First(s)] + g[Rest(s)]
      BY <1>1, <2>4
    <3>4. QED
      BY <3>1, <3>2, <3>3
  <2>5. T \in P
    <3> HIDE DEF P
    <3> QED BY <2>1, <2>3, <2>4, SubsetInduction
  <2>6. QED
    BY <2>2, <2>5
<1> DEFINE B == S \ A
           P == {s \in SUBSET B : g[A \cup s] = g[A] + g[s]}
<1>3. {} \in P
  BY <1>1
<1>4. ASSUME NEW s \in SUBSET B, s # {}, Rest(s) \in P PROVE s \in P
  <2> DEFINE x == First(s)
  <2>1. x \in s /\ Rest(s) = s \ {x}
    BY <1>4 DEF First, Rest
  <2> HIDE DEF x
  <2>2. A \cup s \in SUBSET S /\ x \in A \cup s /\ (A \cup s) \ {x} = A \cup Rest(s)
    BY <2>1
  <2>3. g[A \cup s] = f[x] + g[A \cup Rest(s)]
    <3>1. g[A \cup s] = f[x] + g[(A \cup s) \ {x}]
      BY <1>1, <2>2
    <3>2. QED
      BY <2>2, <3>1
  <2>4. g[A \cup Rest(s)] = g[A] + g[Rest(s)]
    BY <1>4
  <2>5. g[s] = f[x] + g[Rest(s)]
    BY <1>1, <2>1
  <2>6. f[x] \in Int /\ g[A] \in Int /\ g[Rest(s)] \in Int
    BY <1>1, <1>4, <2>1
  <2>7. QED
    BY <2>3, <2>4, <2>5, <2>6
<1>5. B \in P
  <2>1. IsFiniteSet(B)
    BY FS_Subset
  <2> HIDE DEF P, B
  <2> QED BY <1>3, <1>4, <2>1, SubsetInduction
<1>6. A \cup B = S
  OBVIOUS
<1>7. /\ SumFunction([x \in A |-> f[x]]) = g[A] /\ SumFunction([x \in B |-> f[x]]) = g[B]
      /\ B \in SUBSET S
  BY <1>2
<1>8. QED
  BY <1>1, <1>5, <1>6, <1>7 DEF Restrict

\* The sum of sums.
Adds(S, e, f, h) ==
    /\ e \in [S -> Int] /\ f \in [S -> Int] /\ h \in [S -> Int]
    /\ \A x \in S : e[x] = f[x] + h[x]

LEMMA SumAdded ==
    ASSUME NEW S, IsFiniteSet(S), NEW e, NEW f, NEW h, Adds(S, e, f, h)
    PROVE  SumFunction(e) = SumFunction(f) + SumFunction(h)
<1>1. /\ e \in [S -> Int] /\ f \in [S -> Int] /\ h \in [S -> Int]
      /\ \A x \in S : e[x] = f[x] + h[x]
  BY DEF Adds
<1>2. PICK g : PartialSums(f, S, g)
  BY <1>1, SumAnyOrder
<1>3. PICK k : PartialSums(h, S, k)
  BY <1>1, SumAnyOrder
<1>4. PICK l : PartialSums(e, S, l)
  BY <1>1, SumAnyOrder
<1> USE <1>2, <1>3, <1>4 DEF PartialSums
<1> DEFINE P == {s \in SUBSET S : l[s] = g[s] + k[s]}
<1>5. {} \in P
  BY <1>2, <1>3, <1>4
<1>6. ASSUME NEW s \in SUBSET S, s # {}, Rest(s) \in P PROVE s \in P
  <2>1. First(s) \in S /\ Rest(s) \in SUBSET S
    BY <1>6, Firsts DEF Rest
  <2>2. l[s] = f[First(s)] + h[First(s)] + (g[Rest(s)] + k[Rest(s)])
    BY <1>1, <1>6, <2>1
  <2>3. /\ f[First(s)] \in Int /\ h[First(s)] \in Int
        /\ g[Rest(s)] \in Int /\ k[Rest(s)] \in Int
    BY <1>1, <1>2, <1>3, <2>1
  <2>4. g[s] = f[First(s)] + g[Rest(s)] /\ k[s] = h[First(s)] + k[Rest(s)]
    BY <1>2, <1>3, <1>6
  <2>5. QED
    BY <2>2, <2>3, <2>4
<1>7. S \in P
  <2> HIDE DEF P
  <2> QED BY <1>5, <1>6, SubsetInduction
<1>8. QED
  BY <1>7

LEMMA SumType ==
    ASSUME NEW S, IsFiniteSet(S), NEW f \in [S -> Int]
    PROVE  SumFunction(f) \in Int
<1>1. PICK g : /\ SumFunction(f) = g[S]
               /\ g[{}] = 0
               /\ \A s \in SUBSET S : s # {} => g[s] = f[First(s)] + g[Rest(s)]
  BY SumSteps
<1> DEFINE P == {s \in SUBSET S : g[s] \in Int}
<1>2. {} \in P
  BY <1>1
<1>3. ASSUME NEW s \in SUBSET S, s # {}, Rest(s) \in P PROVE s \in P
  BY <1>1, <1>3, Firsts
<1>4. S \in P
  <2> HIDE DEF P
  <2> QED BY <1>2, <1>3, SubsetInduction
<1>5. QED
  BY <1>1, <1>4

\* p times the one sum is at most q times the other and c per element.
LEMMA SumsCompared ==
    ASSUME NEW S, IsFiniteSet(S), NEW f \in [S -> Int], NEW h \in [S -> Int],
           NEW p \in Int, NEW q \in Int, NEW c \in Int,
           \A x \in S : p * f[x] <= q * h[x] + c
    PROVE  p * SumFunction(f) <= q * SumFunction(h) + c * Cardinality(S)
<1>1. PICK g : /\ SumFunction(f) = g[S]
               /\ g[{}] = 0
               /\ \A s \in SUBSET S : s # {} => g[s] = f[First(s)] + g[Rest(s)]
  BY SumSteps
<1>2. PICK k : /\ SumFunction(h) = k[S]
               /\ k[{}] = 0
               /\ \A s \in SUBSET S : s # {} => k[s] = h[First(s)] + k[Rest(s)]
  BY SumSteps
<1> DEFINE P == {s \in SUBSET S : /\ g[s] \in Int /\ k[s] \in Int
                                  /\ p * g[s] <= q * k[s] + c * Cardinality(s)}
<1>3. {} \in P
  BY <1>1, <1>2, FS_EmptySet
<1>4. ASSUME NEW s \in SUBSET S, s # {}, Rest(s) \in P PROVE s \in P
  <2>1. First(s) \in S /\ First(s) \in s
    BY <1>4 DEF First
  <2>2. IsFiniteSet(s) /\ Cardinality(s) \in Nat
    BY FS_Subset, FS_CardinalityType
  <2>3. Cardinality(Rest(s)) = Cardinality(s) - 1
    BY <2>1, <2>2, FS_RemoveElement DEF Rest
  <2>4. g[s] = f[First(s)] + g[Rest(s)] /\ k[s] = h[First(s)] + k[Rest(s)]
    BY <1>1, <1>2, <1>4
  <2>5. ASSUME NEW a \in Int, NEW b \in Int, NEW d \in Int, NEW e \in Int, NEW n \in Int,
               p * a <= q * b + c, p * d <= q * e + c * (n - 1)
        PROVE  p * (a + d) <= q * (b + e) + c * n
    <3>1. /\ p * (a + d) = p * a + p * d
          /\ q * (b + e) = q * b + q * e
          /\ c * (n - 1) = c * n - c
      OBVIOUS
    <3>2. /\ p * a \in Int /\ p * d \in Int /\ q * b \in Int /\ q * e \in Int /\ c * n \in Int
      OBVIOUS
    <3>3. QED
      BY <2>5, <3>1, <3>2
  <2>6. /\ f[First(s)] \in Int /\ h[First(s)] \in Int
        /\ p * f[First(s)] <= q * h[First(s)] + c
    BY <2>1
  <2>7. /\ g[Rest(s)] \in Int /\ k[Rest(s)] \in Int
        /\ p * g[Rest(s)] <= q * k[Rest(s)] + c * (Cardinality(s) - 1)
    BY <1>4, <2>3
  <2>8. p * (f[First(s)] + g[Rest(s)]) <= q * (h[First(s)] + k[Rest(s)]) + c * Cardinality(s)
    BY <2>2, <2>5, <2>6, <2>7
  <2>9. QED
    BY <2>4, <2>6, <2>7, <2>8
<1>5. S \in P
  <2> HIDE DEF P
  <2> QED BY <1>3, <1>4, SubsetInduction
<1>6. QED
  BY <1>1, <1>2, <1>5

\* Changing one number changes the sum by as much.
LEMMA SumChanged ==
    ASSUME NEW S, IsFiniteSet(S), NEW f \in [S -> Int], NEW h \in [S -> Int], NEW a \in S,
           \A x \in S \ {a} : h[x] = f[x]
    PROVE  SumFunction(f) - SumFunction(h) = f[a] - h[a]
<1>1. PICK g : /\ SumFunction(f) = g[S]
               /\ g[{}] = 0
               /\ \A s \in SUBSET S : s # {} => g[s] = f[First(s)] + g[Rest(s)]
  BY SumSteps
<1>2. PICK k : /\ SumFunction(h) = k[S]
               /\ k[{}] = 0
               /\ \A s \in SUBSET S : s # {} => k[s] = h[First(s)] + k[Rest(s)]
  BY SumSteps
<1> DEFINE P == {s \in SUBSET S : /\ g[s] \in Int /\ k[s] \in Int
                                  /\ g[s] - k[s] = IF a \in s THEN f[a] - h[a] ELSE 0}
<1>3. {} \in P
  BY <1>1, <1>2
<1>4. ASSUME NEW s \in SUBSET S, s # {}, Rest(s) \in P PROVE s \in P
  <2>1. First(s) \in S /\ First(s) \in s
    BY <1>4 DEF First
  <2>2. g[s] = f[First(s)] + g[Rest(s)] /\ k[s] = h[First(s)] + k[Rest(s)]
    BY <1>1, <1>2, <1>4
  <2>3. f[First(s)] \in Int /\ h[First(s)] \in Int /\ g[Rest(s)] \in Int /\ k[Rest(s)] \in Int
    BY <1>4, <2>1
  <2>4. CASE First(s) = a
    <3>1. a \notin Rest(s) /\ a \in s
      BY <2>1, <2>4 DEF Rest
    <3>2. g[Rest(s)] - k[Rest(s)] = 0
      BY <1>4, <3>1
    <3>3. QED
      BY <2>2, <2>3, <2>4, <3>1, <3>2
  <2>5. CASE First(s) # a
    <3>1. a \in Rest(s) <=> a \in s
      BY <2>5 DEF Rest
    <3>2. f[First(s)] = h[First(s)]
      BY <2>1, <2>5
    <3>3. QED
      BY <1>4, <2>2, <2>3, <3>1, <3>2
  <2>6. QED
    BY <2>4, <2>5
<1>5. S \in P
  <2> HIDE DEF P
  <2> QED BY <1>3, <1>4, SubsetInduction
<1>6. QED
  BY <1>1, <1>2, <1>5

\* A sum is between as many times the least and the greatest of its numbers.
LEMMA SumBounded ==
    ASSUME NEW S, IsFiniteSet(S), NEW f \in [S -> Int], NEW lo \in Int, NEW hi \in Int,
           \A x \in S : lo <= f[x] /\ f[x] <= hi
    PROVE  /\ lo * Cardinality(S) <= SumFunction(f)
           /\ SumFunction(f) <= hi * Cardinality(S)
<1>1. SumFunction(f) \in Int /\ Cardinality(S) \in Nat
  BY SumType, FS_CardinalityType
<1>2. \A x \in S : 1 * f[x] <= 0 * f[x] + hi
  OBVIOUS
<1>3. 1 * SumFunction(f) <= 0 * SumFunction(f) + hi * Cardinality(S)
  BY <1>2, SumsCompared
<1> DEFINE m == 0 - lo
           p == 0
           q == 1
<1>4. m \in Int /\ m + lo = 0 /\ \A x \in S : 0 <= f[x] + m
  OBVIOUS
<1>5. p \in Int /\ q \in Int /\ \A x \in S : p * f[x] <= q * f[x] + m
  BY <1>4
<1> HIDE DEF m, p, q
<1>6. p * SumFunction(f) <= q * SumFunction(f) + m * Cardinality(S)
  BY <1>4, <1>5, SumsCompared
<1>7. ASSUME NEW n \in Nat
      PROVE  lo * n + m * n = 0 /\ lo * n \in Int /\ m * n \in Int /\ hi * n \in Int
  <2>1. lo * n + m * n = (m + lo) * n
    BY <1>4
  <2>2. (m + lo) * n = 0 * n
    BY <1>4
  <2>3. 0 * n = 0
    OBVIOUS
  <2>4. lo * n \in Int /\ m * n \in Int /\ hi * n \in Int
    BY <1>4
  <2>5. QED
    BY <2>1, <2>2, <2>3, <2>4
<1>8. QED
  BY <1>1, <1>3, <1>6, <1>7 DEF p, q

\* The sum of positive numbers is one.
LEMMA SumPositive ==
    ASSUME NEW S, IsFiniteSet(S), S # {}, NEW f \in [S -> Int], \A x \in S : f[x] > 0
    PROVE  SumFunction(f) > 0
<1> DEFINE hi == SumFunction(f)
<1>1. Cardinality(S) \in Nat /\ Cardinality(S) # 0
  BY FS_CardinalityType, FS_EmptySet
<1>2. \A x \in S : 0 * f[x] <= 1 * f[x] + (-1) /\ 0 * f[x] = 0
  OBVIOUS
<1>3. 0 * SumFunction(f) <= 1 * SumFunction(f) + (-1) * Cardinality(S)
  BY <1>2, SumsCompared
<1>4. SumFunction(f) \in Int
  BY SumType
<1>5. QED
  BY <1>1, <1>3, <1>4

\* Numbers that are all the same, and those that count the members of a part.
LEMMA SumConstant ==
    ASSUME NEW S, IsFiniteSet(S), NEW c \in Int, NEW f \in [S -> Int], \A x \in S : f[x] = c
    PROVE  SumFunction(f) = c * Cardinality(S)
<1>1. \A x \in S : c <= f[x] /\ f[x] <= c
  OBVIOUS
<1>2. c * Cardinality(S) <= SumFunction(f) /\ SumFunction(f) <= c * Cardinality(S)
  BY <1>1, SumBounded
<1>3. SumFunction(f) \in Int /\ Cardinality(S) \in Nat
  BY SumType, FS_CardinalityType
<1>4. c * Cardinality(S) \in Int
  BY <1>3
<1>5. QED
  BY <1>2, <1>3, <1>4

LEMMA SumCounts ==
    ASSUME NEW S, IsFiniteSet(S), NEW A \in SUBSET S, NEW f \in [S -> Int],
           \A x \in S : f[x] = IF x \in A THEN 1 ELSE 0
    PROVE  SumFunction(f) = Cardinality(A)
<1> DEFINE B == S \ A
           a == [x \in A |-> f[x]]
           b == [x \in B |-> f[x]]
<1>1. /\ a \in [A -> Int] /\ \A x \in A : a[x] = 1
      /\ b \in [B -> Int] /\ \A x \in B : b[x] = 0
  OBVIOUS
<1>2. SumFunction(f) = SumFunction(a) + SumFunction(b)
  BY SumSplit DEF Restrict
<1>3. IsFiniteSet(A) /\ IsFiniteSet(B)
  BY FS_Subset
<1> HIDE DEF B, a, b
<1>4. Cardinality(A) \in Nat /\ Cardinality(B) \in Nat
  BY <1>3, FS_CardinalityType
<1>5. 1 \in Int /\ 0 \in Int
  OBVIOUS
<1>6. SumFunction(a) = 1 * Cardinality(A)
  BY <1>1, <1>3, <1>5, SumConstant
<1>7. SumFunction(b) = 0 * Cardinality(B)
  BY <1>1, <1>3, <1>5, SumConstant
<1>8. QED
  BY <1>2, <1>4, <1>6, <1>7

\* The signs of the numbers are those of their sum.
LEMMA SumSigns ==
    ASSUME NEW S, IsFiniteSet(S), NEW f \in [S -> Int]
    PROVE  /\ SumFunction(f) \in Int
           /\ (\A x \in S : f[x] >= 0) => SumFunction(f) >= 0
           /\ (\A x \in S : f[x] <= 0) => SumFunction(f) <= 0
           /\ (\A x \in S : f[x] <= 0) /\ (\E x \in S : f[x] < 0) => SumFunction(f) < 0
<1>1. PICK g : /\ SumFunction(f) = g[S]
               /\ g[{}] = 0
               /\ \A s \in SUBSET S : s # {} => g[s] = f[First(s)] + g[Rest(s)]
  BY SumSteps
<1> DEFINE Signs(s) ==
               /\ g[s] \in Int
               /\ (\A x \in S : f[x] >= 0) => g[s] >= 0
               /\ (\A x \in S : f[x] <= 0) =>
                      g[s] <= 0 /\ ((\E x \in s : f[x] < 0) => g[s] < 0)
           P == {s \in SUBSET S : Signs(s)}
<1>2. {} \in P
  BY <1>1
<1>3. ASSUME NEW s \in SUBSET S, s # {}, Rest(s) \in P PROVE s \in P
  <2>1. First(s) \in s /\ s = Rest(s) \cup {First(s)}
    BY <1>3 DEF First, Rest
  <2>2. Signs(Rest(s))
    BY <1>3
  <2>3. f[First(s)] \in Int /\ g[s] = f[First(s)] + g[Rest(s)]
    BY <1>1, <1>3, <2>1
  <2>4. Signs(s)
    <3> DEFINE y == f[First(s)]
               z == g[Rest(s)]
    <3>1. y \in Int /\ z \in Int /\ g[s] = y + z
      BY <2>2, <2>3
    <3>2. (\A x \in S : f[x] >= 0) => y >= 0 /\ z >= 0
      BY <2>1, <2>2
    <3>3. (\A x \in S : f[x] <= 0) => y <= 0 /\ z <= 0
      BY <2>1, <2>2
    <3>4. (\A x \in S : f[x] <= 0) /\ (\E x \in s : f[x] < 0) => y < 0 \/ z < 0
      BY <2>1, <2>2
    <3> HIDE DEF y, z
    <3>5. QED
      BY <3>1, <3>2, <3>3, <3>4
  <2>5. QED
    BY <2>4
<1>4. S \in P
  <2> HIDE DEF P
  <2> QED BY <1>2, <1>3, SubsetInduction
<1>5. QED
  BY <1>1, <1>4
=============================================================================
