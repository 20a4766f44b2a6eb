----------------------------- MODULE SumProofs ------------------------------
(***************************************************************************)
(* What MapThenSumSet computes, in a form a proof can use: the order in    *)
(* which the elements of a finite set are taken makes no difference.       *)
(***************************************************************************)
EXTENDS Integers, FiniteSetsExt, FiniteSetTheorems, TableSeqProofs

(* The element that MapThenSumSet takes next.                              *)
Pick(T) == CHOOSE x \in T : TRUE

(* k[T] is the sum of w over T, for every part T of S.                     *)
Adds(k, w, S) ==
  \A T \in SUBSET S : k[T] = IF T = {} THEN 0 ELSE w[Pick(T)] + k[T \ {Pick(T)}]
Sums(k, w, S) == k \in [SUBSET S -> Int] /\ Adds(k, w, S)

(* Taking the next element out makes a finite set smaller.                 *)
LEMMA PickOne ==
  ASSUME NEW T, IsFiniteSet(T)
  PROVE  /\ Cardinality(T) \in Nat
         /\ \A x \in T : IsFiniteSet(T \ {x}) /\ Cardinality(T \ {x}) = Cardinality(T) - 1
         /\ T # {} => Pick(T) \in T /\ Cardinality(T) >= 1
         /\ Cardinality(T) <= 0 => T = {}
<1>1. Cardinality(T) \in Nat
  BY FS_CardinalityType
<1>2. \A x \in T : IsFiniteSet(T \ {x}) /\ Cardinality(T \ {x}) = Cardinality(T) - 1
  BY FS_RemoveElement
<1>3. Cardinality(T) = 0 <=> T = {}
  BY FS_EmptySet
<1>4. T # {} => Pick(T) \in T
  BY DEF Pick
<1> QED
  BY <1>1, <1>2, <1>3, <1>4

(* The recursion of MapThenSumSet has a solution.                          *)
LEMMA SumsExist ==
  ASSUME NEW S, IsFiniteSet(S), NEW w, \A x \in S : w[x] \in Int
  PROVE  \E k : Sums(k, w, S)
<1> DEFINE Next(k, T) == IF T = {} THEN 0 ELSE w[Pick(T)] + k[T \ {Pick(T)}]
           Good(k, n) == /\ k \in [SUBSET S -> Int]
                         /\ \A T \in SUBSET S : Cardinality(T) <= n => k[T] = Next(k, T)
           G == {n \in Nat : \E k : Good(k, n)}
<1>0. \A T \in SUBSET S : IsFiniteSet(T) /\ Cardinality(T) \in Nat
  BY FS_Subset, FS_CardinalityType
<1>1. 0 \in G
  <2> DEFINE z == [T \in SUBSET S |-> 0]
  <2>1. Good(z, 0)
    BY <1>0, PickOne
  <2> QED
    BY <2>1
<1>2. ASSUME NEW n \in Nat, n \in G PROVE n + 1 \in G
  <2>1. PICK k : Good(k, n)
    BY <1>2
  <2> DEFINE l == [T \in SUBSET S |-> IF Cardinality(T) <= n + 1 THEN Next(k, T) ELSE 0]
  <2>2. \A T \in SUBSET S : Next(k, T) \in Int
    <3>1. ASSUME NEW T \in SUBSET S, T # {} PROVE w[Pick(T)] \in Int /\ k[T \ {Pick(T)}] \in Int
      <4>1. Pick(T) \in S /\ T \ {Pick(T)} \in SUBSET S
        BY <1>0, <3>1, PickOne
      <4> QED
        BY <2>1, <4>1
    <3> QED
      BY <3>1
  <2>3. l \in [SUBSET S -> Int]
    BY <2>2
  <2>4. \A T \in SUBSET S : Cardinality(T) <= n => l[T] = k[T]
    BY <1>0, <2>1
  <2>5. ASSUME NEW T \in SUBSET S, Cardinality(T) <= n + 1 PROVE l[T] = Next(l, T)
    <3>1. l[T] = Next(k, T)
      BY <2>5
    <3>2. CASE T = {}
      BY <3>1, <3>2
    <3>3. CASE T # {}
      <4>1. T \ {Pick(T)} \in SUBSET S /\ Cardinality(T \ {Pick(T)}) <= n
        BY <1>0, <2>5, <3>3, PickOne
      <4>2. l[T \ {Pick(T)}] = k[T \ {Pick(T)}]
        BY <2>4, <4>1
      <4> HIDE DEF l
      <4> QED
        BY <3>1, <3>3, <4>2
    <3> QED
      BY <3>2, <3>3
  <2>6. Good(l, n + 1)
    <3> HIDE DEF l
    <3> QED
      BY <2>3, <2>5
  <2>7. \E m : Good(m, n + 1)
    <3> HIDE DEF l
    <3> QED
      BY <2>6
  <2> QED
    BY <2>7
<1>3. Cardinality(S) \in G
  <2>1. \A n \in Nat : n \in G
    <3> HIDE DEF G
    <3> QED
      BY <1>1, <1>2, SetInduction
  <2> QED
    BY <1>0, <2>1
<1>4. PICK k : Good(k, Cardinality(S))
  BY <1>3
<1>5. \A T \in SUBSET S : Cardinality(T) <= Cardinality(S)
  BY FS_Subset
<1> QED
  BY <1>4, <1>5 DEF Sums, Adds

(* What is summed outside of T makes no difference to the sum over T.      *)
LEMMA SumsAgree ==
  ASSUME NEW S, NEW R, NEW w, NEW v, NEW k, NEW l, Adds(k, w, S), Adds(l, v, R),
         IsFiniteSet(S), S \subseteq R, \A x \in S : w[x] = v[x]
  PROVE  \A T \in SUBSET S : k[T] = l[T]
<1> DEFINE G == {n \in Nat : \A T \in SUBSET S : Cardinality(T) <= n => k[T] = l[T]}
<1>0. \A T \in SUBSET S : IsFiniteSet(T) /\ Cardinality(T) \in Nat /\ T \in SUBSET R
  BY FS_Subset, FS_CardinalityType
<1>1. /\ \A T \in SUBSET S : k[T] = IF T = {} THEN 0 ELSE w[Pick(T)] + k[T \ {Pick(T)}]
      /\ \A T \in SUBSET S : l[T] = IF T = {} THEN 0 ELSE v[Pick(T)] + l[T \ {Pick(T)}]
  BY <1>0 DEF Adds
<1>2. 0 \in G
  BY <1>0, <1>1, PickOne
<1>3. ASSUME NEW n \in Nat, n \in G PROVE n + 1 \in G
  <2>1. ASSUME NEW T \in SUBSET S, Cardinality(T) <= n + 1 PROVE k[T] = l[T]
    <3>1. CASE T = {}
      BY <1>1, <3>1
    <3>2. CASE T # {}
      <4>1. /\ Pick(T) \in S /\ T \ {Pick(T)} \in SUBSET S
            /\ Cardinality(T \ {Pick(T)}) <= n
        BY <1>0, <2>1, <3>2, PickOne
      <4>2. k[T \ {Pick(T)}] = l[T \ {Pick(T)}] /\ w[Pick(T)] = v[Pick(T)]
        BY <1>3, <4>1
      <4> QED
        BY <1>1, <3>2, <4>2
    <3> QED
      BY <3>1, <3>2
  <2> QED
    BY <2>1
<1>4. \A n \in Nat : n \in G
  <2> HIDE DEF G
  <2> QED
    BY <1>2, <1>3, SetInduction
<1> QED
  BY <1>0, <1>4

(* Any element may be taken first.                                         *)
LEMMA SumsAnyFirst ==
  ASSUME NEW S, NEW w, NEW k, Sums(k, w, S), IsFiniteSet(S), \A x \in S : w[x] \in Int
  PROVE  \A T \in SUBSET S : \A x \in T : k[T] = w[x] + k[T \ {x}]
<1> DEFINE G == {n \in Nat : \A T \in SUBSET S :
                               Cardinality(T) <= n => \A x \in T : k[T] = w[x] + k[T \ {x}]}
<1>0. \A T \in SUBSET S : IsFiniteSet(T) /\ Cardinality(T) \in Nat
  BY FS_Subset, FS_CardinalityType
<1>1. /\ \A T \in SUBSET S : k[T] = IF T = {} THEN 0 ELSE w[Pick(T)] + k[T \ {Pick(T)}]
      /\ \A T \in SUBSET S : k[T] \in Int
  BY DEF Sums, Adds
<1>2. 0 \in G
  BY <1>0, PickOne
<1>3. ASSUME NEW n \in Nat, n \in G PROVE n + 1 \in G
  <2>1. ASSUME NEW T \in SUBSET S, Cardinality(T) <= n + 1, NEW x \in T
        PROVE  k[T] = w[x] + k[T \ {x}]
    <3> DEFINE y == Pick(T)  U == T \ {y}  V == T \ {x}  W == T \ {x, y}
    <3>1. /\ y \in T /\ k[T] = w[y] + k[U]
          /\ U \in SUBSET S /\ V \in SUBSET S /\ W \in SUBSET S
          /\ Cardinality(U) <= n /\ Cardinality(V) <= n
      BY <1>0, <1>1, <2>1, PickOne
    <3>2. CASE x = y
      BY <3>1, <3>2
    <3>3. CASE x # y
      <4>1. x \in U /\ y \in V /\ U \ {x} = W /\ V \ {y} = W
        BY <3>1, <3>3
      <4> HIDE DEF U, V, W, y
      <4>2. k[U] = w[x] + k[W] /\ k[V] = w[y] + k[W]
        BY <1>3, <3>1, <4>1
      <4>3. k[W] \in Int /\ w[x] \in Int /\ w[y] \in Int
        BY <1>1, <2>1, <3>1
      <4>4. k[T] = w[x] + k[V]
        BY <3>1, <4>2, <4>3
      <4> QED
        BY <4>4 DEF V
    <3> QED
      BY <3>2, <3>3
  <2> QED
    BY <2>1
<1>4. \A n \in Nat : n \in G
  <2> HIDE DEF G
  <2> QED
    BY <1>2, <1>3, SetInduction
<1>5. ASSUME NEW T \in SUBSET S, NEW x \in T PROVE k[T] = w[x] + k[T \ {x}]
  <2>1. Cardinality(T) \in Nat
    BY <1>0, <1>5
  <2>2. Cardinality(T) \in G
    <3> HIDE DEF G
    <3> QED
      BY <1>4, <2>1
  <2>3. Cardinality(T) <= Cardinality(T)
    BY <2>1
  <2> QED
    BY <1>5, <2>2, <2>3
<1> QED
  BY <1>5

=============================================================================
