--------------------------- MODULE TableSeqProofs ---------------------------
(***************************************************************************)
(* Induction and recursion over data in a form that needs no operator as a *)
(* parameter: what holds of a number is put as membership in a set.  With  *)
(* it, facts about Sift.                                                   *)
(***************************************************************************)
EXTENDS TableSeq, SequenceTheorems, WellFoundedInduction, TLAPS

(* The order of the naturals as a set of pairs.                            *)
Less == {p \in Nat \X Nat : p[1] < p[2]}

(* There is no infinite descent in the naturals.                           *)
LEMMA LessWellFounded == IsWellFoundedOn(Less, Nat)
<1>1. Less = OpToRel(<, Nat)
  BY DEF Less, OpToRel
<1> QED
  BY <1>1, NatLessThanWellFounded

(* A set of naturals that holds 0 and the successor of each member holds   *)
(* all.                                                                    *)
LEMMA SetInduction ==
  ASSUME NEW S, 0 \in S, \A n \in Nat : n \in S => n + 1 \in S
  PROVE  \A n \in Nat : n \in S
<1> DEFINE T == Nat \ S
<1> SUFFICES ASSUME T # {} PROVE FALSE
  OBVIOUS
<1>1. T \subseteq Nat
  OBVIOUS
<1> HIDE DEF T
<1>2. PICK x \in T : \A y \in T : ~ (<<y, x>> \in Less)
  BY <1>1, WFMin, LessWellFounded
<1>3. x \in Nat /\ x \notin S /\ x # 0
  BY DEF T
<1>4. x - 1 \in Nat /\ <<x - 1, x>> \in Less
  BY <1>3 DEF Less
<1>5. x - 1 \in S
  BY <1>2, <1>4 DEF T
<1> QED
  BY <1>3, <1>4, <1>5

(* The same up to a bound, for the values of a function.                   *)
LEMMA RangeInduction ==
  ASSUME NEW n \in Nat, NEW f, NEW V, f[0] \in V,
         \A j \in 1..n : f[j - 1] \in V => f[j] \in V
  PROVE  \A j \in 0..n : f[j] \in V
<1> DEFINE S == {k \in Nat : k <= n => f[k] \in V}
<1>1. 0 \in S
  OBVIOUS
<1>2. ASSUME NEW k \in Nat, k \in S PROVE k + 1 \in S
  <2>1. CASE k + 1 <= n
    <3>1. k + 1 \in 1..n /\ (k + 1) - 1 = k /\ k <= n
      BY <2>1
    <3> QED
      BY <1>2, <3>1
  <2> QED
    BY <2>1
<1>3. \A k \in Nat : k \in S
  <2> HIDE DEF S
  <2> QED
    BY <1>1, <1>2, SetInduction
<1> QED
  BY <1>3

(* A function may be defined by recursion over an interval: h makes a      *)
(* value of the one before and the index.                                  *)
Recursions(V, b, n, h) ==
  {f \in [0..n -> V] : \A j \in 0..n : f[j] = IF j = 0 THEN b ELSE h[<<f[j - 1], j>>]}

(* A recursion over 0..n has a solution.                                   *)
LEMMA RecursionExists ==
  ASSUME NEW V, NEW b \in V, NEW n \in Nat, NEW h \in [V \X (1..n) -> V]
  PROVE  Recursions(V, b, n, h) # {}
<1> DEFINE Good(f, k) == /\ f \in [0..k -> V]
                         /\ \A j \in 0..k : f[j] = IF j = 0 THEN b ELSE h[<<f[j - 1], j>>]
           S == {k \in Nat : k <= n => \E f : Good(f, k)}
<1>1. 0 \in S
  <2>1. Good([j \in 0..0 |-> b], 0)
    OBVIOUS
  <2> QED
    BY <2>1
<1>2. ASSUME NEW k \in Nat, k \in S PROVE k + 1 \in S
  <2> SUFFICES ASSUME k + 1 <= n PROVE \E f : Good(f, k + 1)
    OBVIOUS
  <2>1. PICK f : Good(f, k)
    BY <1>2
  <2> DEFINE g == [j \in 0..(k + 1) |-> IF j = k + 1 THEN h[<<f[k], k + 1>>] ELSE f[j]]
  <2>2. f[k] \in V /\ k + 1 \in 1..n
    BY <2>1
  <2>3. h[<<f[k], k + 1>>] \in V
    BY <2>2
  <2>4. g \in [0..(k + 1) -> V]
    BY <2>1, <2>3
  <2>5. ASSUME NEW j \in 0..(k + 1)
        PROVE  g[j] = IF j = 0 THEN b ELSE h[<<g[j - 1], j>>]
    <3>1. CASE j = k + 1
      <4>1. j - 1 = k /\ k \in 0..(k + 1) /\ k # k + 1 /\ j # 0
        BY <3>1
      <4> QED
        BY <3>1, <4>1
    <3>2. CASE j # k + 1 /\ j # 0
      <4>1. j \in 0..k /\ j - 1 \in 0..k /\ j - 1 # k + 1 /\ j - 1 \in 0..(k + 1)
        BY <3>2
      <4> QED
        BY <3>2, <4>1, <2>1
    <3>3. CASE j = 0
      <4>1. j \in 0..k /\ j # k + 1
        BY <3>3
      <4> QED
        BY <3>3, <4>1, <2>1
    <3> QED
      BY <3>1, <3>2, <3>3
  <2> QED
    BY <2>4, <2>5
<1>3. \A k \in Nat : k \in S
  <2> HIDE DEF S
  <2> QED
    BY <1>1, <1>2, SetInduction
<1> QED
  BY <1>3 DEF Recursions

-----------------------------------------------------------------------------
(* A sequence with an element is a shorter one with its last appended.     *)
LEMMA LastAppended ==
  ASSUME NEW E, NEW s \in Seq(E), s # <<>>
  PROVE  \E t \in Seq(E), e \in E : s = Append(t, e) /\ Len(s) = Len(t) + 1
<1> DEFINE n == Len(s)
           t == [j \in 1..(n - 1) |-> s[j]]
<1>1. n \in Nat /\ n # 0 /\ n - 1 \in Nat /\ s[n] \in E
  OBVIOUS
<1>2. t \in Seq(E) /\ Len(t) = n - 1
  BY <1>1
<1>3. Append(t, s[n]) \in Seq(E) /\ Len(Append(t, s[n])) = n
  BY <1>1, <1>2
<1>4. ASSUME NEW j \in 1..n PROVE Append(t, s[n])[j] = s[j]
  <2>1. CASE j = n
    BY <2>1, <1>1, <1>2
  <2>2. CASE j # n
    <3>1. j \in 1..(n - 1) /\ Len(t) = n - 1
      <4> HIDE DEF n, t
      <4> QED
        BY <2>2, <1>1, <1>2
    <3>2. Append(t, s[n])[j] = t[j]
      BY <3>1, <1>1, <1>2
    <3> QED
      BY <3>1, <3>2
  <2> QED
    BY <2>1, <2>2
<1>5. s = Append(t, s[n])
  BY <1>3, <1>4, SeqEqual
<1>6. Len(s) = Len(t) + 1
  BY <1>1, <1>2
<1> HIDE DEF t, n
<1> QED
  BY <1>1, <1>2, <1>5, <1>6

(* A set that holds the empty sequence, and with a sequence every one that *)
(* is longer by an element, holds all.                                     *)
LEMMA AppendInduction ==
  ASSUME NEW E, NEW P, <<>> \in P, \A s \in Seq(E), e \in E : s \in P => Append(s, e) \in P
  PROVE  \A s \in Seq(E) : s \in P
<1> DEFINE S == {n \in Nat : \A s \in Seq(E) : Len(s) = n => s \in P}
<1>1. 0 \in S
  <2>1. \A s \in Seq(E) : Len(s) = 0 => s = <<>>
    OBVIOUS
  <2> QED
    BY <2>1
<1>2. ASSUME NEW n \in Nat, n \in S PROVE n + 1 \in S
  <2> SUFFICES ASSUME NEW s \in Seq(E), Len(s) = n + 1 PROVE s \in P
    OBVIOUS
  <2>1. s # <<>>
    OBVIOUS
  <2>2. PICK t \in Seq(E), e \in E : s = Append(t, e) /\ Len(s) = Len(t) + 1
    BY <2>1, LastAppended
  <2>3. Len(t) = n
    BY <2>2
  <2> QED
    BY <1>2, <2>2, <2>3
<1>3. \A n \in Nat : n \in S
  <2> HIDE DEF S
  <2> QED
    BY <1>1, <1>2, SetInduction
<1> QED
  BY <1>3

-----------------------------------------------------------------------------
(* The function that Sift's definition recurs over.                        *)
Kept(k, s, S) ==
  /\ k[0] = <<>>
  /\ \A j \in 1..Len(s) : k[j] = IF s[j] \in S THEN Append(k[j - 1], s[j]) ELSE k[j - 1]

(* Sift computes the prefixes' kept elements one after another.            *)
LEMMA SiftKept ==
  ASSUME NEW E, NEW s \in Seq(E), NEW S
  PROVE  \E k \in [0..Len(s) -> Seq(E)] : Kept(k, s, S) /\ Sift(s, S) = k[Len(s)]
<1> DEFINE V == Seq(E)
           n == Len(s)
           Eq(g) == g = [j \in 0..n |-> IF j = 0 THEN <<>>
                                        ELSE IF s[j] \in S THEN Append(g[j - 1], s[j])
                                        ELSE g[j - 1]]
           h == [x \in V \X (1..n) |-> IF s[x[2]] \in S THEN Append(x[1], s[x[2]]) ELSE x[1]]
<1>1. n \in Nat /\ <<>> \in V /\ h \in [V \X (1..n) -> V]
  OBVIOUS
<1>2. Recursions(V, <<>>, n, h) # {}
  <2> HIDE DEF V, n, h
  <2> QED
    BY <1>1, RecursionExists
<1>3. PICK f \in [0..n -> V] :
        \A j \in 0..n : f[j] = IF j = 0 THEN <<>> ELSE h[<<f[j - 1], j>>]
  <2> HIDE DEF V, n, h
  <2> QED
    BY <1>2 DEF Recursions
<1>4. ASSUME NEW j \in 0..n
      PROVE  f[j] = IF j = 0 THEN <<>>
                    ELSE IF s[j] \in S THEN Append(f[j - 1], s[j]) ELSE f[j - 1]
  <2>1. CASE j = 0
    BY <1>3, <2>1
  <2>2. CASE j # 0
    <3>1. j \in 1..n /\ f[j - 1] \in V
      BY <2>2
    <3>2. h[<<f[j - 1], j>>] = IF s[j] \in S THEN Append(f[j - 1], s[j]) ELSE f[j - 1]
      BY <3>1
    <3> QED
      BY <1>3, <2>2, <3>2
  <2> QED
    BY <2>1, <2>2
<1>5. Eq(f)
  BY <1>4
<1> DEFINE k == CHOOSE g : Eq(g)
<1>6. Eq(k)
  BY <1>5
<1>7. Sift(s, S) = k[n]
  BY Zenon DEF Sift
<1> HIDE DEF k
<1>8. Kept(k, s, S)
  <2>1. k[0] = <<>>
    <3>1. 0 \in 0..n
      BY <1>1
    <3> QED
      BY <1>6, <3>1
  <2>2. ASSUME NEW j \in 1..n
        PROVE  k[j] = IF s[j] \in S THEN Append(k[j - 1], s[j]) ELSE k[j - 1]
    <3>1. j \in 0..n /\ j # 0
      BY <1>1
    <3> HIDE DEF n
    <3> QED
      BY <1>6, <3>1
  <2> QED
    BY <2>1, <2>2 DEF Kept
<1>9. \A j \in 0..n : k[j] \in V
  <2>1. k[0] \in V
    BY <1>8 DEF Kept
  <2>2. ASSUME NEW j \in 1..n, k[j - 1] \in V PROVE k[j] \in V
    <3>1. s[j] \in E /\ k[j] = IF s[j] \in S THEN Append(k[j - 1], s[j]) ELSE k[j - 1]
      BY <1>8 DEF Kept
    <3> QED
      BY <2>2, <3>1
  <2> HIDE DEF V, n
  <2> QED
    BY <1>1, <2>1, <2>2, RangeInduction
<1>10. k \in [0..n -> V]
  BY <1>6, <1>9
<1> QED
  BY <1>7, <1>8, <1>10

(* Sift by recursion over the last element.                                *)
LEMMA SiftAppend ==
  ASSUME NEW E, NEW s \in Seq(E), NEW e \in E, NEW S
  PROVE  /\ Sift(s, S) \in Seq(E)
         /\ Sift(Append(s, e), S) = IF e \in S THEN Append(Sift(s, S), e) ELSE Sift(s, S)
<1> DEFINE t == Append(s, e)
           n == Len(s)
<1>1. /\ t \in Seq(E) /\ n \in Nat /\ Len(t) = n + 1 /\ t[n + 1] = e
      /\ \A j \in 1..n : t[j] = s[j]
  OBVIOUS
<1> HIDE DEF t
<1>2. PICK k \in [0..Len(s) -> Seq(E)] : Kept(k, s, S) /\ Sift(s, S) = k[Len(s)]
  BY SiftKept
<1>3. PICK l \in [0..Len(t) -> Seq(E)] : Kept(l, t, S) /\ Sift(t, S) = l[Len(t)]
  BY <1>1, SiftKept
<1> DEFINE A == {j \in Nat : j <= n => k[j] = l[j]}
<1>4. \A j \in Nat : j \in A
  <2>1. 0 \in A
    BY <1>1, <1>2, <1>3 DEF Kept
  <2>2. ASSUME NEW j \in Nat, j \in A PROVE j + 1 \in A
    <3> SUFFICES ASSUME j + 1 <= n PROVE k[j + 1] = l[j + 1]
      OBVIOUS
    <3>1. /\ k[j] = l[j] /\ t[j + 1] = s[j + 1] /\ (j + 1) - 1 = j
          /\ j + 1 \in 1..Len(s) /\ j + 1 \in 1..Len(t)
      BY <1>1, <2>2
    <3>2. k[j + 1] = IF s[j + 1] \in S THEN Append(k[j], s[j + 1]) ELSE k[j]
      BY <1>1, <1>2, <3>1 DEF Kept
    <3>3. l[j + 1] = IF t[j + 1] \in S THEN Append(l[j], t[j + 1]) ELSE l[j]
      BY <1>1, <1>3, <3>1 DEF Kept
    <3> QED
      BY <3>1, <3>2, <3>3
  <2> HIDE DEF A
  <2> QED
    BY <2>1, <2>2, SetInduction
<1>5. k[n] = l[n]
  BY <1>1, <1>4
<1>6. l[n + 1] = IF e \in S THEN Append(l[n], e) ELSE l[n]
  <2>1. n + 1 \in 1..Len(t) /\ (n + 1) - 1 = n
    BY <1>1
  <2> QED
    BY <1>1, <1>3, <2>1 DEF Kept
<1> QED
  BY <1>1, <1>2, <1>3, <1>5, <1>6 DEF t

(* Nothing is left of nothing.                                             *)
LEMMA SiftEmpty == ASSUME NEW S PROVE Sift(<<>>, S) = <<>>
<1>1. <<>> \in Seq({}) /\ Len(<<>>) = 0
  OBVIOUS
<1>2. PICK k \in [0..Len(<<>>) -> Seq({})] : Kept(k, <<>>, S) /\ Sift(<<>>, S) = k[Len(<<>>)]
  BY <1>1, SiftKept
<1> QED
  BY <1>1, <1>2 DEF Kept

(* What is sifted are elements of the sequence, all that are in the set.   *)
LEMMA SiftElements ==
  ASSUME NEW E, NEW s \in Seq(E), NEW S
  PROVE  /\ Sift(s, S) \in Seq(E)
         /\ \A j \in DOMAIN Sift(s, S) : Sift(s, S)[j] \in S /\ \E m \in DOMAIN s : s[m] = Sift(s, S)[j]
         /\ \A m \in DOMAIN s : s[m] \in S => \E j \in DOMAIN Sift(s, S) : Sift(s, S)[j] = s[m]
<1> DEFINE Sound(t) ==
             /\ Sift(t, S) \in Seq(E)
             /\ \A j \in DOMAIN Sift(t, S) :
                  Sift(t, S)[j] \in S /\ \E m \in DOMAIN t : t[m] = Sift(t, S)[j]
             /\ \A m \in DOMAIN t : t[m] \in S => \E j \in DOMAIN Sift(t, S) : Sift(t, S)[j] = t[m]
           P == {t \in Seq(E) : Sound(t)}
<1>1. <<>> \in P
  <2>1. <<>> \in Seq(E) /\ DOMAIN <<>> = {}
    OBVIOUS
  <2>2. Sift(<<>>, S) \in Seq(E) /\ DOMAIN Sift(<<>>, S) = {}
    BY <2>1, SiftEmpty
  <2> QED
    BY <2>1, <2>2
<1>2. ASSUME NEW t \in Seq(E), NEW e \in E, t \in P PROVE Append(t, e) \in P
  <2> DEFINE u == Append(t, e)
             v == Sift(t, S)
             w == Sift(u, S)
  <2>1. /\ u \in Seq(E) /\ DOMAIN u = 1..(Len(t) + 1) /\ u[Len(t) + 1] = e
        /\ DOMAIN t = 1..Len(t) /\ \A m \in 1..Len(t) : u[m] = t[m]
    OBVIOUS
  <2>2. v \in Seq(E) /\ DOMAIN v = 1..Len(v) /\ Len(v) \in Nat /\ Len(t) \in Nat
    BY <1>2
  <2>3. w = IF e \in S THEN Append(v, e) ELSE v
    BY SiftAppend
  <2>4. /\ \A j \in DOMAIN v : v[j] \in S /\ \E m \in DOMAIN t : t[m] = v[j]
        /\ \A m \in DOMAIN t : t[m] \in S => \E j \in DOMAIN v : v[j] = t[m]
    BY <1>2
  <2> HIDE DEF u, v, w
  <2>5. CASE e \in S
    <3>1. /\ w \in Seq(E) /\ DOMAIN w = 1..(Len(v) + 1) /\ w[Len(v) + 1] = e
          /\ \A j \in 1..Len(v) : w[j] = v[j]
      BY <2>2, <2>3, <2>5
    <3>2. \A j \in DOMAIN w : w[j] \in S /\ \E m \in DOMAIN u : u[m] = w[j]
      <4> TAKE j \in DOMAIN w
      <4>1. CASE j = Len(v) + 1
        BY <4>1, <3>1, <2>1, <2>2, <2>5
      <4>2. CASE j # Len(v) + 1
        <5>1. j \in DOMAIN v /\ w[j] = v[j]
          BY <4>2, <3>1, <2>2
        <5>2. PICK m \in DOMAIN t : t[m] = v[j]
          BY <5>1, <2>4
        <5>3. m \in DOMAIN u /\ u[m] = t[m]
          BY <2>1, <2>2
        <5> QED
          BY <5>1, <5>2, <5>3, <2>4
      <4> QED
        BY <4>1, <4>2
    <3>3. \A m \in DOMAIN u : u[m] \in S => \E j \in DOMAIN w : w[j] = u[m]
      <4> SUFFICES ASSUME NEW m \in DOMAIN u, u[m] \in S PROVE \E j \in DOMAIN w : w[j] = u[m]
        OBVIOUS
      <4>1. CASE m = Len(t) + 1
        BY <4>1, <3>1, <2>1, <2>2
      <4>2. CASE m # Len(t) + 1
        <5>1. m \in DOMAIN t /\ u[m] = t[m]
          BY <4>2, <2>1, <2>2
        <5>2. PICK j \in DOMAIN v : v[j] = t[m]
          BY <5>1, <2>4
        <5>3. j \in DOMAIN w /\ w[j] = v[j]
          BY <3>1, <2>2
        <5> QED
          BY <5>1, <5>2, <5>3
      <4> QED
        BY <4>1, <4>2
    <3> QED
      BY <2>1, <3>1, <3>2, <3>3 DEF u, w
  <2>6. CASE e \notin S
    <3>1. w = v
      BY <2>3, <2>6
    <3>2. \A j \in DOMAIN w : w[j] \in S /\ \E m \in DOMAIN u : u[m] = w[j]
      BY <3>1, <2>4, <2>1, <2>2
    <3>3. \A m \in DOMAIN u : u[m] \in S => \E j \in DOMAIN w : w[j] = u[m]
      BY <3>1, <2>4, <2>1, <2>2, <2>6
    <3> QED
      BY <2>1, <2>2, <3>1, <3>2, <3>3 DEF u, w
  <2> QED
    BY <2>5, <2>6
<1>3. \A t \in Seq(E) : t \in P
  <2> HIDE DEF P
  <2> QED
    BY <1>1, <1>2, AppendInduction
<1> QED
  BY <1>3

(* If no two elements of a sequence are related by R, so it is in a sifted  *)
(* one: sifting duplicates nothing.                                        *)
LEMMA SiftApart ==
  ASSUME NEW E, NEW R, NEW S, NEW s \in Seq(E),
         \A i, j \in DOMAIN s : <<s[i], s[j]>> \in R => i = j
  PROVE  \A i, j \in DOMAIN Sift(s, S) : <<Sift(s, S)[i], Sift(s, S)[j]>> \in R => i = j
<1> DEFINE Apart(t) == \A i, j \in DOMAIN t : <<t[i], t[j]>> \in R => i = j
           P == {t \in Seq(E) : Apart(t) => Apart(Sift(t, S))}
<1>1. <<>> \in P
  <2>1. <<>> \in Seq(E) /\ DOMAIN <<>> = {}
    OBVIOUS
  <2> QED
    BY <2>1, SiftEmpty
<1>2. ASSUME NEW t \in Seq(E), NEW e \in E, t \in P PROVE Append(t, e) \in P
  <2> DEFINE u == Append(t, e)
             v == Sift(t, S)
  <2>1. /\ u \in Seq(E) /\ DOMAIN u = 1..(Len(t) + 1) /\ u[Len(t) + 1] = e
        /\ DOMAIN t = 1..Len(t) /\ Len(t) \in Nat /\ \A m \in 1..Len(t) : u[m] = t[m]
    OBVIOUS
  <2>2. /\ v \in Seq(E)
        /\ \A j \in DOMAIN v : \E m \in DOMAIN t : t[m] = v[j]
    BY SiftElements
  <2>3. DOMAIN v = 1..Len(v) /\ Len(v) \in Nat
    BY <2>2
  <2> HIDE DEF u, v
  <2>4. ASSUME Apart(u) PROVE Apart(v)
    <3>1. Apart(t)
      <4> SUFFICES ASSUME NEW i \in DOMAIN t, NEW j \in DOMAIN t, <<t[i], t[j]>> \in R
                   PROVE  i = j
        OBVIOUS
      <4>1. i \in DOMAIN u /\ j \in DOMAIN u /\ u[i] = t[i] /\ u[j] = t[j]
        BY <2>1
      <4> QED
        BY <2>4, <4>1
    <3> QED
      BY <1>2, <3>1 DEF v
  <2>5. ASSUME Apart(u), NEW j \in DOMAIN v
        PROVE  <<v[j], e>> \notin R /\ <<e, v[j]>> \notin R
    <3>1. PICK m \in DOMAIN t : t[m] = v[j]
      BY <2>2
    <3>2. m \in DOMAIN u /\ u[m] = v[j] /\ m # Len(t) + 1 /\ Len(t) + 1 \in DOMAIN u
      BY <2>1, <3>1
    <3> QED
      BY <2>1, <2>5, <3>2
  <2>6. CASE e \in S
    <3> DEFINE w == Append(v, e)
    <3>1. Sift(u, S) = w
      BY <2>6, SiftAppend DEF u, v
    <3>2. /\ w \in Seq(E) /\ DOMAIN w = 1..(Len(v) + 1) /\ w[Len(v) + 1] = e
          /\ \A j \in 1..Len(v) : w[j] = v[j]
      BY <2>2
    <3> HIDE DEF w
    <3>3. ASSUME Apart(u), NEW i \in DOMAIN w, NEW j \in DOMAIN w, <<w[i], w[j]>> \in R
          PROVE  i = j
      <4>1. CASE i \in 1..Len(v) /\ j \in 1..Len(v)
        BY <4>1, <3>2, <3>3, <2>3, <2>4
      <4>2. CASE i = Len(v) + 1 /\ j # Len(v) + 1
        <5>1. j \in DOMAIN v /\ w[j] = v[j] /\ w[i] = e
          BY <4>2, <3>2, <2>3
        <5> QED
          BY <5>1, <3>3, <2>5
      <4>3. CASE i # Len(v) + 1 /\ j = Len(v) + 1
        <5>1. i \in DOMAIN v /\ w[i] = v[i] /\ w[j] = e
          BY <4>3, <3>2, <2>3
        <5> QED
          BY <5>1, <3>3, <2>5
      <4> QED
        BY <4>1, <4>2, <4>3, <3>2, <2>3
    <3> QED
      BY <2>1, <3>1, <3>3 DEF u
  <2>7. CASE e \notin S
    <3>1. Sift(u, S) = v
      BY <2>7, SiftAppend DEF u, v
    <3> QED
      BY <2>1, <2>4, <3>1 DEF u
  <2> QED
    BY <2>6, <2>7
<1>3. \A t \in Seq(E) : t \in P
  <2> HIDE DEF P
  <2> QED
    BY <1>1, <1>2, AppendInduction
<1> QED
  BY <1>3

-----------------------------------------------------------------------------
(* Appending to a concatenation appends to its second part.                *)
LEMMA ConcatAppend ==
  ASSUME NEW E, NEW s \in Seq(E), NEW t \in Seq(E), NEW e \in E
  PROVE  s \o Append(t, e) = Append(s \o t, e)
<1> DEFINE u == s \o Append(t, e)
           v == Append(s \o t, e)
<1>1. /\ u \in Seq(E) /\ v \in Seq(E)
      /\ Len(u) = Len(s) + Len(t) + 1 /\ Len(v) = Len(s) + Len(t) + 1
  OBVIOUS
<1>2. \A j \in 1..(Len(s) + Len(t) + 1) : u[j] = v[j]
  <2> SUFFICES ASSUME NEW j \in 1..(Len(s) + Len(t) + 1) PROVE u[j] = v[j]
    OBVIOUS
  <2>1. CASE j <= Len(s)
    BY <2>1
  <2>2. CASE j > Len(s) /\ j <= Len(s) + Len(t)
    <3>1. u[j] = Append(t, e)[j - Len(s)] /\ j - Len(s) \in 1..Len(t)
      BY <2>2
    <3>2. v[j] = (s \o t)[j] /\ (s \o t)[j] = t[j - Len(s)]
      BY <2>2
    <3> QED
      BY <3>1, <3>2
  <2>3. CASE j = Len(s) + Len(t) + 1
    <3>1. u[j] = Append(t, e)[Len(t) + 1] /\ v[j] = e
      BY <2>3
    <3> QED
      BY <3>1
  <2> QED
    BY <2>1, <2>2, <2>3
<1> HIDE DEF u, v
<1>3. u = v
  BY <1>1, <1>2, SeqEqual
<1> QED
  BY <1>3 DEF u, v

(* Sifting a sequence sifts its parts.                                     *)
LEMMA SiftConcat ==
  ASSUME NEW E, NEW s \in Seq(E), NEW t \in Seq(E), NEW S
  PROVE  Sift(s \o t, S) = Sift(s, S) \o Sift(t, S)
<1>0. \A z \in Seq(E), e \in E :
        Sift(Append(z, e), S) = IF e \in S THEN Append(Sift(z, S), e) ELSE Sift(z, S)
  BY SiftAppend
<1> DEFINE P == {u \in Seq(E) : Sift(s \o u, S) = Sift(s, S) \o Sift(u, S)}
<1>1. <<>> \in P
  <2>1. <<>> \in Seq(E) /\ s \o <<>> = s /\ Sift(s, S) \in Seq(E)
    BY SiftElements
  <2>2. Sift(s, S) \o <<>> = Sift(s, S)
    BY <2>1
  <2> QED
    BY <2>1, <2>2, SiftEmpty
<1>2. ASSUME NEW u \in Seq(E), NEW e \in E, u \in P PROVE Append(u, e) \in P
  <2>1. /\ Append(u, e) \in Seq(E) /\ s \o u \in Seq(E)
        /\ s \o Append(u, e) = Append(s \o u, e)
    BY ConcatAppend
  <2>2. Sift(s, S) \in Seq(E) /\ Sift(u, S) \in Seq(E)
    BY SiftElements
  <2>3. Sift(Append(s \o u, e), S) =
          IF e \in S THEN Append(Sift(s \o u, S), e) ELSE Sift(s \o u, S)
    BY <1>0, <2>1
  <2>4. Sift(Append(u, e), S) = IF e \in S THEN Append(Sift(u, S), e) ELSE Sift(u, S)
    BY SiftAppend
  <2>5. Sift(s, S) \o Append(Sift(u, S), e) = Append(Sift(s, S) \o Sift(u, S), e)
    BY <2>2, ConcatAppend
  <2>6. Sift(s \o u, S) = Sift(s, S) \o Sift(u, S)
    BY <1>2
  <2>7. Sift(s \o Append(u, e), S) = Sift(s, S) \o Sift(Append(u, e), S)
    BY <2>1, <2>3, <2>4, <2>5, <2>6
  <2> QED
    BY <2>1, <2>7
<1>3. \A u \in Seq(E) : u \in P
  <2> HIDE DEF P
  <2> QED
    BY <1>1, <1>2, AppendInduction
<1> QED
  BY <1>3

(* One element in front.                                                   *)
LEMMA SiftPrepend ==
  ASSUME NEW E, NEW e \in E, NEW s \in Seq(E), NEW S
  PROVE  Sift(<<e>> \o s, S) = IF e \in S THEN <<e>> \o Sift(s, S) ELSE Sift(s, S)
<1>1. <<>> \in Seq(E) /\ <<e>> \in Seq(E) /\ Append(<<>>, e) = <<e>>
  OBVIOUS
<1>2. Sift(<<e>>, S) = IF e \in S THEN <<e>> ELSE <<>>
  <2> DEFINE z == <<>>
  <2>1. z \in Seq(E)
    OBVIOUS
  <2> HIDE DEF z
  <2>2. Sift(Append(z, e), S) = IF e \in S THEN Append(Sift(z, S), e) ELSE Sift(z, S)
    BY <2>1, SiftAppend
  <2>3. Sift(z, S) = <<>>
    BY SiftEmpty DEF z
  <2> QED
    BY <1>1, <2>2, <2>3 DEF z
<1>3. Sift(<<e>> \o s, S) = Sift(<<e>>, S) \o Sift(s, S)
  <2> DEFINE z == <<e>>
  <2>1. z \in Seq(E)
    OBVIOUS
  <2> HIDE DEF z
  <2>2. Sift(z \o s, S) = Sift(z, S) \o Sift(s, S)
    BY <2>1, SiftConcat
  <2> QED
    BY <2>2 DEF z
<1>4. Sift(s, S) \in Seq(E)
  BY SiftElements
<1>5. <<>> \o Sift(s, S) = Sift(s, S)
  BY <1>4
<1> QED
  BY <1>2, <1>3, <1>5

(* An element that is sifted out may as well be taken out before.          *)
LEMMA SiftWithout ==
  ASSUME NEW E, NEW s \in Seq(E), NEW t \in Seq(E), NEW e \in E, NEW S, e \notin S
  PROVE  Sift(s \o (<<e>> \o t), S) = Sift(s \o t, S)
<1> DEFINE z == <<e>> \o t
<1>1. z \in Seq(E)
  OBVIOUS
<1>2. Sift(z, S) = Sift(t, S)
  BY SiftPrepend
<1> HIDE DEF z
<1>3. Sift(s \o z, S) = Sift(s, S) \o Sift(z, S)
  BY <1>1, SiftConcat
<1>4. Sift(s \o t, S) = Sift(s, S) \o Sift(t, S)
  BY SiftConcat
<1>5. Sift(s \o z, S) = Sift(s \o t, S)
  BY <1>2, <1>3, <1>4
<1> QED
  BY <1>5 DEF z

(* Sifting twice.                                                          *)
LEMMA SiftTwice ==
  ASSUME NEW E, NEW s \in Seq(E), NEW S, NEW T
  PROVE  Sift(Sift(s, S), T) = Sift(s, S \intersect T)
<1> DEFINE P == {u \in Seq(E) : Sift(Sift(u, S), T) = Sift(u, S \intersect T)}
<1>1. <<>> \in P
  BY SiftEmpty
<1>2. ASSUME NEW u \in Seq(E), NEW e \in E, u \in P PROVE Append(u, e) \in P
  <2>1. Append(u, e) \in Seq(E) /\ Sift(u, S) \in Seq(E)
    BY SiftElements
  <2>2. Sift(Append(u, e), S) = IF e \in S THEN Append(Sift(u, S), e) ELSE Sift(u, S)
    BY SiftAppend
  <2> DEFINE z == Sift(u, S)
             both == S \intersect T
  <2>3. Sift(Append(z, e), T) = IF e \in T THEN Append(Sift(z, T), e) ELSE Sift(z, T)
    <3>1. z \in Seq(E)
      BY <2>1
    <3> HIDE DEF z
    <3> QED
      BY <3>1, SiftAppend
  <2>4. Sift(Append(u, e), both) =
          IF e \in both THEN Append(Sift(u, both), e) ELSE Sift(u, both)
    <3> HIDE DEF both
    <3> QED
      BY SiftAppend
  <2>5. Sift(z, T) = Sift(u, both)
    BY <1>2
  <2>6. e \in both <=> (e \in S /\ e \in T)
    OBVIOUS
  <2>7. Sift(Sift(Append(u, e), S), T) = Sift(Append(u, e), both)
    <3> HIDE DEF both
    <3> QED
      BY <2>2, <2>3, <2>4, <2>5, <2>6
  <2> QED
    BY <2>1, <2>7
<1>3. \A u \in Seq(E) : u \in P
  <2> HIDE DEF P
  <2> QED
    BY <1>1, <1>2, AppendInduction
<1> QED
  BY <1>3

(* Only the elements of the sequence matter.                               *)
LEMMA SiftAgree ==
  ASSUME NEW E, NEW s \in Seq(E), NEW S, NEW T,
         \A j \in DOMAIN s : s[j] \in S <=> s[j] \in T
  PROVE  Sift(s, S) = Sift(s, T)
<1> DEFINE Agree(u) == \A j \in DOMAIN u : u[j] \in S <=> u[j] \in T
           P == {u \in Seq(E) : Agree(u) => Sift(u, S) = Sift(u, T)}
<1>1. <<>> \in P
  BY SiftEmpty
<1>2. ASSUME NEW u \in Seq(E), NEW e \in E, u \in P PROVE Append(u, e) \in P
  <2> SUFFICES ASSUME Agree(Append(u, e))
               PROVE  Sift(Append(u, e), S) = Sift(Append(u, e), T)
    <3>1. Append(u, e) \in Seq(E)
      OBVIOUS
    <3> QED
      BY <3>1
  <2>1. \A j \in DOMAIN u : j \in DOMAIN Append(u, e) /\ Append(u, e)[j] = u[j]
    OBVIOUS
  <2>2. Len(u) + 1 \in DOMAIN Append(u, e) /\ Append(u, e)[Len(u) + 1] = e
    OBVIOUS
  <2>3. Agree(u) /\ (e \in S <=> e \in T)
    BY <2>1, <2>2
  <2>4. Sift(u, S) = Sift(u, T)
    BY <1>2, <2>3
  <2>5. Sift(Append(u, e), S) = IF e \in S THEN Append(Sift(u, S), e) ELSE Sift(u, S)
    BY SiftAppend
  <2>6. Sift(Append(u, e), T) = IF e \in T THEN Append(Sift(u, T), e) ELSE Sift(u, T)
    BY SiftAppend
  <2> QED
    BY <2>3, <2>4, <2>5, <2>6
<1>3. \A u \in Seq(E) : u \in P
  <2> HIDE DEF P
  <2> QED
    BY <1>1, <1>2, AppendInduction
<1> QED
  BY <1>3

=============================================================================
