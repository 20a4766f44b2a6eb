--------------------------- MODULE LRUTableProofs ---------------------------
(***************************************************************************)
(* LRUHash implements LRUTable, for every number of slots and buckets,     *)
(* every set of nodes and every sequence of calls: the pointer lists hold  *)
(* exactly the nodes they should, the wheel keeps every deadline to the    *)
(* tick, and get() sees the node of its key that was put last.             *)
(***************************************************************************)
EXTENDS LRUHashProofs, TableSeqProofs, FiniteSetTheorems

-----------------------------------------------------------------------------
(* Arithmetic of the wheel.                                                *)

(* Division with remainder.                                                *)
LEMMA Division ==
  ASSUME NEW a \in Nat, NEW b \in Nat \ {0}
  PROVE  /\ a \div b \in Nat
         /\ a % b \in 0..(b - 1)
         /\ a = b * (a \div b) + (a % b)
<1>1. a % b \in 0..(b - 1) /\ a \div b \in Int /\ a = b * (a \div b) + (a % b)
  OBVIOUS
<1>2. a \div b >= 0
  OBVIOUS
<1> QED
  BY <1>1, <1>2

(* There is only one remainder.                                            *)
LEMMA OneRemainder ==
  ASSUME NEW b \in Nat \ {0}, NEW q \in Int, NEW p \in Int,
         NEW x \in 0..(b - 1), NEW y \in 0..(b - 1), b * q + x = b * p + y
  PROVE  x = y
<1>1. CASE q = p
  BY <1>1
<1>2. CASE q >= p + 1
  <2>1. b * q >= b * (p + 1)
    BY <1>2
  <2>2. b * (p + 1) = b * p + b
    OBVIOUS
  <2> QED
    BY <2>1, <2>2
<1>3. CASE p >= q + 1
  <2>1. b * p >= b * (q + 1)
    BY <1>3
  <2>2. b * (q + 1) = b * q + b
    OBVIOUS
  <2> QED
    BY <2>1, <2>2
<1> QED
  BY <1>1, <1>2, <1>3

(* The quotient and the remainder of a division are unique.                *)
LEMMA RemainderIs ==
  ASSUME NEW a \in Nat, NEW b \in Nat \ {0}, NEW q \in Int, NEW x \in 0..(b - 1), a = b * q + x
  PROVE  a % b = x
<1>1. /\ a \div b \in Int /\ a % b \in 0..(b - 1)
      /\ a = b * (a \div b) + (a % b)
  BY Division
<1> DEFINE d == a \div b  y == a % b
<1> HIDE DEF d, y
<1>2. d \in Int /\ y \in 0..(b - 1) /\ b * d + y = b * q + x
  BY <1>1 DEF d, y
<1>3. y = x
  BY <1>2, OneRemainder
<1> QED
  BY <1>3 DEF y

(* The wheel turned on by less than one round.                             *)
LEMMA TurnedOn ==
  ASSUME NEW a \in Nat, NEW b \in Nat \ {0}, NEW x \in 0..(b - 1)
  PROVE  (a + x) % b = IF (a % b) + x < b THEN (a % b) + x ELSE (a % b) + x - b
<1> DEFINE d == a \div b  y == a % b
<1>1. d \in Nat /\ y \in 0..(b - 1) /\ a = b * d + y
  BY Division
<1> HIDE DEF d, y
<1>2. a + x \in Nat
  OBVIOUS
<1>3. CASE y + x < b
  <2>1. y + x \in 0..(b - 1) /\ a + x = b * d + (y + x)
    BY <1>1, <1>3
  <2>2. (a + x) % b = y + x
    BY <1>1, <1>2, <2>1, RemainderIs
  <2> QED
    BY <1>3, <2>2 DEF y
<1>4. CASE ~(y + x < b)
  <2>1. y + x - b \in 0..(b - 1) /\ d + 1 \in Int
    BY <1>1, <1>4
  <2>2. b * (d + 1) = b * d + b
    BY <1>1
  <2>3. a + x = b * (d + 1) + (y + x - b)
    BY <1>1, <2>2
  <2>4. (a + x) % b = y + x - b
    BY <1>2, <2>1, <2>3, RemainderIs
  <2> QED
    BY <1>4, <2>4 DEF y
<1> QED
  BY <1>3, <1>4

(* Whole rounds make no difference.                                        *)
LEMMA RoundsDrop ==
  ASSUME NEW a \in Nat, NEW b \in Nat \ {0}, NEW x \in Nat
  PROVE  (a + x) % b = (a + (x % b)) % b
<1> DEFINE d == a \div b  y == a % b  e == x \div b  z == x % b  f == (a + z) \div b
           u == (a + z) % b
<1>1. d \in Nat /\ y \in 0..(b - 1) /\ a = b * d + y
  BY Division
<1>2. e \in Nat /\ z \in 0..(b - 1) /\ x = b * e + z
  BY Division
<1>3. a + z \in Nat
  BY <1>2
<1>4. f \in Nat /\ u \in 0..(b - 1) /\ a + z = b * f + u
  <2> HIDE DEF z
  <2> QED
    BY <1>3, Division
<1> HIDE DEF d, y, e, z, f, u
<1>5. b * (e + f) = b * e + b * f
  BY <1>2, <1>4
<1>6. a + x = b * (e + f) + u /\ e + f \in Int /\ a + x \in Nat
  BY <1>2, <1>4, <1>5
<1>7. (a + x) % b = u
  BY <1>4, <1>6, RemainderIs
<1> QED
  BY <1>7 DEF u, z

-----------------------------------------------------------------------------
(* Lists of pointers.                                                      *)

(* The nodes of w, and the cell before its j-th in the list of root r.     *)
NodesOf(w) == {w[j] : j \in 1..Len(w)}
Before(r, w, j) == IF j = 1 THEN r ELSE w[j - 1]

(* What a path is, with the node before each position named.               *)
LEMMA PathIs ==
  ASSUME NEW p, NEW r, NEW w
  PROVE  Path(p, r, w) <=>
           /\ w \in Seq(Node)
           /\ \A j, k \in 1..Len(w) : w[j] = w[k] => j = k
           /\ \A j \in 1..Len(w) : p[Before(r, w, j)] = w[j]
           /\ p[Before(r, w, Len(w) + 1)] = Null
BY Zenon DEF Path, Before

(* There are finitely many nodes, so walks end.                            *)
LEMMA CardNode == IsFiniteSet(Node) /\ Cardinality(Node) \in Nat
BY LRUHashAssumption, FS_CardinalityType

(* A list without repetitions is not longer than there are nodes.          *)
LEMMA ListBounded ==
  ASSUME NEW w \in Seq(Node), \A j, k \in 1..Len(w) : w[j] = w[k] => j = k
  PROVE  Len(w) <= Cardinality(Node) /\ Cardinality(1..Len(w)) = Len(w)
<1>1. w \in [1..Len(w) -> Node] /\ DOMAIN w = 1..Len(w) /\ Len(w) \in Nat
  OBVIOUS
<1>2. w \in Injection(1..Len(w), Node)
  BY <1>1 DEF Injection, IsInjective
<1>3. Cardinality(1..Len(w)) <= Cardinality(Node)
  BY <1>2, CardNode, FS_Injection
<1>4. Cardinality(1..Len(w)) = Len(w)
  <2>1. Cardinality(1..Len(w)) = IF 1 > Len(w) THEN 0 ELSE Len(w) - 1 + 1
    BY <1>1, FS_Interval
  <2> QED
    BY <1>1, <2>1
<1> QED
  BY <1>3, <1>4

(* Whoever follows the pointers walks the list that hangs at the root.     *)
LEMMA PathIsWalk ==
  ASSUME NEW p, NEW r \in Cell, NEW w, Path(p, r, w)
  PROVE  Walk(p, r) = w /\ Members(p, r) = NodesOf(w)
<1> DEFINE N == Cardinality(Node)
           n == Len(w)
           Eq(g) == g = [j \in 0..N |-> IF j = 0 THEN r
                                        ELSE IF g[j - 1] = Null THEN Null
                                        ELSE p[g[j - 1]]]
           f == [j \in 0..N |-> IF j = 0 THEN r ELSE IF j <= n THEN w[j] ELSE Null]
<1>1. /\ w \in Seq(Node)
      /\ \A j, k \in 1..n : w[j] = w[k] => j = k
      /\ \A j \in 1..n : p[Before(r, w, j)] = w[j]
      /\ p[Before(r, w, n + 1)] = Null
  BY PathIs
<1>2. n \in Nat /\ N \in Nat /\ n <= N /\ Cardinality(1..n) = n
  BY <1>1, ListBounded, CardNode
<1>3. r # Null /\ \A j \in 1..n : w[j] \in Node /\ w[j] # Null
  BY <1>1, LRUHashAssumption DEF Cell
<1> HIDE DEF N, n
<1>4. ASSUME NEW j \in 0..N
      PROVE  f[j] = IF j = 0 THEN r ELSE IF f[j - 1] = Null THEN Null ELSE p[f[j - 1]]
  <2>1. CASE j = 0
    BY <2>1
  <2>2. CASE j = 1
    <3>1. f[0] = r /\ f[0] # Null
      BY <1>2, <1>3
    <3>2. CASE n = 0
      BY <1>1, <1>2, <2>2, <3>1, <3>2 DEF Before
    <3>3. CASE n # 0
      <4>1. 1 \in 1..n
        BY <1>2, <3>3
      <4> QED
        BY <1>1, <1>2, <2>2, <3>1, <3>3, <4>1 DEF Before
    <3> QED
      BY <3>2, <3>3
  <2>3. CASE j > 1 /\ j <= n
    <3>1. j - 1 \in 1..n /\ j \in 1..n /\ j - 1 \in 0..N
      BY <1>2, <2>3
    <3>2. f[j - 1] = w[j - 1] /\ f[j] = w[j] /\ Before(r, w, j) = w[j - 1]
      BY <1>2, <2>3, <3>1 DEF Before
    <3> QED
      BY <1>1, <1>3, <2>3, <3>1, <3>2
  <2>4. CASE j > 1 /\ j = n + 1
    <3>1. j - 1 \in 1..n /\ j - 1 \in 0..N /\ j - 1 = n
      BY <1>2, <2>4
    <3>2. f[j - 1] = w[n] /\ f[j] = Null /\ Before(r, w, n + 1) = w[n]
      BY <1>2, <2>4, <3>1 DEF Before
    <3> QED
      BY <1>1, <1>3, <2>4, <3>1, <3>2
  <2>5. CASE j > n + 1
    <3>1. j - 1 > n /\ j - 1 \in 0..N /\ j - 1 # 0
      BY <1>2, <2>5
    <3> QED
      BY <1>2, <2>5, <3>1
  <2> QED
    BY <1>2, <2>1, <2>2, <2>3, <2>4, <2>5
<1>5. Eq(f)
  BY <1>4
<1> DEFINE k == CHOOSE g : Eq(g)
<1>6. Eq(k)
  BY <1>5
<1>7. Walk(p, r) = [j \in 1..Cardinality({m \in 1..N : k[m] # Null}) |-> k[j]]
  BY Zenon DEF Walk, N
<1> HIDE DEF k
<1>8. \A j \in 0..N : k[j] = f[j]
  <2> DEFINE A == {j \in Nat : j <= N => k[j] = f[j]}
  <2>1. 0 \in A
    <3>1. 0 \in 0..N
      BY <1>2
    <3> HIDE DEF f
    <3>2. k[0] = r
      BY <1>6, <3>1
    <3>3. f[0] = r
      BY <1>4, <3>1
    <3> QED
      BY <3>2, <3>3
  <2>2. ASSUME NEW j \in Nat, j \in A PROVE j + 1 \in A
    <3> SUFFICES ASSUME j + 1 <= N PROVE k[j + 1] = f[j + 1]
      OBVIOUS
    <3>1. j + 1 \in 0..N /\ j + 1 # 0 /\ (j + 1) - 1 = j /\ j <= N
      BY <1>2
    <3> HIDE DEF f
    <3>2. k[j + 1] = IF k[j] = Null THEN Null ELSE p[k[j]]
      BY <1>6, <3>1
    <3>3. f[j + 1] = IF f[j] = Null THEN Null ELSE p[f[j]]
      BY <1>4, <3>1
    <3> QED
      BY <2>2, <3>1, <3>2, <3>3
  <2>3. \A j \in Nat : j \in A
    <3> HIDE DEF A
    <3> QED
      BY <2>1, <2>2, SetInduction
  <2>4. \A j \in 0..N : j \in Nat /\ j <= N
    BY <1>2
  <2> HIDE DEF f
  <2> QED
    BY <2>3, <2>4
<1>9. \A j \in 1..n : k[j] = w[j]
  BY <1>2, <1>8
<1>10. {m \in 1..N : k[m] # Null} = 1..n
  BY <1>2, <1>3, <1>8
<1>11. Walk(p, r) = [j \in 1..n |-> k[j]]
  BY <1>2, <1>7, <1>10
<1>12. w = [j \in 1..n |-> w[j]]
  BY <1>1 DEF n
<1>13. Walk(p, r) = w
  BY <1>9, <1>11, <1>12
<1>14. DOMAIN w = 1..n
  BY <1>1 DEF n
<1> QED
  BY <1>13, <1>14 DEF Members, NodesOf, n

(* A list does not change while its cells keep their pointers.             *)
LEMMA PathFrame ==
  ASSUME NEW p, NEW q, NEW r, NEW w, Path(p, r, w),
         q[r] = p[r], \A c \in NodesOf(w) : q[c] = p[c]
  PROVE  Path(q, r, w)
<1>1. /\ w \in Seq(Node) /\ Len(w) \in Nat
      /\ \A j, k \in 1..Len(w) : w[j] = w[k] => j = k
      /\ \A j \in 1..Len(w) : p[Before(r, w, j)] = w[j]
      /\ p[Before(r, w, Len(w) + 1)] = Null
  BY PathIs
<1>2. \A j \in 1..(Len(w) + 1) : Before(r, w, j) = r \/ Before(r, w, j) \in NodesOf(w)
  BY <1>1 DEF Before, NodesOf
<1>3. \A j \in 1..(Len(w) + 1) : q[Before(r, w, j)] = p[Before(r, w, j)]
  BY <1>2
<1> QED
  BY <1>1, <1>3, PathIs

(* A node is put in front: behind the root, before what the root led to.   *)
LEMMA PathPush ==
  ASSUME NEW p, NEW q, NEW r, NEW w, Path(p, r, w),
         NEW n \in Node, n \notin NodesOf(w), q[r] = n, q[n] = p[r],
         \A c \in NodesOf(w) : q[c] = p[c]
  PROVE  Path(q, r, <<n>> \o w) /\ NodesOf(<<n>> \o w) = {n} \union NodesOf(w)
<1> DEFINE u == <<n>> \o w
<1>1. /\ w \in Seq(Node) /\ Len(w) \in Nat
      /\ \A j, k \in 1..Len(w) : w[j] = w[k] => j = k
      /\ \A j \in 1..Len(w) : p[Before(r, w, j)] = w[j]
      /\ p[Before(r, w, Len(w) + 1)] = Null
  BY PathIs
<1>2. /\ u \in Seq(Node) /\ Len(u) = Len(w) + 1 /\ u[1] = n
      /\ \A j \in 1..Len(w) : u[j + 1] = w[j]
  BY <1>1
<1> HIDE DEF u
<1>3. \A j \in 2..Len(u) : u[j] = w[j - 1] /\ j - 1 \in 1..Len(w)
  BY <1>1, <1>2
<1>4. \A j \in 1..Len(w) : w[j] \in NodesOf(w) /\ w[j] # n
  BY DEF NodesOf
<1>5. \A j, k \in 1..Len(u) : u[j] = u[k] => j = k
  <2> SUFFICES ASSUME NEW j \in 1..Len(u), NEW k \in 1..Len(u), u[j] = u[k] PROVE j = k
    OBVIOUS
  <2>0. \A l \in 1..Len(u) : u[l] = n <=> l = 1
    <3>1. \A l \in 2..Len(u) : u[l] # n
      BY <1>3, <1>4
    <3>2. \A l \in 1..Len(u) : l = 1 \/ l \in 2..Len(u)
      BY <1>1, <1>2
    <3> QED
      BY <1>2, <3>1, <3>2
  <2>1. CASE j = 1 \/ k = 1
    BY <2>0, <2>1
  <2>2. CASE j # 1 /\ k # 1
    <3>1. j \in 2..Len(u) /\ k \in 2..Len(u)
      BY <1>1, <1>2, <2>2
    <3>2. j - 1 \in 1..Len(w) /\ k - 1 \in 1..Len(w) /\ w[j - 1] = w[k - 1]
      BY <1>3, <3>1
    <3>3. j - 1 = k - 1
      BY <1>1, <3>2
    <3> QED
      BY <3>1, <3>3
  <2> QED
    BY <2>1, <2>2
<1>6. ASSUME NEW j \in 2..(Len(u) + 1)
      PROVE  q[Before(r, u, j)] = p[Before(r, w, j - 1)]
  <2>1. CASE j = 2
    BY <1>2, <2>1 DEF Before
  <2>2. CASE j # 2
    <3>1. j - 1 \in 2..Len(u) /\ j - 2 \in 1..Len(w) /\ (j - 1) - 1 = j - 2
      BY <1>1, <1>2, <2>2
    <3>2. Before(r, u, j) = w[j - 2] /\ Before(r, w, j - 1) = w[j - 2]
      BY <1>3, <2>2, <3>1 DEF Before
    <3> QED
      BY <1>4, <3>1, <3>2
  <2> QED
    BY <2>1, <2>2
<1>7. \A j \in 1..Len(u) : q[Before(r, u, j)] = u[j]
  <2> SUFFICES ASSUME NEW j \in 1..Len(u) PROVE q[Before(r, u, j)] = u[j]
    OBVIOUS
  <2>1. CASE j = 1
    BY <1>2, <2>1 DEF Before
  <2>2. CASE j # 1
    <3>1. j \in 2..(Len(u) + 1) /\ j \in 2..Len(u)
      BY <1>1, <1>2, <2>2
    <3> QED
      BY <1>1, <1>3, <1>6, <3>1
  <2> QED
    BY <2>1, <2>2
<1>8. q[Before(r, u, Len(u) + 1)] = Null
  <2>1. Len(u) + 1 \in 2..(Len(u) + 1) /\ (Len(u) + 1) - 1 = Len(w) + 1
    BY <1>1, <1>2
  <2> QED
    BY <1>1, <1>6, <2>1
<1>9. NodesOf(u) = {n} \union NodesOf(w)
  <2>1. \A j \in 1..Len(u) : u[j] = n \/ u[j] \in NodesOf(w)
    BY <1>1, <1>2, <1>3, <1>4
  <2>2. n \in NodesOf(u)
    BY <1>1, <1>2 DEF NodesOf
  <2>3. \A j \in 1..Len(w) : j + 1 \in 1..Len(u) /\ u[j + 1] = w[j]
    BY <1>1, <1>2
  <2>4. NodesOf(w) \subseteq NodesOf(u)
    BY <2>3 DEF NodesOf
  <2>5. NodesOf(u) \subseteq {n} \union NodesOf(w)
    BY <2>1 DEF NodesOf
  <2> QED
    BY <2>2, <2>4, <2>5
<1> QED
  BY <1>2, <1>5, <1>7, <1>8, <1>9, PathIs DEF u

(* The elements of a concatenation.                                        *)
LEMMA ConcatIs ==
  ASSUME NEW E, NEW s \in Seq(E), NEW t \in Seq(E)
  PROVE  /\ s \o t \in Seq(E) /\ Len(s \o t) = Len(s) + Len(t)
         /\ \A j \in 1..(Len(s) + Len(t)) :
              (s \o t)[j] = IF j <= Len(s) THEN s[j] ELSE t[j - Len(s)]
OBVIOUS

(* A sequence of one.                                                      *)
LEMMA SingleIs ==
  ASSUME NEW E, NEW e \in E
  PROVE  <<e>> \in Seq(E) /\ Len(<<e>>) = 1 /\ <<e>>[1] = e
OBVIOUS

(* The first node is taken out: the root leads to the second.              *)
LEMMA PathPop ==
  ASSUME NEW p, NEW q, NEW r, NEW w, Path(p, r, w),
         NEW n \in Node, p[r] = n, q[r] = p[n],
         \A c \in NodesOf(w) \ {n} : q[c] = p[c]
  PROVE  \E t : /\ Path(q, r, t)
                /\ n \in NodesOf(w) /\ NodesOf(t) = NodesOf(w) \ {n}
<1> DEFINE L == Len(w) - 1
           t == [j \in 1..L |-> w[j + 1]]
<1>1. /\ w \in Seq(Node) /\ Len(w) \in Nat
      /\ \A j, k \in 1..Len(w) : w[j] = w[k] => j = k
      /\ \A j \in 1..Len(w) : p[Before(r, w, j)] = w[j]
      /\ p[Before(r, w, Len(w) + 1)] = Null
  BY PathIs
<1>2. Len(w) # 0 /\ w[1] = n
  <2>1. Before(r, w, 1) = r
    BY DEF Before
  <2>2. Len(w) # 0
    <3> SUFFICES ASSUME Len(w) = 0 PROVE FALSE
      OBVIOUS
    <3>1. p[r] = Null
      BY <1>1, <2>1
    <3> QED
      BY <3>1, LRUHashAssumption DEF Cell
  <2>3. 1 \in 1..Len(w)
    BY <1>1, <2>2
  <2> QED
    BY <1>1, <2>1, <2>2, <2>3
<1>3. L \in Nat /\ Len(w) = L + 1
  BY <1>1, <1>2
<1>4. t \in Seq(Node) /\ Len(t) = L /\ \A j \in 1..L : t[j] = w[j + 1]
  BY <1>1, <1>3
<1> HIDE DEF L, t
<1>5. \A j \in 1..L : t[j] \in NodesOf(w) /\ t[j] # n
  <2> SUFFICES ASSUME NEW j \in 1..L PROVE t[j] \in NodesOf(w) /\ t[j] # n
    OBVIOUS
  <2>1. j + 1 \in 1..Len(w) /\ 1 \in 1..Len(w) /\ j + 1 # 1
    BY <1>3
  <2>2. w[j + 1] # w[1]
    BY <1>1, <2>1
  <2> QED
    BY <1>2, <1>4, <2>1, <2>2 DEF NodesOf
<1>6. \A j, k \in 1..L : t[j] = t[k] => j = k
  <2> SUFFICES ASSUME NEW j \in 1..L, NEW k \in 1..L, t[j] = t[k] PROVE j = k
    OBVIOUS
  <2>1. j + 1 \in 1..Len(w) /\ k + 1 \in 1..Len(w) /\ w[j + 1] = w[k + 1]
    BY <1>3, <1>4
  <2>2. j + 1 = k + 1
    BY <1>1, <2>1
  <2> QED
    BY <2>2
<1>7. ASSUME NEW j \in 1..(L + 1)
      PROVE  q[Before(r, t, j)] = p[Before(r, w, j + 1)]
  <2>1. CASE j = 1
    BY <1>2, <2>1 DEF Before
  <2>2. CASE j # 1
    <3>1. j - 1 \in 1..L /\ (j - 1) + 1 = j /\ (j + 1) - 1 = j /\ j + 1 # 1
      BY <1>3, <2>2
    <3>2. Before(r, t, j) = w[j] /\ Before(r, w, j + 1) = w[j]
      BY <1>4, <2>2, <3>1 DEF Before
    <3>3. w[j] \in NodesOf(w) /\ w[j] # n
      BY <1>4, <1>5, <3>1
    <3> QED
      BY <3>2, <3>3
  <2> QED
    BY <2>1, <2>2
<1>8. \A j \in 1..L : q[Before(r, t, j)] = t[j]
  <2> SUFFICES ASSUME NEW j \in 1..L PROVE q[Before(r, t, j)] = t[j]
    OBVIOUS
  <2>1. j \in 1..(L + 1) /\ j + 1 \in 1..Len(w)
    BY <1>3
  <2> QED
    BY <1>1, <1>4, <1>7, <2>1
<1>9. q[Before(r, t, L + 1)] = Null
  <2>1. L + 1 \in 1..(L + 1) /\ (L + 1) + 1 = Len(w) + 1
    BY <1>3
  <2> QED
    BY <1>1, <1>7, <2>1
<1>10. n \in NodesOf(w) /\ NodesOf(t) = NodesOf(w) \ {n}
  <2>1. n \in NodesOf(w)
    BY <1>1, <1>2 DEF NodesOf
  <2>2. NodesOf(t) \subseteq NodesOf(w) \ {n}
    BY <1>4, <1>5 DEF NodesOf
  <2>3. ASSUME NEW j \in 1..Len(w), w[j] # n PROVE w[j] \in NodesOf(t)
    <3>1. j - 1 \in 1..L /\ (j - 1) + 1 = j
      BY <1>2, <1>3, <2>3
    <3>2. t[j - 1] = w[j]
      BY <1>4, <3>1
    <3> QED
      BY <1>4, <3>1, <3>2 DEF NodesOf
  <2>4. NodesOf(w) \ {n} \subseteq NodesOf(t)
    BY <2>3 DEF NodesOf
  <2> QED
    BY <2>1, <2>2, <2>4
<1>11. Path(q, r, t)
  BY <1>4, <1>6, <1>8, <1>9, PathIs
<1> QED
  BY <1>10, <1>11

(* n is taken out of the list w of root r.                                 *)
CutAt(p, r, w, n) ==
  \E s, t \in Seq(Node) : /\ w = s \o (<<n>> \o t)
                         /\ Path(p, r, s \o t)
                         /\ NodesOf(s \o t) = NodesOf(w) \ {n}

(* A node is cut out: the cell before it leads to the one behind it.       *)
LEMMA PathCut ==
  ASSUME NEW p, NEW q, NEW r, NEW w, Path(p, r, w), r \notin Node,
         NEW m \in 1..Len(w), q[Before(r, w, m)] = p[w[m]],
         \A c \in {r} \union NodesOf(w) : c \notin {Before(r, w, m), w[m]} => q[c] = p[c]
  PROVE  CutAt(q, r, w, w[m])
<1> DEFINE L == Len(w) - 1
           n == w[m]
           s == [j \in 1..(m - 1) |-> w[j]]
           t == [j \in 1..(Len(w) - m) |-> w[m + j]]
           u == [j \in 1..L |-> IF j < m THEN w[j] ELSE w[j + 1]]
<1>1. /\ w \in Seq(Node) /\ Len(w) \in Nat
      /\ \A j, k \in 1..Len(w) : w[j] = w[k] => j = k
      /\ \A j \in 1..Len(w) : p[Before(r, w, j)] = w[j]
      /\ p[Before(r, w, Len(w) + 1)] = Null
  BY PathIs
<1>2. /\ L \in Nat /\ Len(w) = L + 1 /\ n \in Node /\ m \in Nat /\ m >= 1 /\ m <= L + 1
      /\ \A j \in 1..(L + 1) : w[j] \in Node
  BY <1>1
<1>3. /\ s \in Seq(Node) /\ Len(s) = m - 1 /\ \A j \in 1..(m - 1) : s[j] = w[j]
      /\ t \in Seq(Node) /\ Len(t) = L + 1 - m /\ \A j \in 1..(L + 1 - m) : t[j] = w[m + j]
  <2>1. m - 1 \in Nat /\ Len(w) - m \in Nat /\ Len(w) - m = L + 1 - m
    BY <1>2
  <2>2. \A j \in 1..(m - 1) : w[j] \in Node
    BY <1>2
  <2>3. \A j \in 1..(Len(w) - m) : w[m + j] \in Node
    BY <1>2
  <2> HIDE DEF L
  <2> QED
    BY <2>1, <2>2, <2>3
<1>4. /\ u \in Seq(Node) /\ Len(u) = L
      /\ \A j \in 1..L : u[j] = IF j < m THEN w[j] ELSE w[j + 1]
  <2>1. \A j \in 1..L : w[j] \in Node /\ w[j + 1] \in Node
    BY <1>2
  <2> HIDE DEF L
  <2> QED
    BY <1>2, <2>1
<1> HIDE DEF L, n, s, t, u
<1>5. w = s \o (<<n>> \o t)
  <2> DEFINE v == <<n>> \o t
  <2> DEFINE o == <<n>>
  <2>0. o \in Seq(Node) /\ Len(o) = 1 /\ o[1] = n
    BY <1>2, SingleIs
  <2> HIDE DEF o
  <2>1. /\ v \in Seq(Node) /\ Len(v) = L + 2 - m /\ v[1] = n
        /\ \A j \in 2..(L + 2 - m) : v[j] = t[j - 1]
    <3> DEFINE y == o \o t
    <3>0. /\ y \in Seq(Node) /\ Len(y) = Len(o) + Len(t)
          /\ \A j \in 1..(Len(o) + Len(t)) :
               y[j] = IF j <= Len(o) THEN o[j] ELSE t[j - Len(o)]
      BY <1>3, <2>0, ConcatIs
    <3>2. v = y
      BY DEF o
    <3> HIDE DEF y, v
    <3>1. /\ y \in Seq(Node) /\ Len(y) = 1 + Len(t)
          /\ \A j \in 1..(1 + Len(t)) : y[j] = IF j <= 1 THEN o[j] ELSE t[j - 1]
      BY <2>0, <3>0
    <3>3. 1 + Len(t) = L + 2 - m /\ 1 \in 1..(1 + Len(t))
      BY <1>2, <1>3
    <3> QED
      BY <2>0, <3>1, <3>2, <3>3
  <2> HIDE DEF v
  <2> DEFINE x == s \o v
  <2>2. /\ x \in Seq(Node) /\ Len(x) = L + 1
        /\ \A j \in 1..(L + 1) : x[j] = IF j < m THEN s[j] ELSE v[j - (m - 1)]
    <3>1. /\ x \in Seq(Node) /\ Len(x) = Len(s) + Len(v)
          /\ \A j \in 1..(Len(s) + Len(v)) :
               x[j] = IF j <= Len(s) THEN s[j] ELSE v[j - Len(s)]
      BY <1>3, <2>1, ConcatIs
    <3> HIDE DEF x
    <3>2. Len(s) = m - 1 /\ Len(s) + Len(v) = L + 1
      BY <1>2, <1>3, <2>1
    <3>3. \A j \in 1..(L + 1) : j <= m - 1 <=> j < m
      BY <1>2
    <3> QED
      BY <3>1, <3>2, <3>3
  <2> HIDE DEF x
  <2>3. \A j \in 1..(L + 1) : x[j] = w[j]
    <3> SUFFICES ASSUME NEW j \in 1..(L + 1) PROVE x[j] = w[j]
      OBVIOUS
    <3>1. CASE j < m
      <4>1. j \in 1..(m - 1)
        BY <1>2, <3>1
      <4> QED
        BY <1>3, <2>2, <3>1, <4>1
    <3>2. CASE j = m
      <4>1. j - (m - 1) = 1 /\ ~(j < m)
        BY <1>2, <3>2
      <4> QED
        BY <2>1, <2>2, <3>2, <4>1 DEF n
    <3>3. CASE j > m
      <4>1. /\ ~(j < m) /\ j - (m - 1) \in 2..(L + 2 - m)
            /\ (j - (m - 1)) - 1 = j - m
        BY <1>2, <3>3
      <4>2. j - m \in 1..(L + 1 - m) /\ m + (j - m) = j
        BY <1>2, <3>3
      <4>3. x[j] = t[j - m]
        BY <2>1, <2>2, <4>1
      <4> QED
        BY <1>3, <4>2, <4>3
    <3> QED
      BY <1>2, <3>1, <3>2, <3>3
  <2>4. x = w
    BY <1>1, <1>2, <2>2, <2>3, SeqEqual
  <2> QED
    BY <2>4 DEF x, v
<1>6. s \o t = u
  <2> DEFINE x == s \o t
  <2>1. /\ x \in Seq(Node) /\ Len(x) = L
        /\ \A j \in 1..L : x[j] = IF j < m THEN s[j] ELSE t[j - (m - 1)]
    <3>1. /\ x \in Seq(Node) /\ Len(x) = Len(s) + Len(t)
          /\ \A j \in 1..(Len(s) + Len(t)) :
               x[j] = IF j <= Len(s) THEN s[j] ELSE t[j - Len(s)]
      BY <1>3, ConcatIs
    <3> HIDE DEF x
    <3>2. Len(s) = m - 1 /\ Len(s) + Len(t) = L
      BY <1>2, <1>3
    <3>3. \A j \in 1..L : j <= m - 1 <=> j < m
      BY <1>2
    <3> QED
      BY <3>1, <3>2, <3>3
  <2> HIDE DEF x
  <2>2. \A j \in 1..L : x[j] = u[j]
    <3> SUFFICES ASSUME NEW j \in 1..L PROVE x[j] = u[j]
      OBVIOUS
    <3>1. CASE j < m
      <4>1. j \in 1..(m - 1)
        BY <1>2, <3>1
      <4> QED
        BY <1>3, <1>4, <2>1, <3>1, <4>1
    <3>2. CASE ~(j < m)
      <4>1. j - (m - 1) \in 1..(L + 1 - m) /\ m + (j - (m - 1)) = j + 1
        BY <1>2, <3>2
      <4>2. x[j] = t[j - (m - 1)] /\ u[j] = w[j + 1]
        BY <1>4, <2>1, <3>2
      <4> QED
        BY <1>3, <4>1, <4>2
    <3> QED
      BY <3>1, <3>2
  <2>3. x = u
    BY <1>4, <2>1, <2>2, SeqEqual
  <2> QED
    BY <2>3 DEF x
<1>7. \A j \in 1..L : u[j] \in NodesOf(w) /\ u[j] # n
  <2> SUFFICES ASSUME NEW j \in 1..L PROVE u[j] \in NodesOf(w) /\ u[j] # n
    OBVIOUS
  <2>1. PICK l \in 1..Len(w) : u[j] = w[l] /\ l # m
    <3>1. j \in 1..Len(w) /\ j + 1 \in 1..Len(w) /\ (j < m \/ j + 1 > m)
      BY <1>2
    <3> QED
      BY <1>2, <1>4, <3>1
  <2> QED
    BY <1>1, <2>1 DEF NodesOf, n
<1>8. \A j, k \in 1..L : u[j] = u[k] => j = k
  <2> SUFFICES ASSUME NEW j \in 1..L, NEW k \in 1..L, u[j] = u[k] PROVE j = k
    OBVIOUS
  <2>1. /\ j \in 1..Len(w) /\ j + 1 \in 1..Len(w)
        /\ k \in 1..Len(w) /\ k + 1 \in 1..Len(w)
    BY <1>2
  <2>2. (IF j < m THEN j ELSE j + 1) = (IF k < m THEN k ELSE k + 1)
    BY <1>1, <1>4, <2>1
  <2> QED
    BY <1>2, <2>2
<1>9. \A j \in 1..Len(w) : w[j] # n <=> j # m
  BY <1>1 DEF n
<1>10. ASSUME NEW j \in 1..(L + 1)
       PROVE  q[Before(r, u, j)] = IF j < m THEN p[Before(r, w, j)] ELSE p[Before(r, w, j + 1)]
  <2>1. CASE j < m
    <3>1. Before(r, u, j) = Before(r, w, j)
      <4>1. CASE j = 1
        BY <4>1 DEF Before
      <4>2. CASE j # 1
        <5>1. j - 1 \in 1..L /\ j - 1 < m
          BY <1>2, <2>1, <4>2
        <5> QED
          BY <1>4, <4>2, <5>1 DEF Before
      <4> QED
        BY <4>1, <4>2
    <3>2. Before(r, w, j) \in {r} \union NodesOf(w) /\ Before(r, w, j) \notin {Before(r, w, m), n}
      <4>1. CASE j = 1
        <5>1. m - 1 \in 1..Len(w) /\ m # 1
          BY <1>2, <2>1, <4>1
        <5>2. Before(r, w, j) = r /\ Before(r, w, m) \in Node
          BY <1>1, <4>1, <5>1 DEF Before
        <5> QED
          BY <1>2, <5>2
      <4>2. CASE j # 1
        <5>1. /\ m - 1 \in 1..Len(w) /\ m # 1 /\ j - 1 \in 1..Len(w)
              /\ j - 1 # m - 1 /\ j - 1 # m
          BY <1>2, <2>1, <4>2
        <5>2. Before(r, w, j) = w[j - 1] /\ Before(r, w, m) = w[m - 1]
          BY <4>2, <5>1 DEF Before
        <5> QED
          BY <1>1, <1>9, <5>1, <5>2 DEF NodesOf
      <4> QED
        BY <4>1, <4>2
    <3> QED
      BY <2>1, <3>1, <3>2 DEF n
  <2>2. CASE j = m
    <3>1. Before(r, u, j) = Before(r, w, m)
      <4>1. CASE j = 1
        BY <2>2, <4>1 DEF Before
      <4>2. CASE j # 1
        <5>1. j - 1 \in 1..L /\ j - 1 < m
          BY <1>2, <2>2, <4>2
        <5> QED
          BY <1>4, <2>2, <4>2, <5>1 DEF Before
      <4> QED
        BY <4>1, <4>2
    <3>2. Before(r, w, j + 1) = n /\ ~(j < m)
      <4>1. j + 1 # 1 /\ (j + 1) - 1 = m /\ ~(j < m)
        BY <1>2, <2>2
      <4> QED
        BY <4>1 DEF Before, n
    <3> QED
      BY <3>1, <3>2 DEF n
  <2>3. CASE j > m
    <3>1. /\ j - 1 \in 1..L /\ ~(j - 1 < m) /\ (j - 1) + 1 = j /\ j # 1
          /\ j + 1 # 1 /\ (j + 1) - 1 = j /\ ~(j < m)
      BY <1>2, <2>3
    <3>2. Before(r, u, j) = w[j] /\ Before(r, w, j + 1) = w[j]
      BY <1>4, <3>1 DEF Before
    <3>3. w[j] \in NodesOf(w) /\ w[j] \notin {Before(r, w, m), n}
      <4>1. j \in 1..Len(w) /\ j # m
        BY <1>2, <2>3
      <4>2. CASE m = 1
        BY <1>1, <1>9, <4>1, <4>2 DEF Before, NodesOf
      <4>3. CASE m # 1
        <5>1. m - 1 \in 1..Len(w) /\ j # m - 1
          BY <1>2, <2>3, <4>3
        <5> QED
          BY <1>1, <1>9, <4>1, <4>3, <5>1 DEF Before, NodesOf
      <4> QED
        BY <4>2, <4>3
    <3> QED
      BY <3>1, <3>2, <3>3 DEF n
  <2> QED
    BY <1>2, <2>1, <2>2, <2>3
<1>11. \A j \in 1..L : q[Before(r, u, j)] = u[j]
  <2> SUFFICES ASSUME NEW j \in 1..L PROVE q[Before(r, u, j)] = u[j]
    OBVIOUS
  <2>1. j \in 1..(L + 1) /\ j \in 1..Len(w) /\ j + 1 \in 1..Len(w)
    BY <1>2
  <2> QED
    BY <1>1, <1>4, <1>10, <2>1
<1>12. q[Before(r, u, L + 1)] = Null
  <2>1. L + 1 \in 1..(L + 1)
    BY <1>2
  <2>2. CASE L + 1 < m
    BY <1>2, <2>2
  <2>3. CASE ~(L + 1 < m)
    BY <1>1, <1>2, <1>10, <2>1, <2>3
  <2> QED
    BY <2>2, <2>3
<1>13. Path(q, r, u)
  BY <1>4, <1>8, <1>11, <1>12, PathIs
<1>14. NodesOf(u) = NodesOf(w) \ {n}
  <2>1. NodesOf(u) \subseteq NodesOf(w) \ {n}
    BY <1>4, <1>7 DEF NodesOf
  <2>2. ASSUME NEW j \in 1..Len(w), w[j] # n PROVE w[j] \in NodesOf(u)
    <3>1. j # m
      BY <1>9, <2>2
    <3>2. CASE j < m
      <4>1. j \in 1..L
        BY <1>2, <3>2
      <4> QED
        BY <1>4, <3>2, <4>1 DEF NodesOf
    <3>3. CASE j > m
      <4>1. j - 1 \in 1..L /\ ~(j - 1 < m) /\ (j - 1) + 1 = j
        BY <1>2, <3>3
      <4>2. u[j - 1] = w[j]
        BY <1>4, <4>1
      <4> QED
        BY <1>4, <4>1, <4>2 DEF NodesOf
    <3> QED
      BY <1>2, <3>1, <3>2, <3>3
  <2>3. NodesOf(w) \ {n} \subseteq NodesOf(u)
    BY <2>2 DEF NodesOf
  <2> QED
    BY <2>1, <2>3
<1>15. /\ w = s \o (<<w[m]>> \o t)
       /\ Path(q, r, s \o t)
       /\ NodesOf(s \o t) = NodesOf(w) \ {w[m]}
  BY <1>5, <1>6, <1>13, <1>14 DEF n
<1> QED
  BY <1>3, <1>15 DEF CutAt

-----------------------------------------------------------------------------
(* The table's lists, by the nodes they hold.                              *)

(* The pointers p lead from root r through the nodes of S and end.         *)
HangsAt(p, r, S) == \E w : Path(p, r, w) /\ NodesOf(w) = S

(* HangsAt in terms of Walk: a list that ends is the one Walk returns.     *)
LEMMA HangsIs ==
  ASSUME NEW p, NEW r \in Cell, NEW S
  PROVE  /\ HangsAt(p, r, S) => Path(p, r, Walk(p, r)) /\ Members(p, r) = S
         /\ Path(p, r, Walk(p, r)) => HangsAt(p, r, Members(p, r))
                                      /\ NodesOf(Walk(p, r)) = Members(p, r)
<1>1. HangsAt(p, r, S) => Path(p, r, Walk(p, r)) /\ Members(p, r) = S
  <2> SUFFICES ASSUME HangsAt(p, r, S) PROVE Path(p, r, Walk(p, r)) /\ Members(p, r) = S
    OBVIOUS
  <2>1. PICK w : Path(p, r, w) /\ NodesOf(w) = S
    BY DEF HangsAt
  <2>2. Walk(p, r) = w /\ Members(p, r) = NodesOf(w)
    BY <2>1, PathIsWalk
  <2> QED
    BY <2>1, <2>2
<1>2. Path(p, r, Walk(p, r)) => HangsAt(p, r, Members(p, r))
                                /\ NodesOf(Walk(p, r)) = Members(p, r)
  <2> SUFFICES ASSUME Path(p, r, Walk(p, r))
               PROVE  HangsAt(p, r, Members(p, r)) /\ NodesOf(Walk(p, r)) = Members(p, r)
    OBVIOUS
  <2>1. Members(p, r) = NodesOf(Walk(p, r))
    BY PathIsWalk
  <2> QED
    BY <2>1 DEF HangsAt
<1> QED
  BY <1>1, <1>2

(* A list is closed under its pointers.                                    *)
LEMMA PathCells ==
  ASSUME NEW p, NEW r, NEW w, Path(p, r, w), NEW c \in {r} \union NodesOf(w)
  PROVE  /\ p[c] = Null \/ \E j \in 1..Len(w) : p[c] = w[j] /\ c = Before(r, w, j)
         /\ NodesOf(w) \subseteq Node
<1>1. /\ w \in Seq(Node) /\ Len(w) \in Nat
      /\ \A j \in 1..Len(w) : p[Before(r, w, j)] = w[j]
      /\ p[Before(r, w, Len(w) + 1)] = Null
  BY PathIs
<1>2. PICK j \in 1..(Len(w) + 1) : c = Before(r, w, j)
  <2>1. CASE c = r
    BY <1>1, <2>1 DEF Before
  <2>2. CASE c \in NodesOf(w)
    <3>1. PICK l \in 1..Len(w) : c = w[l]
      BY <2>2 DEF NodesOf
    <3>2. l + 1 \in 1..(Len(w) + 1) /\ (l + 1) - 1 = l /\ l + 1 # 1
      BY <1>1
    <3> QED
      BY <3>1, <3>2 DEF Before
  <2> QED
    BY <2>1, <2>2
<1>3. j = Len(w) + 1 \/ j \in 1..Len(w)
  BY <1>1
<1>4. NodesOf(w) \subseteq Node
  BY <1>1 DEF NodesOf
<1> QED
  BY <1>1, <1>2, <1>3, <1>4

(* Pointers of a list's nodes lead to its nodes or end.                    *)
LEMMA HangsClosed ==
  ASSUME NEW p, NEW r, NEW S, HangsAt(p, r, S)
  PROVE  S \subseteq Node /\ \A c \in {r} \union S : p[c] \in S \union {Null}
<1>1. PICK w : Path(p, r, w) /\ NodesOf(w) = S
  BY DEF HangsAt
<1>2. S \subseteq Node
  BY <1>1, PathCells
<1>3. ASSUME NEW c \in {r} \union S PROVE p[c] \in S \union {Null}
  <2>1. p[c] = Null \/ \E j \in 1..Len(w) : p[c] = w[j]
    BY <1>1, PathCells
  <2> QED
    BY <1>1, <2>1 DEF NodesOf
<1> QED
  BY <1>2, <1>3

(* An empty list.                                                          *)
LEMMA HangsEmpty ==
  ASSUME NEW p, NEW r, p[r] = Null
  PROVE  Path(p, r, <<>>) /\ NodesOf(<<>>) = {} /\ HangsAt(p, r, {})
<1>1. <<>> \in Seq(Node) /\ Len(<<>>) = 0 /\ 1..0 = {}
  OBVIOUS
<1>2. Before(r, <<>>, Len(<<>>) + 1) = r
  BY <1>1 DEF Before
<1>3. Path(p, r, <<>>)
  BY <1>1, <1>2, PathIs
<1>4. NodesOf(<<>>) = {}
  BY <1>1 DEF NodesOf
<1> QED
  BY <1>3, <1>4 DEF HangsAt

(* A list that holds a node does not begin with NULL.                      *)
LEMMA HangsNull ==
  ASSUME NEW p, NEW r \in Cell, NEW S, HangsAt(p, r, S), p[r] = Null
  PROVE  S = {}
<1>1. Members(p, r) = S
  BY HangsIs
<1>2. Members(p, r) = {}
  BY HangsEmpty, PathIsWalk
<1> QED
  BY <1>1, <1>2

(* A list is unchanged if its nodes' pointers are.                         *)
LEMMA HangsFrame ==
  ASSUME NEW p, NEW q, NEW r, NEW S, HangsAt(p, r, S),
         q[r] = p[r], \A c \in S : q[c] = p[c]
  PROVE  HangsAt(q, r, S)
BY PathFrame DEF HangsAt

(* push() in front of a list.                                              *)
LEMMA HangsPush ==
  ASSUME NEW p, NEW q, NEW r, NEW S, HangsAt(p, r, S),
         NEW n \in Node, n \notin S, q[r] = n, q[n] = p[r], \A c \in S : q[c] = p[c]
  PROVE  HangsAt(q, r, S \union {n})
<1>1. PICK w : Path(p, r, w) /\ NodesOf(w) = S
  BY DEF HangsAt
<1>2. Path(q, r, <<n>> \o w) /\ NodesOf(<<n>> \o w) = {n} \union S
  BY <1>1, PathPush
<1>3. {n} \union S = S \union {n}
  OBVIOUS
<1> QED
  BY <1>2, <1>3 DEF HangsAt

(* pop() of a list's first node.                                           *)
LEMMA HangsPop ==
  ASSUME NEW p, NEW q, NEW r, NEW S, HangsAt(p, r, S),
         NEW n \in Node, p[r] = n, q[r] = p[n], \A c \in S \ {n} : q[c] = p[c]
  PROVE  n \in S /\ HangsAt(q, r, S \ {n})
<1>1. PICK w : Path(p, r, w) /\ NodesOf(w) = S
  BY DEF HangsAt
<1>2. PICK t : Path(q, r, t) /\ n \in S /\ NodesOf(t) = S \ {n}
  BY <1>1, PathPop
<1> QED
  BY <1>2 DEF HangsAt

-----------------------------------------------------------------------------
(* TableInv, by the nodes the lists hold.                                  *)
InSlot(s) == {n \in Node : at[n] = s}
InChain(b) == {n \in Node : at[n] \in SlotIndex /\ BucketOf(KeyOf[n]) = BucketRoot(b)}

Lists ==
  /\ \A s \in SlotIndex : HangsAt(link, SlotRoot(s), InSlot(s))
  /\ HangsAt(link, ExpRoot, InSlot(Expired))

Chains == \A b \in BucketIndex : HangsAt(next, BucketRoot(b), InChain(b))

(* The list heads are cells, each of one of three kinds, and no cell is    *)
(* null.                                                                   *)
LEMMA CellFacts ==
  /\ \A s \in SlotIndex : SlotRoot(s) \in Cell
  /\ \A b \in BucketIndex : BucketRoot(b) \in Cell
  /\ ExpRoot \in Cell
  /\ Node \subseteq Cell
  /\ Null \notin Cell
  /\ \A r \in Root : \/ \E s \in SlotIndex : r = SlotRoot(s)
                     \/ \E b \in BucketIndex : r = BucketRoot(b)
                     \/ r = ExpRoot
<1>1. \A r \in Root : \/ \E s \in SlotIndex : r = SlotRoot(s)
                      \/ \E b \in BucketIndex : r = BucketRoot(b)
                      \/ r = ExpRoot
  BY DEF Root
<1> QED
  BY <1>1, RootFacts, LRUHashAssumption DEF Cell

(* The places a node can be in differ.                                     *)
LEMMA AtFacts == Caller \notin SlotIndex /\ Expired \notin SlotIndex /\ Caller # Expired
BY DEF SlotIndex, Caller, Expired

(* Exact lists that end are the lists of the nodes that say so ...         *)
LEMMA ListsIn ==
  ListsExact /\ ChainedWhileSlotted /\ ListsEnd => Lists /\ Chains
<1> SUFFICES ASSUME ListsExact, ChainedWhileSlotted, ListsEnd PROVE Lists /\ Chains
  OBVIOUS
<1>1. ASSUME NEW s \in SlotIndex PROVE HangsAt(link, SlotRoot(s), InSlot(s))
  <2>1. Path(link, SlotRoot(s), Walk(link, SlotRoot(s))) /\ SlotRoot(s) \in Cell
    BY RootFacts, CellFacts DEF ListsEnd
  <2>2. Members(link, SlotRoot(s)) = InSlot(s)
    BY DEF ListsExact, InSlot
  <2> QED
    BY <2>1, <2>2, HangsIs
<1>2. HangsAt(link, ExpRoot, InSlot(Expired))
  <2>1. Path(link, ExpRoot, Walk(link, ExpRoot)) /\ ExpRoot \in Cell
    BY RootFacts, CellFacts DEF ListsEnd
  <2>2. Members(link, ExpRoot) = InSlot(Expired)
    BY DEF ListsExact, InSlot
  <2> QED
    BY <2>1, <2>2, HangsIs
<1>3. ASSUME NEW b \in BucketIndex PROVE HangsAt(next, BucketRoot(b), InChain(b))
  <2>1. Path(next, BucketRoot(b), Walk(next, BucketRoot(b))) /\ BucketRoot(b) \in Cell
    BY CellFacts DEF ListsEnd
  <2>2. Members(next, BucketRoot(b)) = InChain(b)
    BY DEF ChainedWhileSlotted, InChain
  <2> QED
    BY <2>1, <2>2, HangsIs
<1> QED
  BY <1>1, <1>2, <1>3 DEF Lists, Chains

(* ... and the other way round.                                            *)
LEMMA ListsOut ==
  LinksStayInList /\ Lists /\ Chains => ListsExact /\ ChainedWhileSlotted /\ ListsEnd
<1> SUFFICES ASSUME LinksStayInList, Lists, Chains
             PROVE  ListsExact /\ ChainedWhileSlotted /\ ListsEnd
  OBVIOUS
<1>1. ASSUME NEW r \in Root PROVE Path(link, r, Walk(link, r))
  <2>0. r \in Cell
    BY DEF Cell
  <2>1. ASSUME NEW s \in SlotIndex, r = SlotRoot(s) PROVE Path(link, r, Walk(link, r))
    BY <2>0, <2>1, HangsIs DEF Lists
  <2>2. CASE r = ExpRoot
    BY <2>0, <2>2, HangsIs DEF Lists
  <2>3. ASSUME NEW b \in BucketIndex, r = BucketRoot(b) PROVE Path(link, r, Walk(link, r))
    <3>1. link[r] = Null
      BY <2>3 DEF LinksStayInList
    <3> QED
      BY <2>0, <3>1, HangsEmpty, HangsIs
  <2> QED
    BY <2>1, <2>2, <2>3, CellFacts
<1>2. \A b \in BucketIndex : Path(next, BucketRoot(b), Walk(next, BucketRoot(b)))
  BY CellFacts, HangsIs DEF Chains
<1>3. ListsExact
  <2>1. \A s \in SlotIndex : Members(link, SlotRoot(s)) = {n \in Node : at[n] = s}
    BY CellFacts, HangsIs DEF Lists, InSlot
  <2>2. Members(link, ExpRoot) = {n \in Node : at[n] = Expired}
    BY CellFacts, HangsIs DEF Lists, InSlot
  <2>3. ASSUME NEW r \in Root
        PROVE  LET w == Walk(link, r) IN \A j, k \in DOMAIN w : w[j] = w[k] => j = k
    <3> DEFINE w == Walk(link, r)
    <3>1. Path(link, r, w)
      BY <1>1
    <3> HIDE DEF w
    <3>2. w \in Seq(Node) /\ \A j, k \in 1..Len(w) : w[j] = w[k] => j = k
      BY <3>1, PathIs
    <3>3. \A j, k \in DOMAIN w : w[j] = w[k] => j = k
      BY <3>2
    <3> QED
      BY <3>3 DEF w
  <2> QED
    BY <2>1, <2>2, <2>3 DEF ListsExact
<1>4. ChainedWhileSlotted
  BY CellFacts, HangsIs DEF Chains, InChain, ChainedWhileSlotted
<1> QED
  BY <1>1, <1>2, <1>3, <1>4 DEF ListsEnd

-----------------------------------------------------------------------------
(* What push(), pop() and a turn of the loops do to the lists.             *)

(* put() pushes the caller's node on slot s and changes no other list.     *)
LEMMA PushLists ==
  ASSUME PointerInv, Lists, NEW n \in Node, NEW s \in SlotIndex, at[n] = Caller,
         link' = PushLink(link, SlotRoot(s), n), at' = [at EXCEPT ![n] = s]
  PROVE  Lists'
<1>1. /\ link \in [Cell -> Node \union {Null}]
      /\ at \in [Node -> SlotIndex \union {Caller, Expired}]
  BY DEF PointerInv, TypeOK
<1>2. /\ n \in Cell /\ Caller \notin SlotIndex /\ Caller # Expired /\ Expired \notin SlotIndex
      /\ SlotRoot(s) \in Cell /\ SlotRoot(s) # n /\ SlotRoot(s) \notin Node
  BY CellFacts, RootFacts, AtFacts
<1>3. \A c \in Cell : link'[c] = IF c = SlotRoot(s) THEN n
                                 ELSE IF c = n THEN link[SlotRoot(s)] ELSE link[c]
  BY <1>1, <1>2 DEF PushLink
<1>4. \A m \in Node : at'[m] = IF m = n THEN s ELSE at[m]
  BY <1>1
<1>5. ASSUME NEW t \in SlotIndex \union {Expired}, t # s
      PROVE  InSlot(t)' = InSlot(t) /\ n \notin InSlot(t)
  <2>1. {m \in Node : at'[m] = t} = {m \in Node : at[m] = t}
    BY <1>2, <1>4, <1>5
  <2> QED
    BY <1>2, <1>5, <2>1 DEF InSlot
<1>6. InSlot(s)' = InSlot(s) \union {n} /\ n \notin InSlot(s)
  <2>1. {m \in Node : at'[m] = s} = {m \in Node : at[m] = s} \union {n}
    BY <1>2, <1>4
  <2> QED
    BY <1>2, <2>1 DEF InSlot
<1>7. \A t : InSlot(t) \subseteq Cell /\ SlotRoot(s) \notin InSlot(t)
  BY <1>2, CellFacts DEF InSlot
<1>8. HangsAt(link', SlotRoot(s), InSlot(s) \union {n})
  <2>1. HangsAt(link, SlotRoot(s), InSlot(s))
    BY DEF Lists
  <2>2. \A c \in InSlot(s) : link'[c] = link[c]
    BY <1>3, <1>6, <1>7
  <2>3. link'[SlotRoot(s)] = n /\ link'[n] = link[SlotRoot(s)]
    BY <1>2, <1>3
  <2> QED
    BY <1>6, <2>1, <2>2, <2>3, HangsPush
<1>9. ASSUME NEW t \in SlotIndex, t # s PROVE HangsAt(link', SlotRoot(t), InSlot(t))
  <2>1. HangsAt(link, SlotRoot(t), InSlot(t))
    BY DEF Lists
  <2>2. SlotRoot(t) \in Cell /\ SlotRoot(t) # SlotRoot(s) /\ SlotRoot(t) # n
    BY <1>9, CellFacts, RootFacts
  <2>3. link'[SlotRoot(t)] = link[SlotRoot(t)] /\ \A c \in InSlot(t) : link'[c] = link[c]
    BY <1>3, <1>5, <1>7, <1>9, <2>2
  <2> QED
    BY <2>1, <2>3, HangsFrame
<1>10. HangsAt(link', ExpRoot, InSlot(Expired))
  <2>1. HangsAt(link, ExpRoot, InSlot(Expired))
    BY DEF Lists
  <2>2. ExpRoot \in Cell /\ ExpRoot # SlotRoot(s) /\ ExpRoot # n
    BY CellFacts, RootFacts
  <2>3. link'[ExpRoot] = link[ExpRoot] /\ \A c \in InSlot(Expired) : link'[c] = link[c]
    BY <1>2, <1>3, <1>5, <1>7, <2>2
  <2> QED
    BY <2>1, <2>3, HangsFrame
<1>11. \A t \in SlotIndex : HangsAt(link', SlotRoot(t), InSlot(t)')
  BY <1>5, <1>6, <1>8, <1>9
<1>12. HangsAt(link', ExpRoot, InSlot(Expired)')
  BY <1>2, <1>5, <1>10
<1> QED
  BY <1>11, <1>12 DEF Lists

(* pop() takes the first node off exp_node_ and changes no other list.     *)
LEMMA PopLists ==
  ASSUME PointerInv, Lists, NEW n \in Node, link[ExpRoot] = n,
         link' = PopLink(link, ExpRoot), at' = [at EXCEPT ![n] = Caller]
  PROVE  Lists' /\ at[n] = Expired
<1>1. /\ link \in [Cell -> Node \union {Null}]
      /\ at \in [Node -> SlotIndex \union {Caller, Expired}]
  BY DEF PointerInv, TypeOK
<1>2. /\ n \in Cell /\ Caller \notin SlotIndex /\ Caller # Expired /\ Expired \notin SlotIndex
      /\ ExpRoot \in Cell /\ ExpRoot \notin Node /\ n # Null
  BY CellFacts, RootFacts, AtFacts
<1>3. \A c \in Cell : link'[c] = IF c = ExpRoot THEN link[n] ELSE link[c]
  BY <1>1, <1>2 DEF PopLink
<1>4. \A m \in Node : at'[m] = IF m = n THEN Caller ELSE at[m]
  BY <1>1
<1>5. \A t : InSlot(t) \subseteq Cell /\ ExpRoot \notin InSlot(t)
  BY <1>2, CellFacts DEF InSlot
<1>6. n \in InSlot(Expired) /\ HangsAt(link', ExpRoot, InSlot(Expired) \ {n})
  <2>1. HangsAt(link, ExpRoot, InSlot(Expired))
    BY DEF Lists
  <2>2. link'[ExpRoot] = link[n] /\ \A c \in InSlot(Expired) \ {n} : link'[c] = link[c]
    BY <1>2, <1>3, <1>5
  <2> QED
    BY <2>1, <2>2, HangsPop
<1>7. at[n] = Expired
  BY <1>6 DEF InSlot
<1>8. InSlot(Expired)' = InSlot(Expired) \ {n}
  <2>1. {m \in Node : at'[m] = Expired} = {m \in Node : at[m] = Expired} \ {n}
    BY <1>2, <1>4
  <2> QED
    BY <2>1 DEF InSlot
<1>9. ASSUME NEW t \in SlotIndex PROVE HangsAt(link', SlotRoot(t), InSlot(t)')
  <2>0. {m \in Node : at'[m] = t} = {m \in Node : at[m] = t}
    BY <1>2, <1>4, <1>7
  <2>1. HangsAt(link, SlotRoot(t), InSlot(t)) /\ InSlot(t)' = InSlot(t)
    BY <2>0 DEF Lists, InSlot
  <2>2. SlotRoot(t) \in Cell /\ SlotRoot(t) # ExpRoot
    BY CellFacts, RootFacts
  <2>3. link'[SlotRoot(t)] = link[SlotRoot(t)] /\ \A c \in InSlot(t) : link'[c] = link[c]
    BY <1>3, <1>5, <2>2
  <2> QED
    BY <2>1, <2>3, HangsFrame
<1> QED
  BY <1>6, <1>7, <1>8, <1>9 DEF Lists

(* A turn of prog() or purge() moves the first node of slot s to           *)
(* exp_node_.                                                              *)
LEMMA ExpireLists ==
  ASSUME PointerInv, Lists, NEW n \in Node, NEW s \in SlotIndex, link[SlotRoot(s)] = n,
         link' = PushLink(PopLink(link, SlotRoot(s)), ExpRoot, n),
         at' = [at EXCEPT ![n] = Expired]
  PROVE  Lists' /\ at[n] = s
<1> DEFINE r == SlotRoot(s)
<1>1. /\ link \in [Cell -> Node \union {Null}]
      /\ at \in [Node -> SlotIndex \union {Caller, Expired}]
  BY DEF PointerInv, TypeOK
<1>2. /\ n \in Cell /\ Caller \notin SlotIndex /\ Caller # Expired /\ Expired \notin SlotIndex
      /\ ExpRoot \in Cell /\ ExpRoot \notin Node /\ n # Null
      /\ r \in Cell /\ r \notin Node /\ r # ExpRoot
  BY CellFacts, RootFacts, AtFacts
<1>3. link[r] = n /\ link' = PushLink(PopLink(link, r), ExpRoot, n)
  OBVIOUS
<1> HIDE DEF r
<1>4. \A c \in Cell : link'[c] = IF c = ExpRoot THEN n ELSE IF c = n THEN link[ExpRoot]
                                 ELSE IF c = r THEN link[n] ELSE link[c]
  BY <1>1, <1>2, <1>3 DEF PushLink, PopLink
<1>5. \A m \in Node : at'[m] = IF m = n THEN Expired ELSE at[m]
  BY <1>1
<1>6. \A t : InSlot(t) \subseteq Cell /\ ExpRoot \notin InSlot(t) /\ r \notin InSlot(t)
  BY <1>2, CellFacts DEF InSlot
<1>7. n \in InSlot(s) /\ HangsAt(link', r, InSlot(s) \ {n})
  <2>1. HangsAt(link, r, InSlot(s))
    BY DEF Lists, r
  <2>2. link'[r] = link[n] /\ \A c \in InSlot(s) \ {n} : link'[c] = link[c]
    BY <1>2, <1>4, <1>6
  <2> QED
    BY <1>3, <2>1, <2>2, HangsPop
<1>8. at[n] = s /\ s # Expired
  BY <1>2, <1>7 DEF InSlot
<1>9. InSlot(s)' = InSlot(s) \ {n}
  <2>1. {m \in Node : at'[m] = s} = {m \in Node : at[m] = s} \ {n}
    BY <1>5, <1>8
  <2> QED
    BY <2>1 DEF InSlot
<1>10. InSlot(Expired)' = InSlot(Expired) \union {n} /\ n \notin InSlot(Expired)
  <2>1. {m \in Node : at'[m] = Expired} = {m \in Node : at[m] = Expired} \union {n}
    BY <1>5
  <2> QED
    BY <1>8, <2>1 DEF InSlot
<1>11. HangsAt(link', ExpRoot, InSlot(Expired)')
  <2>1. HangsAt(link, ExpRoot, InSlot(Expired))
    BY DEF Lists
  <2>2. /\ link'[ExpRoot] = n /\ link'[n] = link[ExpRoot]
        /\ \A c \in InSlot(Expired) : link'[c] = link[c]
    BY <1>2, <1>4, <1>6, <1>10
  <2> QED
    BY <1>10, <2>1, <2>2, HangsPush
<1>12. ASSUME NEW t \in SlotIndex PROVE HangsAt(link', SlotRoot(t), InSlot(t)')
  <2>0. CASE t = s
    BY <1>7, <1>9, <2>0 DEF r
  <2>1. CASE t # s
    <3>0. {m \in Node : at'[m] = t} = {m \in Node : at[m] = t}
      BY <1>2, <1>5, <1>8, <2>1
    <3>1. HangsAt(link, SlotRoot(t), InSlot(t)) /\ InSlot(t)' = InSlot(t)
      BY <3>0 DEF Lists, InSlot
    <3>2. SlotRoot(t) \in Cell /\ SlotRoot(t) # ExpRoot /\ SlotRoot(t) # r /\ SlotRoot(t) # n
      BY <2>1, CellFacts, RootFacts DEF r
    <3>3. n \notin InSlot(t)
      BY <1>8, <2>1 DEF InSlot
    <3>4. link'[SlotRoot(t)] = link[SlotRoot(t)] /\ \A c \in InSlot(t) : link'[c] = link[c]
      BY <1>4, <1>6, <3>2, <3>3
    <3> QED
      BY <3>1, <3>4, HangsFrame
  <2> QED
    BY <2>0, <2>1
<1> QED
  BY <1>8, <1>11, <1>12 DEF Lists

-----------------------------------------------------------------------------
(* What attach() and detach() do to the chains.                            *)
Chain(b) == Walk(next, BucketRoot(b))

(* A bucket's chain is what Walk collects from its head.                   *)
LEMMA ChainIs ==
  ASSUME Chains, NEW b \in BucketIndex
  PROVE  /\ Path(next, BucketRoot(b), Chain(b))
         /\ NodesOf(Chain(b)) = InChain(b)
         /\ Chain(b) \in Seq(Node)
<1>1. BucketRoot(b) \in Cell /\ HangsAt(next, BucketRoot(b), InChain(b))
  BY CellFacts DEF Chains
<1>2. Path(next, BucketRoot(b), Chain(b)) /\ NodesOf(Chain(b)) = InChain(b)
  BY <1>1, HangsIs DEF Chain
<1> QED
  BY <1>2, PathIs

(* attach() puts the node in front of its bucket's chain.                  *)
LEMMA AttachChains ==
  ASSUME PointerInv, Chains, NEW n \in Node, NEW s \in SlotIndex, NEW k \in BucketIndex,
         at[n] = Caller, BucketOf(KeyOf[n]) = BucketRoot(k),
         Attach(BucketRoot(k), n), at' = [at EXCEPT ![n] = s]
  PROVE  /\ Chains'
         /\ \A b \in BucketIndex : Chain(b)' = IF b = k THEN <<n>> \o Chain(b) ELSE Chain(b)
<1>1. /\ next \in [Cell -> Node \union {Null}]
      /\ at \in [Node -> SlotIndex \union {Caller, Expired}]
  BY DEF PointerInv, TypeOK
<1>2. /\ n \in Cell /\ Caller \notin SlotIndex /\ BucketRoot(k) \in Cell /\ BucketRoot(k) # n
      /\ BucketRoot(k) \notin Node
  BY CellFacts, RootFacts, AtFacts
<1>3. \A c \in Cell : next'[c] = IF c = BucketRoot(k) THEN n
                                 ELSE IF c = n THEN next[BucketRoot(k)] ELSE next[c]
  BY <1>1, <1>2 DEF Attach
<1>4. \A m \in Node : at'[m] = IF m = n THEN s ELSE at[m]
  BY <1>1
<1>5. \A b \in BucketIndex : InChain(b) \subseteq Cell /\ n \notin InChain(b)
                             /\ BucketRoot(k) \notin InChain(b)
  BY <1>2, CellFacts DEF InChain
<1>6. ASSUME NEW b \in BucketIndex
      PROVE  InChain(b)' = IF b = k THEN InChain(b) \union {n} ELSE InChain(b)
  <2>1. b # k => BucketRoot(b) # BucketRoot(k)
    BY DEF BucketRoot
  <2>2. InChain(b)' = {m \in Node : at'[m] \in SlotIndex /\ BucketOf(KeyOf[m]) = BucketRoot(b)}
    BY DEF InChain, BucketOf
  <2>3. CASE b = k
    <3>1. InChain(b)' = {m \in Node : at[m] \in SlotIndex /\ BucketOf(KeyOf[m]) = BucketRoot(b)}
                        \union {n}
      BY <1>4, <2>2, <2>3
    <3> QED
      BY <2>3, <3>1 DEF InChain
  <2>4. CASE b # k
    <3>1. InChain(b)' = {m \in Node : at[m] \in SlotIndex /\ BucketOf(KeyOf[m]) = BucketRoot(b)}
      BY <1>2, <1>4, <2>1, <2>2, <2>4
    <3> QED
      BY <2>4, <3>1 DEF InChain
  <2> QED
    BY <2>3, <2>4
<1>7. ASSUME NEW b \in BucketIndex
      PROVE  /\ HangsAt(next', BucketRoot(b), InChain(b)')
             /\ Chain(b)' = IF b = k THEN <<n>> \o Chain(b) ELSE Chain(b)
  <2>0. BucketRoot(b) \in Cell
    BY CellFacts
  <2>1. CASE b = k
    <3>1. Path(next, BucketRoot(b), Chain(b)) /\ NodesOf(Chain(b)) = InChain(b)
      BY ChainIs
    <3>2. /\ next'[BucketRoot(b)] = n /\ next'[n] = next[BucketRoot(b)]
          /\ \A c \in InChain(b) : next'[c] = next[c]
      BY <1>2, <1>3, <1>5, <2>1
    <3>3. /\ Path(next', BucketRoot(b), <<n>> \o Chain(b))
          /\ NodesOf(<<n>> \o Chain(b)) = {n} \union InChain(b)
      BY <1>5, <3>1, <3>2, PathPush
    <3>4. Chain(b)' = <<n>> \o Chain(b)
      BY <2>0, <3>3, PathIsWalk DEF Chain
    <3>5. InChain(b)' = {n} \union InChain(b)
      BY <1>6, <2>1
    <3> QED
      BY <2>1, <3>3, <3>4, <3>5 DEF HangsAt
  <2>2. CASE b # k
    <3>1. Path(next, BucketRoot(b), Chain(b)) /\ NodesOf(Chain(b)) = InChain(b)
      BY ChainIs
    <3>2. BucketRoot(b) # BucketRoot(k) /\ BucketRoot(b) # n
      BY <2>2, RootFacts DEF BucketRoot
    <3>3. /\ next'[BucketRoot(b)] = next[BucketRoot(b)]
          /\ \A c \in InChain(b) : next'[c] = next[c]
      BY <1>3, <1>5, <2>0, <3>2
    <3>4. Path(next', BucketRoot(b), Chain(b))
      BY <3>1, <3>3, PathFrame
    <3>5. Chain(b)' = Chain(b)
      BY <2>0, <3>4, PathIsWalk DEF Chain
    <3>6. InChain(b)' = InChain(b)
      BY <1>6, <2>2
    <3> QED
      BY <2>2, <3>1, <3>4, <3>5, <3>6 DEF HangsAt
  <2> QED
    BY <2>1, <2>2
<1> QED
  BY <1>7 DEF Chains

(* detach() takes the node out of whichever chain it is in, keeping the    *)
(* order of the others.                                                    *)
LEMMA DetachChains ==
  ASSUME PointerInv, Chains, NEW n \in Node, at[n] \in SlotIndex,
         Detach(n), at' = [at EXCEPT ![n] = Expired]
  PROVE  /\ Chains'
         /\ \A b \in BucketIndex :
              \/ Chain(b)' = Chain(b)
              \/ \E s, t \in Seq(Node) : Chain(b) = s \o (<<n>> \o t) /\ Chain(b)' = s \o t
<1>1. /\ next \in [Cell -> Node \union {Null}]
      /\ at \in [Node -> SlotIndex \union {Caller, Expired}]
      /\ ChainsLinked /\ ChainedIffSlotted
  BY DEF PointerInv, TypeOK
<1>2. n \in Cell /\ Null \notin Cell /\ Expired \notin SlotIndex
  BY CellFacts, AtFacts
<1>3. \A c \in Cell : next'[c] = IF c = n THEN Null
                                 ELSE IF c = prev[n] THEN next[n] ELSE next[c]
  BY DEF Detach
<1>4. \A m \in Node : at'[m] = IF m = n THEN Expired ELSE at[m]
  BY <1>1
<1>5. \A c \in Cell : next[c] = n => prev[n] = c
  BY <1>1, <1>2 DEF ChainsLinked
<1>6. next[prev[n]] = n
  BY <1>1 DEF ChainsLinked, ChainedIffSlotted
<1>7. ASSUME NEW b \in BucketIndex PROVE InChain(b)' = InChain(b) \ {n}
  <2>1. InChain(b)' = {m \in Node : at'[m] \in SlotIndex /\ BucketOf(KeyOf[m]) = BucketRoot(b)}
    BY DEF InChain, BucketOf
  <2>2. InChain(b)' = {m \in Node : at[m] \in SlotIndex /\ BucketOf(KeyOf[m]) = BucketRoot(b)}
                      \ {n}
    BY <1>2, <1>4, <2>1
  <2> QED
    BY <2>2 DEF InChain
<1>8. ASSUME NEW b \in BucketIndex
      PROVE  /\ HangsAt(next', BucketRoot(b), InChain(b)')
             /\ \/ Chain(b)' = Chain(b)
                \/ \E s, t \in Seq(Node) : Chain(b) = s \o (<<n>> \o t) /\ Chain(b)' = s \o t
  <2> DEFINE r == BucketRoot(b)
             w == Chain(b)
  <2>1. /\ r \in Cell /\ r \notin Node /\ r # n
        /\ Path(next, r, w) /\ NodesOf(w) = InChain(b) /\ w \in Seq(Node)
    BY ChainIs, CellFacts, RootFacts
  <2>2. InChain(b) \subseteq Cell
    BY CellFacts DEF InChain
  <2>3. /\ \A v : Path(next', r, v) => Chain(b)' = v
        /\ \A j \in 1..Len(w) : next[Before(r, w, j)] = w[j] /\ Before(r, w, j) \in {r} \union NodesOf(w)
        /\ \A j, l \in 1..Len(w) : w[j] = w[l] => j = l
    <3>1. \A v : Path(next', r, v) => Chain(b)' = v
      BY <2>1, PathIsWalk DEF Chain
    <3> HIDE DEF r, w
    <3>2. /\ w \in Seq(Node) /\ Len(w) \in Nat
          /\ \A j \in 1..Len(w) : next[Before(r, w, j)] = w[j]
          /\ \A j, l \in 1..Len(w) : w[j] = w[l] => j = l
      BY <2>1, PathIs
    <3>3. \A j \in 1..Len(w) : Before(r, w, j) \in {r} \union NodesOf(w)
      BY <3>2 DEF Before, NodesOf
    <3> QED
      BY <3>1, <3>2, <3>3
  <2>4. Chain(b) = w /\ BucketRoot(b) = r
    OBVIOUS
  <2> HIDE DEF r, w
  <2>5. CASE n \in NodesOf(w)
    <3>1. PICK m \in 1..Len(w) : n = w[m]
      BY <2>5 DEF NodesOf
    <3> DEFINE d == Before(r, w, m)
    <3>2. d \in Cell /\ next[d] = n /\ prev[n] = d /\ d # n
      <4>1. next[d] = n /\ d \in {r} \union NodesOf(w)
        BY <2>3, <3>1
      <4>2. d \in Cell /\ prev[n] = d
        BY <1>5, <2>1, <2>2, <4>1
      <4>3. d # n
        <5>1. CASE m = 1
          BY <2>1, <5>1 DEF Before
        <5>2. CASE m # 1
          <6>1. m - 1 \in 1..Len(w) /\ m - 1 # m /\ Before(r, w, m) = w[m - 1]
            BY <2>1, <5>2 DEF Before
          <6> QED
            BY <2>3, <3>1, <6>1
        <5> QED
          BY <5>1, <5>2
      <4> QED
        BY <4>1, <4>2, <4>3
    <3> HIDE DEF d
    <3>3. next'[d] = next[n]
      BY <1>3, <3>2
    <3>4. \A c \in {r} \union NodesOf(w) : c \notin {d, n} => next'[c] = next[c]
      BY <1>3, <2>1, <2>2, <3>2
    <3>5. next'[Before(r, w, m)] = next[w[m]]
      BY <3>1, <3>3 DEF d
    <3>6. \A c \in {r} \union NodesOf(w) : c \notin {Before(r, w, m), w[m]} => next'[c] = next[c]
      BY <3>1, <3>4 DEF d
    <3>7. \E s, t \in Seq(Node) : /\ w = s \o (<<w[m]>> \o t)
                                 /\ Path(next', r, s \o t)
                                 /\ NodesOf(s \o t) = NodesOf(w) \ {w[m]}
      <4>1. Path(next, r, w) /\ r \notin Node
        BY <2>1
      <4>2. CutAt(next', r, w, w[m])
        BY <3>5, <3>6, <4>1, PathCut
      <4> QED
        BY <4>2 DEF CutAt
    <3>8. PICK s, t \in Seq(Node) : /\ w = s \o (<<w[m]>> \o t)
                                   /\ Path(next', r, s \o t)
                                   /\ NodesOf(s \o t) = NodesOf(w) \ {w[m]}
      BY <3>7
    <3>9. HangsAt(next', r, InChain(b)')
      BY <1>7, <2>1, <3>1, <3>8 DEF HangsAt
    <3>10. Chain(b) = s \o (<<n>> \o t) /\ Chain(b)' = s \o t
      BY <2>3, <2>4, <3>1, <3>8
    <3> QED
      BY <2>4, <3>9, <3>10
  <2>6. CASE n \notin NodesOf(w)
    <3>1. \A c \in {r} \union NodesOf(w) : next[c] # n
      <4> SUFFICES ASSUME NEW c \in {r} \union NodesOf(w), next[c] = n PROVE FALSE
        OBVIOUS
      <4>1. next[c] = Null \/ next[c] \in NodesOf(w)
        BY <2>1, PathCells DEF NodesOf
      <4> QED
        BY <1>2, <2>6, <4>1
    <3>2. \A c \in {r} \union NodesOf(w) : c # n /\ c # prev[n]
      BY <1>6, <2>1, <2>6, <3>1
    <3>3. \A c \in {r} \union NodesOf(w) : next'[c] = next[c]
      BY <1>3, <2>1, <2>2, <3>2
    <3>4. Path(next', r, w)
      BY <2>1, <3>3, PathFrame
    <3>5. Chain(b)' = Chain(b)
      BY <2>3, <2>4, <3>4
    <3>6. InChain(b)' = InChain(b)
      BY <1>7, <2>1, <2>6
    <3>7. HangsAt(next', r, InChain(b)')
      BY <2>1, <3>4, <3>6 DEF HangsAt
    <3> QED
      BY <2>4, <3>5, <3>7
  <2> QED
    BY <2>5, <2>6
<1> QED
  BY <1>8 DEF Chains

-----------------------------------------------------------------------------
(* The steps that change a list.                                           *)

(* The slot a running loop looks at is one of the wheel's.                 *)
LEMMA VisitedIsSlot ==
  ASSUME TypeOK, pc # "idle", i < Rounds
  PROVE  Visited \in SlotIndex
<1>1. CASE pc = "prog"
  BY <1>1, RemainderIsIndex, LRUHashAssumption DEF Visited, TypeOK, SlotIndex
<1>2. CASE pc = "purge"
  BY <1>2, LRUHashAssumption DEF Visited, Rounds, TypeOK, SlotIndex
<1> QED
  BY <1>1, <1>2 DEF TypeOK

(* put() with a tick below the number of slots.                            *)
LEMMA PutStep ==
  ASSUME PointerInv, Lists, Chains, NEW n \in Node, NEW ttl \in Nat, ttl < Slots, Put(n, ttl)
  PROVE  \E s \in SlotIndex, k \in BucketIndex :
           /\ s = (ttl + currTick) % Slots
           /\ BucketOf(KeyOf[n]) = BucketRoot(k)
           /\ at[n] = Caller /\ at' = [at EXCEPT ![n] = s]
           /\ Lists' /\ Chains'
           /\ \A b \in BucketIndex : Chain(b)' = IF b = k THEN <<n>> \o Chain(b) ELSE Chain(b)
<1> DEFINE s == (ttl + currTick) % Slots
           k == Hash[KeyOf[n]] % Buckets
<1>1. s \in SlotIndex
  BY RemainderIsIndex, LRUHashAssumption DEF PointerInv, TypeOK, SlotIndex
<1>2. k \in BucketIndex
  BY RemainderIsIndex, LRUHashAssumption DEF BucketIndex
<1>3. /\ at[n] = Caller
      /\ BucketOf(KeyOf[n]) = BucketRoot(k)
      /\ Attach(BucketRoot(k), n)
      /\ link' = PushLink(link, SlotRoot(s), n)
      /\ at' = [at EXCEPT ![n] = s]
  BY LRUHashAssumption DEF Put, BucketOf
<1>4. s = (ttl + currTick) % Slots
  OBVIOUS
<1> HIDE DEF s, k
<1>5. Lists'
  BY <1>1, <1>3, PushLists
<1>6. /\ Chains'
      /\ \A b \in BucketIndex : Chain(b)' = IF b = k THEN <<n>> \o Chain(b) ELSE Chain(b)
  BY <1>1, <1>2, <1>3, AttachChains
<1> QED
  BY <1>1, <1>2, <1>3, <1>4, <1>5, <1>6

(* pop() of an expired node.                                               *)
LEMMA PopStep ==
  ASSUME PointerInv, Lists, Chains, Pop, link[ExpRoot] # Null
  PROVE  LET n == link[ExpRoot]
         IN  /\ n \in Node /\ at[n] = Expired /\ at' = [at EXCEPT ![n] = Caller]
             /\ Lists' /\ Chains'
             /\ \A b \in BucketIndex : Chain(b)' = Chain(b)
<1> DEFINE n == link[ExpRoot]
<1>1. n \in Node
  BY CellFacts DEF PointerInv, TypeOK
<1>2. at' = [at EXCEPT ![n] = Caller] /\ link' = PopLink(link, ExpRoot) /\ next' = next
  BY DEF Pop, PointerInv, TypeOK
<1>3. Lists' /\ at[n] = Expired
  BY <1>1, <1>2, PopLists
<1> HIDE DEF n
<1>4. \A m \in Node : at'[m] = IF m = n THEN Caller ELSE at[m]
  BY <1>2 DEF PointerInv, TypeOK
<1>5. ASSUME NEW b \in BucketIndex PROVE InChain(b)' = InChain(b)
  <2>1. InChain(b)' = {m \in Node : at'[m] \in SlotIndex /\ BucketOf(KeyOf[m]) = BucketRoot(b)}
    BY DEF InChain, BucketOf
  <2> QED
    BY <1>3, <1>4, <2>1, AtFacts DEF InChain
<1>6. Chains'
  BY <1>2, <1>5 DEF Chains
<1>7. \A b \in BucketIndex : Chain(b)' = Chain(b)
  BY <1>2 DEF Chain
<1> QED
  BY <1>1, <1>2, <1>3, <1>6, <1>7 DEF n

(* A turn of the loop that moves a node to exp_node_.                      *)
LEMMA ExpireStep ==
  ASSUME PointerInv, Lists, Chains, ExpireNode
  PROVE  \E n \in Node :
           /\ at[n] = Visited /\ Visited \in SlotIndex /\ at' = [at EXCEPT ![n] = Expired]
           /\ UNCHANGED <<currTick, loop, ret>>
           /\ Lists' /\ Chains'
           /\ \A b \in BucketIndex :
                \/ Chain(b)' = Chain(b)
                \/ \E s, t \in Seq(Node) : Chain(b) = s \o (<<n>> \o t) /\ Chain(b)' = s \o t
<1> DEFINE s == Visited
           n == link[SlotRoot(s)]
<1>1. s \in SlotIndex
  BY VisitedIsSlot DEF ExpireNode, PointerInv
<1>2. /\ n # Null
      /\ Detach(n)
      /\ link' = PushLink(PopLink(link, SlotRoot(s)), ExpRoot, n)
      /\ at' = [at EXCEPT ![n] = Expired]
      /\ UNCHANGED <<currTick, loop, ret>>
  BY DEF ExpireNode
<1> HIDE DEF s
<1>3. n \in Node
  BY <1>1, <1>2, CellFacts DEF PointerInv, TypeOK
<1>4. Lists' /\ at[n] = s
  BY <1>1, <1>2, <1>3, ExpireLists
<1> HIDE DEF n
<1>5. /\ Chains'
      /\ \A b \in BucketIndex :
           \/ Chain(b)' = Chain(b)
           \/ \E u, t \in Seq(Node) : Chain(b) = u \o (<<n>> \o t) /\ Chain(b)' = u \o t
  BY <1>1, <1>2, <1>3, <1>4, DetachChains
<1> QED
  BY <1>1, <1>2, <1>3, <1>4, <1>5 DEF s

(* A slot whose list is empty holds no node.                               *)
LEMMA EmptySlot ==
  ASSUME Lists, NEW s \in SlotIndex, link[SlotRoot(s)] = Null
  PROVE  \A n \in Node : at[n] # s
<1>1. HangsAt(link, SlotRoot(s), InSlot(s)) /\ SlotRoot(s) \in Cell
  BY CellFacts DEF Lists
<1>2. InSlot(s) = {}
  BY <1>1, HangsNull
<1> QED
  BY <1>2 DEF InSlot

(* A step that leaves pointers and nodes alone leaves all lists alone.     *)
LEMMA QuietStep ==
  ASSUME Lists, Chains, UNCHANGED <<pointers, at>>
  PROVE  Lists' /\ Chains' /\ \A b \in BucketIndex : Chain(b)' = Chain(b)
<1>1. link' = link /\ next' = next /\ at' = at
  BY DEF pointers
<1>2. \A s : InSlot(s)' = InSlot(s)
  BY <1>1 DEF InSlot
<1>3. \A b : InChain(b)' = InChain(b)
  BY <1>1 DEF InChain, BucketOf
<1>4. Lists'
  BY <1>1, <1>2 DEF Lists
<1>5. Chains'
  BY <1>1, <1>3 DEF Chains
<1>6. \A b \in BucketIndex : Chain(b)' = Chain(b)
  BY <1>1 DEF Chain
<1> QED
  BY <1>4, <1>5, <1>6

-----------------------------------------------------------------------------
(* The inductive invariant.                                                *)

(* No list is broken by a step of the table.                               *)
LEMMA StepKeepsLists ==
  ASSUME PointerInv, Lists, Chains, [Next]_vars
  PROVE  Lists' /\ Chains'
<1>1. ASSUME NEW n \in Node, NEW ttl \in Ttls, Put(n, ttl) PROVE Lists' /\ Chains'
  <2>0. ttl \in Nat /\ Slots \in Nat
    BY LRUHashAssumption
  <2>1. CASE ttl < Slots
    BY <1>1, <2>0, <2>1, PutStep
  <2>2. CASE ~(ttl < Slots)
    BY <1>1, <2>0, <2>2, QuietStep DEF Put
  <2> QED
    BY <2>1, <2>2
<1>2. ASSUME NEW k \in Key, Get(k) PROVE Lists' /\ Chains'
  BY <1>2, QuietStep DEF Get
<1>3. ASSUME Pop PROVE Lists' /\ Chains'
  <2>1. CASE link[ExpRoot] = Null
    <3>1. link' = link /\ next' = next
      BY <1>3, <2>1 DEF Pop, PopLink
    <3>2. at' = at
      BY <1>3, <2>1, CellFacts DEF Pop, PointerInv, TypeOK
    <3> QED
      BY <1>3, <3>1, <3>2, QuietStep DEF Pop, pointers
  <2> QED
    BY <1>3, <2>1, PopStep
<1>4. ASSUME NEW t \in Ticks, CallProg(t) PROVE Lists' /\ Chains'
  BY <1>4, QuietStep DEF CallProg
<1>5. ASSUME CallPurge PROVE Lists' /\ Chains'
  BY <1>5, QuietStep DEF CallPurge
<1>6. ASSUME ExpireNode PROVE Lists' /\ Chains'
  BY <1>6, ExpireStep
<1>7. ASSUME NextSlot PROVE Lists' /\ Chains'
  BY <1>7, QuietStep DEF NextSlot
<1>8. ASSUME Return PROVE Lists' /\ Chains'
  BY <1>8, QuietStep DEF Return
<1>9. ASSUME UNCHANGED vars PROVE Lists' /\ Chains'
  BY <1>9, QuietStep DEF vars, pointers
<1> QED
  BY <1>1, <1>2, <1>3, <1>4, <1>5, <1>6, <1>7, <1>8, <1>9 DEF Next, LoopStep

(* A slot the loop has left stays empty until it returns: nothing is put   *)
(* while it runs.                                                          *)
LEMMA StepKeepsVisited ==
  ASSUME PointerInv, Lists, Chains, VisitedEmpty, [Next]_vars
  PROVE  VisitedEmpty'
<1>1. TypeOK
  BY DEF PointerInv
<1>2. CASE pc' = "idle"
  BY <1>2 DEF VisitedEmpty
<1>3. ASSUME NEW t \in Ticks, CallProg(t) PROVE VisitedEmpty'
  <2>1. pc' = "prog" /\ i' = 0 /\ ticks' = t /\ t \in Nat
    BY <1>3, LRUHashAssumption DEF CallProg
  <2> QED
    BY <2>1 DEF VisitedEmpty, Rounds
<1>4. ASSUME CallPurge PROVE VisitedEmpty'
  <2>1. pc' = "purge" /\ i' = 0 /\ Slots \in Nat
    BY <1>4, LRUHashAssumption DEF CallPurge
  <2> QED
    BY <2>1 DEF VisitedEmpty, Rounds
<1>5. ASSUME ExpireNode PROVE VisitedEmpty'
  <2>1. PICK n \in Node : at' = [at EXCEPT ![n] = Expired] /\ UNCHANGED <<currTick, loop>>
    BY <1>5, ExpireStep
  <2>2. \A m \in Node : at'[m] = IF m = n THEN Expired ELSE at[m]
    BY <1>1, <2>1 DEF TypeOK
  <2>3. pc' = pc /\ i' = i /\ ticks' = ticks /\ currTick' = currTick
    BY <2>1 DEF loop
  <2>4. \A j \in 0..(i - 1) : ((currTick + j) % Slots) \in Nat
    BY <1>1, RemainderIsIndex, LRUHashAssumption DEF TypeOK
  <2>5. \A j \in 0..(i - 1) : Expired # j /\ Expired # ((currTick + j) % Slots)
    BY <1>1, <2>4 DEF Expired, TypeOK
  <2> QED
    BY <2>2, <2>3, <2>5 DEF VisitedEmpty, Rounds
<1>6. ASSUME NextSlot PROVE VisitedEmpty'
  <2>1. /\ pc' = pc /\ i' = i + 1 /\ ticks' = ticks /\ currTick' = currTick /\ at' = at
        /\ pc # "idle" /\ i < Rounds /\ link[SlotRoot(Visited)] = Null
    BY <1>6 DEF NextSlot
  <2>2. \A n \in Node : at[n] # Visited
    BY <1>1, <2>1, VisitedIsSlot, EmptySlot
  <2>3. i \in Nat /\ Rounds \in Nat
    BY <1>1, LRUHashAssumption DEF TypeOK, Rounds
  <2>4. 0..(i' - 1) = (0..(i - 1)) \union {i}
    BY <2>1, <2>3
  <2>5. i' <= Rounds'
    BY <2>1, <2>3 DEF Rounds
  <2>6. ASSUME NEW n \in Node, NEW j \in 0..(i' - 1)
        PROVE  /\ pc' = "prog" => at'[n] # (currTick' + j) % Slots
               /\ pc' = "purge" => at'[n] # j
    <3>1. CASE j = i
      BY <2>1, <2>2, <3>1 DEF Visited
    <3>2. CASE j \in 0..(i - 1)
      BY <2>1, <3>2 DEF VisitedEmpty
    <3> QED
      BY <2>4, <3>1, <3>2
  <2> QED
    BY <2>1, <2>5, <2>6 DEF VisitedEmpty
<1>7. CASE UNCHANGED vars
  BY <1>7 DEF vars, VisitedEmpty, Rounds
<1>8. \A n \in Node, ttl \in Ttls : Put(n, ttl) => pc' = "idle"
  BY DEF Put, loop
<1>9. \A k \in Key : Get(k) => pc' = "idle"
  BY DEF Get, loop
<1>10. (Pop => pc' = "idle") /\ (Return => pc' = "idle")
  BY DEF Pop, Return, loop
<1> QED
  BY <1>2, <1>3, <1>4, <1>5, <1>6, <1>7, <1>8, <1>9, <1>10 DEF Next, LoopStep

(* The constructed table is empty.                                         *)
LEMMA TableInvInit == Init => TableInv
<1> SUFFICES ASSUME Init PROVE TableInv
  OBVIOUS
<1>1. PointerInv
  BY InitEstablishes
<1>2. \A s \in SlotIndex \union {Expired} : InSlot(s) = {}
  BY AtFacts DEF Init, InSlot
<1>3. \A b \in BucketIndex : InChain(b) = {}
  BY AtFacts DEF Init, InChain
<1>4. Lists
  <2>1. \A c \in Cell : link[c] = Null
    BY DEF Init
  <2>2. \A s \in SlotIndex : HangsAt(link, SlotRoot(s), InSlot(s))
    BY <1>2, <2>1, CellFacts, HangsEmpty
  <2>3. HangsAt(link, ExpRoot, InSlot(Expired))
    BY <1>2, <2>1, CellFacts, HangsEmpty
  <2> QED
    BY <2>2, <2>3 DEF Lists
<1>5. Chains
  BY <1>3, CellFacts, HangsEmpty DEF Chains, Init
<1>6. VisitedEmpty
  BY DEF Init, VisitedEmpty
<1> QED
  BY <1>1, <1>4, <1>5, <1>6, ListsOut DEF TableInv, PointerInv

(* Every call, and every turn of the loops of prog() and purge(), keeps    *)
(* TableInv.                                                               *)
LEMMA StepKeepsTableInv == TableInv /\ [Next]_vars => TableInv'
<1> SUFFICES ASSUME TableInv, [Next]_vars PROVE TableInv'
  OBVIOUS
<1>1. PointerInv /\ VisitedEmpty /\ Lists /\ Chains
  BY ListsIn DEF TableInv
<1>2. PointerInv' /\ Lists' /\ Chains' /\ VisitedEmpty'
  BY <1>1, StepKeepsPointerInv, StepKeepsLists, StepKeepsVisited
<1>3. LinksStayInList'
  BY <1>2 DEF PointerInv
<1>4. LinksStayInList' /\ Lists' /\ Chains' => ListsExact' /\ ChainedWhileSlotted' /\ ListsEnd'
  BY ListsOut, PTL
<1> QED
  BY <1>2, <1>3, <1>4 DEF TableInv

(* In every state of every table, between the turns of prog() and purge()  *)
(* too: the pointers are linked both ways, each list and chain ends and    *)
(* holds exactly the nodes it should, once each.                           *)
THEOREM TableSound == Spec => []TableInv
<1>1. Init => TableInv
  BY TableInvInit
<1>2. TableInv /\ [Next]_vars => TableInv'
  BY StepKeepsTableInv
<1> QED
  BY <1>1, <1>2, PTL DEF Spec

(* A slot's list holds, once each, the nodes put in it and not expired;    *)
(* exp_node_'s list those that expired and that no pop() returned: pop()   *)
(* hands out every expired node exactly once.                              *)
THEOREM ListsStayExact == Spec => []ListsExact
<1>1. TableInv => ListsExact
  BY DEF TableInv
<1> QED
  BY <1>1, TableSound, PTL

(* The chain a key hashes to holds exactly the slotted nodes of its hash   *)
(* values: get() sees a node from put() until it expires, and not longer.  *)
THEOREM ChainsStayExact == Spec => []ChainedWhileSlotted
<1>1. TableInv => ChainedWhileSlotted
  BY DEF TableInv
<1> QED
  BY <1>1, TableSound, PTL

-----------------------------------------------------------------------------
(* The wheel's distances: TicksTo() at any position c.                     *)
Dist(c, s) == (s + Slots - (c % Slots)) % Slots

(* From position c there is one way to slot s within a round.              *)
LEMMA DistIs ==
  ASSUME NEW c \in Nat, NEW s \in SlotIndex
  PROVE  /\ Dist(c, s) \in SlotIndex
         /\ (c + Dist(c, s)) % Slots = s
         /\ \A x \in SlotIndex : (c + x) % Slots = s => x = Dist(c, s)
<1> DEFINE r == c % Slots
           d == IF s >= r THEN s - r ELSE s + Slots - r
<1>1. Slots \in Nat \ {0} /\ SlotIndex = 0..(Slots - 1)
  BY LRUHashAssumption DEF SlotIndex
<1>2. r \in 0..(Slots - 1)
  BY <1>1, Division
<1>3. \A x \in 0..(Slots - 1) : (c + x) % Slots = IF r + x < Slots THEN r + x ELSE r + x - Slots
  BY <1>1, TurnedOn
<1>4. Dist(c, s) = (s + Slots - r) % Slots
  BY DEF Dist
<1> HIDE DEF r
<1>5. d \in 0..(Slots - 1) /\ s + Slots - r \in Nat /\ s \in 0..(Slots - 1)
  BY <1>1, <1>2
<1>6. (s + Slots - r) % Slots = d
  <2>1. CASE s >= r
    <3>1. s + Slots - r = Slots * 1 + (s - r) /\ s - r \in 0..(Slots - 1)
      BY <1>1, <1>2, <1>5, <2>1
    <3>2. (s + Slots - r) % Slots = s - r
      BY <1>1, <1>5, <3>1, RemainderIs
    <3> QED
      BY <2>1, <3>2
  <2>2. CASE ~(s >= r)
    <3>1. s + Slots - r = Slots * 0 + (s + Slots - r) /\ s + Slots - r \in 0..(Slots - 1)
      BY <1>1, <1>2, <1>5, <2>2
    <3>2. (s + Slots - r) % Slots = s + Slots - r
      BY <1>1, <1>5, <3>1, RemainderIs
    <3> QED
      BY <2>2, <3>2
  <2> QED
    BY <2>1, <2>2
<1>7. (c + d) % Slots = s
  <2>1. d = IF s >= r THEN s - r ELSE s + Slots - r
    OBVIOUS
  <2> HIDE DEF d
  <2>2. (c + d) % Slots = IF r + d < Slots THEN r + d ELSE r + d - Slots
    BY <1>3, <1>5
  <2>3. (IF r + d < Slots THEN r + d ELSE r + d - Slots) = s
    BY <1>1, <1>2, <1>5, <2>1
  <2> QED
    BY <2>2, <2>3
<1>8. \A x \in 0..(Slots - 1) : (c + x) % Slots = s => x = d
  BY <1>1, <1>2, <1>3, <1>5
<1> HIDE DEF d
<1> QED
  BY <1>1, <1>4, <1>5, <1>6, <1>7, <1>8

(* Slots that the wheel passes within x ticks of position c.               *)
LEMMA DistPassed ==
  ASSUME NEW c \in Nat, NEW x \in Nat
  PROVE  /\ (c + x) % Slots \in SlotIndex
         /\ Dist(c, (c + x) % Slots) <= x
<1> DEFINE y == x % Slots
           s == (c + x) % Slots
<1>1. Slots \in Nat \ {0} /\ SlotIndex = 0..(Slots - 1)
  BY LRUHashAssumption DEF SlotIndex
<1>2. s \in SlotIndex
  BY <1>1, RemainderIsIndex
<1>3. y \in SlotIndex /\ y <= x
  <2> DEFINE q == x \div Slots
  <2>1. q \in Nat /\ y \in 0..(Slots - 1) /\ x = Slots * q + y
    BY <1>1, Division
  <2> HIDE DEF q, y
  <2>2. Slots * q >= 0
    BY <1>1, <2>1
  <2>3. Slots * q \in Nat
    BY <1>1, <2>1
  <2> QED
    BY <1>1, <2>1, <2>2, <2>3
<1>4. (c + y) % Slots = s
  BY <1>1, RoundsDrop
<1> HIDE DEF s, y
<1>5. y = Dist(c, s)
  BY <1>2, <1>3, <1>4, DistIs
<1> QED
  BY <1>2, <1>3, <1>5 DEF s

(* x ticks on, a slot further away than that is x ticks nearer.            *)
LEMMA DistNearer ==
  ASSUME NEW c \in Nat, NEW x \in Nat, NEW s \in SlotIndex, x <= Dist(c, s)
  PROVE  Dist(c + x, s) = Dist(c, s) - x
<1> DEFINE d == Dist(c, s)
           e == d - x
<1>1. Slots \in Nat \ {0} /\ SlotIndex = 0..(Slots - 1)
  BY LRUHashAssumption DEF SlotIndex
<1>2. d \in SlotIndex /\ (c + d) % Slots = s
  BY DistIs
<1>3. x <= d
  OBVIOUS
<1> HIDE DEF d
<1>4. e \in SlotIndex /\ c + d = (c + x) + e /\ c + x \in Nat
  BY <1>1, <1>2, <1>3
<1>5. ((c + x) + e) % Slots = s
  BY <1>2, <1>4
<1> HIDE DEF e
<1>6. e = Dist(c + x, s)
  BY <1>4, <1>5, DistIs
<1> QED
  BY <1>6 DEF d, e

-----------------------------------------------------------------------------
(* The abstract table that a state shows.                                  *)

TicksIs == \A s \in SlotIndex : TicksTo(s) = Dist(currTick, s)

(* The nodes of key k that the abstract table still holds.                 *)
Seen(k) == {n \in Node : KeyOf[n] = k /\ Standing(n)}

(* The index of key k's bucket.                                            *)
Hashed(k) == Hash[k] % Buckets

(* The ticks until slot s is current are its distance from the current     *)
(* slot.                                                                   *)
LEMMA TicksAre == TicksIs
BY DEF TicksIs, TicksTo, Dist

ByKeyMatch == AbsByKey = [k \in Key |-> Sift(Chain(Hashed(k)), Seen(k))]

(* The abstract table's chain of a key is the part of the key's bucket     *)
(* that is still to be seen.                                               *)
LEMMA ByKeyIs ==
  /\ ByKeyMatch
  /\ \A k \in Key : Hashed(k) \in BucketIndex /\ BucketOf(k) = BucketRoot(Hashed(k))
<1>1. AbsByKey = [k \in Key |-> Sift(Chain(Hashed(k)), Seen(k))]
  BY DEF AbsByKey, Chain, Hashed, Seen, BucketOf
<1>2. \A k \in Key : Hashed(k) \in BucketIndex
  BY RemainderIsIndex, LRUHashAssumption DEF BucketIndex, Hashed
<1>3. \A k \in Key : BucketOf(k) = BucketRoot(Hashed(k))
  BY DEF BucketOf, Hashed
<1> QED
  BY <1>1, <1>2, <1>3 DEF ByKeyMatch

(* Between calls every slotted node stands.                                *)
LEMMA IdleStands == pc = "idle" => \A n \in Node : Standing(n) <=> at[n] \in SlotIndex
BY DEF Standing, Doomed

(* Between calls, the abstract table is read off directly: deadlines are   *)
(* slot distances ahead of the clock.                                      *)
LEMMA IdleView ==
  ASSUME TypeOK, pc = "idle"
  PROVE  /\ AbsNow = currTick
         /\ AbsExpired = {n \in Node : at[n] = Expired}
         /\ \A n \in Node : AbsDue[n] = IF at[n] \in SlotIndex
                                        THEN currTick + Dist(currTick, at[n]) ELSE -1
         /\ \A n \in Node : at[n] = Caller <=> AbsDue[n] = -1 /\ n \notin AbsExpired
<1>1. AbsNow = currTick
  BY DEF AbsNow
<1>2. \A n \in Node : at[n] \in SlotIndex \union {Caller, Expired}
  BY DEF TypeOK
<1>3. AbsExpired = {n \in Node : at[n] = Expired}
  BY <1>2, AtFacts, IdleStands DEF AbsExpired
<1>4. \A n \in Node : AbsDue[n] = IF at[n] \in SlotIndex
                                  THEN currTick + Dist(currTick, at[n]) ELSE -1
  BY TicksAre, IdleStands DEF AbsDue, TicksIs
<1>5. \A n \in Node : at[n] \in SlotIndex => AbsDue[n] \in Nat
  <2>1. currTick \in Nat /\ SlotIndex \subseteq Nat
    BY DEF TypeOK, SlotIndex
  <2>2. \A s \in SlotIndex : Dist(currTick, s) \in Nat
    BY <2>1, DistIs
  <2>3. ASSUME NEW n \in Node, at[n] \in SlotIndex PROVE AbsDue[n] \in Nat
    <3> DEFINE d == Dist(currTick, at[n])
    <3>1. d \in Nat
      BY <2>2, <2>3
    <3>2. AbsDue[n] = currTick + d
      BY <1>4, <2>3
    <3> HIDE DEF d
    <3> QED
      BY <2>1, <3>1, <3>2
  <2> QED
    BY <2>3
<1>6. \A n \in Node : at[n] = Caller <=> AbsDue[n] = -1 /\ n \notin AbsExpired
  <2> SUFFICES ASSUME NEW n \in Node
               PROVE  at[n] = Caller <=> AbsDue[n] = -1 /\ n \notin AbsExpired
    OBVIOUS
  <2>1. CASE at[n] \in SlotIndex
    <3>1. AbsDue[n] # -1
      BY <1>5, <2>1
    <3> QED
      BY <2>1, <3>1, AtFacts
  <2>2. CASE at[n] \notin SlotIndex
    BY <1>2, <1>3, <1>4, <2>2, AtFacts
  <2> QED
    BY <2>1, <2>2
<1> QED
  BY <1>1, <1>3, <1>4, <1>6

(* If no node begins or ends to stand, and the nodes that leave a chain do *)
(* not stand, get()'s answers stay the same.                               *)
LEMMA ByKeyKept ==
  ASSUME Chains, NEW n, ~Standing(n), \A m \in Node : Standing(m)' <=> Standing(m),
         \A b \in BucketIndex :
           \/ Chain(b)' = Chain(b)
           \/ n \in Node /\ \E s, t \in Seq(Node) : Chain(b) = s \o (<<n>> \o t)
                                                    /\ Chain(b)' = s \o t
  PROVE  AbsByKey' = AbsByKey
<1>1. \A k : Seen(k)' = Seen(k)
  BY DEF Seen
<1>2. AbsByKey' = [k \in Key |-> Sift(Chain(Hashed(k))', Seen(k)')]
  <2>1. ByKeyMatch
    BY ByKeyIs
  <2>2. ByKeyMatch'
    BY ByKeyIs, PTL
  <2> QED
    BY <2>2 DEF ByKeyMatch, Hashed
<1>3. ASSUME NEW k \in Key PROVE Sift(Chain(Hashed(k))', Seen(k)') = Sift(Chain(Hashed(k)), Seen(k))
  <2> DEFINE b == Hashed(k)  S == Seen(k)
  <2>1. b \in BucketIndex /\ n \notin S /\ S' = S
    BY <1>1, ByKeyIs DEF Seen
  <2>2. CASE Chain(b)' = Chain(b)
    BY <2>1, <2>2
  <2>3. ASSUME n \in Node, NEW s \in Seq(Node), NEW t \in Seq(Node),
               Chain(b) = s \o (<<n>> \o t), Chain(b)' = s \o t
        PROVE  Sift(Chain(b)', S') = Sift(Chain(b), S)
    <3>1. Sift(s \o (<<n>> \o t), S) = Sift(s \o t, S)
      BY <2>1, <2>3, SiftWithout
    <3> QED
      BY <2>1, <2>3, <3>1
  <2> QED
    BY <2>1, <2>2, <2>3
<1> QED
  BY <1>2, <1>3, ByKeyIs DEF ByKeyMatch

-----------------------------------------------------------------------------
(* Each step of the pointer machine is one of the table, or none.          *)
AbsVars == <<AbsNow, AbsByKey, AbsDue, AbsExpired, ret>>

(* put() refuses a tick of a round or more, else the deadline is met by    *)
(* the slot, and the node is the first that get() finds.                   *)
LEMMA PutImplements ==
  ASSUME PointerInv, Lists, Chains, NEW n \in Node, NEW ttl \in Nat, Put(n, ttl)
  PROVE  Table!Put(n, ttl)
<1>1. /\ pc = "idle" /\ at[n] = Caller /\ TypeOK
      /\ currTick' = currTick /\ pc' = pc /\ i' = i /\ ticks' = ticks
  BY DEF Put, loop, PointerInv
<1>2. Slots \in Nat \ {0} /\ SlotIndex = 0..(Slots - 1)
  BY LRUHashAssumption DEF SlotIndex
<1>3. /\ AbsNow = currTick /\ AbsNow' = currTick
      /\ AbsDue[n] = -1 /\ n \notin AbsExpired
  BY <1>1, IdleView DEF AbsNow
<1>4. CASE ~(ttl < Slots)
  <2>1. ret' = Rejected /\ UNCHANGED <<pointers, at>>
    BY <1>2, <1>4 DEF Put
  <2>2. \A s : TicksTo(s)' = TicksTo(s)
    BY <1>1 DEF TicksTo
  <2>3. \A m : Standing(m)' <=> Standing(m)
    BY <1>1, <2>1, <2>2 DEF Standing, Doomed
  <2>4. AbsDue' = AbsDue /\ AbsExpired' = AbsExpired
    BY <1>1, <2>1, <2>2, <2>3 DEF AbsDue, AbsExpired
  <2>5. AbsByKey' = AbsByKey
    BY <1>1, <2>1, <2>3 DEF AbsByKey, pointers
  <2> QED
    BY <1>3, <1>4, <2>1, <2>4, <2>5
    DEF Table!Put, Table!Held, Table!NotIn, Table!Accepted, Table!Rejected, Rejected
<1>5. CASE ttl < Slots
  <2>1. PICK s \in SlotIndex, k \in BucketIndex :
             /\ s = (ttl + currTick) % Slots
             /\ BucketOf(KeyOf[n]) = BucketRoot(k)
             /\ at' = [at EXCEPT ![n] = s]
             /\ Chains'
             /\ \A b \in BucketIndex : Chain(b)' = IF b = k THEN <<n>> \o Chain(b) ELSE Chain(b)
    BY <1>5, PutStep
  <2>2. \A m \in Node : at'[m] = IF m = n THEN s ELSE at[m]
    BY <1>1, <2>1 DEF TypeOK
  <2>3. ret' = Accepted
    BY <1>2, <1>5 DEF Put
  <2>4. \A m \in Node : (Standing(m) <=> at[m] \in SlotIndex) /\ (Standing(m)' <=> at'[m] \in SlotIndex)
    BY <1>1 DEF Standing, Doomed
  <2>5. ~Standing(n) /\ Standing(n)' /\ \A m \in Node : m # n => (Standing(m)' <=> Standing(m))
    BY <1>1, <2>1, <2>2, <2>4, AtFacts
  <2>6. AbsExpired' = AbsExpired
    <3>1. \A m \in Node : at'[m] # Caller /\ ~Standing(m)' <=> at[m] # Caller /\ ~Standing(m)
      BY <1>1, <2>2, <2>5
    <3> QED
      BY <3>1 DEF AbsExpired
  <2>7. AbsDue' = [AbsDue EXCEPT ![n] = AbsNow + ttl]
    <3>1. Dist(currTick, s) = ttl
      <4>1. ttl \in SlotIndex
        BY <1>2, <1>5
      <4>2. ttl + currTick = currTick + ttl
        BY <1>1 DEF TypeOK
      <4>3. (currTick + ttl) % Slots = s
        BY <2>1, <4>2
      <4> QED
        BY <1>1, <4>1, <4>3, DistIs DEF TypeOK
    <3>2. \A t \in SlotIndex : TicksTo(t) = Dist(currTick, t) /\ TicksTo(t)' = Dist(currTick, t)
      BY <1>1 DEF TicksTo, Dist
    <3>3. AbsDue' = [m \in Node |-> IF Standing(m)' THEN currTick' + TicksTo(at[m])' ELSE -1]
      BY DEF AbsDue
    <3>4. TicksTo(at[n])' = ttl
      BY <2>1, <2>2, <3>1, <1>1 DEF TicksTo, Dist
    <3>5. \A m \in Node : m # n => TicksTo(at[m])' = TicksTo(at[m])
      BY <1>1, <2>2 DEF TicksTo
    <3>6. \A m \in Node : AbsDue'[m] = IF m = n THEN currTick + ttl ELSE AbsDue[m]
      BY <1>1, <2>5, <3>3, <3>4, <3>5 DEF AbsDue
    <3>7. AbsDue = [m \in Node |-> AbsDue[m]] /\ AbsDue' = [m \in Node |-> AbsDue'[m]]
      BY <3>3 DEF AbsDue
    <3> QED
      BY <1>3, <3>6, <3>7
  <2>8. AbsByKey' = [AbsByKey EXCEPT ![KeyOf[n]] = <<n>> \o @]
    <3>0. /\ AbsByKey = [q \in Key |-> Sift(Chain(Hashed(q)), Seen(q))]
          /\ \A q \in Key : Hashed(q) \in BucketIndex /\ BucketOf(q) = BucketRoot(Hashed(q))
          /\ AbsByKey' = [q \in Key |-> Sift(Chain(Hashed(q))', Seen(q)')]
          /\ KeyOf[n] \in Key
      <4>1. ByKeyMatch
        BY ByKeyIs
      <4>2. ByKeyMatch'
        BY ByKeyIs, PTL
      <4> QED
        BY <4>1, <4>2, ByKeyIs, LRUHashAssumption DEF ByKeyMatch, Hashed
    <3>1. Hashed(KeyOf[n]) = k
      BY <2>1, <3>0 DEF BucketRoot
    <3>2. ASSUME NEW q \in Key
          PROVE  Sift(Chain(Hashed(q))', Seen(q)') = IF q = KeyOf[n] THEN <<n>> \o AbsByKey[q]
                                                     ELSE AbsByKey[q]
      <4> DEFINE b == Hashed(q)  S == Seen(q)  T == Seen(q)'  w == Chain(Hashed(q))
                 v == Chain(Hashed(q))'
      <4>1. /\ b \in BucketIndex /\ AbsByKey[q] = Sift(w, S)
            /\ v = IF b = k THEN <<n>> \o w ELSE w
        BY <2>1, <3>0
      <4>2. w \in Seq(Node) /\ NodesOf(w) = InChain(b)
        BY <4>1, ChainIs
      <4>3. n \notin S /\ T = IF q = KeyOf[n] THEN S \union {n} ELSE S
        BY <2>5 DEF Seen
      <4>4. \A j \in DOMAIN w : w[j] # n
        <5>1. n \notin InChain(b)
          BY <1>1, AtFacts DEF InChain
        <5>2. DOMAIN w = 1..Len(w)
          BY <4>2
        <5> HIDE DEF w
        <5> QED
          BY <4>2, <5>1, <5>2 DEF NodesOf
      <4>5. q = KeyOf[n] => b = k
        BY <3>1
      <4> HIDE DEF b, S, T, w, v
      <4>6. Sift(w, T) = Sift(w, S)
        <5>1. \A j \in DOMAIN w : w[j] \in T <=> w[j] \in S
          BY <4>3, <4>4
        <5> QED
          BY <4>2, <5>1, SiftAgree
      <4>7. Sift(<<n>> \o w, T) = IF n \in T THEN <<n>> \o Sift(w, T) ELSE Sift(w, T)
        BY <4>2, SiftPrepend
      <4>8. Sift(v, T) = IF q = KeyOf[n] THEN <<n>> \o Sift(w, S) ELSE Sift(w, S)
        <5>1. CASE q = KeyOf[n]
          BY <4>1, <4>3, <4>5, <4>6, <4>7, <5>1
        <5>2. CASE q # KeyOf[n]
          BY <4>1, <4>3, <4>6, <4>7, <5>2
        <5> QED
          BY <5>1, <5>2
      <4> QED
        BY <4>1, <4>8 DEF v, T
    <3> QED
      BY <3>0, <3>2
  <2> QED
    BY <1>3, <1>5, <2>3, <2>6, <2>7, <2>8
    DEF Table!Put, Table!Held, Table!NotIn, Table!Accepted, Accepted
<1> QED
  BY <1>4, <1>5

(* get() answers with the first node of its key in the chain.              *)
LEMMA GetImplements ==
  ASSUME PointerInv, Lists, Chains, NEW k \in Key, Get(k)
  PROVE  Table!Get(k)
<1>1. /\ pc = "idle" /\ UNCHANGED <<pointers, currTick, loop, at>>
      /\ pc' = pc /\ i' = i /\ ticks' = ticks /\ currTick' = currTick /\ at' = at
      /\ next' = next
  BY DEF Get, loop, pointers
<1>2. PICK n : Search(k, n) /\ ret' = n
  BY DEF Get
<1>3. \A s : TicksTo(s)' = TicksTo(s)
  BY <1>1 DEF TicksTo
<1>4. \A m : Standing(m)' <=> Standing(m)
  BY <1>1, <1>3 DEF Standing, Doomed
<1>5. AbsDue' = AbsDue /\ AbsExpired' = AbsExpired /\ AbsNow' = AbsNow /\ AbsByKey' = AbsByKey
  BY <1>1, <1>3, <1>4 DEF AbsDue, AbsExpired, AbsNow, AbsByKey
<1>6. ret' = IF AbsByKey[k] = <<>> THEN Null ELSE Head(AbsByKey[k])
  <2> DEFINE w == Chain(Hashed(k))
             S == Seen(k)
             T == {m \in Node : Hash[KeyOf[m]] = Hash[k] /\ KeyOf[m] = k}
  <2>1. AbsByKey[k] = Sift(w, S) /\ Hashed(k) \in BucketIndex /\ Walk(next, BucketOf(k)) = w
    BY ByKeyIs DEF ByKeyMatch, Chain
  <2>2. ret' = IF Sift(w, T) = <<>> THEN Null ELSE Head(Sift(w, T))
    BY <1>2, <2>1 DEF Search
  <2>3. w \in Seq(Node) /\ NodesOf(w) = InChain(Hashed(k))
    BY <2>1, ChainIs
  <2> HIDE DEF w
  <2>4. ASSUME NEW j \in DOMAIN w PROVE w[j] \in S <=> w[j] \in T
    <3>1. w[j] \in InChain(Hashed(k))
      <4>1. j \in 1..Len(w)
        BY <2>3
      <4> QED
        BY <2>3, <4>1 DEF NodesOf
    <3>2. w[j] \in Node /\ at[w[j]] \in SlotIndex
      BY <3>1 DEF InChain
    <3>3. Standing(w[j])
      BY <1>1, <3>2, IdleStands
    <3> QED
      BY <3>2, <3>3 DEF Seen
  <2>5. Sift(w, S) = Sift(w, T)
    <3> HIDE DEF S, T
    <3> QED
      BY <2>3, <2>4, SiftAgree
  <2> QED
    BY <2>1, <2>2, <2>5
<1> QED
  BY <1>5, <1>6 DEF Table!Get

(* pop() hands out a node that expired, or NULL if there is none.          *)
LEMMA PopImplements ==
  ASSUME PointerInv, Lists, Chains, Pop
  PROVE  Table!Pop
<1>1. /\ pc = "idle" /\ TypeOK /\ ret' = link[ExpRoot]
      /\ pc' = pc /\ i' = i /\ ticks' = ticks /\ currTick' = currTick /\ next' = next
      /\ link' = PopLink(link, ExpRoot)
      /\ at' = [n \in Node |-> IF n = link[ExpRoot] THEN Caller ELSE at[n]]
  BY DEF Pop, loop, PointerInv
<1>2. AbsExpired = {n \in Node : at[n] = Expired}
  BY <1>1, IdleView
<1>3. \A m \in Node : (Standing(m) <=> at[m] \in SlotIndex) /\ (Standing(m)' <=> at'[m] \in SlotIndex)
  BY <1>1 DEF Standing, Doomed
<1>4. ASSUME \A m \in Node : at'[m] = at[m] \/ (at[m] = Expired /\ at'[m] = Caller)
      PROVE  AbsNow' = AbsNow /\ AbsByKey' = AbsByKey /\ AbsDue' = AbsDue
  <2>1. \A m \in Node : Standing(m)' <=> Standing(m)
    BY <1>3, <1>4, AtFacts
  <2>2. \A m \in Node : Standing(m) => at'[m] = at[m]
    BY <1>3, <1>4, AtFacts
  <2>3. \A s : TicksTo(s)' = TicksTo(s)
    BY <1>1 DEF TicksTo
  <2>4. AbsDue' = [m \in Node |-> IF Standing(m)' THEN currTick' + TicksTo(at[m])' ELSE -1]
    BY DEF AbsDue
  <2>5. \A m \in Node : Standing(m) => TicksTo(at[m])' = TicksTo(at[m])
    BY <1>1, <2>2 DEF TicksTo
  <2>6. AbsDue' = AbsDue
    BY <1>1, <2>1, <2>4, <2>5 DEF AbsDue
  <2>7. AbsByKey' = [k \in Key |-> Sift(Walk(next', BucketOf(k)), {m \in Node : KeyOf[m] = k /\ Standing(m)'})]
    BY DEF AbsByKey, BucketOf
  <2>8. AbsByKey' = AbsByKey
    BY <1>1, <2>1, <2>7 DEF AbsByKey
  <2> QED
    BY <1>1, <2>6, <2>8 DEF AbsNow
<1>5. CASE link[ExpRoot] = Null
  <2>1. \A m \in Node : at'[m] = at[m]
    BY <1>1, <1>5, CellFacts
  <2>2. InSlot(Expired) = {}
    BY <1>5, CellFacts, HangsNull DEF Lists
  <2>3. AbsExpired = {}
    BY <1>2, <2>2 DEF InSlot
  <2>4. AbsExpired' = AbsExpired
    BY <1>3, <2>1 DEF AbsExpired
  <2> QED
    BY <1>1, <1>4, <1>5, <2>1, <2>3, <2>4 DEF Table!Pop
<1>6. CASE link[ExpRoot] # Null
  <2> DEFINE n == link[ExpRoot]
  <2>1. n \in Node /\ at[n] = Expired /\ at' = [at EXCEPT ![n] = Caller]
    BY <1>6, PopStep
  <2> HIDE DEF n
  <2>2. \A m \in Node : at'[m] = IF m = n THEN Caller ELSE at[m]
    BY <1>1, <2>1 DEF TypeOK
  <2>3. AbsExpired' = AbsExpired \ {n}
    BY <1>3, <2>1, <2>2, AtFacts DEF AbsExpired
  <2>4. n \in AbsExpired
    BY <1>2, <2>1
  <2>5. ret' = n
    BY <1>1 DEF n
  <2> QED
    BY <1>4, <2>1, <2>2, <2>3, <2>4, <2>5 DEF Table!Pop
<1> QED
  BY <1>5, <1>6

(* The abstract table sifts as the detailed one does.                      *)
LEMMA TableSift == ASSUME NEW s, NEW S PROVE Table!Sift(s, S) = Sift(s, S)
BY DEF Sift, Table!Sift

(* The call that begins to expire the nodes of S shows a table without     *)
(* them.                                                                   *)
LEMMA CallExpires ==
  ASSUME TypeOK, Chains, pc = "idle", NEW S \in SUBSET Node,
         next' = next, at' = at, currTick' = currTick,
         \A m \in Node : m \in S => at[m] \in SlotIndex,
         \A m \in Node : Standing(m)' <=> Standing(m) /\ m \notin S
  PROVE  Table!Expire(S)
<1>1. \A m \in Node : TicksTo(at[m])' = TicksTo(at[m])
  BY DEF TicksTo
<1>2. AbsDue' = [n \in Node |-> IF n \in S THEN -1 ELSE AbsDue[n]]
  <2>1. AbsDue' = [m \in Node |-> IF Standing(m)' THEN currTick' + TicksTo(at[m])' ELSE -1]
    BY DEF AbsDue
  <2> QED
    BY <1>1, <2>1 DEF AbsDue
<1>3. AbsExpired' = AbsExpired \union S
  <2>1. \A m \in Node : m \in S => at[m] # Caller
    BY AtFacts
  <2> QED
    BY <2>1 DEF AbsExpired
<1>4. AbsByKey' = [k \in Key |-> Sift(AbsByKey[k], Node \ S)]
  <2>1. AbsByKey' = [k \in Key |-> Sift(Walk(next', BucketOf(k)), {m \in Node : KeyOf[m] = k /\ Standing(m)'})]
    BY DEF AbsByKey, BucketOf
  <2>2. ASSUME NEW k \in Key
        PROVE  Sift(Walk(next', BucketOf(k)), {m \in Node : KeyOf[m] = k /\ Standing(m)'})
                 = Sift(AbsByKey[k], Node \ S)
    <3> DEFINE w == Chain(Hashed(k))  A == Seen(k)  B == Node \ S
    <3>1. AbsByKey[k] = Sift(w, A) /\ Hashed(k) \in BucketIndex /\ Walk(next, BucketOf(k)) = w
      BY ByKeyIs DEF ByKeyMatch, Chain
    <3>2. w \in Seq(Node)
      BY <3>1, ChainIs
    <3>3. {m \in Node : KeyOf[m] = k /\ Standing(m)'} = A \intersect B
      BY DEF Seen
    <3> HIDE DEF w, A, B
    <3>4. Sift(Sift(w, A), B) = Sift(w, A \intersect B)
      BY <3>2, SiftTwice
    <3>5. Walk(next', BucketOf(k)) = w
      BY <3>1
    <3> QED
      BY <3>1, <3>3, <3>4, <3>5 DEF B
  <2> QED
    BY <2>1, <2>2
<1> QED
  BY <1>2, <1>3, <1>4, TableSift DEF Table!Expire, Table!NotIn

(* prog() expires what is due before the ticks have passed.                *)
LEMMA ProgImplements ==
  ASSUME PointerInv, Lists, Chains, NEW t \in Nat, CallProg(t)
  PROVE  Table!Prog(t)
<1>1. /\ pc = "idle" /\ TypeOK /\ currTick + t <= MaxNow /\ ret' = Void
      /\ pc' = "prog" /\ i' = 0 /\ ticks' = t
      /\ currTick' = currTick /\ next' = next /\ at' = at
  BY DEF CallProg, pointers, PointerInv
<1>2. AbsNow = currTick /\ AbsNow' = AbsNow + t
  BY <1>1 DEF AbsNow
<1> DEFINE S == {n \in Table!Live : AbsDue[n] < AbsNow + t}
<1>3. \A n \in Node : n \in S <=> at[n] \in SlotIndex /\ TicksTo(at[n]) < t
  <2> SUFFICES ASSUME NEW n \in Node
               PROVE  n \in S <=> at[n] \in SlotIndex /\ TicksTo(at[n]) < t
    OBVIOUS
  <2>1. CASE at[n] \in SlotIndex
    <3> DEFINE d == Dist(currTick, at[n])
    <3>1. d \in Nat /\ TicksTo(at[n]) = d
      BY <1>1, <2>1, DistIs, TicksAre DEF TypeOK, SlotIndex, TicksIs
    <3>2. AbsDue[n] = currTick + d
      BY <1>1, <2>1, IdleView
    <3> HIDE DEF d
    <3>3. currTick \in Nat
      BY <1>1 DEF TypeOK
    <3>4. n \in S <=> currTick + d # -1 /\ currTick + d < currTick + t
      BY <1>2, <3>2 DEF Table!Live, Table!NotIn
    <3> QED
      BY <2>1, <3>1, <3>3, <3>4
  <2>2. CASE at[n] \notin SlotIndex
    <3>1. AbsDue[n] = -1
      BY <1>1, <2>2, IdleView
    <3> QED
      BY <2>2, <3>1 DEF Table!Live, Table!NotIn
  <2> QED
    BY <2>1, <2>2
<1>4. S \in SUBSET Node
  BY DEF Table!Live
<1> HIDE DEF S
<1>5. \A s : TicksTo(s)' = TicksTo(s)
  BY <1>1 DEF TicksTo
<1>6. \A m \in Node : Standing(m)' <=> Standing(m) /\ m \notin S
  <2>1. \A m \in Node : Standing(m) <=> at[m] \in SlotIndex
    BY <1>1, IdleStands
  <2>2. \A m \in Node : Standing(m)' <=> at[m] \in SlotIndex /\ ~(TicksTo(at[m]) < t)
    BY <1>1, <1>5 DEF Standing, Doomed
  <2> QED
    BY <1>3, <2>1, <2>2
<1>7. Table!Expire(S)
  BY <1>1, <1>3, <1>4, <1>6, CallExpires
<1>8. ret' = Table!Void
  BY <1>1 DEF Void, Table!Void
<1> QED
  BY <1>1, <1>2, <1>7, <1>8 DEF Table!Prog, S

(* purge() expires all there is.                                           *)
LEMMA PurgeImplements ==
  ASSUME PointerInv, Lists, Chains, CallPurge
  PROVE  Table!Purge
<1>1. /\ pc = "idle" /\ TypeOK /\ ret' = Void
      /\ pc' = "purge" /\ i' = 0
      /\ currTick' = currTick /\ next' = next /\ at' = at
  BY DEF CallPurge, pointers, PointerInv
<1>2. AbsNow = currTick /\ AbsNow' = AbsNow
  BY <1>1 DEF AbsNow
<1> DEFINE S == Table!Live
<1>3. \A n \in Node : n \in S <=> at[n] \in SlotIndex
  <2>1. ASSUME NEW n \in Node, at[n] \in SlotIndex PROVE AbsDue[n] # -1
    <3> DEFINE d == Dist(currTick, at[n])
    <3>0. currTick \in Nat /\ SlotIndex \subseteq Nat
      BY <1>1 DEF TypeOK, SlotIndex
    <3>1. d \in Nat
      BY <2>1, <3>0, DistIs
    <3>2. AbsDue[n] = currTick + d
      BY <1>1, <2>1, IdleView
    <3> HIDE DEF d
    <3>3. currTick \in Nat
      BY <1>1 DEF TypeOK
    <3> QED
      BY <3>1, <3>2, <3>3
  <2>2. \A n \in Node : at[n] \notin SlotIndex => AbsDue[n] = -1
    BY <1>1, IdleView
  <2> QED
    BY <2>1, <2>2 DEF Table!Live, Table!NotIn
<1>4. S \in SUBSET Node
  BY DEF Table!Live
<1> HIDE DEF S
<1>5. \A m \in Node : Standing(m)' <=> Standing(m) /\ m \notin S
  <2>1. \A m \in Node : Standing(m) <=> at[m] \in SlotIndex
    BY <1>1, IdleStands
  <2>2. \A m \in Node : ~Standing(m)'
    BY <1>1 DEF Standing, Doomed
  <2> QED
    BY <1>3, <2>1, <2>2
<1>6. Table!Expire(S)
  BY <1>1, <1>3, <1>4, <1>5, CallExpires
<1>7. ret' = Table!Void
  BY <1>1 DEF Void, Table!Void
<1> QED
  BY <1>2, <1>6, <1>7 DEF Table!Purge, S

(* The slot a loop looks at is one whose nodes count as expired already.   *)
LEMMA VisitedIsDoomed ==
  ASSUME TypeOK, pc # "idle", i < Rounds
  PROVE  Visited \in Doomed
<1>1. Visited \in SlotIndex
  BY VisitedIsSlot
<1>2. CASE pc = "prog"
  <2>1. currTick \in Nat /\ i \in Nat /\ ticks \in Nat /\ i < ticks /\ Visited = (currTick + i) % Slots
    BY <1>2 DEF TypeOK, Rounds, Visited
  <2> DEFINE d == Dist(currTick, Visited)
  <2>2. d <= i
    BY <2>1, DistPassed
  <2>3. d \in SlotIndex /\ SlotIndex \subseteq Nat /\ TicksTo(Visited) = d
    BY <1>1, <2>1, DistIs, TicksAre DEF TicksIs, SlotIndex
  <2> HIDE DEF d
  <2>4. d \in Nat /\ d < ticks
    BY <2>1, <2>2, <2>3
  <2> QED
    BY <1>1, <1>2, <2>3, <2>4 DEF Doomed
<1>3. CASE pc = "purge"
  BY <1>1, <1>3 DEF Doomed
<1> QED
  BY <1>2, <1>3 DEF TypeOK

(* Moving a node to exp_node_ changes nothing that a caller sees.          *)
LEMMA ExpireStutters ==
  ASSUME PointerInv, Lists, Chains, ExpireNode
  PROVE  UNCHANGED AbsVars
<1>1. PICK n \in Node :
           /\ at[n] = Visited /\ at' = [at EXCEPT ![n] = Expired]
           /\ UNCHANGED <<currTick, loop, ret>>
           /\ \A b \in BucketIndex :
                \/ Chain(b)' = Chain(b)
                \/ \E s, t \in Seq(Node) : Chain(b) = s \o (<<n>> \o t) /\ Chain(b)' = s \o t
  BY ExpireStep
<1>2. /\ TypeOK /\ pc' = pc /\ ticks' = ticks /\ currTick' = currTick /\ ret' = ret
  BY <1>1 DEF loop, PointerInv
<1>3. at[n] \in Doomed
  BY <1>1, <1>2, VisitedIsDoomed DEF ExpireNode
<1>4. \A m \in Node : at'[m] = IF m = n THEN Expired ELSE at[m]
  BY <1>1, <1>2 DEF TypeOK
<1>5. \A s : TicksTo(s)' = TicksTo(s)
  BY <1>2 DEF TicksTo
<1>6. Doomed' = Doomed
  BY <1>2, <1>5 DEF Doomed
<1>7. ~Standing(n) /\ at[n] # Caller
  BY <1>3, AtFacts DEF Standing, Doomed
<1>8. \A m \in Node : Standing(m)' <=> Standing(m)
  BY <1>4, <1>6, <1>7, AtFacts DEF Standing
<1>9. AbsByKey' = AbsByKey
  BY <1>1, <1>7, <1>8, ByKeyKept
<1>10. AbsExpired' = AbsExpired
  BY <1>4, <1>7, <1>8, AtFacts DEF AbsExpired
<1>11. AbsDue' = AbsDue
  <2>1. AbsDue' = [m \in Node |-> IF Standing(m)' THEN currTick' + TicksTo(at[m])' ELSE -1]
    BY DEF AbsDue
  <2>2. \A m \in Node : m # n => TicksTo(at[m])' = TicksTo(at[m])
    BY <1>2, <1>4 DEF TicksTo
  <2> QED
    BY <1>2, <1>7, <1>8, <2>1, <2>2 DEF AbsDue
<1> QED
  BY <1>2, <1>9, <1>10, <1>11 DEF AbsVars, AbsNow

(* Nor does going on to the next slot.                                     *)
LEMMA NextSlotStutters ==
  ASSUME NextSlot
  PROVE  UNCHANGED AbsVars
<1>1. /\ next' = next /\ at' = at
      /\ pc' = pc /\ ticks' = ticks /\ currTick' = currTick /\ ret' = ret
  BY DEF NextSlot, pointers
<1>2. \A s : TicksTo(s)' = TicksTo(s)
  BY <1>1 DEF TicksTo
<1>3. \A m : Standing(m)' <=> Standing(m)
  BY <1>1, <1>2 DEF Standing, Doomed
<1>4. AbsByKey' = AbsByKey
  BY <1>1, <1>3 DEF AbsByKey
<1> QED
  BY <1>1, <1>2, <1>3, <1>4 DEF AbsVars, AbsNow, AbsDue, AbsExpired

(* When the loop returns, the clock has reached what the call announced,   *)
(* and no node it should have moved is left.                               *)
LEMMA ReturnStutters ==
  ASSUME PointerInv, Chains, VisitedEmpty, Return
  PROVE  UNCHANGED AbsVars
<1>1. /\ TypeOK /\ pc # "idle" /\ i = Rounds /\ next' = next /\ at' = at /\ ret' = ret
      /\ currTick' = IF pc = "prog" THEN currTick + ticks ELSE currTick
      /\ pc' = "idle"
  BY DEF Return, pointers, PointerInv
<1>2. AbsNow' = AbsNow
  BY <1>1 DEF AbsNow
<1>3. currTick \in Nat /\ ticks \in Nat /\ Slots \in Nat \ {0} /\ SlotIndex = 0..(Slots - 1)
  BY <1>1, LRUHashAssumption DEF TypeOK, SlotIndex
<1>4. \A m \in Node : Standing(m)' <=> at[m] \in SlotIndex
  BY <1>1 DEF Standing, Doomed
<1>5. ASSUME NEW m \in Node, at[m] \in SlotIndex
      PROVE  Standing(m) /\ currTick' + TicksTo(at[m])' = currTick + TicksTo(at[m])
  <2> DEFINE d == Dist(currTick, at[m])
  <2>1. d \in SlotIndex /\ (currTick + d) % Slots = at[m] /\ TicksTo(at[m]) = d
    BY <1>3, <1>5, DistIs, TicksAre DEF TicksIs
  <2>2. CASE pc = "prog"
    <3>1. i = ticks
      BY <1>1, <2>2 DEF Rounds
    <3>2. \A j \in 0..(ticks - 1) : at[m] # (currTick + j) % Slots
      BY <2>2, <3>1 DEF VisitedEmpty
    <3>3. ~(d < ticks)
      <4> SUFFICES ASSUME d < ticks PROVE FALSE
        OBVIOUS
      <4>1. d \in 0..(ticks - 1)
        <5> HIDE DEF d
        <5> QED
          BY <1>3, <2>1
      <4> QED
        BY <2>1, <3>2, <4>1
    <3>4. Standing(m)
      BY <1>5, <2>1, <2>2, <3>3 DEF Standing, Doomed
    <3>5. TicksTo(at[m])' = Dist(currTick', at[m])
      BY <1>1 DEF TicksTo, Dist
    <3>6. ticks <= d
      <4> HIDE DEF d
      <4> QED
        BY <1>3, <2>1, <3>3
    <3>7. Dist(currTick + ticks, at[m]) = d - ticks
      BY <1>3, <1>5, <3>6, DistNearer
    <3>8. TicksTo(at[m])' = d - ticks /\ currTick' = currTick + ticks
      BY <1>1, <2>2, <3>5, <3>7
    <3> HIDE DEF d
    <3>9. d \in Nat
      BY <1>3, <2>1
    <3> QED
      BY <1>3, <2>1, <3>4, <3>8, <3>9
  <2>3. CASE pc = "purge"
    <3>1. i = Slots
      BY <1>1, <2>3 DEF Rounds
    <3>2. at[m] \in 0..(i - 1)
      BY <1>3, <1>5, <3>1
    <3> QED
      BY <2>3, <3>2 DEF VisitedEmpty
  <2> QED
    BY <1>1, <2>2, <2>3 DEF TypeOK
<1>6. \A m \in Node : Standing(m)' <=> Standing(m)
  BY <1>4, <1>5 DEF Standing
<1>7. AbsDue' = AbsDue
  <2>1. AbsDue' = [m \in Node |-> IF Standing(m)' THEN currTick' + TicksTo(at[m])' ELSE -1]
    BY DEF AbsDue
  <2> QED
    BY <1>5, <1>6, <2>1 DEF AbsDue, Standing
<1>8. AbsExpired' = AbsExpired
  BY <1>1, <1>6 DEF AbsExpired
<1>9. AbsByKey' = AbsByKey
  BY <1>1, <1>6 DEF AbsByKey
<1> QED
  BY <1>1, <1>2, <1>7, <1>8, <1>9 DEF AbsVars

(* The constructed table maps to the empty one.                            *)
LEMMA InitImplements == Init => Table!Init
<1> SUFFICES ASSUME Init PROVE Table!Init
  OBVIOUS
<1>1. TableInv
  BY TableInvInit
<1>2. TypeOK /\ Chains /\ pc = "idle" /\ currTick = 0 /\ ret = Void /\ \A n \in Node : at[n] = Caller
  BY <1>1, ListsIn DEF TableInv, PointerInv, Init
<1>3. \A n \in Node : ~Standing(n)
  BY <1>2, AtFacts, IdleStands
<1>4. AbsNow = 0 /\ AbsExpired = {} /\ AbsDue = [n \in Node |-> -1]
  BY <1>2, <1>3 DEF AbsNow, AbsExpired, AbsDue
<1>5. AbsByKey = [k \in Key |-> <<>>]
  <2>1. ASSUME NEW k \in Key PROVE Sift(Chain(Hashed(k)), Seen(k)) = <<>>
    <3> DEFINE b == Hashed(k)
    <3>1. b \in BucketIndex
      BY ByKeyIs
    <3>2. next[BucketRoot(b)] = Null /\ BucketRoot(b) \in Cell
      BY <3>1, CellFacts DEF Init
    <3> HIDE DEF b
    <3>3. Walk(next, BucketRoot(b)) = <<>>
      BY <3>2, HangsEmpty, PathIsWalk
    <3> QED
      BY <3>3, SiftEmpty DEF b, Chain
  <2> QED
    BY <2>1, ByKeyIs DEF ByKeyMatch
<1> QED
  BY <1>2, <1>4, <1>5 DEF Table!Init, Table!NotIn, Table!Void, Void

(* Every call maps to the table's call, every turn of a loop to a stutter. *)
LEMMA StepImplements == TableInv /\ [Next]_vars => [Table!Next]_AbsVars
<1> SUFFICES ASSUME TableInv, [Next]_vars PROVE [Table!Next]_AbsVars
  OBVIOUS
<1>1. PointerInv /\ VisitedEmpty /\ Lists /\ Chains
  BY ListsIn DEF TableInv
<1>2. ASSUME NEW n \in Node, NEW ttl \in Ttls, Put(n, ttl) PROVE Table!Next
  <2>1. ttl \in Nat
    BY LRUHashAssumption
  <2> QED
    BY <1>1, <1>2, <2>1, PutImplements DEF Table!Next
<1>3. ASSUME NEW k \in Key, Get(k) PROVE Table!Next
  BY <1>1, <1>3, GetImplements DEF Table!Next
<1>4. ASSUME Pop PROVE Table!Next
  BY <1>1, <1>4, PopImplements DEF Table!Next
<1>5. ASSUME NEW t \in Ticks, CallProg(t) PROVE Table!Next
  <2>1. t \in Nat
    BY LRUHashAssumption
  <2> QED
    BY <1>1, <1>5, <2>1, ProgImplements DEF Table!Next
<1>6. ASSUME CallPurge PROVE Table!Next
  BY <1>1, <1>6, PurgeImplements DEF Table!Next
<1>7. LoopStep => UNCHANGED AbsVars
  BY <1>1, ExpireStutters, NextSlotStutters, ReturnStutters DEF LoopStep
<1>8. CASE UNCHANGED vars
  BY <1>8 DEF vars, AbsVars, AbsNow, AbsByKey, AbsDue, AbsExpired, Standing, Doomed, TicksTo
<1> QED
  BY <1>2, <1>3, <1>4, <1>5, <1>6, <1>7, <1>8 DEF Next

(* LRUHash keeps the table's promise for every number of slots and buckets *)
(* and every set of nodes: a node expires with the first prog() past its   *)
(* deadline, pop() returns it once, get() finds the node put last.         *)
THEOREM LRUHashImplementsTable == Spec => ImplementsTable
<1>1. Init => Table!Init
  BY InitImplements
<1>2. TableInv /\ [Next]_vars => [Table!Next]_(Table!vars)
  BY StepImplements DEF Table!vars, AbsVars
<1> QED
  BY <1>1, <1>2, TableSound, PTL DEF Spec, ImplementsTable, Table!Spec

=============================================================================
