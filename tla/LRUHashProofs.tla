--------------------------- MODULE LRUHashProofs ----------------------------
(***************************************************************************)
(* What holds of LRUHash for every table size, set of nodes and keys: its  *)
(* types, the two-way linkage of the bucket chains, and that no pointer of *)
(* the table leads to a node its user owns and may delete.                 *)
(***************************************************************************)
EXTENDS LRUHash, TLAPS

USE DEF Caller, Expired

(* The root cells are no nodes, differ from each other, and each is the    *)
(* root of the list it is named for.                                       *)
LEMMA RootFacts ==
  /\ \A s \in SlotIndex : SlotRoot(s) \in Root /\ SlotRoot(s) \notin Node
  /\ \A b \in BucketIndex : BucketRoot(b) \in Root /\ BucketRoot(b) \notin Node
  /\ ExpRoot \in Root /\ ExpRoot \notin Node
  /\ \A s, t \in SlotIndex : SlotRoot(s) = SlotRoot(t) => s = t
  /\ \A s \in SlotIndex, b \in BucketIndex : SlotRoot(s) # BucketRoot(b)
  /\ \A s \in SlotIndex : SlotRoot(s) # ExpRoot
  /\ \A b \in BucketIndex : BucketRoot(b) # ExpRoot
<1>1. \A s, t \in SlotIndex : SlotRoot(s) = SlotRoot(t) => s = t
  BY SMT DEF SlotRoot
<1>2. \A s \in SlotIndex, b \in BucketIndex : SlotRoot(s) # BucketRoot(b)
  BY SMT DEF SlotRoot, BucketRoot
<1>3. \A s \in SlotIndex : SlotRoot(s) # ExpRoot
  BY SMT DEF SlotRoot, ExpRoot
<1>4. \A b \in BucketIndex : BucketRoot(b) # ExpRoot
  BY SMT DEF BucketRoot, ExpRoot
<1>5. /\ \A s \in SlotIndex : SlotRoot(s) \in Root
      /\ \A b \in BucketIndex : BucketRoot(b) \in Root
      /\ ExpRoot \in Root
  BY DEF Root
<1>6. \A r \in Root : r \notin Node
  BY LRUHashAssumption
<1> QED
  BY <1>1, <1>2, <1>3, <1>4, <1>5, <1>6

(* A remainder is a valid index.                                           *)
LEMMA RemainderIsIndex ==
  ASSUME NEW a \in Nat, NEW b \in Nat \ {0}
  PROVE  a % b \in 0..(b - 1)
BY SMT

(* The list each root stands for.                                          *)
LEMMA RootListFacts ==
  /\ RootList(ExpRoot) = Expired
  /\ \A s \in SlotIndex : RootList(SlotRoot(s)) = s
  /\ \A b \in BucketIndex : RootList(BucketRoot(b)) = Caller
BY RootFacts DEF RootList

(* The pointers of the table's cells and the nodes they belong to.         *)
LEMMA InitEstablishes == Init => PointerInv
<1> SUFFICES ASSUME Init PROVE PointerInv
  OBVIOUS
<1>1. TypeOK
  BY DEF Init, TypeOK, Void
<1>2. ChainsLinked
  BY DEF Init, ChainsLinked, Cell
<1>3. ChainedIffSlotted
  BY DEF Init, ChainedIffSlotted, Cell, SlotIndex
<1>4. LinksStayInList
  BY RootFacts DEF Init, LinksStayInList, Cell
<1> QED
  BY <1>1, <1>2, <1>3, <1>4 DEF PointerInv

(* attach() hooks a node of no chain behind a bucket's root.               *)
LEMMA AttachKeepsLinkage ==
  ASSUME PointerInv, NEW b \in BucketIndex, NEW n \in Node, NEW s \in SlotIndex,
         at[n] = Caller, Attach(BucketRoot(b), n), at' = [at EXCEPT ![n] = s]
  PROVE  /\ next' \in [Cell -> Node \union {Null}]
         /\ prev' \in [Cell -> Cell \union {Null}]
         /\ ChainsLinked'
         /\ ChainedIffSlotted'
<1> DEFINE a == BucketRoot(b)
<1>1. /\ a \in Root /\ a \in Cell /\ a # n /\ n \in Cell
      /\ Null \notin Cell
      /\ \A m \in Node : m \in Cell /\ m \notin Root
  BY RootFacts, LRUHashAssumption DEF Cell
<1>2. /\ next \in [Cell -> Node \union {Null}]
      /\ prev \in [Cell -> Cell \union {Null}]
      /\ at \in [Node -> SlotIndex \union {Caller, Expired}]
  BY DEF PointerInv, TypeOK
<1>3. next[n] = Null /\ prev[n] = Null /\ next[a] # n /\ prev[a] = Null
  BY <1>1, <1>2 DEF PointerInv, ChainedIffSlotted, ChainsLinked, SlotIndex
<1> HIDE DEF a
<1>4. /\ next' = [next EXCEPT ![n] = next[a], ![a] = n]
      /\ prev' = [c \in Cell |-> IF c = n THEN a
                                 ELSE IF c = next[a] THEN n ELSE prev[c]]
  BY DEF Attach, a
<1>5. /\ next' \in [Cell -> Node \union {Null}]
      /\ prev' \in [Cell -> Cell \union {Null}]
  BY <1>1, <1>2, <1>4
<1>6. \A c \in Cell : next'[c] = IF c = a THEN n ELSE IF c = n THEN next[a] ELSE next[c]
  BY <1>1, <1>2, <1>4
<1>7. ChainsLinked'
  BY <1>1, <1>2, <1>3, <1>4, <1>6 DEF PointerInv, ChainsLinked
<1>8. ChainedIffSlotted'
  BY <1>1, <1>2, <1>3, <1>4, <1>6
  DEF PointerInv, ChainsLinked, ChainedIffSlotted, SlotIndex, Cell
<1> QED
  BY <1>5, <1>7, <1>8

(* detach() unhooks a node from the middle or the end of its chain.        *)
LEMMA DetachKeepsLinkage ==
  ASSUME PointerInv, NEW n \in Node, at[n] \in SlotIndex, Detach(n),
         at' = [at EXCEPT ![n] = Expired]
  PROVE  /\ next' \in [Cell -> Node \union {Null}]
         /\ prev' \in [Cell -> Cell \union {Null}]
         /\ ChainsLinked'
         /\ ChainedIffSlotted'
<1>1. /\ n \in Cell
      /\ Null \notin Cell
      /\ \A m \in Node : m \in Cell /\ m \notin Root
  BY LRUHashAssumption DEF Cell
<1>2. /\ next \in [Cell -> Node \union {Null}]
      /\ prev \in [Cell -> Cell \union {Null}]
      /\ at \in [Node -> SlotIndex \union {Caller, Expired}]
  BY DEF PointerInv, TypeOK
<1>3. prev[n] \in Cell /\ next[prev[n]] = n
  BY <1>1, <1>2 DEF PointerInv, ChainsLinked, ChainedIffSlotted
<1>4. /\ next' = [c \in Cell |-> IF c = n THEN Null
                                 ELSE IF c = prev[n] THEN next[n] ELSE next[c]]
      /\ prev' = [c \in Cell |-> IF c = n THEN Null
                                 ELSE IF c = next[n] THEN prev[n] ELSE prev[c]]
  BY DEF Detach
<1>5. /\ next' \in [Cell -> Node \union {Null}]
      /\ prev' \in [Cell -> Cell \union {Null}]
  BY <1>1, <1>2, <1>4
<1>6. ChainsLinked'
  BY <1>1, <1>2, <1>3, <1>4 DEF PointerInv, ChainsLinked
<1>7. ChainedIffSlotted'
  BY <1>1, <1>2, <1>3, <1>4
  DEF PointerInv, ChainsLinked, ChainedIffSlotted, SlotIndex, Cell
<1> QED
  BY <1>5, <1>6, <1>7

(* Facts on the lists' cells that the three lemmas below share.            *)
LEMMA ListFacts ==
  ASSUME TypeOK
  PROVE  /\ \A n \in Node : n \in Cell /\ n \notin Root /\ ListOf(n) = at[n]
         /\ \A r \in Root : r \in Cell /\ r \notin Node /\ ListOf(r) = RootList(r)
         /\ \A c \in Cell : ListOf(c) \in SlotIndex \union {Caller, Expired}
         /\ \A r, q \in Root : RootList(r) = RootList(q) /\ RootList(r) # Caller => r = q
<1>1. /\ \A n \in Node : n \in Cell /\ n \notin Root /\ ListOf(n) = at[n]
      /\ \A r \in Root : r \in Cell /\ r \notin Node /\ ListOf(r) = RootList(r)
  BY LRUHashAssumption DEF Cell, ListOf
<1>2. \A r \in Root : RootList(r) \in SlotIndex \union {Caller, Expired}
  BY RootListFacts DEF Root
<1>3. \A c \in Cell : ListOf(c) \in SlotIndex \union {Caller, Expired}
  BY <1>1, <1>2 DEF Cell, TypeOK
<1>4. \A r, q \in Root : RootList(r) = RootList(q) /\ RootList(r) # Caller => r = q
  BY RootListFacts DEF Root, SlotIndex
<1> QED
  BY <1>1, <1>3, <1>4

(* push() of a node that is in no list.                                    *)
LEMMA PushKeepsLists ==
  ASSUME PointerInv, NEW n \in Node, NEW s \in SlotIndex, at[n] = Caller,
         link' = PushLink(link, SlotRoot(s), n), at' = [at EXCEPT ![n] = s]
  PROVE  link' \in [Cell -> Node \union {Null}] /\ LinksStayInList'
<1> DEFINE r == SlotRoot(s)
           L(c) == IF c \in Node THEN at'[c] ELSE RootList(c)
<1>1. TypeOK
  BY DEF PointerInv
<1>2. /\ link \in [Cell -> Node \union {Null}]
      /\ at \in [Node -> SlotIndex \union {Caller, Expired}]
  BY <1>1 DEF TypeOK
<1>3. /\ r \in Root /\ r \in Cell /\ r # n /\ n \in Cell /\ Null \notin Cell
      /\ RootList(r) = s /\ s # Caller
      /\ \A b \in BucketIndex :
           BucketRoot(b) \in Cell /\ BucketRoot(b) # r /\ BucketRoot(b) # n
  BY <1>1, ListFacts, RootFacts, RootListFacts, LRUHashAssumption DEF SlotIndex
<1> HIDE DEF r
<1>4. \A c \in Cell : link'[c] = IF c = r THEN n ELSE IF c = n THEN link[r] ELSE link[c]
  BY <1>2, <1>3 DEF PushLink, r
<1>5. \A c \in Cell : L(c) = IF c = n THEN s ELSE ListOf(c)
  BY <1>2, <1>3 DEF ListOf
<1> HIDE DEF L
<1>6. \A c \in Cell : Listed(c) /\ link[c] # Null => link[c] # n
  BY <1>1, <1>2, ListFacts DEF PointerInv, LinksStayInList, Listed
<1>7. ListOf(r) = s /\ ListOf(n) = Caller
  BY <1>1, <1>3, ListFacts
<1>8. link' \in [Cell -> Node \union {Null}]
  BY <1>2, <1>3 DEF PushLink, r
<1>9. \A c \in Cell : L(c) # Caller /\ link'[c] # Null => L(link'[c]) = L(c)
  <2> SUFFICES ASSUME NEW c \in Cell, L(c) # Caller, link'[c] # Null
               PROVE  L(link'[c]) = L(c)
    OBVIOUS
  <2>1. link'[c] \in Cell
    BY <1>8 DEF Cell
  <2>2. CASE c = r
    BY <1>3, <1>4, <1>5, <1>7, <2>2
  <2>3. CASE c = n
    BY <1>3, <1>4, <1>5, <1>6, <1>7, <2>1, <2>3 DEF PointerInv, LinksStayInList, Listed
  <2>4. CASE c # r /\ c # n
    BY <1>3, <1>4, <1>5, <1>6, <2>1, <2>4 DEF PointerInv, LinksStayInList, Listed
  <2> QED
    BY <2>2, <2>3, <2>4
<1>10. \A c, d \in Cell :
         L(c) # Caller /\ L(d) # Caller /\ link'[c] = link'[d] /\ link'[c] # Null => c = d
  BY <1>3, <1>4, <1>5, <1>6, <1>7 DEF PointerInv, LinksStayInList, Listed
<1>11. \A b \in BucketIndex : link'[BucketRoot(b)] = Null
  BY <1>3, <1>4 DEF PointerInv, LinksStayInList
<1> QED
  BY <1>8, <1>9, <1>10, <1>11 DEF LinksStayInList, Listed, ListOf, L

(* pop_link() of the first node of a list, which leaves all lists.         *)
LEMMA PopKeepsLists ==
  ASSUME PointerInv, NEW n \in Node, link[ExpRoot] = n,
         link' = PopLink(link, ExpRoot), at' = [at EXCEPT ![n] = Caller]
  PROVE  link' \in [Cell -> Node \union {Null}] /\ LinksStayInList'
<1> DEFINE r == ExpRoot
           L(c) == IF c \in Node THEN at'[c] ELSE RootList(c)
<1>1. TypeOK
  BY DEF PointerInv
<1>2. /\ link \in [Cell -> Node \union {Null}]
      /\ at \in [Node -> SlotIndex \union {Caller, Expired}]
  BY <1>1 DEF TypeOK
<1>3. /\ r \in Root /\ r \in Cell /\ r # n /\ n \in Cell /\ Null \notin Cell
      /\ ListOf(r) = Expired /\ n # Null
      /\ \A b \in BucketIndex :
           BucketRoot(b) \in Cell /\ BucketRoot(b) # r /\ BucketRoot(b) # n
  BY <1>1, ListFacts, RootFacts, RootListFacts, LRUHashAssumption
<1>4. link[r] = n /\ ListOf(n) = Expired
  BY <1>3 DEF PointerInv, LinksStayInList, Listed
<1> HIDE DEF r
<1>5. \A c \in Cell : link'[c] = IF c = r THEN link[n] ELSE link[c]
  BY <1>2, <1>3, <1>4 DEF PopLink, r
<1>6. \A c \in Cell : L(c) = IF c = n THEN Caller ELSE ListOf(c)
  BY <1>2, <1>3 DEF ListOf
<1> HIDE DEF L
<1>7. \A c \in Cell : Listed(c) /\ link[c] = n => c = r
  BY <1>3, <1>4 DEF PointerInv, LinksStayInList, Listed
<1>8. link' \in [Cell -> Node \union {Null}]
  BY <1>2, <1>3, <1>4 DEF PopLink, r
<1>9. \A c \in Cell : L(c) # Caller /\ link'[c] # Null => L(link'[c]) = L(c)
  <2> SUFFICES ASSUME NEW c \in Cell, L(c) # Caller, link'[c] # Null
               PROVE  L(link'[c]) = L(c)
    OBVIOUS
  <2>1. link'[c] \in Cell /\ c # n
    BY <1>6, <1>8 DEF Cell, Listed
  <2>2. CASE c = r
    <3>1. link'[c] = link[n] /\ link[n] # n
      BY <1>3, <1>4, <1>5, <1>7, <2>2 DEF Listed
    <3> QED
      BY <1>3, <1>4, <1>6, <2>1, <2>2, <3>1 DEF PointerInv, LinksStayInList, Listed
  <2>3. CASE c # r
    BY <1>3, <1>5, <1>6, <1>7, <2>1, <2>3 DEF PointerInv, LinksStayInList, Listed
  <2> QED
    BY <2>2, <2>3
<1>10. \A c, d \in Cell :
         L(c) # Caller /\ L(d) # Caller /\ link'[c] = link'[d] /\ link'[c] # Null => c = d
  BY <1>3, <1>4, <1>5, <1>6, <1>7 DEF PointerInv, LinksStayInList, Listed
<1>11. \A b \in BucketIndex : link'[BucketRoot(b)] = Null
  BY <1>3, <1>5 DEF PointerInv, LinksStayInList
<1> QED
  BY <1>8, <1>9, <1>10, <1>11 DEF LinksStayInList, Listed, ListOf, L

(* The first node of a slot's list moves to the front of exp_node_'s.      *)
LEMMA ExpireKeepsLists ==
  ASSUME PointerInv, NEW n \in Node, NEW s \in SlotIndex, link[SlotRoot(s)] = n,
         link' = PushLink(PopLink(link, SlotRoot(s)), ExpRoot, n),
         at' = [at EXCEPT ![n] = Expired]
  PROVE  link' \in [Cell -> Node \union {Null}] /\ LinksStayInList'
<1> DEFINE r == SlotRoot(s)
           e == ExpRoot
           L(c) == IF c \in Node THEN at'[c] ELSE RootList(c)
<1>1. TypeOK
  BY DEF PointerInv
<1>2. /\ link \in [Cell -> Node \union {Null}]
      /\ at \in [Node -> SlotIndex \union {Caller, Expired}]
  BY <1>1 DEF TypeOK
<1>3. /\ r \in Cell /\ e \in Cell /\ r # e /\ r # n /\ e # n /\ n \in Cell
      /\ Null \notin Cell
      /\ ListOf(r) = s /\ s \notin {Expired, Caller} /\ ListOf(e) = Expired /\ n # Null
      /\ \A b \in BucketIndex : /\ BucketRoot(b) \in Cell
                                /\ BucketRoot(b) \notin {r, e, n}
  BY <1>1, ListFacts, RootFacts, RootListFacts, LRUHashAssumption DEF SlotIndex
<1>4. link[r] = n /\ ListOf(n) = s
  BY <1>3 DEF PointerInv, LinksStayInList, Listed
<1>5. link' = PushLink(PopLink(link, r), e, n)
  OBVIOUS
<1> HIDE DEF r, e
<1>6. \A c \in Cell : link'[c] = IF c = e THEN n ELSE IF c = n THEN link[e]
                                ELSE IF c = r THEN link[n] ELSE link[c]
  BY <1>2, <1>3, <1>4, <1>5 DEF PopLink, PushLink
<1>7. \A c \in Cell : L(c) = IF c = n THEN Expired ELSE ListOf(c)
  BY <1>2, <1>3 DEF ListOf
<1> HIDE DEF L
<1>8. \A c \in Cell : Listed(c) /\ link[c] = n => c = r
  BY <1>3, <1>4 DEF PointerInv, LinksStayInList, Listed
<1>9. link' \in [Cell -> Node \union {Null}]
  <2> DEFINE l == PopLink(link, r)
  <2>1. l = [link EXCEPT ![r] = link[n]]
    BY <1>3, <1>4 DEF PopLink
  <2>2. l \in [Cell -> Node \union {Null}]
    BY <1>2, <1>3, <2>1
  <2>3. link' = [l EXCEPT ![n] = l[e], ![e] = n]
    BY <1>5 DEF PushLink
  <2> HIDE DEF l
  <2> QED
    BY <1>3, <2>2, <2>3
<1>10. \A c \in Cell : L(c) # Caller /\ link'[c] # Null => L(link'[c]) = L(c)
  <2> SUFFICES ASSUME NEW c \in Cell, L(c) # Caller, link'[c] # Null
               PROVE  L(link'[c]) = L(c)
    OBVIOUS
  <2>1. link'[c] \in Cell
    BY <1>9 DEF Cell
  <2>2. CASE c = e
    BY <1>3, <1>6, <1>7, <2>2
  <2>3. CASE c = n
    BY <1>3, <1>4, <1>6, <1>7, <1>8, <2>1, <2>3 DEF PointerInv, LinksStayInList, Listed
  <2>4. CASE c = r
    <3>1. link'[c] = link[n] /\ link[n] # n
      BY <1>3, <1>4, <1>6, <1>8, <2>4 DEF Listed
    <3> QED
      BY <1>3, <1>4, <1>7, <2>1, <2>4, <3>1 DEF PointerInv, LinksStayInList, Listed
  <2>5. CASE c \notin {e, n, r}
    BY <1>3, <1>6, <1>7, <1>8, <2>1, <2>5 DEF PointerInv, LinksStayInList, Listed
  <2> QED
    BY <2>2, <2>3, <2>4, <2>5
<1>11. \A c, d \in Cell :
         L(c) # Caller /\ L(d) # Caller /\ link'[c] = link'[d] /\ link'[c] # Null => c = d
  <2> SUFFICES ASSUME NEW c \in Cell, NEW d \in Cell, L(c) # Caller, L(d) # Caller,
                      link'[c] = link'[d], link'[c] # Null
               PROVE  c = d
    OBVIOUS
  <2>1. Listed(c) /\ Listed(d) /\ Listed(e) /\ Listed(n) /\ Listed(r)
    BY <1>3, <1>4, <1>7 DEF Listed
  <2>2. \A x, y \in Cell : Listed(x) /\ Listed(y) /\ link[x] = link[y] /\ link[x] # Null
                            => x = y
    BY DEF PointerInv, LinksStayInList
  <2> QED
    BY <1>3, <1>4, <1>6, <1>8, <2>1, <2>2
<1>12. \A b \in BucketIndex : link'[BucketRoot(b)] = Null
  BY <1>3, <1>6 DEF PointerInv, LinksStayInList
<1> QED
  BY <1>9, <1>10, <1>11, <1>12 DEF LinksStayInList, Listed, ListOf, L

(* Every step of the table keeps the invariant.                            *)
LEMMA StepKeepsPointerInv == PointerInv /\ [Next]_vars => PointerInv'
<1> SUFFICES ASSUME PointerInv, [Next]_vars PROVE PointerInv'
  OBVIOUS
<1>1. TypeOK /\ ChainsLinked /\ ChainedIffSlotted /\ LinksStayInList
  BY DEF PointerInv
<1>2. ASSUME UNCHANGED <<pointers, at>>, TypeOK'
      PROVE  PointerInv'
  BY <1>1, <1>2
  DEF pointers, PointerInv, ChainsLinked, ChainedIffSlotted, LinksStayInList, Listed, ListOf
<1>3. ASSUME NEW n \in Node, NEW ttl \in Ttls, Put(n, ttl)
      PROVE  PointerInv'
  <2>1. CASE ttl >= Slots
    <3>1. TypeOK'
      BY <1>1, <1>3, <2>1 DEF Put, TypeOK, loop, pointers, Rejected
    <3> QED
      BY <1>2, <1>3, <2>1, <3>1 DEF Put
  <2>2. CASE ~(ttl >= Slots)
    <3> DEFINE s == (ttl + currTick) % Slots
               b == Hash[KeyOf[n]] % Buckets
    <3>1. s \in SlotIndex
      BY <1>1, RemainderIsIndex, LRUHashAssumption DEF TypeOK, SlotIndex
    <3>2. b \in BucketIndex
      BY RemainderIsIndex, LRUHashAssumption DEF BucketIndex
    <3>3. /\ at[n] = Caller
          /\ Attach(BucketRoot(b), n)
          /\ link' = PushLink(link, SlotRoot(s), n)
          /\ at' = [at EXCEPT ![n] = s]
          /\ ret' = Accepted
          /\ UNCHANGED <<currTick, loop>>
      BY <1>3, <2>2 DEF Put, BucketOf
    <3> HIDE DEF s, b
    <3>4. /\ next' \in [Cell -> Node \union {Null}]
          /\ prev' \in [Cell -> Cell \union {Null}]
          /\ ChainsLinked' /\ ChainedIffSlotted'
      BY <3>1, <3>2, <3>3, AttachKeepsLinkage
    <3>5. link' \in [Cell -> Node \union {Null}] /\ LinksStayInList'
      BY <3>1, <3>3, PushKeepsLists
    <3>6. TypeOK'
      BY <1>1, <3>1, <3>3, <3>4, <3>5 DEF TypeOK, loop, Accepted
    <3> QED
      BY <3>4, <3>5, <3>6 DEF PointerInv
  <2> QED
    BY <2>1, <2>2
<1>4. ASSUME NEW k \in Key, Get(k)
      PROVE  PointerInv'
  <2>1. TypeOK'
    BY <1>1, <1>4 DEF Get, TypeOK, pointers, loop
  <2> QED
    BY <1>2, <1>4, <2>1 DEF Get
<1>5. ASSUME Pop
      PROVE  PointerInv'
  <2>0. ExpRoot \in Cell
    BY RootFacts DEF Cell
  <2>1. CASE link[ExpRoot] = Null
    <3>1. link' = link
      BY <1>5, <2>1 DEF Pop, PopLink
    <3>2. at' = at
      BY <1>1, <1>5, <2>1, LRUHashAssumption DEF Pop, TypeOK, Cell
    <3>3. TypeOK'
      BY <1>1, <1>5, <2>1, <3>1, <3>2 DEF Pop, TypeOK, loop
    <3> QED
      BY <1>2, <1>5, <3>1, <3>2, <3>3 DEF Pop, pointers
  <2>2. CASE link[ExpRoot] # Null
    <3> DEFINE n == link[ExpRoot]
    <3>1. n \in Node
      BY <1>1, <2>0, <2>2 DEF TypeOK
    <3>2. at' = [at EXCEPT ![n] = Caller]
      BY <1>1, <1>5 DEF Pop, TypeOK
    <3>3. link' \in [Cell -> Node \union {Null}] /\ LinksStayInList'
      BY <1>5, <3>1, <3>2, PopKeepsLists DEF Pop
    <3>4. TypeOK'
      BY <1>1, <1>5, <3>1, <3>2, <3>3 DEF Pop, TypeOK, loop
    <3>5. at[n] = Expired
      BY <1>1, <2>0, <2>2, <3>1, ListFacts, RootFacts, RootListFacts DEF LinksStayInList, Listed
    <3>6. ChainsLinked'
      BY <1>1, <1>5 DEF Pop, ChainsLinked
    <3>7. ChainedIffSlotted'
      BY <1>1, <1>5, <3>2, <3>5 DEF Pop, ChainedIffSlotted, SlotIndex, TypeOK
    <3> QED
      BY <3>3, <3>4, <3>6, <3>7 DEF PointerInv
  <2> QED
    BY <2>1, <2>2
<1>6. ASSUME NEW t \in Ticks, CallProg(t)
      PROVE  PointerInv'
  <2>1. TypeOK'
    BY <1>1, <1>6, LRUHashAssumption DEF CallProg, TypeOK, pointers
  <2> QED
    BY <1>2, <1>6, <2>1 DEF CallProg
<1>7. ASSUME CallPurge
      PROVE  PointerInv'
  <2>1. TypeOK'
    BY <1>1, <1>7 DEF CallPurge, TypeOK, pointers
  <2> QED
    BY <1>2, <1>7, <2>1 DEF CallPurge
<1>8. ASSUME ExpireNode
      PROVE  PointerInv'
  <2> DEFINE s == Visited
             n == link[SlotRoot(s)]
  <2>1. s \in SlotIndex
    <3>1. CASE pc = "prog"
      BY <1>1, <3>1, RemainderIsIndex, LRUHashAssumption DEF Visited, TypeOK, SlotIndex
    <3>2. CASE pc = "purge"
      BY <1>1, <1>8, <3>2, LRUHashAssumption DEF ExpireNode, Visited, Rounds, TypeOK, SlotIndex
    <3> QED
      BY <1>1, <1>8, <3>1, <3>2 DEF ExpireNode, TypeOK
  <2>2. /\ n # Null
        /\ Detach(n)
        /\ link' = PushLink(PopLink(link, SlotRoot(s)), ExpRoot, n)
        /\ at' = [at EXCEPT ![n] = Expired]
        /\ UNCHANGED <<currTick, loop, ret>>
    BY <1>8 DEF ExpireNode
  <2>3. SlotRoot(s) \in Root /\ SlotRoot(s) \in Cell
    BY <2>1, RootFacts DEF Cell
  <2>4. n \in Node
    BY <1>1, <2>2, <2>3 DEF TypeOK
  <2> HIDE DEF s
  <2>5. at[n] \in SlotIndex
    BY <1>1, <2>1, <2>2, <2>3, <2>4, ListFacts, RootListFacts
    DEF LinksStayInList, Listed, SlotIndex
  <2>6. link' \in [Cell -> Node \union {Null}] /\ LinksStayInList'
    BY <2>1, <2>2, <2>4, ExpireKeepsLists
  <2> HIDE DEF n
  <2>7. /\ next' \in [Cell -> Node \union {Null}]
        /\ prev' \in [Cell -> Cell \union {Null}]
        /\ ChainsLinked' /\ ChainedIffSlotted'
    BY <2>2, <2>4, <2>5, DetachKeepsLinkage
  <2>8. TypeOK'
    BY <1>1, <2>2, <2>4, <2>6, <2>7 DEF TypeOK, loop
  <2> QED
    BY <2>6, <2>7, <2>8 DEF PointerInv
<1>9. ASSUME NextSlot
      PROVE  PointerInv'
  <2>1. TypeOK'
    BY <1>1, <1>9 DEF NextSlot, TypeOK, pointers
  <2> QED
    BY <1>2, <1>9, <2>1 DEF NextSlot
<1>10. ASSUME Return
       PROVE  PointerInv'
  <2>1. TypeOK'
    BY <1>1, <1>10 DEF Return, TypeOK, pointers
  <2> QED
    BY <1>2, <1>10, <2>1 DEF Return
<1>11. ASSUME UNCHANGED vars
       PROVE  PointerInv'
  <2>1. TypeOK'
    BY <1>1, <1>11 DEF vars, TypeOK
  <2> QED
    BY <1>2, <1>11, <2>1 DEF vars, pointers
<1> QED
  BY <1>3, <1>4, <1>5, <1>6, <1>7, <1>8, <1>9, <1>10, <1>11 DEF Next, LoopStep

(* The pointers keep their invariant for every table and every sequence of *)
(* calls, also between the steps of prog() and purge().                    *)
THEOREM PointersSound == Spec => []PointerInv
<1>1. Init => PointerInv
  BY InitEstablishes
<1>2. PointerInv /\ [Next]_vars => PointerInv'
  BY StepKeepsPointerInv
<1> QED
  BY <1>1, <1>2, PTL DEF Spec

(* Every variable keeps its type: no call leaves a pointer to anything but *)
(* a cell of the table or NULL, and no slot index out of timeslot_.        *)
THEOREM TypesKept == Spec => []TypeOK
<1>1. PointerInv => TypeOK
  BY DEF PointerInv
<1> QED
  BY <1>1, PointersSound, PTL

(* next_ and prev_ of the bucket chains are inverse to each other: attach()*)
(* and detach() never cut or cross a chain.                                *)
THEOREM ChainsStayLinked == Spec => []ChainsLinked
<1>1. PointerInv => ChainsLinked
  BY DEF PointerInv
<1> QED
  BY <1>1, PointersSound, PTL

(* A node that pop() returned, or that put() refused, can be deleted by    *)
(* its owner: the table holds no pointer to it.                            *)
THEOREM OwnedNodesUnreferenced == Spec => []NoDanglingPointer
<1>1. PointerInv => NoDanglingPointer
  <2> SUFFICES ASSUME PointerInv, NEW n \in Node, NEW c \in Cell,
                      at[n] = Caller, c \in Root \/ at[c] # Caller
               PROVE  n \notin {next[c], prev[c], link[c]}
    BY DEF NoDanglingPointer
  <2>1. TypeOK /\ ChainsLinked /\ ChainedIffSlotted /\ LinksStayInList
    BY DEF PointerInv
  <2>2. n # Null /\ n \in Cell /\ Caller \notin SlotIndex /\ Null \notin Cell
    BY LRUHashAssumption DEF Cell, SlotIndex
  <2>3. next[c] # n
    BY <2>1, <2>2 DEF TypeOK, ChainsLinked, ChainedIffSlotted
  <2>4. prev[c] # n
    BY <2>1, <2>2 DEF TypeOK, ChainsLinked, ChainedIffSlotted, Cell
  <2>5. link[c] # n
    <3>1. CASE Listed(c)
      BY <2>1, <2>2, <3>1, ListFacts DEF LinksStayInList, Listed
    <3>2. CASE ~Listed(c)
      <4>1. c \in Root /\ RootList(c) = Caller
        BY <2>1, <3>2, ListFacts DEF Listed, Cell
      <4>2. PICK b \in BucketIndex : c = BucketRoot(b)
        BY <4>1, RootListFacts DEF Root, SlotIndex
      <4> QED
        BY <2>1, <2>2, <4>2 DEF LinksStayInList
    <3> QED
      BY <3>1, <3>2
  <2> QED
    BY <2>3, <2>4, <2>5
<1> QED
  BY <1>1, PointersSound, PTL
=============================================================================
