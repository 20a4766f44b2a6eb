------------------------------ MODULE LRUHash -------------------------------
(***************************************************************************)
(* devourer::LRUHash (src/lru-hash.hpp, src/lru-hash.cc): a hash           *)
(* table over a timing wheel, built from three pointers in every node.     *)
(*   next_, prev_  the doubly linked chain of a hash bucket                *)
(*   link_         the singly linked list of a time slot or of exp_node_   *)
(* Buckets, slots and exp_node_ own root cells with the same pointers.     *)
(*                                                                         *)
(* put(), get() and pop() are one step each.  prog() and purge() are       *)
(* loops: a call, one step per node moved to exp_node_, one per slot       *)
(* found empty, and a return; no other call can come in between.           *)
(***************************************************************************)
EXTENDS Integers, FiniteSets, TableSeq

CONSTANTS
  Node,      \* heap cells derived from LRUHash::Node
  Key,       \* lookup keys
  KeyOf,     \* KeyOf[n], the key for which n's match() is true
  Hash,      \* Hash[k], the hash value of key k, hash() of its nodes
  Null,      \* the NULL pointer
  Slots,     \* timeslot_.size()
  Buckets,   \* bucket_.size()
  Ttls,      \* the values of put()'s tick argument
  Ticks,     \* the values of prog()'s tick argument
  MaxNow     \* bound on curr_tick_

SlotIndex == 0..(Slots - 1)
BucketIndex == 0..(Buckets - 1)

SlotRoot(s) == <<"slot", s>>
BucketRoot(b) == <<"bucket", b>>
ExpRoot == <<"exp", 0>>
Root == {SlotRoot(s) : s \in SlotIndex} \union {BucketRoot(b) : b \in BucketIndex}
          \union {ExpRoot}
Cell == Node \union Root

ASSUME LRUHashAssumption ==
  /\ IsFiniteSet(Node)
  /\ KeyOf \in [Node -> Key]
  /\ Hash \in [Key -> Nat]
  /\ Node \intersect Root = {}
  /\ Null \notin Cell
  /\ Slots \in Nat \ {0}
  /\ Buckets \in Nat \ {0}
  /\ Ttls \subseteq Nat
  /\ Ticks \subseteq Nat
  /\ MaxNow \in Nat

VARIABLES
  next, prev, link,  \* the pointers of every cell
  currTick,          \* curr_tick_
  pc,                \* "idle", or the loop in progress: "prog" or "purge"
  i,                 \* the loop counter of prog() and purge()
  ticks,             \* prog()'s argument
  at,                \* at[n], history: the slot n was put in, Expired, or Caller
  ret                \* what the last call returned

pointers == <<next, prev, link>>
loop == <<pc, i, ticks>>
vars == <<next, prev, link, currTick, pc, i, ticks, at, ret>>

Caller == -1   \* at[n]: the table's user owns n
Expired == -2  \* at[n]: n is in exp_node_'s list

Void == "void"
Accepted == "true"
Rejected == "false"

TypeOK ==
  /\ next \in [Cell -> Node \union {Null}]
  /\ prev \in [Cell -> Cell \union {Null}]
  /\ link \in [Cell -> Node \union {Null}]
  /\ currTick \in Nat
  /\ pc \in {"idle", "prog", "purge"}
  /\ i \in Nat
  /\ ticks \in Nat
  /\ at \in [Node -> SlotIndex \union {Caller, Expired}]
  /\ ret \in Node \union {Null, Void, Accepted, Rejected}

-----------------------------------------------------------------------------
(* Node's methods on the pointers.  A definition named ...Wrong is the one  *)
(* that follows it with a plausible slip; no specification uses it, it     *)
(* only serves to show that a property below notices the slip.             *)

(* The last node of a chain closes a ring, as in a circular list.          *)
AttachRingWrong(a, n) ==
  /\ next' = [next EXCEPT ![n] = IF next[a] = Null THEN a ELSE next[a], ![a] = n]
  /\ prev' = [c \in Cell |-> IF c = n THEN a
                             ELSE IF c = next[a] THEN n
                             ELSE prev[c]]

Attach(a, n) ==
  /\ next' = [next EXCEPT ![n] = next[a], ![a] = n]
  /\ prev' = [c \in Cell |-> IF c = n THEN a
                             ELSE IF c = next[a] THEN n
                             ELSE prev[c]]

(* The successor's prev_ is not updated.                                   *)
DetachStalePrevWrong(n) ==
  /\ next' = [c \in Cell |-> IF c = n THEN Null
                             ELSE IF c = prev[n] THEN next[n]
                             ELSE next[c]]
  /\ prev' = [prev EXCEPT ![n] = Null]

(* Only an inner node is unhooked: the last node stays on its predecessor. *)
DetachInnerOnlyWrong(n) ==
  IF next[n] = Null
    THEN UNCHANGED <<next, prev>>
    ELSE /\ next' = [next EXCEPT ![prev[n]] = next[n], ![n] = Null]
         /\ prev' = [prev EXCEPT ![next[n]] = prev[n], ![n] = Null]

Detach(n) ==
  /\ next' = [c \in Cell |-> IF c = n THEN Null
                             ELSE IF c = prev[n] THEN next[n]
                             ELSE next[c]]
  /\ prev' = [c \in Cell |-> IF c = n THEN Null
                             ELSE IF c = next[n] THEN prev[n]
                             ELSE prev[c]]

(* The node forgets the rest of the list.                                  *)
PushLinkDropsRestWrong(l, r, n) == [l EXCEPT ![n] = Null, ![r] = n]

PushLink(l, r, n) == [l EXCEPT ![n] = l[r], ![r] = n]

(* The root keeps pointing to the node it gives out.                       *)
PopLinkStuckWrong(l, r) == l

PopLink(l, r) == IF l[r] = Null THEN l ELSE [l EXCEPT ![r] = l[l[r]]]

(* The cells met by following the pointers p from root r, r left out.      *)
Walk(p, r) ==
  LET cell[j \in 0..Cardinality(Node)] ==
        IF j = 0 THEN r
        ELSE IF cell[j - 1] = Null THEN Null
        ELSE p[cell[j - 1]]
  IN  [j \in 1..Cardinality({k \in 1..Cardinality(Node) : cell[k] # Null}) |-> cell[j]]

Members(p, r) == LET w == Walk(p, r) IN {w[j] : j \in DOMAIN w}

BucketOf(k) == BucketRoot(Hash[k] % Buckets)

(* Node::search() returns n: the first node of the chain whose hash() is   *)
(* the one given and whose match() is true, or NULL.                       *)
Search(k, n) ==
  LET hits == Sift(Walk(next, BucketOf(k)),
                   {m \in Node : Hash[KeyOf[m]] = Hash[k] /\ KeyOf[m] = k})
  IN  n = IF hits = <<>> THEN Null ELSE Head(hits)

-----------------------------------------------------------------------------
Init ==
  /\ next = [c \in Cell |-> Null]
  /\ prev = [c \in Cell |-> Null]
  /\ link = [c \in Cell |-> Null]
  /\ currTick = 0
  /\ pc = "idle" /\ i = 0 /\ ticks = 0
  /\ at = [n \in Node |-> Caller]
  /\ ret = Void

(* Both owners put only nodes they just created or just popped: at[n] is   *)
(* Caller.  A ttl of timeslot_.size() or more is refused untouched.        *)
Put(n, ttl) ==
  /\ pc = "idle"
  /\ at[n] = Caller
  /\ IF ttl >= Slots
       THEN /\ ret' = Rejected
            /\ UNCHANGED <<pointers, at>>
       ELSE LET s == (ttl + currTick) % Slots
            IN  /\ Attach(BucketOf(KeyOf[n]), n)
                /\ link' = PushLink(link, SlotRoot(s), n)
                /\ at' = [at EXCEPT ![n] = s]
                /\ ret' = Accepted
  /\ UNCHANGED <<currTick, loop>>

Get(k) ==
  /\ pc = "idle"
  /\ \E n \in Node \union {Null} : Search(k, n) /\ ret' = n
  /\ UNCHANGED <<pointers, currTick, loop, at>>

Pop ==
  /\ pc = "idle"
  /\ ret' = link[ExpRoot]
  /\ link' = PopLink(link, ExpRoot)
  /\ at' = [n \in Node |-> IF n = link[ExpRoot] THEN Caller ELSE at[n]]
  /\ UNCHANGED <<next, prev, currTick, loop>>

CallProg(t) ==
  /\ pc = "idle"
  /\ currTick + t <= MaxNow
  /\ pc' = "prog" /\ i' = 0 /\ ticks' = t
  /\ ret' = Void
  /\ UNCHANGED <<pointers, currTick, at>>

CallPurge ==
  /\ pc = "idle"
  /\ pc' = "purge" /\ i' = 0
  /\ ret' = Void
  /\ UNCHANGED <<pointers, currTick, ticks, at>>

(* The wheel is read one slot ahead.                                       *)
VisitedAheadWrong == IF pc = "prog" THEN (currTick + i + 1) % Slots ELSE i

(* The slot the running loop looks at, and the number of slots it visits.  *)
Visited == IF pc = "prog" THEN (currTick + i) % Slots ELSE i
Rounds == IF pc = "prog" THEN ticks ELSE Slots

(* One turn of `while (NULL != (node = timeslot_[tp].pop()))'.             *)
ExpireNode ==
  /\ pc # "idle" /\ i < Rounds
  /\ LET r == SlotRoot(Visited)
         n == link[r]
     IN  /\ n # Null
         /\ Detach(n)
         /\ link' = PushLink(PopLink(link, r), ExpRoot, n)
         /\ at' = [at EXCEPT ![n] = Expired]
  /\ UNCHANGED <<currTick, loop, ret>>

NextSlot ==
  /\ pc # "idle" /\ i < Rounds
  /\ link[SlotRoot(Visited)] = Null
  /\ i' = i + 1
  /\ UNCHANGED <<pointers, currTick, pc, ticks, at, ret>>

Return ==
  /\ pc # "idle" /\ i = Rounds
  /\ currTick' = IF pc = "prog" THEN currTick + ticks ELSE currTick
  /\ pc' = "idle" /\ i' = 0 /\ ticks' = 0
  /\ UNCHANGED <<pointers, at, ret>>

LoopStep == ExpireNode \/ NextSlot \/ Return

Next ==
  \/ \E n \in Node, ttl \in Ttls : Put(n, ttl)
  \/ \E k \in Key : Get(k)
  \/ Pop
  \/ \E t \in Ticks : CallProg(t)
  \/ CallPurge
  \/ LoopStep

(* A call that was entered is executed to its end by its thread.           *)
Fairness == WF_vars(LoopStep)

Spec == Init /\ [][Next]_vars

FairSpec == Spec /\ Fairness

-----------------------------------------------------------------------------
(* Safety                                                                  *)

(* next_ and prev_ are inverse to each other in every state, also between  *)
(* the turns of prog() and purge(): detach() never cuts a bucket chain.    *)
ChainsLinked ==
  /\ \A c \in Cell : next[c] # Null => prev[next[c]] = c
  /\ \A n \in Node : prev[n] # Null => next[prev[n]] = n

(* The owner of a node may delete it: no root and no node in the table     *)
(* still points to a node that pop() gave back or put() never took.        *)
NoDanglingPointer ==
  \A n \in Node, c \in Cell :
    (at[n] = Caller /\ (c \in Root \/ at[c] # Caller)) =>
      n \notin {next[c], prev[c], link[c]}

(* A slot's list holds, once each, the nodes put in it; exp_node_'s list   *)
(* those that expired: pop() returns every expired node, exactly once.     *)
ListsExact ==
  /\ \A s \in SlotIndex : Members(link, SlotRoot(s)) = {n \in Node : at[n] = s}
  /\ Members(link, ExpRoot) = {n \in Node : at[n] = Expired}
  /\ \A r \in Root : LET w == Walk(link, r)
                     IN  \A j, k \in DOMAIN w : w[j] = w[k] => j = k

(* A node is found by get() exactly as long as a slot holds it: each chain *)
(* holds the slotted nodes whose hash falls into it, and no other node.    *)
ChainedWhileSlotted ==
  \A b \in BucketIndex :
    Members(next, BucketRoot(b)) =
      {n \in Node : at[n] \in SlotIndex /\ BucketOf(KeyOf[n]) = BucketRoot(b)}

(* prog() and purge() empty a finite list in each slot and return.         *)
CallsReturn == (pc # "idle") ~> (pc = "idle")

-----------------------------------------------------------------------------
(* The inductive invariant behind ChainsLinked and NoDanglingPointer.      *)

(* The list a cell belongs to or is the root of: a slot, or Expired.  The  *)
(* link_ of a cell of no list has no meaning.                              *)
RootList(r) ==
  IF r = ExpRoot THEN Expired
  ELSE IF \E s \in SlotIndex : r = SlotRoot(s)
    THEN CHOOSE s \in SlotIndex : r = SlotRoot(s)
  ELSE Caller

ListOf(c) == IF c \in Node THEN at[c] ELSE RootList(c)

Listed(c) == ListOf(c) # Caller

(* A node hangs in a bucket's chain iff it is in a slot's list.            *)
ChainedIffSlotted ==
  /\ \A n \in Node : at[n] \in SlotIndex <=> prev[n] # Null
  /\ \A n \in Node : next[n] # Null => at[n] \in SlotIndex
  /\ \A r \in Root : prev[r] = Null

(* link_ leads to a node of the same list, and no two cells lead to the    *)
(* same node; a bucket's root has none.                                    *)
LinksStayInList ==
  /\ \A c \in Cell : Listed(c) /\ link[c] # Null => ListOf(link[c]) = ListOf(c)
  /\ \A c, d \in Cell :
       Listed(c) /\ Listed(d) /\ link[c] = link[d] /\ link[c] # Null => c = d
  /\ \A b \in BucketIndex : link[BucketRoot(b)] = Null

(* Any state of the pointers with these properties keeps them.             *)
PointerInv ==
  TypeOK /\ ChainsLinked /\ ChainedIffSlotted /\ LinksStayInList

-----------------------------------------------------------------------------
(* Refinement: LRUHash implements LRUTable.  A running prog() or purge()   *)
(* counts as done from its call on; the nodes it has yet to move are       *)
(* already expired in the abstract table.                                  *)

(* The wheel stands at currTick: it comes to slot s after this many ticks. *)
TicksTo(s) == (s + Slots - (currTick % Slots)) % Slots

Doomed == {s \in SlotIndex : \/ pc = "purge"
                             \/ pc = "prog" /\ TicksTo(s) < ticks}

(* ListsExact lets `at' stand for the slots' lists.                         *)
Standing(n) == at[n] \in SlotIndex /\ at[n] \notin Doomed

AbsNow == IF pc = "prog" THEN currTick + ticks ELSE currTick

AbsDue ==
  [n \in Node |-> IF Standing(n) THEN currTick + TicksTo(at[n]) ELSE -1]

AbsByKey ==
  [k \in Key |-> Sift(Walk(next, BucketOf(k)),
                      {n \in Node : KeyOf[n] = k /\ Standing(n)})]

AbsExpired == {n \in Node : at[n] # Caller /\ ~Standing(n)}

Table == INSTANCE LRUTable WITH
  Capacity <- Slots, now <- AbsNow, byKey <- AbsByKey, due <- AbsDue,
  expired <- AbsExpired

(* Every behaviour of the pointer machine is one of the table: deadlines   *)
(* are kept to the tick, whatever the wheel's position and prog()'s step,  *)
(* pop() hands out what expired, get() finds the node put last.            *)
ImplementsTable == Table!Spec

-----------------------------------------------------------------------------
(* The inductive invariant behind ListsExact, ChainedWhileSlotted and      *)
(* ImplementsTable.                                                        *)

(* w is the list that hangs at root r: no node comes twice, and the last   *)
(* one has no successor, so whoever follows p stops there.                 *)
Path(p, r, w) ==
  LET before(j) == IF j = 1 THEN r ELSE w[j - 1]
  IN  /\ w \in Seq(Node)
      /\ \A j, k \in 1..Len(w) : w[j] = w[k] => j = k
      /\ \A j \in 1..Len(w) : p[before(j)] = w[j]
      /\ p[before(Len(w) + 1)] = Null

ListsEnd ==
  /\ \A r \in Root : Path(link, r, Walk(link, r))
  /\ \A b \in BucketIndex : Path(next, BucketRoot(b), Walk(next, BucketRoot(b)))

(* The slots that the running loop has left are empty.                     *)
VisitedEmpty ==
  /\ pc # "idle" => i <= Rounds
  /\ \A n \in Node, j \in 0..(i - 1) :
       /\ pc = "prog" => at[n] # (currTick + j) % Slots
       /\ pc = "purge" => at[n] # j

TableInv ==
  PointerInv /\ ListsExact /\ ChainedWhileSlotted /\ ListsEnd /\ VisitedEmpty

=============================================================================
