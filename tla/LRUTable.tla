------------------------------ MODULE LRUTable ------------------------------
(***************************************************************************)
(* What devourer::LRUHash promises to the modules that own a table         *)
(* (ModFlow, ModDns): a keyed table whose entries carry a deadline.        *)
(* A node put with ttl t when the clock shows `now' leaves the table at    *)
(* the first prog() that takes the clock past now + t, is then handed out  *)
(* by pop() exactly once, and get() answers with the node of that key that *)
(* was put last.  LRUHash.tla is the pointer machine that implements this. *)
(***************************************************************************)
EXTENDS Integers, TableSeq

CONSTANTS
  Node,      \* the nodes, heap cells owned by the table's user
  Key,       \* the keys nodes are looked up by
  KeyOf,     \* KeyOf[n], the key node n matches
  Null,      \* the NULL pointer
  Capacity,  \* the number of time slots; a ttl must be below it
  Ttls,      \* the values of put()'s tick argument
  Ticks,     \* the values of prog()'s tick argument
  MaxNow     \* bound on the clock

VARIABLES
  now,      \* the clock: the sum of all prog() arguments
  byKey,    \* byKey[k], the nodes of key k in the table, last put first
  due,      \* due[n], the last clock value at which n is still in the table
  expired,  \* the nodes that left the table and wait for pop()
  ret       \* what the last call returned

vars == <<now, byKey, due, expired, ret>>

NotIn == -1          \* the deadline of a node that is not in the table
Void == "void"       \* returned by prog() and purge()
Accepted == "true"   \* put() took the node
Rejected == "false"  \* put() left the node to the caller

Live == {n \in Node : due[n] # NotIn}
Held(n) == due[n] = NotIn /\ n \notin expired  \* the table's user owns n

Init ==
  /\ now = 0
  /\ byKey = [k \in Key |-> <<>>]
  /\ due = [n \in Node |-> NotIn]
  /\ expired = {}
  /\ ret = Void

(* The nodes of S leave the table and become available to pop().           *)
Expire(S) ==
  /\ byKey' = [k \in Key |-> Sift(byKey[k], Node \ S)]
  /\ due' = [n \in Node |-> IF n \in S THEN NotIn ELSE due[n]]
  /\ expired' = expired \union S

Put(n, ttl) ==
  /\ ret' = IF ttl < Capacity THEN Accepted ELSE Rejected
  /\ Held(n)
  /\ IF ttl < Capacity
       THEN /\ byKey' = [byKey EXCEPT ![KeyOf[n]] = <<n>> \o @]
            /\ due' = [due EXCEPT ![n] = now + ttl]
       ELSE UNCHANGED <<byKey, due>>
  /\ UNCHANGED <<now, expired>>

Get(k) ==
  /\ ret' = IF byKey[k] = <<>> THEN Null ELSE Head(byKey[k])
  /\ UNCHANGED <<now, byKey, due, expired>>

Prog(t) ==
  /\ ret' = Void
  /\ now + t <= MaxNow
  /\ now' = now + t
  /\ Expire({n \in Live : due[n] < now + t})

Pop ==
  /\ \/ expired = {} /\ ret' = Null /\ UNCHANGED expired
     \/ \E n \in expired : ret' = n /\ expired' = expired \ {n}
  /\ UNCHANGED <<now, byKey, due>>

Purge ==
  /\ ret' = Void
  /\ Expire(Live)
  /\ UNCHANGED now

Next ==
  \/ \E n \in Node, ttl \in Ttls : Put(n, ttl)
  \/ \E k \in Key : Get(k)
  \/ \E t \in Ticks : Prog(t)
  \/ Pop
  \/ Purge

Spec == Init /\ [][Next]_vars

=============================================================================
