----------------------------- MODULE MCLRUHash ------------------------------
(* LRUHash on three nodes, two of one key and one of another key.          *)
EXTENDS LRUHash, TLC

CONSTANTS n1, n2, n3, k1, k2

MCNode == {n1, n2, n3}
MCKey == {k1, k2}
MCKeyOf == (n1 :> k1) @@ (n2 :> k1) @@ (n3 :> k2)

(* One bucket for both keys: chains of three nodes.                        *)
SameBucket == (k1 :> 1) @@ (k2 :> 3)
=============================================================================
