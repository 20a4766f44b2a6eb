------------------------------ MODULE TableSeq ------------------------------
(***************************************************************************)
(* The one operation on sequences that the hash tables' specifications     *)
(* share.  It is SelectSeq with a set in place of the test, so that facts  *)
(* about it can be stated and proved once (TableSeqProofs.tla).            *)
(***************************************************************************)
EXTENDS Naturals, Sequences

(* The elements of s that are in S, in their order.                        *)
Sift(s, S) ==
  LET kept[j \in 0..Len(s)] ==
        IF j = 0 THEN <<>>
        ELSE IF s[j] \in S THEN Append(kept[j - 1], s[j])
        ELSE kept[j - 1]
  IN  kept[Len(s)]

=============================================================================
