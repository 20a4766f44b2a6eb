----------------------------- MODULE MCModFlow ------------------------------
(* ModFlow with interchangeable sessions and heap cells.                   *)
EXTENDS ModFlow, TLC

Symmetry == Permutations(Key) \union Permutations(FlowId)
=============================================================================
