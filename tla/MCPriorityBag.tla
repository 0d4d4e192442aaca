---------------------------- MODULE MCPriorityBag ----------------------------
(* A bag of four places, five items and four priorities, for TLC.            *)
EXTENDS PriorityBag

\* The items differ only by name.
ItemSymmetry == Permutations(Items)
=============================================================================
