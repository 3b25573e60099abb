-------------------------- MODULE MCOrderPlacement --------------------------
(* Order ids are random and tabs alike: nothing tells one from another. *)
EXTENDS OrderPlacement
Symmetry == Permutations(Orders) \cup Permutations(OrderLabs)
=============================================================================
