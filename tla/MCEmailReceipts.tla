-------------------------- MODULE MCEmailReceipts --------------------------
(* EmailReceipts on small instances: a marker map smaller than the number  *)
(* of receipts, so that evictions happen, and more deliveries than slots.  *)
EXTENDS EmailReceipts, TLC

Symmetry == Permutations(Receipts) \cup Permutations(Slots)

=============================================================================
