--------------------------- MODULE MCFulfillment ---------------------------
(* Constants of Fulfillment are numbers, given in the configurations. *)
EXTENDS Fulfillment
=============================================================================
