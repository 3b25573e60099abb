---------------------------- MODULE MCEventFeed ----------------------------
(* Constants of EventFeed are numbers, given in the configurations. *)
EXTENDS EventFeed
=============================================================================
