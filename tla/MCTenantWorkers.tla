-------------------------- MODULE MCTenantWorkers --------------------------
(* TenantWorkers with two tiers of one and two slots. *)
EXTENDS TenantWorkers, TLC

TwoTiers == {"free", "premium"}
TierSlots == [t \in TwoTiers |-> IF t = "free" THEN 1 ELSE 2]
=============================================================================
