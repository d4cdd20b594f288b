---------------------------- MODULE MCTenantApply -----------------------------
(* Instances of TenantApply for TLC.                                       *)
EXTENDS TenantApply

CONSTANTS web, api, v1, v2

\* A workload comes or goes beside another, whose chart changes.
TwoLists == {[k \in Keys |-> v1], [k \in Keys |-> IF k = web THEN v2 ELSE NoChart]}

AllLists == Configs
=============================================================================
