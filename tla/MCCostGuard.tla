---------------------------- MODULE MCCostGuard -----------------------------
(* Instances of CostGuard for TLC: two tenants, one named user who calls   *)
(* for the first of them, and anonymous requests.                          *)
EXTENDS CostGuard

CONSTANTS r1, r2, r3, r4, t1, t2, u1

MCTenantOf == [r \in Requests |-> IF r = r4 THEN t2 ELSE t1]
MCUserOf == [r \in Requests |-> IF r \in {r1, r2, r4} THEN u1 ELSE Anonymous]

MCTenantLimit == [calls |-> 2, usd |-> 21]
MCUserLimit == [calls |-> 3, usd |-> 14]
=============================================================================
