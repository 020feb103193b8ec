----------------------------- MODULE MCAiBudget -----------------------------
(* Two tenants, one of them an hour band ahead of UTC, and three calls. *)
EXTENDS AiBudget

CONSTANTS c1, c2, c3, t1, t2

MCTenantOf == [c \in Calls |-> IF c = c3 THEN t2 ELSE t1]
MCEstimate == [c \in Calls |-> IF c = c2 THEN 1 ELSE 2]
MCOffset == [t \in Tenants |-> IF t = t1 THEN 1 ELSE 0]
=============================================================================
