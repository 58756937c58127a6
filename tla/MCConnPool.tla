------------------------------ MODULE MCConnPool ------------------------------
(* Two tenants' transactions that read inside, and a read without a transaction. *)
EXTENDS ConnPool

CONSTANTS r1, r2, probe, t1, t2, c1, c2

MCTenantOf == [r \in Requests |-> IF r = r1 THEN t1 ELSE t2]
===============================================================================
