------------------------------ MODULE MCOutbox ------------------------------
(***************************************************************************)
(* Small instances of Outbox: tenant 11 lives on shard 0, tenants 21 and   *)
(* 22 on shard 1 and tenant 31 on shard 2. Tenant 22 was never seeded.     *)
(***************************************************************************)
EXTENDS Outbox

MCHome == [t \in Tenants |-> IF t = 11 THEN 0 ELSE IF t = 31 THEN 2 ELSE 1]

MCOpening == [t \in Tenants |-> IF t = 22 THEN NoRow ELSE IF t = 11 THEN 3 ELSE 1]

(* The relays compete for shard 0. *)
MCSource == [r \in Relays |-> 0]
=============================================================================
