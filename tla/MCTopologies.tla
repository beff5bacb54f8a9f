----------------------------- MODULE MCTopologies -----------------------------
(***************************************************************************)
(* Three logical shards: tenants 1 and 2 share one, tenant 3 has another,  *)
(* and one has no tenant.  On a circle with two points for each shard,     *)
(* between those of others, a tenant is on a point, between two, and       *)
(* behind the last.                                                        *)
(***************************************************************************)
EXTENDS Topologies

MCKey == [t \in Tenants |-> IF t = 3 THEN 5 ELSE 3 * t]
MCPosition == [t \in Tenants |-> 5 * t - 2]
MCPointAt == [s \in Servers |-> [i \in 1..VNodes |-> IF i = 1 THEN 2 * s + 1 ELSE 12 - ((3 * s) % 8)]]
=============================================================================
