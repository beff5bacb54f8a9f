------------------------------ MODULE MCReshard ------------------------------
(***************************************************************************)
(* Two nodes, two logical shards. Tenants 1 and 3 share the logical shard  *)
(* that starts on node 0, tenant 2 has the other; tenant 3 may be a whale  *)
(* pinned to node 1.                                                       *)
(***************************************************************************)
EXTENDS Reshard, TLC

CONSTANTS r1, r2, r3

MCKey == [t \in Tenants |-> IF t = 2 THEN 3 ELSE 2 * t]
MCTenantOf == [o \in Orders |-> IF o = LastId THEN 3 ELSE 1 + o \div 3]
(* Router r3 was started before node 1 was there. *)
MCPools == [r \in Routers |-> IF r = r3 THEN {0} ELSE Nodes]
Fresh == {NewDirectory(2)}
FreshOrPinned == {NewDirectory(2), Pin(NewDirectory(2), 3, 1)}
Symmetry == Permutations({r1, r2})
=============================================================================
