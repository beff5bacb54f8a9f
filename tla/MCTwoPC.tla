------------------------------ MODULE MCTwoPC ------------------------------
(***************************************************************************)
(* Small instances of TwoPC: tenants 1 and 4 on shard 0, 2 on shard 1, 3   *)
(* on shard 2.  Transfers a and c go from 1 to 2, and Go takes their legs  *)
(* in either order; d stays on shard 0 and e asks for more than tenant 1   *)
(* has.  Tenant 1 has enough for d, and for one of a and c or for none.    *)
(***************************************************************************)
EXTENDS TwoPC

MCHome == [t \in Tenants |-> IF t = 2 THEN 1 ELSE IF t = 3 THEN 2 ELSE 0]

MCFrom == [x \in Transfers |-> 1]

MCTo == [x \in Transfers |-> IF x = "d" THEN 4 ELSE 2]

MCCents == [x \in Transfers |-> IF x = "e" THEN 9 ELSE IF x = "d" THEN 1 ELSE 2]

MCOpenings == {[t \in Tenants |-> IF t = 1 THEN n ELSE 2] : n \in {1, 3}}
=============================================================================
