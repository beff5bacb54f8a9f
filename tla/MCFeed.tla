-------------------------------- MODULE MCFeed --------------------------------
(***************************************************************************)
(* Two nodes.  The directory has all on the first; or has split its two    *)
(* logical shards over both, maybe with one of them about to move back.    *)
(* A process with SHARDS=1 has no pool for the second.                     *)
(***************************************************************************)
EXTENDS Feed

MCKey == [t \in Tenants |-> t]
MCTenantOf == [id \in 1..5 |-> IF id \in {2, 3, 5} THEN 1 ELSE 2]
MCFiles == {NewDirectory(1), NewDirectory(2), BeginMove(NewDirectory(2), 1, 0)}

Row(id, at, s) == [id |-> id, at |-> at, shard |-> s]

(* Ties on created_at within a shard and across, an order that is moved    *)
(* with its time, and one that is written to two shards at two times; rows *)
(* committed during the walk, above and below the cursor.                  *)
MCOld == {Row(1, 1, 0), Row(2, 2, 0), Row(3, 2, 0), Row(4, 2, 1)}
MCLate == {Row(1, 1, 1), Row(5, 2, 1), Row(3, 3, 1)}
MCRows == MCOld \cup MCLate
=============================================================================
