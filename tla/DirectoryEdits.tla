---------------------------- MODULE DirectoryEdits ----------------------------
(***************************************************************************)
(* A directory under every sequence of the edits topology.go offers:       *)
(* BeginMove, Commit and Pin, in any order and with any target, as the     *)
(* operators of a cluster would issue them.                                *)
(***************************************************************************)
EXTENDS Directory

CONSTANTS
  Nodes,     \* the physical shards
  Sizes      \* how many nodes the first placement may have

ASSUME EditsAssumption ==
  /\ Nodes \subseteq Nat
  /\ Sizes \subseteq 1..LogicalCount
  /\ \A n \in Sizes : 0..(n - 1) \subseteq Nodes

VARIABLE dir

(* Every entry of the three tables names a node there is: the division of   *)
(* the logical shards into ranges leaves none for a node after the last     *)
(* (topology.go:168-177).                                                   *)
TypeOK == dir \in Directories(Nodes)

Init == \E n \in Sizes : dir = NewDirectory(n)

Next ==
  \/ \E l \in Logicals, p \in Nodes : dir' = BeginMove(dir, l, p)
  \/ \E l \in Logicals : dir' = Commit(dir, l)
  \/ \E t \in Tenants, p \in Nodes : dir' = Pin(dir, t, p)

Spec == Init /\ [][Next]_dir

-----------------------------------------------------------------------------
(* Reads of a tenant move only by a pin of that tenant, or to a node that  *)
(* its writes were already sent to: Commit goes where the window went      *)
(* (topology.go:206-236), also for a tenant whose logical shard moves back *)
(* and forth and whatever else is edited in between.                       *)
Prepared == \A t \in Tenants :
  \/ RouteRead(dir', t) \in Range(RouteWrite(dir, t))
  \/ dir'.pins[t] # dir.pins[t]
ReadsFollowWrites == [][Prepared]_dir

(* One edit moves the tenants of one logical shard, or one pinned tenant,  *)
(* and no other (topology.go:145-148).                                     *)
OneMover ==
  LET movers == {t \in Tenants : RouteRead(dir', t) # RouteRead(dir, t)} IN
  \A t, u \in movers : t = u \/ Logical(t) = Logical(u)
MovesOneLogical == [][OneMover]_dir

(* A process that passed shardctl's check has a pool for every node that   *)
(* its reads and writes are routed to (main.go:156-159).                   *)
FittingRoutesHavePools == \A nodes \in 1..(Cardinality(Nodes) + 1) :
  CheckPlacementFits(dir, nodes) => Routes(dir) \subseteq 0..(nodes - 1)
=============================================================================
