------------------------------ MODULE Topologies ------------------------------
(***************************************************************************)
(* The three topologies side by side, as `shardctl topology` compares them *)
(* (src/cmd/shardctl/main.go): a directory that is edited, a ring that     *)
(* grows, and what doubling the shards moves in a directory and in hash %  *)
(* n.                                                                      *)
(***************************************************************************)
EXTENDS DirectoryEdits, Ring

VARIABLE from   \* nShards

topologies == <<dir, ring, from>>

TopologiesInit ==
  /\ Init /\ RingInit
  /\ from \in Sizes
  /\ dir = NewDirectory(from)
  /\ ring.shards = 0..(from - 1)

TopologiesNext ==
  \/ Next /\ UNCHANGED <<ring, from>>
  \/ RingNext /\ UNCHANGED <<dir, from>>

TopologiesSpec == TopologiesInit /\ [][TopologiesNext]_topologies

-----------------------------------------------------------------------------
(* Mistake: the halves are taken of the new nodes' share. *)
SplitByTheNewShare(n) ==
  LET per == LogicalCount \div (2 * n) IN
  [l \in Logicals |-> NewDirectory(n).placement[l] + IF l % per >= per \div 2 THEN n ELSE 0]

(* The second half of each node's range goes to a node of its own. *)
Split(n) ==
  LET per == LogicalCount \div n IN
  [l \in Logicals |-> NewDirectory(n).placement[l] + IF l % per >= per \div 2 THEN n ELSE 0]

(* Doubling takes every shard apart in two and mixes no two of them, by    *)
(* hash % n (topology.go:34-35) and by the split of the directory, which   *)
(* gives away the second half of a share, "contiguous" (main.go:238-239)   *)
(* where the shares are equal.                                             *)
DoublingHalves ==
  LET old == NewDirectory(from).placement
      new == Split(from)
      per == LogicalCount \div from IN
  /\ \A t \in Tenants : ModNRead(2 * from, t) - ModNRead(from, t) \in {0, from}
  /\ \A l \in Logicals : new[l] - old[l] \in {0, from}
  /\ LogicalCount % from = 0 => \A p \in 0..(from - 1) :
       LogicalsOn(NewDirectory(from), p) \ {l \in Logicals : new[l] = p}
         = (p * per + per \div 2)..((p + 1) * per - 1)
=============================================================================
