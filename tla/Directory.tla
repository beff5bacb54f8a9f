------------------------------ MODULE Directory ------------------------------
(***************************************************************************)
(* The directory topology of src/internal/shard/topology.go as values: a   *)
(* tenant hashes to a logical shard for good, a table maps logical shards  *)
(* to nodes, and pins and open moves are exceptions to it.                 *)
(*                                                                         *)
(* A Go map is a function that has the value NoShard where the map has no  *)
(* key.                                                                    *)
(***************************************************************************)
EXTENDS Integers, Sequences, FiniteSets, Functions

CONSTANTS
  Tenants,        \* the tenant ids
  Key,            \* Key[t]: the hash of tenant t (hash.go)
  LogicalCount    \* how many logical shards there are, fixed for all time

ASSUME DirectoryAssumption ==
  /\ Key \in [Tenants -> Nat]
  /\ LogicalCount \in Nat \ {0}

NoShard == -1
Logicals == 0..(LogicalCount - 1)

Directories(nodes) == [placement : [Logicals -> nodes],
                       migrating : [Logicals -> nodes \cup {NoShard}],
                       pins      : [Tenants -> nodes \cup {NoShard}]]

(* Mistake: the rest of the division gets a node of its own. *)
RestIsANode(nodes) ==
  [placement |-> [l \in Logicals |-> l \div (LogicalCount \div nodes)],
   migrating |-> [l \in Logicals |-> NoShard],
   pins      |-> [t \in Tenants |-> NoShard]]

(* Contiguous ranges of logical shards; the last node takes the rest. *)
NewDirectory(nodes) ==
  LET per == LogicalCount \div nodes IN
  [placement |-> [l \in Logicals |->
     IF l \div per >= nodes THEN nodes - 1 ELSE l \div per],
   migrating |-> [l \in Logicals |-> NoShard],
   pins      |-> [t \in Tenants |-> NoShard]]

(* "The half of routing that must never change" *)
Logical(t) == Key[t] % LogicalCount

Pinned(d, t) == d.pins[t] # NoShard

RouteRead(d, t) == IF Pinned(d, t) THEN d.pins[t] ELSE d.placement[Logical(t)]

(* Writes of t go to two nodes. *)
InWindow(d, t) ==
  /\ ~Pinned(d, t)
  /\ d.migrating[Logical(t)] \notin {NoShard, RouteRead(d, t)}

(* Mistake: writes go where reads go. *)
WriteWhereRead(d, t) == <<RouteRead(d, t)>>

(* The nodes a write must reach, in the order it is sent to them. *)
RouteWrite(d, t) ==
  IF InWindow(d, t) THEN <<RouteRead(d, t), d.migrating[Logical(t)]>> ELSE <<RouteRead(d, t)>>

BeginMove(d, logical, target) == [d EXCEPT !.migrating[logical] = target]

(* Mistake: the cutover closes every open window. *)
CommitAll(d, logical) ==
  [d EXCEPT !.placement = [l \in Logicals |->
                             IF d.migrating[l] = NoShard THEN d.placement[l] ELSE d.migrating[l]],
            !.migrating = [l \in Logicals |-> NoShard]]

Commit(d, logical) ==
  IF d.migrating[logical] = NoShard THEN d
  ELSE [d EXCEPT !.placement[logical] = d.migrating[logical], !.migrating[logical] = NoShard]

Pin(d, t, node) == [d EXCEPT !.pins[t] = node]

LogicalsOn(d, node) == {l \in Logicals : d.placement[l] = node}

PlacedOn(d) == Range(d.placement) \cup (Range(d.migrating) \ {NoShard})

PhysicalCount(d) == Cardinality(PlacedOn(d))

(* Mistake: pins were forgotten. *)
PlacementFits(d, nodes) == \A p \in PlacedOn(d) : p < nodes

(* shardctl refuses a directory that names a node it has no pool for. *)
CheckPlacementFits(d, nodes) ==
  /\ \A p \in PlacedOn(d) : p < nodes
  /\ \A t \in Tenants : Pinned(d, t) => d.pins[t] < nodes

(* Every node reads or writes of d may go to. *)
Routes(d) == UNION {Range(RouteWrite(d, t)) : t \in Tenants}
=============================================================================
