------------------------------- MODULE Reshard -------------------------------
(***************************************************************************)
(* Orders written through routers while logical shards move between nodes. *)
(*                                                                         *)
(* src/: the directory in the placement file (topology.go), the copy of it *)
(* each router holds (cluster.go), Insert, Seed and Misplaced (orders.go). *)
(*                                                                         *)
(* External: the mover that moves a logical shard. It is the tool that     *)
(* docs/curriculum.md:326-339 describes in five steps and that the         *)
(* repository does not hold: open the window, wait until every router has  *)
(* it, copy the rows, verify, cut over, clean up.                          *)
(***************************************************************************)
EXTENDS Directory

CONSTANTS
  Nodes,      \* the physical shards
  Routers,    \* processes with a Cluster of their own
  Pools,      \* Pools[r]: the nodes router r opened pools for
  LastId,     \* orders are the ids 1..LastId
  TenantOf,   \* TenantOf[o]: the tenant of order o
  Bulk,       \* the orders that Seed loads in one call
  Start,      \* the directories the file may hold at first
  Drains,     \* TRUE: the mover also waits for calls routed by an older directory
  MaxMoves    \* bound: how many moves are opened

Orders == 1..LastId

ASSUME ReshardAssumption ==
  /\ Nodes \subseteq Nat /\ IsFiniteSet(Nodes)
  /\ Pools \in [Routers -> SUBSET Nodes]
  /\ LastId \in Nat
  /\ TenantOf \in [Orders -> Tenants]
  /\ Bulk \subseteq Orders
  /\ Start \subseteq Directories(Nodes)
  /\ Drains \in BOOLEAN
  /\ MaxMoves \in Nat

VARIABLES
  dir,        \* the directory in the placement file
  copy,       \* copy[r]: the topology in router r's Cluster
  orders,     \* orders[p]: the rows on node p
  call,       \* call[r]: the Insert or Seed that router r is in
  acked,      \* acked[r]: the orders whose call returned nil at router r
  move,       \* the move under way (external)
  moves       \* how many moves were opened

rows == <<orders, call, acked>>
mover == <<dir, move, moves>>
vars == <<dir, copy, orders, call, acked, move, moves>>

(* A call sends writes[i].rows to node writes[i].node for i = at, at + 1,  *)
(* ... as the directory "by" told it when the call began.                  *)
Write == [node : Nodes, rows : SUBSET Orders]
NoCall == [by |-> "none"]
Calls == [by : Directories(Nodes), writes : UNION {[1..n -> Write] : n \in 1..Cardinality(Nodes)},
          at : 1..Cardinality(Nodes)]
InCall(r) == call[r] # NoCall

NoMove == [step |-> "none"]
Steps == {"open", "copy", "verified", "cut"}
Moves == [step : Steps, logical : Logicals, source : Nodes, target : Nodes, cursor : 1..(LastId + 1)]

TypeOK ==
  /\ dir \in Directories(Nodes)
  /\ copy \in [Routers -> Directories(Nodes)]
  /\ orders \in [Nodes -> SUBSET Orders]
  /\ DOMAIN call = Routers
  /\ \A r \in Routers : InCall(r) =>
       call[r] \in Calls /\ call[r].at \in DOMAIN call[r].writes
  /\ acked \in [Routers -> SUBSET Orders]
  /\ move \in Moves \cup {NoMove}
  /\ moves \in 0..MaxMoves

Init ==
  /\ dir \in Start
  /\ copy = [r \in Routers |-> dir]
  /\ orders = [p \in Nodes |-> {}]
  /\ call = [r \in Routers |-> NoCall]
  /\ acked = [r \in Routers |-> {}]
  /\ move = NoMove
  /\ moves = 0

-----------------------------------------------------------------------------
(* Routers *)

(* A watch on the metadata store, or a restart, hands the router the       *)
(* directory of the moment; calls keep the one they began with.            *)
SetTopology(r) ==
  /\ copy' = [copy EXCEPT ![r] = dir]
  /\ UNCHANGED <<mover, rows>>

Acked == UNION {acked[r] : r \in Routers}
Underway == UNION {UNION {w.rows : w \in Range(call[r].writes)} : r \in {q \in Routers : InCall(q)}}

BeginCall(r, writes) ==
  /\ ~InCall(r)
  /\ call' = [call EXCEPT ![r] = [by |-> copy[r], writes |-> writes, at |-> 1]]
  /\ UNCHANGED <<mover, copy, orders, acked>>

(* WritePools refuses a route to a node without a pool, and the call ends  *)
(* before it wrote anything. A failed Insert may be repeated with its id,  *)
(* by any router.                                                          *)
Insert(r, o) ==
  LET shards == RouteWrite(copy[r], TenantOf[o]) IN
  /\ o \notin Acked \cup Underway \cup Bulk
  /\ Range(shards) \subseteq Pools[r]
  /\ BeginCall(r, [i \in DOMAIN shards |-> [node |-> shards[i], rows |-> {o}]])

(* Mistake: the loader goes by the logical shard and forgets the pins. *)
BucketByHash(d, p) == {o \in Bulk : d.placement[Logical(TenantOf[o])] = p}

(* The rows of each node in one COPY, the nodes in any order. Seed writes  *)
(* where reads go and not to both ends of a window; it is not run while a  *)
(* move is under way (labs/04 README:231-234). Bulk ids are not repeated.  *)
Bucket(d, p) == {o \in Bulk : RouteRead(d, TenantOf[o]) = p}
Seed(r) ==
  LET targets == {p \in Nodes : Bucket(copy[r], p) # {}} IN
  /\ move = NoMove
  /\ Bulk # {} /\ targets \subseteq Pools[r]
  /\ Bulk \cap (Underway \cup UNION Range(orders)) = {}
  /\ \E order \in [1..Cardinality(targets) -> targets] :
       /\ Range(order) = targets
       /\ BeginCall(r, [i \in DOMAIN order |->
                          [node |-> order[i], rows |-> Bucket(copy[r], order[i])]])

(* Mistake: the call succeeds when its first write did. *)
FirstIsEnough(r) == TRUE

(* Mistake: the loop runs once more. *)
OnceMore(r) == call[r].at > Len(call[r].writes)

LastWrite(r) == call[r].at = Len(call[r].writes)

(* One INSERT ... ON CONFLICT DO NOTHING, or one COPY, of the call. *)
Land(r) ==
  LET w == call[r].writes[call[r].at] IN
  orders' = [orders EXCEPT ![w.node] = @ \cup w.rows]

Exec(r) ==
  /\ InCall(r)
  /\ Land(r)
  /\ IF LastWrite(r)
     THEN /\ call' = [call EXCEPT ![r] = NoCall]
          /\ acked' = [acked EXCEPT ![r] = @ \cup UNION {w.rows : w \in Range(call[r].writes)}]
     ELSE /\ call' = [call EXCEPT ![r].at = @ + 1]
          /\ acked' = acked
  /\ UNCHANGED <<mover, copy>>

(* The write fails, with or without effect, or the process dies: the call  *)
(* ends with what it has written so far.                                   *)
ExecFails(r) ==
  /\ InCall(r)
  /\ Land(r) \/ orders' = orders
  /\ call' = [call EXCEPT ![r] = NoCall]
  /\ UNCHANGED <<mover, copy, acked>>

-----------------------------------------------------------------------------
(* The mover (external) *)

(* The rows of a logical shard; a pinned tenant's are not among them. *)
Moved(l) == {o \in Orders : Logical(TenantOf[o]) = l /\ ~Pinned(dir, TenantOf[o])}

(* Every router has the directory of the file; with Drains, so do calls. *)
Confirmed == \A r \in Routers :
  copy[r] = dir /\ (Drains /\ InCall(r) => call[r].by = dir)

OpenWindow ==
  /\ move = NoMove /\ moves < MaxMoves
  /\ \E l \in Logicals, p \in Nodes :
       /\ dir.placement[l] # p
       /\ dir' = BeginMove(dir, l, p)
       /\ move' = [step |-> "open", logical |-> l, source |-> dir.placement[l], target |-> p,
                   cursor |-> 1]
  /\ moves' = moves + 1
  /\ UNCHANGED <<copy, rows>>

StartCopy ==
  /\ move # NoMove /\ move.step = "open"
  /\ Confirmed
  /\ move' = [move EXCEPT !.step = "copy"]
  /\ UNCHANGED <<dir, moves, copy, rows>>

CopyRow ==
  /\ move # NoMove /\ move.step = "copy" /\ move.cursor \in Orders
  /\ orders' = [orders EXCEPT ![move.target] =
                  @ \cup ({move.cursor} \cap Moved(move.logical) \cap orders[move.source])]
  /\ move' = [move EXCEPT !.cursor = @ + 1]
  /\ UNCHANGED <<dir, moves, copy, call, acked>>

(* Counts and checksums of the two nodes; what differs is copied again. *)
Verify ==
  /\ move # NoMove /\ move.step = "copy" /\ move.cursor \notin Orders
  /\ move' = IF orders[move.source] \cap Moved(move.logical) \subseteq orders[move.target]
             THEN [move EXCEPT !.step = "verified"]
             ELSE [move EXCEPT !.cursor = 1]
  /\ UNCHANGED <<dir, moves, copy, rows>>

Cutover ==
  /\ move # NoMove /\ move.step = "verified"
  /\ dir' = Commit(dir, move.logical)
  /\ move' = [move EXCEPT !.step = "cut"]
  /\ UNCHANGED <<moves, copy, rows>>

CleanUp ==
  /\ move # NoMove /\ move.step = "cut"
  /\ Confirmed
  /\ orders' = [orders EXCEPT ![move.source] = @ \ Moved(move.logical)]
  /\ move' = NoMove
  /\ UNCHANGED <<dir, moves, copy, call, acked>>

-----------------------------------------------------------------------------
RouterStep(r) ==
  \/ SetTopology(r) \/ Seed(r) \/ Exec(r) \/ ExecFails(r)
  \/ \E o \in Orders : Insert(r, o)

Next ==
  \/ \E r \in Routers : RouterStep(r)
  \/ OpenWindow \/ StartCopy \/ CopyRow \/ Verify \/ Cutover \/ CleanUp

Spec == Init /\ [][Next]_vars

-----------------------------------------------------------------------------
Reads(d, o) == orders[RouteRead(d, TenantOf[o])]

(* Misplaced, for one shard: the rows that d would not route there. *)
Misplaced(d, p) == {o \in orders[p] : RouteRead(d, TenantOf[o]) # p}

(* An order whose Insert or Seed returned nil is on the node that the      *)
(* directory sends readers to, however its call overlaps the steps of a    *)
(* move (orders.go:13-37, topology.go:206-236).                            *)
NoLostOrder == \A o \in Acked : o \in Reads(dir, o)

(* A router finds what it acknowledged itself, though its copy of the      *)
(* directory may be behind the file's (cluster.go:95-102).                 *)
ReadOwnWrites == \A r \in Routers : \A o \in acked[r] : o \in Reads(copy[r], o)

(* "After a reshard this must be zero on every shard except the sources    *)
(* you have not cleaned up yet" (orders.go:202-204).                       *)
AuditClean == move = NoMove => \A p \in Nodes : Misplaced(dir, p) = {}
=============================================================================
