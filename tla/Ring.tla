--------------------------------- MODULE Ring ---------------------------------
(***************************************************************************)
(* The other two topologies of src/internal/shard/topology.go: hash % n,   *)
(* and a ring of points to which shards are added.                         *)
(*                                                                         *)
(* The positions that ringPos and Key give to tenants and points are       *)
(* constants.  sort.Slice leaves points of one hash in any order; here no  *)
(* two points have one.                                                    *)
(***************************************************************************)
EXTENDS Directory

CONSTANTS
  Servers,    \* the shards that a ring may have
  VNodes,     \* points of each shard
  Position,   \* Position[t]: where tenant t is on the circle
  PointAt     \* PointAt[s][i]: where point i of shard s is

ASSUME RingAssumption ==
  /\ VNodes \in Nat \ {0}
  /\ Position \in [Tenants -> Nat]
  /\ PointAt \in [Servers -> [1..VNodes -> Nat]]
  /\ \A s, z \in Servers : \A i, j \in 1..VNodes :
       PointAt[s][i] = PointAt[z][j] => s = z /\ i = j

VARIABLE ring   \* the points, and the shards they are of

ModNRead(n, t) == Key[t] % n

PointsOf(s) == {[hash |-> PointAt[s][i], shard |-> s] : i \in 1..VNodes}

NewRing(shards) == [points |-> UNION {PointsOf(s) : s \in shards}, shards |-> shards]

(* The first of the points, as they are sorted. *)
First(points) == CHOOSE p \in points : \A q \in points : p.hash <= q.hash

Ahead(points, t) == {p \in points : p.hash >= Position[t]}

(* Mistake: the hash picks a point by its index. *)
PickByIndex(r, t) ==
  (CHOOSE p \in r.points : Cardinality({q \in r.points : q.hash < p.hash})
                             = Position[t] % Cardinality(r.points)).shard

(* The first point at or after the tenant, wrapping around. *)
RingRead(r, t) ==
  IF r.points = {} THEN 0
  ELSE First(IF Ahead(r.points, t) = {} THEN r.points ELSE Ahead(r.points, t)).shard

RingInit == \E shards \in (SUBSET Servers) \ {{}} : ring = NewRing(shards)

Add(s) ==
  /\ s \notin ring.shards
  /\ ring' = [points |-> ring.points \cup PointsOf(s), shards |-> ring.shards \cup {s}]

RingNext == \E s \in Servers : Add(s)

RingSpec == RingInit /\ [][RingNext]_ring

-----------------------------------------------------------------------------
(* What Churn counts, for two functions from tenants to shards, and what   *)
(* Distribution counts for a shard.                                        *)
Movers(from, to) == {t \in Tenants : from[t] # to[t]}
OnShard(f, s) == {t \in Tenants : f[t] = s}

RingRoutes(r) == [t \in Tenants |-> RingRead(r, t)]

(* What a new shard is given is what moves: "only from existing shards to  *)
(* the new one -- no key ever moves between two existing shards"           *)
(* (topology.go:61-63), in whatever order shards are added.                *)
OnlyTheNewShardGains == \A s \in ring'.shards \ ring.shards :
  Movers(RingRoutes(ring), RingRoutes(ring')) = OnShard(RingRoutes(ring'), s)
GrowsByMovesToTheNew == [][OnlyTheNewShardGains]_ring
=============================================================================
