--------------------------- MODULE TopologiesProofs ---------------------------
(***************************************************************************)
(* What DirectoryEdits, Ring and Topologies state, for every number of     *)
(* tenants, logical shards, nodes and points, and every hash.              *)
(***************************************************************************)
EXTENDS Topologies, WellFoundedInduction, NaturalsInduction, TLAPS

(* The directory *)

LEMMA LogicalIsOne == \A t \in Tenants : Logical(t) \in Logicals
  BY DirectoryAssumption DEF Logical, Logicals

(* The ranges cover the logical shards: the division leaves no remainder   *)
(* without a node.                                                         *)
LEMMA NewDirectoryType ==
  ASSUME NEW n \in Sizes
  PROVE  NewDirectory(n) \in Directories(Nodes)
<1> DEFINE per == LogicalCount \div n
           place == [l \in Logicals |-> IF l \div per >= n THEN n - 1 ELSE l \div per]
<1>1. n \in Nat /\ n >= 1 /\ n <= LogicalCount /\ LogicalCount \in Nat /\ 0..(n - 1) \subseteq Nodes
  BY DirectoryAssumption, EditsAssumption
<1>2. per \in Nat /\ per >= 1
  BY <1>1, SMT
<1>3. ASSUME NEW l \in Logicals
      PROVE  place[l] \in Nodes
  <2>1. l \in Nat
    BY <1>1 DEF Logicals
  <2> HIDE DEF per
  <2>2. l \div per \in Nat
    BY <2>1, <1>2, SMT
  <2>3. (IF l \div per >= n THEN n - 1 ELSE l \div per) \in 0..(n - 1)
    BY <2>2, <1>1
  <2> QED BY <2>3, <1>1
<1>4. place \in [Logicals -> Nodes]
  BY <1>3
<1> HIDE DEF place
<1>5. NewDirectory(n) = [placement |-> place,
                         migrating |-> [l \in Logicals |-> NoShard],
                         pins      |-> [t \in Tenants |-> NoShard]]
  BY DEF NewDirectory, place, per
<1> QED BY <1>4, <1>5 DEF Directories

LEMMA EditsKeepTheType ==
  ASSUME TypeOK, Next
  PROVE  TypeOK'
<1>1. ASSUME NEW l \in Logicals, NEW p \in Nodes, dir' = BeginMove(dir, l, p)
      PROVE  TypeOK'
  BY <1>1 DEF TypeOK, Directories, BeginMove
<1>2. ASSUME NEW l \in Logicals, dir' = Commit(dir, l)
      PROVE  TypeOK'
  <2>1. CASE dir.migrating[l] = NoShard
    BY <1>2, <2>1 DEF TypeOK, Commit
  <2>2. CASE dir.migrating[l] # NoShard
    <3>1. dir.migrating[l] \in Nodes
      BY <2>2 DEF TypeOK, Directories
    <3> QED BY <1>2, <2>2, <3>1 DEF TypeOK, Directories, Commit
  <2> QED BY <2>1, <2>2
<1>3. ASSUME NEW t \in Tenants, NEW p \in Nodes, dir' = Pin(dir, t, p)
      PROVE  TypeOK'
  BY <1>3 DEF TypeOK, Directories, Pin
<1> QED BY <1>1, <1>2, <1>3 DEF Next

(* The three tables of a directory always name nodes that exist            *)
(* (topology.go:161-179, 220-245).                                         *)
THEOREM TypeCorrect == Spec => []TypeOK
<1>1. Init => TypeOK
  BY NewDirectoryType DEF Init, TypeOK
<1>2. TypeOK /\ [Next]_dir => TypeOK'
  BY EditsKeepTheType DEF TypeOK
<1> QED BY <1>1, <1>2, PTL DEF Spec

-----------------------------------------------------------------------------
LEMMA TwoNodes ==
  ASSUME NEW a, NEW b
  PROVE  Range(<<a, b>>) = {a, b} /\ Range(<<a>>) = {a}
BY DEF Range

LEMMA WritesGoTo ==
  ASSUME NEW d, NEW t \in Tenants
  PROVE  Range(RouteWrite(d, t)) =
           {RouteRead(d, t)} \cup (IF InWindow(d, t) THEN {d.migrating[Logical(t)]} ELSE {})
BY TwoNodes DEF RouteWrite

LEMMA PrepareStep ==
  ASSUME TypeOK, Next
  PROVE  Prepared
<1> SUFFICES ASSUME NEW t \in Tenants, dir'.pins[t] = dir.pins[t]
             PROVE  RouteRead(dir', t) \in Range(RouteWrite(dir, t))
  BY DEF Prepared
<1>0. Logical(t) \in Logicals
  BY LogicalIsOne
<1>1. ASSUME RouteRead(dir', t) = RouteRead(dir, t)
      PROVE  RouteRead(dir', t) \in Range(RouteWrite(dir, t))
  BY <1>1, WritesGoTo
<1>2. ASSUME NEW l \in Logicals, NEW p \in Nodes, dir' = BeginMove(dir, l, p)
      PROVE  RouteRead(dir', t) \in Range(RouteWrite(dir, t))
  BY <1>1, <1>2 DEF TypeOK, Directories, BeginMove, RouteRead, Pinned
<1>3. ASSUME NEW u \in Tenants, NEW p \in Nodes, dir' = Pin(dir, u, p)
      PROVE  RouteRead(dir', t) \in Range(RouteWrite(dir, t))
  BY <1>1, <1>3 DEF TypeOK, Directories, Pin, RouteRead, Pinned
<1>4. ASSUME NEW l \in Logicals, dir' = Commit(dir, l)
      PROVE  RouteRead(dir', t) \in Range(RouteWrite(dir, t))
  <2>1. CASE dir.migrating[l] = NoShard \/ l # Logical(t) \/ Pinned(dir, t)
    BY <1>0, <1>1, <1>4, <2>1 DEF TypeOK, Directories, Commit, RouteRead, Pinned
  <2>2. CASE dir.migrating[l] # NoShard /\ l = Logical(t) /\ ~Pinned(dir, t)
    <3>1. RouteRead(dir', t) = dir.migrating[l]
      BY <1>0, <1>4, <2>2 DEF TypeOK, Directories, Commit, RouteRead, Pinned
    <3>2. CASE dir.migrating[l] = RouteRead(dir, t)
      BY <1>1, <3>1, <3>2
    <3>3. CASE dir.migrating[l] # RouteRead(dir, t)
      BY <2>2, <3>1, <3>3, WritesGoTo DEF InWindow
    <3> QED BY <3>2, <3>3
  <2> QED BY <2>1, <2>2
<1> QED BY <1>2, <1>3, <1>4 DEF Next

(* Whatever the edits and their order, reads of a tenant only move to a    *)
(* node its writes were sent to before, or by a pin (topology.go:206-236). *)
THEOREM ReadsMoveToPreparedNodes == Spec => ReadsFollowWrites
<1>1. TypeOK /\ [Next]_dir => [Prepared]_dir
  BY PrepareStep
<1> QED BY <1>1, TypeCorrect, PTL DEF Spec, ReadsFollowWrites

-----------------------------------------------------------------------------
LEMMA OneMoverStep ==
  ASSUME TypeOK, Next
  PROVE  OneMover
<1> SUFFICES ASSUME NEW t \in Tenants, NEW u \in Tenants,
                    RouteRead(dir', t) # RouteRead(dir, t),
                    RouteRead(dir', u) # RouteRead(dir, u)
             PROVE  t = u \/ Logical(t) = Logical(u)
  BY DEF OneMover
<1>0. Logical(t) \in Logicals /\ Logical(u) \in Logicals
  BY LogicalIsOne
<1>1. ASSUME NEW l \in Logicals, NEW p \in Nodes, dir' = BeginMove(dir, l, p)
      PROVE  FALSE
  BY <1>1 DEF TypeOK, Directories, BeginMove, RouteRead, Pinned
<1>2. ASSUME NEW v \in Tenants, NEW p \in Nodes, dir' = Pin(dir, v, p)
      PROVE  t = v /\ u = v
  BY <1>2 DEF TypeOK, Directories, Pin, RouteRead, Pinned
<1>3. ASSUME NEW l \in Logicals, dir' = Commit(dir, l)
      PROVE  Logical(t) = l /\ Logical(u) = l
  <2>1. dir.migrating[l] # NoShard
    BY <1>3 DEF Commit
  <2> QED BY <1>0, <1>3, <2>1 DEF TypeOK, Directories, Commit, RouteRead, Pinned
<1> QED BY <1>1, <1>2, <1>3 DEF Next

(* One edit moves the reads of one logical shard or of one pinned tenant   *)
(* (topology.go:145-148).                                                  *)
THEOREM EditsMoveOneLogical == Spec => MovesOneLogical
<1>1. TypeOK /\ [Next]_dir => [OneMover]_dir
  BY OneMoverStep
<1> QED BY <1>1, TypeCorrect, PTL DEF Spec, MovesOneLogical

-----------------------------------------------------------------------------
LEMMA RangeHas ==
  ASSUME NEW S, NEW T, NEW f \in [S -> T], NEW x \in S
  PROVE  f[x] \in Range(f)
BY DEF Range

LEMMA FitsStep ==
  ASSUME TypeOK, Nodes \subseteq Nat
  PROVE  FittingRoutesHavePools
<1> SUFFICES ASSUME NEW nodes \in 1..(Cardinality(Nodes) + 1), CheckPlacementFits(dir, nodes),
                    NEW t \in Tenants, NEW p \in Range(RouteWrite(dir, t))
             PROVE  p \in Nat /\ p < nodes
  <2>1. ASSUME NEW nodes \in 1..(Cardinality(Nodes) + 1),
               \A p \in Routes(dir) : p \in Nat /\ p < nodes
        PROVE  Routes(dir) \subseteq 0..(nodes - 1)
    BY <2>1
  <2> QED BY <2>1 DEF FittingRoutesHavePools, Routes
<1>0. Logical(t) \in Logicals
  BY LogicalIsOne
<1>1. /\ dir.placement \in [Logicals -> Nodes]
      /\ dir.migrating \in [Logicals -> Nodes \cup {NoShard}]
      /\ dir.pins \in [Tenants -> Nodes \cup {NoShard}]
  BY DEF TypeOK, Directories
<1>2. dir.placement[Logical(t)] \in Nat /\ dir.placement[Logical(t)] < nodes
  <2>1. dir.placement[Logical(t)] \in Range(dir.placement)
    BY <1>0, <1>1, RangeHas
  <2> QED BY <1>0, <1>1, <2>1 DEF CheckPlacementFits, PlacedOn
<1>3. ASSUME dir.migrating[Logical(t)] # NoShard
      PROVE  dir.migrating[Logical(t)] \in Nat /\ dir.migrating[Logical(t)] < nodes
  <2>1. dir.migrating[Logical(t)] \in Range(dir.migrating)
    BY <1>0, <1>1, RangeHas
  <2>2. dir.migrating[Logical(t)] \in Nodes
    BY <1>0, <1>1, <1>3
  <2> QED BY <1>3, <2>1, <2>2 DEF CheckPlacementFits, PlacedOn
<1>4. ASSUME Pinned(dir, t)
      PROVE  dir.pins[t] \in Nat /\ dir.pins[t] < nodes
  <2>1. dir.pins[t] \in Nodes
    BY <1>1, <1>4 DEF Pinned
  <2> QED BY <1>4, <2>1 DEF CheckPlacementFits
<1>5. RouteRead(dir, t) \in Nat /\ RouteRead(dir, t) < nodes
  BY <1>2, <1>4 DEF RouteRead
<1>6. p = RouteRead(dir, t) \/ (InWindow(dir, t) /\ p = dir.migrating[Logical(t)])
  BY WritesGoTo
<1> QED BY <1>3, <1>5, <1>6 DEF InWindow

(* A directory that passed checkPlacementFits routes nothing to a node     *)
(* without a pool (main.go:156-194).                                       *)
THEOREM FitMeansRoutable == Spec => []FittingRoutesHavePools
<1>1. TypeOK => FittingRoutesHavePools
  BY FitsStep, EditsAssumption
<1> QED BY <1>1, TypeCorrect, PTL

-----------------------------------------------------------------------------
(* The ring *)

Points == UNION {PointsOf(s) : s \in Servers}

RingInv ==
  /\ ring.shards \subseteq Servers
  /\ ring = NewRing(ring.shards)
  /\ ring.points # {}

LEMMA LeastNumber ==
  ASSUME NEW S \in SUBSET Nat, S # {}
  PROVE  \E n \in S : \A m \in S : n <= m
<1> DEFINE less == OpToRel(<, Nat)
<1>1. \E n \in S : \A m \in S : <<m, n>> \notin less
  BY NatLessThanWellFounded, WFMin
<1>2. \A m, n \in Nat : m < n => <<m, n>> \in less
  BY Zenon DEF OpToRel
<1> HIDE DEF less
<1>3. PICK n \in S : \A m \in S : <<m, n>> \notin less
  BY <1>1
<1>4. \A m \in S : ~(m < n)
  BY <1>2, <1>3
<1> QED BY <1>3, <1>4, SMT

LEMMA PointsAreNumbered ==
  /\ \A p \in Points : p.hash \in Nat /\ p.shard \in Servers
  /\ \A p, q \in Points : p.hash = q.hash => p = q
<1>1. ASSUME NEW p \in Points
      PROVE  \E s \in Servers : \E i \in 1..VNodes : p = [hash |-> PointAt[s][i], shard |-> s]
  BY DEF Points, PointsOf
<1>2. ASSUME NEW s \in Servers, NEW i \in 1..VNodes PROVE PointAt[s][i] \in Nat
  BY RingAssumption
<1>3. ASSUME NEW p \in Points, NEW q \in Points, p.hash = q.hash PROVE p = q
  <2>1. PICK s \in Servers, i \in 1..VNodes : p = [hash |-> PointAt[s][i], shard |-> s]
    BY <1>1
  <2>2. PICK z \in Servers, j \in 1..VNodes : q = [hash |-> PointAt[z][j], shard |-> z]
    BY <1>1
  <2>3. PointAt[s][i] = PointAt[z][j]
    BY <1>3, <2>1, <2>2
  <2>4. s = z /\ i = j
    BY <2>3, RingAssumption
  <2> QED BY <2>1, <2>2, <2>4
<1> QED BY <1>1, <1>2, <1>3

(* First picks a point with the least hash of all. *)
LEMMA FirstIsLeast ==
  ASSUME NEW S \in SUBSET Points, S # {}
  PROVE  First(S) \in S /\ \A q \in S : First(S).hash <= q.hash
<1> DEFINE hashes == {p.hash : p \in S}
<1>1. hashes \subseteq Nat /\ hashes # {}
  BY PointsAreNumbered
<1>2. PICK n \in hashes : \A m \in hashes : n <= m
  <2> HIDE DEF hashes
  <2> QED BY <1>1, LeastNumber
<1>3. \E p \in S : \A q \in S : p.hash <= q.hash
  BY <1>2
<1> QED BY <1>3 DEF First

(* The first of more points is the first of the old ones, or a new one. *)
LEMMA FirstOfMore ==
  ASSUME NEW S \in SUBSET Points, S # {}, NEW T \in SUBSET Points, S \subseteq T
  PROVE  First(T) = First(S) \/ First(T) \in T \ S
<1> SUFFICES ASSUME First(T) \in S PROVE First(T) = First(S)
  BY FirstIsLeast
<1>1. First(S) \in S /\ First(T).hash <= First(S).hash /\ First(S).hash <= First(T).hash
  BY FirstIsLeast
<1>2. First(S).hash = First(T).hash
  BY <1>1, PointsAreNumbered, SMT
<1> QED BY <1>1, <1>2, PointsAreNumbered

(* Adding a shard leaves a tenant where it is or gives it to the new one.  *)
LEMMA AddKeepsOrGains ==
  ASSUME RingInv, NEW s \in Servers, Add(s), NEW t \in Tenants
  PROVE  RingRead(ring', t) \in {RingRead(ring, t), s}
<1> DEFINE old == ring.points
           new == ring'.points
<1>1. old \in SUBSET Points /\ old # {} /\ new = old \cup PointsOf(s) /\ new \in SUBSET Points
  BY DEF RingInv, NewRing, Points, Add
<1>2. \A p \in new \ old : p.shard = s
  BY <1>1 DEF PointsOf
<1>3. /\ RingRead(ring, t) = First(IF Ahead(old, t) = {} THEN old ELSE Ahead(old, t)).shard
      /\ RingRead(ring', t) = First(IF Ahead(new, t) = {} THEN new ELSE Ahead(new, t)).shard
  BY <1>1 DEF RingRead
<1>4. /\ Ahead(old, t) \in SUBSET Points /\ Ahead(new, t) \in SUBSET Points
      /\ Ahead(old, t) \subseteq Ahead(new, t) /\ Ahead(new, t) \ Ahead(old, t) \subseteq new \ old
  BY <1>1 DEF Ahead
<1> HIDE DEF old, new
<1>5. CASE Ahead(old, t) # {}
  <2>1. First(Ahead(new, t)) = First(Ahead(old, t)) \/ First(Ahead(new, t)) \in new \ old
    BY <1>4, <1>5, FirstOfMore
  <2> QED BY <1>2, <1>3, <1>4, <1>5, <2>1
<1>6. CASE Ahead(old, t) = {} /\ Ahead(new, t) # {}
  <2>1. First(Ahead(new, t)) \in new \ old
    BY <1>4, <1>6, FirstIsLeast
  <2> QED BY <1>2, <1>3, <1>6, <2>1
<1>7. CASE Ahead(new, t) = {}
  <2>1. Ahead(old, t) = {}
    BY <1>4, <1>7
  <2>2. First(new) = First(old) \/ First(new) \in new \ old
    BY <1>1, FirstOfMore
  <2> QED BY <1>2, <1>3, <1>7, <2>1, <2>2
<1> QED BY <1>5, <1>6, <1>7

(* No tenant is on a shard that is not in the ring. *)
LEMMA NotYetThere ==
  ASSUME RingInv, NEW s \in Servers, s \notin ring.shards, NEW t \in Tenants
  PROVE  RingRead(ring, t) # s
<1>1. ring.points \in SUBSET Points /\ ring.points # {} /\ \A p \in ring.points : p.shard \in ring.shards
  BY DEF RingInv, NewRing, Points, PointsOf
<1>2. PICK S \in SUBSET ring.points : S # {} /\ RingRead(ring, t) = First(S).shard
  BY <1>1 DEF RingRead, Ahead
<1>3. First(S) \in ring.points
  BY <1>1, <1>2, FirstIsLeast
<1> QED BY <1>1, <1>2, <1>3

LEMMA RingInvariant == RingSpec => []RingInv
<1>1. ASSUME NEW s \in Servers PROVE PointsOf(s) # {}
  <2>1. 1 \in 1..VNodes
    BY RingAssumption
  <2>2. [hash |-> PointAt[s][1], shard |-> s] \in PointsOf(s)
    BY <2>1 DEF PointsOf
  <2> QED BY <2>2
<1>2. RingInit => RingInv
  BY <1>1 DEF RingInit, RingInv, NewRing
<1>3. RingInv /\ [RingNext]_ring => RingInv'
  BY DEF RingNext, Add, RingInv, NewRing
<1> QED BY <1>2, <1>3, PTL DEF RingSpec

(* "only from existing shards to the new one -- no key ever moves between  *)
(* two existing shards" (topology.go:61-63): what moves when a shard is    *)
(* added is what the new shard has, whatever the hash and the points are.  *)
THEOREM OnlyToTheNewShard == RingSpec => GrowsByMovesToTheNew
<1>1. RingInv /\ [RingNext]_ring => [OnlyTheNewShardGains]_ring
  <2> SUFFICES ASSUME RingInv, NEW z \in Servers, Add(z), NEW s \in ring'.shards \ ring.shards
               PROVE  Movers(RingRoutes(ring), RingRoutes(ring')) = OnShard(RingRoutes(ring'), s)
    BY DEF RingNext, OnlyTheNewShardGains
  <2>1. s = z /\ s \notin ring.shards
    BY DEF Add
  <2>2. ASSUME NEW t \in Tenants
        PROVE  RingRead(ring, t) # RingRead(ring', t) <=> RingRead(ring', t) = s
    BY <2>1, AddKeepsOrGains, NotYetThere
  <2> QED BY <2>2 DEF Movers, OnShard, RingRoutes
<1> QED BY <1>1, RingInvariant, PTL DEF RingSpec, GrowsByMovesToTheNew

-----------------------------------------------------------------------------
(* Doubling *)
(* What \div and % are *)
LEMMA Divided ==
  ASSUME NEW k \in Nat, NEW n \in Nat, n >= 1
  PROVE  /\ k \div n \in Nat /\ k % n \in Nat /\ k % n < n
         /\ k = n * (k \div n) + (k % n)
  BY Z3

LEMMA Multiples ==
  ASSUME NEW n \in Nat, NEW a \in Int, NEW b \in Int, a < b
  PROVE  n * a + n <= n * b
<1>1. n * (b - a) >= n
  BY SMT
<1>2. n * (b - a) = n * b - n * a /\ n * a \in Int /\ n * b \in Int
  BY SMT
<1> QED BY <1>1, <1>2, SMT

(* ... and that nothing else is. *)
LEMMA Rest ==
  ASSUME NEW n \in Nat, n >= 1, NEW q \in Nat, NEW r \in Nat, r < n, NEW k \in Nat, k = n * q + r
  PROVE  k \div n = q /\ k % n = r
<1> DEFINE x == k \div n
           y == k % n
<1>1. x \in Nat /\ y \in Nat /\ y < n /\ k = n * x + y
  BY Divided
<1> HIDE DEF x, y
<1>2. n * x \in Int /\ n * q \in Int
  BY <1>1, SMT
<1>3. ~(x < q)
  <2>1. x < q => n * x + n <= n * q
    BY <1>1, Multiples
  <2> QED BY <1>1, <1>2, <2>1, SMT
<1>4. ~(q < x)
  <2>1. q < x => n * q + n <= n * x
    BY <1>1, Multiples
  <2> QED BY <1>1, <1>2, <2>1, SMT
<1>5. x = q
  BY <1>1, <1>3, <1>4, SMT
<1>6. y = r
  BY <1>1, <1>2, <1>5, SMT
<1> QED BY <1>5, <1>6 DEF x, y

(* k % 2n is k % n, or n more. *)
LEMMA Doubled ==
  ASSUME NEW k \in Nat, NEW n \in Nat, n >= 1
  PROVE  (k % (2 * n)) - (k % n) \in {0, n}
<1> DEFINE q == k \div (2 * n)
           r == k % (2 * n)
<1>1. q \in Nat /\ r \in Nat /\ r < 2 * n /\ k = (2 * n) * q + r
  <2>1. 2 * n \in Nat /\ 2 * n >= 1
    OBVIOUS
  <2> HIDE DEF q, r
  <2> QED BY <2>1, Divided DEF q, r
<1> HIDE DEF q, r
<1>2. ASSUME r < n PROVE r - (k % n) \in {0, n}
  <2>1. k = n * (2 * q) + r /\ 2 * q \in Nat
    BY <1>1, SMT
  <2>2. k % n = r
    BY <1>1, <1>2, <2>1, Rest
  <2> QED BY <1>1, <2>2, SMT
<1>3. ASSUME r >= n PROVE r - (k % n) \in {0, n}
  <2>1. k = n * (2 * q + 1) + (r - n) /\ 2 * q + 1 \in Nat /\ r - n \in Nat /\ r - n < n
    BY <1>1, <1>3, SMT
  <2>2. k % n = r - n
    BY <2>1, Rest
  <2> QED BY <1>1, <2>2, SMT
<1>4. r - (k % n) \in {0, n}
  BY <1>1, <1>2, <1>3
<1> QED BY <1>4 DEF r

(* The range of logical shards that node p has, and the half that stays *)
LEMMA ShareOf ==
  ASSUME NEW n \in Sizes, LogicalCount % n = 0, NEW p \in 0..(n - 1), NEW l \in Logicals
  PROVE  LET per == LogicalCount \div n IN
         /\ NewDirectory(n).placement[l] = p <=> l \in (p * per)..((p + 1) * per - 1)
         /\ NewDirectory(n).placement[l] = p =>
              /\ l % per = l - p * per
              /\ (p + 1) * per = p * per + per
              /\ Split(n)[l] = IF l % per >= per \div 2 THEN p + n ELSE p
<1> DEFINE per == LogicalCount \div n
           q == l \div per
<1>1. n \in Nat /\ n >= 1 /\ n <= LogicalCount /\ LogicalCount \in Nat /\ p \in Nat /\ p < n
  BY DirectoryAssumption, EditsAssumption
<1>2. per \in Nat /\ LogicalCount = n * per
  <2>1. LogicalCount \div n \in Nat /\ LogicalCount = n * (LogicalCount \div n) + (LogicalCount % n)
    BY <1>1, Divided
  <2> HIDE DEF per
  <2>2. per \in Nat /\ LogicalCount = n * per + 0
    BY <2>1 DEF per
  <2> QED BY <1>1, <2>2, SMT
<1>3. l \in Nat /\ l < LogicalCount
  BY <1>1 DEF Logicals
<1> HIDE DEF per
<1>4. per >= 1
  BY <1>1, <1>2, SMT
<1>5. q \in Nat /\ l = per * q + (l % per) /\ l % per \in Nat /\ l % per < per
  BY <1>2, <1>3, <1>4, Divided
<1>6. NewDirectory(n).placement = [x \in Logicals |-> IF x \div per >= n THEN n - 1 ELSE x \div per]
  BY DEF NewDirectory, per
<1>7. Split(n) = [x \in Logicals |-> NewDirectory(n).placement[x] + IF x % per >= per \div 2 THEN n ELSE 0]
  BY DEF Split, per
<1> HIDE DEF q
<1>8. q < n
  <2>1. n <= q => per * n + 0 <= per * q
    BY <1>1, <1>2, <1>5, SMT
  <2>2. per * n = n * per
    BY <1>1, <1>2, SMT
  <2> QED BY <1>1, <1>2, <1>3, <1>5, <2>1, <2>2, SMT
<1>9. NewDirectory(n).placement[l] = q
  BY <1>1, <1>5, <1>6, <1>8 DEF q
<1>10. (p + 1) * per = p * per + per /\ p * per \in Int /\ p * per = per * p
  BY <1>1, <1>2, SMT
<1>11. q = p <=> l \in (p * per)..((p + 1) * per - 1)
  <2>1. p < q => per * p + per <= per * q
    BY <1>1, <1>2, <1>5, Multiples
  <2>2. q < p => per * q + per <= per * p
    BY <1>1, <1>2, <1>5, Multiples
  <2>3. per * q \in Int
    BY <1>2, <1>5
  <2> QED BY <1>1, <1>2, <1>3, <1>5, <1>10, <2>1, <2>2, <2>3, SMT
<1>12. q = p => l % per = l - p * per
  BY <1>2, <1>3, <1>5, <1>10, SMT
<1>13. q = p => Split(n)[l] = IF l % per >= per \div 2 THEN p + n ELSE p
  BY <1>1, <1>7, <1>9
<1> QED BY <1>9, <1>10, <1>11, <1>12, <1>13 DEF per

LEMMA HalvesFit ==
  ASSUME from \in Sizes
  PROVE  DoublingHalves
<1> DEFINE per == LogicalCount \div from
<1>1. from \in Nat /\ from >= 1 /\ from <= LogicalCount /\ LogicalCount \in Nat
  BY DirectoryAssumption, EditsAssumption
<1>2. \A t \in Tenants : ModNRead(2 * from, t) - ModNRead(from, t) \in {0, from}
  BY <1>1, DirectoryAssumption, Doubled DEF ModNRead
<1>3. \A l \in Logicals : Split(from)[l] - NewDirectory(from).placement[l] \in {0, from}
  <2> TAKE l \in Logicals
  <2>1. NewDirectory(from).placement[l] \in Int
    <3>1. NewDirectory(from) \in Directories(Nodes) /\ Nodes \subseteq Nat
      BY NewDirectoryType, EditsAssumption
    <3>2. NewDirectory(from).placement \in [Logicals -> Nodes]
      BY <3>1, Zenon DEF Directories
    <3>3. NewDirectory(from).placement[l] \in Nodes
      BY <3>2, Zenon
    <3>4. \A x \in Nodes : x \in Int
      BY <3>1
    <3> QED BY <3>3, <3>4, Zenon
  <2>2. Split(from)[l] = NewDirectory(from).placement[l] + IF l % per >= per \div 2 THEN from ELSE 0
    BY DEF Split
  <2> HIDE DEF per
  <2> QED BY <1>1, <2>1, <2>2
<1>4. ASSUME LogicalCount % from = 0, NEW p \in 0..(from - 1)
      PROVE  LogicalsOn(NewDirectory(from), p) \ {l \in Logicals : Split(from)[l] = p}
               = (p * per + per \div 2)..((p + 1) * per - 1)
  <2>1. p \in Nat /\ p < from /\ per \in Nat /\ LogicalCount = from * per
    <3>1. LogicalCount \div from \in Nat /\ LogicalCount = from * (LogicalCount \div from) + (LogicalCount % from)
      BY <1>1, Divided
    <3> HIDE DEF per
    <3>2. per \in Nat /\ LogicalCount = from * per + 0
      BY <1>4, <3>1 DEF per
    <3> QED BY <1>1, <3>2, SMT
  <2>2. ASSUME NEW l \in Logicals
        PROVE  /\ NewDirectory(from).placement[l] = p <=> l \in (p * per)..((p + 1) * per - 1)
               /\ NewDirectory(from).placement[l] = p =>
                    /\ l % per = l - p * per
                    /\ (p + 1) * per = p * per + per
                    /\ Split(from)[l] = IF l % per >= per \div 2 THEN p + from ELSE p
    BY <1>4, ShareOf
  <2> HIDE DEF per
  <2>3. p * per \in Nat /\ (p + 1) * per = p * per + per /\ (p + 1) * per <= LogicalCount /\ per \div 2 \in Nat
    <3>1. (p + 1) * per = p * per + per /\ p * per \in Nat /\ from * per = per * from /\ p * per = per * p
      BY <1>1, <2>1, SMT
    <3>2. per * p + per <= per * from
      BY <1>1, <2>1, Multiples
    <3>3. per \div 2 \in Nat
      BY <2>1, SMT
    <3> QED BY <2>1, <3>1, <3>2, <3>3, SMT
  <2>4. ASSUME NEW l \in Logicals
        PROVE  NewDirectory(from).placement[l] = p /\ Split(from)[l] # p <=>
                 l \in (p * per + per \div 2)..((p + 1) * per - 1)
    <3>1. l \in Nat
      BY <1>1 DEF Logicals
    <3>2. CASE NewDirectory(from).placement[l] = p
      <4>1. Split(from)[l] # p <=> l % per >= per \div 2
        BY <1>1, <2>1, <2>2, <3>2
      <4>2. l % per = l - p * per /\ l \in (p * per)..((p + 1) * per - 1)
        BY <2>2, <3>2
      <4> HIDE DEF per
      <4> QED BY <2>3, <3>1, <3>2, <4>1, <4>2
    <3>3. CASE NewDirectory(from).placement[l] # p
      BY <2>2, <2>3, <3>1, <3>3
    <3> QED BY <3>2, <3>3
  <2>5. ASSUME NEW l \in (p * per + per \div 2)..((p + 1) * per - 1) PROVE l \in Logicals
    BY <1>1, <2>1, <2>3 DEF Logicals
  <2>6. LogicalsOn(NewDirectory(from), p) = {l \in Logicals : NewDirectory(from).placement[l] = p}
    BY DEF LogicalsOn
  <2> QED BY <2>4, <2>5, <2>6
<1> QED BY <1>2, <1>3, <1>4 DEF DoublingHalves

(* Side by side, each topology takes its own steps. *)
LEMMA SideBySide == TopologiesSpec => Spec /\ RingSpec /\ [](from \in Sizes)
<1>1. TopologiesInit => Init /\ RingInit /\ from \in Sizes
  BY DEF TopologiesInit
<1>2. [TopologiesNext]_topologies => [Next]_dir /\ [RingNext]_ring /\ from' = from
  BY DEF TopologiesNext, topologies
<1>3. from \in Sizes /\ from' = from => (from \in Sizes)'
  OBVIOUS
<1> QED BY <1>1, <1>2, <1>3, PTL DEF TopologiesSpec, Spec, RingSpec

(* Doubling takes every shard apart in two, by hash % n and by the split,  *)
(* for every number of shards and of logical shards                        *)
(* (topology.go:34-35; cmdTopology, main.go:238-239).                      *)
THEOREM DoublingSplitsInTwo == TopologiesSpec => []DoublingHalves
<1>1. from \in Sizes => DoublingHalves
  BY HalvesFit
<1> QED BY <1>1, SideBySide, PTL

(* What the directory and the ring promise apart, they promise side by     *)
(* side, and the doubling keeps its own (topology.go:161-245, 34-35,       *)
(* 61-63; main.go:156-194, 238-239).                                       *)
THEOREM TopologiesKeepTheirPromises ==
  TopologiesSpec => /\ []TypeOK /\ []FittingRoutesHavePools
                    /\ ReadsFollowWrites /\ MovesOneLogical
                    /\ GrowsByMovesToTheNew
                    /\ []DoublingHalves
BY SideBySide, TypeCorrect, FitMeansRoutable, ReadsMoveToPreparedNodes, EditsMoveOneLogical,
   OnlyToTheNewShard, DoublingSplitsInTwo, PTL
=============================================================================
