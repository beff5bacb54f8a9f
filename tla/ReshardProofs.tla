---------------------------- MODULE ReshardProofs ----------------------------
(***************************************************************************)
(* Orders are where readers look while logical shards move, for every      *)
(* number of nodes, routers, orders and moves, if the mover waits for the  *)
(* calls in flight (Drains) and the first directory has no open window.    *)
(***************************************************************************)
EXTENDS Reshard, FiniteSetTheorems, SequenceTheorems, TLAPS

(* Where the writes and the reads of an order go by directory d. *)
Dests(d, o) == Range(RouteWrite(d, TenantOf[o]))
HomeOf(d, o) == RouteRead(d, TenantOf[o])
Group(o) == Logical(TenantOf[o])
Fixed(d, o) == Pinned(d, TenantOf[o])

(* The order belongs to the logical shard that is being moved. *)
Moving(o) == move # NoMove /\ o \in Moved(move.logical)

(* One window is open at most, from the opening of a move to its cutover. *)
Shape ==
  /\ \A k \in Logicals : dir.migrating[k] =
       IF move # NoMove /\ move.step # "cut" /\ k = move.logical THEN move.target ELSE NoShard
  /\ move # NoMove =>
       /\ move.source # move.target
       /\ move.step = "open" => move.cursor = 1
       /\ dir.placement[move.logical] = IF move.step = "cut" THEN move.target ELSE move.source

(* The directory of before the window, or of before the cutover. *)
Former ==
  IF move.step = "open" THEN [dir EXCEPT !.migrating[move.logical] = NoShard]
  ELSE [dir EXCEPT !.placement[move.logical] = move.source, !.migrating[move.logical] = move.target]

(* A router or a call may be behind by the one edit that is not confirmed. *)
Lag(d) == d = dir \/ (move # NoMove /\ move.step \in {"open", "cut"} /\ d = Former)

Lags == \A r \in Routers : Lag(copy[r]) /\ (InCall(r) => Lag(call[r].by))

(* A router that has the cutover does not go back. *)
Behind == \A r \in Routers :
  move # NoMove /\ move.step = "cut" /\ InCall(r) /\ call[r].by = dir => copy[r] = dir

(* The writes of an Insert. *)
OneRowTo(shards, o) == [i \in DOMAIN shards |-> [node |-> shards[i], rows |-> {o}]]

(* A call sends every order to all nodes of its route, and to no other. *)
Sends(c) == \A i \in DOMAIN c.writes : \A o \in c.writes[i].rows :
  /\ c.writes[i].node \in Dests(c.by, o)
  /\ \A p \in Dests(c.by, o) : \E j \in DOMAIN c.writes : c.writes[j].node = p /\ o \in c.writes[j].rows

(* What it has sent is there. *)
Landed(c) == \A i \in 1..(c.at - 1) : c.writes[i].rows \subseteq orders[c.writes[i].node]

CallsInv == \A r \in Routers : InCall(r) => Sends(call[r]) /\ Landed(call[r])

(* What was acknowledged is on the target as far as the copy has come. *)
Copied ==
  move # NoMove /\ move.step \in {"copy", "verified"} =>
    \A o \in Acked : Moving(o) /\ (move.step = "copy" => o < move.cursor) => o \in orders[move.target]

(* A row is where reads go, or on one of the two nodes of the move. *)
Placed == \A p \in Nodes : \A o \in orders[p] :
  p = HomeOf(dir, o) \/ (Moving(o) /\ p \in {move.source, move.target})

DirInv == Shape /\ Lags /\ Behind
RowInv == CallsInv /\ Copied /\ Placed /\ NoLostOrder /\ ReadOwnWrites

-----------------------------------------------------------------------------
(* Types *)

LEMMA Tenancy == \A o \in Orders : TenantOf[o] \in Tenants /\ Group(o) \in Logicals
<1> SUFFICES ASSUME NEW o \in Orders PROVE TenantOf[o] \in Tenants /\ Group(o) \in Logicals
  OBVIOUS
<1>1. TenantOf[o] \in Tenants
  BY ReshardAssumption
<1>2. Key[TenantOf[o]] \in Nat /\ LogicalCount \in Nat \ {0}
  BY <1>1, DirectoryAssumption
<1> QED BY <1>1, <1>2 DEF Group, Logical, Logicals

(* NoShard is not a node, so a window is a node and a route is one or two. *)
LEMMA Routing ==
  ASSUME NEW d \in Directories(Nodes), NEW o \in Orders
  PROVE  /\ HomeOf(d, o) \in Nodes
         /\ HomeOf(d, o) = IF Fixed(d, o) THEN d.pins[TenantOf[o]] ELSE d.placement[Group(o)]
         /\ IF ~Fixed(d, o) /\ d.migrating[Group(o)] \notin {NoShard, HomeOf(d, o)}
            THEN /\ d.migrating[Group(o)] \in Nodes
                 /\ RouteWrite(d, TenantOf[o]) = <<HomeOf(d, o), d.migrating[Group(o)]>>
                 /\ Dests(d, o) = {HomeOf(d, o), d.migrating[Group(o)]}
            ELSE /\ RouteWrite(d, TenantOf[o]) = <<HomeOf(d, o)>>
                 /\ Dests(d, o) = {HomeOf(d, o)}
<1> DEFINE t == TenantOf[o]
<1>1. t \in Tenants /\ Group(o) \in Logicals
  BY Tenancy
<1>2. /\ d.placement[Group(o)] \in Nodes
      /\ d.migrating[Group(o)] \in Nodes \cup {NoShard}
      /\ d.pins[t] \in Nodes \cup {NoShard}
  BY <1>1 DEF Directories
<1>3. HomeOf(d, o) \in Nodes
  BY <1>2 DEF HomeOf, RouteRead, Pinned, Group
<1>4. \A a, b : Range(<<a, b>>) = {a, b} /\ Range(<<a>>) = {a}
  <2> SUFFICES ASSUME NEW a, NEW b PROVE Range(<<a, b>>) = {a, b} /\ Range(<<a>>) = {a}
    OBVIOUS
  <2>1. DOMAIN <<a, b>> = {1, 2} /\ DOMAIN <<a>> = {1}
    OBVIOUS
  <2> QED BY <2>1 DEF Range
<1>5. CASE InWindow(d, t)
  BY <1>2, <1>3, <1>4, <1>5 DEF InWindow, RouteWrite, Dests, HomeOf, Fixed, Group, RouteRead
<1>6. CASE ~InWindow(d, t)
  BY <1>2, <1>3, <1>4, <1>6 DEF InWindow, RouteWrite, Dests, HomeOf, Fixed, Group, RouteRead
<1> QED BY <1>3, <1>5, <1>6

LEMMA NodesCount ==
  /\ Cardinality(Nodes) \in Nat
  /\ \A a \in Nodes : Cardinality(Nodes) >= 1
  /\ \A a, b \in Nodes : a # b => Cardinality(Nodes) >= 2
<1>1. IsFiniteSet(Nodes) /\ Cardinality(Nodes) \in Nat
  BY ReshardAssumption, FS_CardinalityType
<1>2. ASSUME NEW a \in Nodes PROVE Cardinality(Nodes) >= 1
  BY <1>1, FS_EmptySet
<1>3. ASSUME NEW a \in Nodes, NEW b \in Nodes, a # b PROVE Cardinality(Nodes) >= 2
  <2>1. Cardinality(Nodes) # 1
    BY <1>1, <1>3, FS_Singleton
  <2> QED BY <1>1, <1>2, <2>1
<1> QED BY <1>1, <1>2, <1>3

(* A call that begins sends to as many nodes as it has writes. *)
LEMMA NewCall ==
  ASSUME NEW d \in Directories(Nodes), NEW n \in 1..Cardinality(Nodes), NEW w \in [1..n -> Write]
  PROVE  LET c == [by |-> d, writes |-> w, at |-> 1] IN
         c \in Calls /\ c # NoCall /\ c.at \in DOMAIN c.writes
<1>1. Cardinality(Nodes) \in Nat
  BY NodesCount
<1>2. w \in UNION {[1..k -> Write] : k \in 1..Cardinality(Nodes)}
  OBVIOUS
<1>3. [by |-> d, writes |-> w, at |-> 1] # NoCall
  <2>1. "at" \in DOMAIN [by |-> d, writes |-> w, at |-> 1] /\ "at" \notin DOMAIN NoCall
    BY DEF NoCall
  <2> QED BY <2>1
<1> QED BY <1>1, <1>2, <1>3 DEF Calls

LEMMA CallParts ==
  ASSUME NEW c \in Calls
  PROVE  /\ c # NoCall
         /\ c.by \in Directories(Nodes)
         /\ Len(c.writes) \in 1..Cardinality(Nodes)
         /\ c.writes \in Seq(Write)
         /\ DOMAIN c.writes = 1..Len(c.writes)
         /\ \A i \in DOMAIN c.writes : c.writes[i].node \in Nodes /\ c.writes[i].rows \subseteq Orders
<1>1. PICK n \in 1..Cardinality(Nodes) : c.writes \in [1..n -> Write]
  BY DEF Calls
<1>2. n \in Nat
  BY NodesCount
<1>3. c.writes \in Seq(Write)
  BY <1>1, <1>2
<1>4. Len(c.writes) = n
  BY <1>1, <1>2, <1>3
<1>5. "at" \in DOMAIN c /\ "at" \notin DOMAIN NoCall
  BY DEF Calls, NoCall
<1>6. c.by \in Directories(Nodes)
  BY DEF Calls
<1> QED BY <1>1, <1>2, <1>3, <1>4, <1>5, <1>6 DEF Write

LEMMA OneRow ==
  ASSUME NEW k \in 1..Cardinality(Nodes), NEW s, DOMAIN s = 1..k, NEW o \in Orders,
         \A i \in 1..k : s[i] \in Nodes
  PROVE  OneRowTo(s, o) \in [1..k -> Write]
<1>1. \A i \in 1..k : [node |-> s[i], rows |-> {o}] \in Write
  BY DEF Write
<1>2. OneRowTo(s, o) = [i \in 1..k |-> [node |-> s[i], rows |-> {o}]]
  BY DEF OneRowTo
<1> QED BY <1>1, <1>2

LEMMA InsertCalls ==
  ASSUME NEW d \in Directories(Nodes), NEW o \in Orders
  PROVE  \E n \in 1..Cardinality(Nodes) : OneRowTo(RouteWrite(d, TenantOf[o]), o) \in [1..n -> Write]
<1>1. Cardinality(Nodes) \in Nat
  BY NodesCount
<1>2. \/ \E a, b \in Nodes : a # b /\ RouteWrite(d, TenantOf[o]) = <<a, b>>
      \/ \E a \in Nodes : RouteWrite(d, TenantOf[o]) = <<a>>
  BY Routing
<1>3. ASSUME NEW a \in Nodes, NEW b \in Nodes, a # b
      PROVE  \E n \in 1..Cardinality(Nodes) : OneRowTo(<<a, b>>, o) \in [1..n -> Write]
  <2>1. DOMAIN <<a, b>> = 1..2 /\ \A i \in 1..2 : <<a, b>>[i] \in Nodes
    OBVIOUS
  <2>2. 2 \in 1..Cardinality(Nodes)
    BY <1>1, <1>3, NodesCount
  <2> QED BY OneRow, <2>1, <2>2
<1>4. ASSUME NEW a \in Nodes
      PROVE  \E n \in 1..Cardinality(Nodes) : OneRowTo(<<a>>, o) \in [1..n -> Write]
  <2>1. DOMAIN <<a>> = 1..1 /\ \A i \in 1..1 : <<a>>[i] \in Nodes
    OBVIOUS
  <2>2. 1 \in 1..Cardinality(Nodes)
    BY <1>1, NodesCount
  <2> QED BY OneRow, <2>1, <2>2
<1> QED BY <1>2, <1>3, <1>4

LEMMA SeedCalls ==
  ASSUME TypeOK, NEW r \in Routers, Bulk # {}
  PROVE  LET targets == {p \in Nodes : Bucket(copy[r], p) # {}} IN
         \A order \in [1..Cardinality(targets) -> targets] :
           LET w == [i \in DOMAIN order |-> [node |-> order[i], rows |-> Bucket(copy[r], order[i])]]
           IN  \E n \in 1..Cardinality(Nodes) : w \in [1..n -> Write]
<1> DEFINE targets == {p \in Nodes : Bucket(copy[r], p) # {}}
<1>1. copy[r] \in Directories(Nodes) /\ Bulk \subseteq Orders
  BY ReshardAssumption DEF TypeOK
<1>2. PICK o : o \in Bulk
  OBVIOUS
<1>3. HomeOf(copy[r], o) \in targets
  BY <1>1, <1>2, Routing DEF Bucket, HomeOf
<1>4. IsFiniteSet(targets) /\ Cardinality(targets) <= Cardinality(Nodes) /\ targets # {}
      /\ Cardinality(targets) \in Nat /\ Cardinality(Nodes) \in Nat
  <2>1. IsFiniteSet(Nodes) /\ targets \in SUBSET Nodes
    BY ReshardAssumption
  <2> QED BY <1>3, <2>1, FS_Subset, FS_CardinalityType
<1>5. Cardinality(targets) \in 1..Cardinality(Nodes)
  BY <1>4, FS_EmptySet
<1>6. \A p : Bucket(copy[r], p) \subseteq Orders
  BY <1>1 DEF Bucket
<1>7. targets \subseteq Nodes
  OBVIOUS
<1> HIDE DEF targets
<1> SUFFICES ASSUME NEW order \in [1..Cardinality(targets) -> targets]
             PROVE  [i \in DOMAIN order |-> [node |-> order[i], rows |-> Bucket(copy[r], order[i])]]
                      \in [1..Cardinality(targets) -> Write]
  BY <1>5 DEF targets
<1> QED BY <1>6, <1>7 DEF Write

LEMMA BeginType ==
  ASSUME TypeOK, NEW r \in Routers, NEW w, BeginCall(r, w),
         \E n \in 1..Cardinality(Nodes) : w \in [1..n -> Write]
  PROVE  TypeOK'
<1> DEFINE c == [by |-> copy[r], writes |-> w, at |-> 1]
<1>1. c \in Calls /\ c.at \in DOMAIN c.writes
  BY NewCall DEF TypeOK
<1> HIDE DEF c
<1>2. call' = [call EXCEPT ![r] = c]
  BY DEF BeginCall, c
<1>3. DOMAIN call' = Routers
      /\ \A q \in Routers : (call'[q] \in Calls /\ call'[q].at \in DOMAIN call'[q].writes) \/ call'[q] = NoCall
  BY <1>1, <1>2 DEF TypeOK, InCall
<1> QED BY <1>3 DEF TypeOK, BeginCall, InCall, mover

LEMMA EndType ==
  ASSUME TypeOK, NEW r \in Routers, call' = [call EXCEPT ![r] = NoCall]
  PROVE  DOMAIN call' = Routers /\ \A q \in Routers : InCall(q)' => call'[q] = call[q] /\ InCall(q)
BY DEF TypeOK, InCall

LEMMA ExecType ==
  ASSUME TypeOK, NEW r \in Routers, InCall(r)
  PROVE  /\ Land(r) => orders' \in [Nodes -> SUBSET Orders]
         /\ UNION {w.rows : w \in Range(call[r].writes)} \subseteq Orders
<1>1. call[r] \in Calls /\ call[r].at \in DOMAIN call[r].writes
  BY DEF TypeOK
<1>2. \A i \in DOMAIN call[r].writes : call[r].writes[i].node \in Nodes /\ call[r].writes[i].rows \subseteq Orders
  BY <1>1, CallParts
<1>3. Land(r) => orders' \in [Nodes -> SUBSET Orders]
  BY <1>1, <1>2 DEF TypeOK, Land
<1>4. \A w \in Range(call[r].writes) : w.rows \subseteq Orders
  BY <1>2 DEF Range
<1> QED BY <1>3, <1>4

LEMMA AdvanceType ==
  ASSUME TypeOK, NEW r \in Routers, InCall(r), ~LastWrite(r),
         call' = [call EXCEPT ![r].at = @ + 1]
  PROVE  /\ DOMAIN call' = Routers
         /\ \A q \in Routers : q # r => call'[q] = call[q]
         /\ call'[r] \in Calls
         /\ call'[r].by = call[r].by /\ call'[r].writes = call[r].writes
         /\ call'[r].at = call[r].at + 1 /\ call'[r].at \in DOMAIN call'[r].writes
<1> DEFINE c == call[r]
           e == [c EXCEPT !.at = @ + 1]
<1>1. c \in Calls /\ c.at \in DOMAIN c.writes
  BY DEF TypeOK
<1>2. Cardinality(Nodes) \in Nat
  BY NodesCount
<1>3. Len(c.writes) \in 1..Cardinality(Nodes) /\ DOMAIN c.writes = 1..Len(c.writes)
  BY <1>1, CallParts
<1>4. c.at \in 1..Cardinality(Nodes) /\ c.at + 1 \in 1..Len(c.writes)
  BY <1>1, <1>2, <1>3 DEF LastWrite
<1>5. call' = [call EXCEPT ![r] = e]
  OBVIOUS
<1>6. e \in Calls /\ e.by = c.by /\ e.writes = c.writes /\ e.at = c.at + 1
  <2>1. c.at + 1 \in 1..Cardinality(Nodes)
    BY <1>2, <1>3, <1>4
  <2> QED BY <1>1, <2>1 DEF Calls
<1> HIDE DEF e
<1>7. call'[r] = e /\ DOMAIN call' = Routers /\ \A q \in Routers : q # r => call'[q] = call[q]
  BY <1>5 DEF TypeOK
<1> QED BY <1>3, <1>4, <1>6, <1>7

LEMMA MoverType ==
  ASSUME TypeOK, OpenWindow \/ StartCopy \/ CopyRow \/ Verify \/ Cutover \/ CleanUp
  PROVE  TypeOK'
<1>0. LastId \in Nat /\ MaxMoves \in Nat /\ NoShard \notin Nodes
  BY ReshardAssumption DEF NoShard
<1>1. ASSUME UNCHANGED call PROVE \A r \in Routers : InCall(r)' <=> InCall(r)
  BY <1>1 DEF InCall
<1>2. CASE OpenWindow
  <2>1. PICK l \in Logicals, p \in Nodes :
          /\ dir.placement[l] # p
          /\ dir' = BeginMove(dir, l, p)
          /\ move' = [step |-> "open", logical |-> l, source |-> dir.placement[l], target |-> p, cursor |-> 1]
    BY <1>2 DEF OpenWindow
  <2>2. dir' \in Directories(Nodes)
    BY <2>1 DEF TypeOK, Directories, BeginMove
  <2>3. move' \in Moves
    BY <1>0, <2>1 DEF TypeOK, Directories, Moves, Steps
  <2>4. moves' \in 0..MaxMoves
    BY <1>0, <1>2 DEF TypeOK, OpenWindow
  <2> QED BY <1>1, <1>2, <2>2, <2>3, <2>4 DEF TypeOK, OpenWindow, rows, InCall
<1>3. CASE StartCopy
  <2>1. move' \in Moves
    BY <1>3 DEF TypeOK, StartCopy, Moves, Steps
  <2> QED BY <1>1, <1>3, <2>1 DEF TypeOK, StartCopy, rows, InCall
<1>4. CASE CopyRow
  <2>1. move \in Moves /\ move.target \in Nodes
    BY <1>4 DEF TypeOK, CopyRow, Moves
  <2>2. move.cursor + 1 \in 1..(LastId + 1)
    BY <1>0, <1>4 DEF CopyRow, Orders
  <2>3. move' \in Moves
    BY <1>4, <2>1, <2>2 DEF CopyRow, Moves
  <2>4. orders' \in [Nodes -> SUBSET Orders]
    BY <1>4, <2>1 DEF TypeOK, CopyRow, Moved
  <2> QED BY <1>1, <1>4, <2>3, <2>4 DEF TypeOK, CopyRow, InCall
<1>5. CASE Verify
  <2>1. move \in Moves
    BY <1>5 DEF TypeOK, Verify
  <2>2. 1 \in 1..(LastId + 1)
    BY <1>0
  <2>3. [move EXCEPT !.step = "verified"] \in Moves /\ [move EXCEPT !.cursor = 1] \in Moves
    BY <2>1, <2>2 DEF Moves, Steps
  <2> QED BY <1>1, <1>5, <2>3 DEF TypeOK, Verify, rows, InCall
<1>6. CASE Cutover
  <2>1. move \in Moves /\ move.logical \in Logicals
    BY <1>6 DEF TypeOK, Cutover, Moves
  <2>2. dir' \in Directories(Nodes)
    <3>1. CASE dir.migrating[move.logical] = NoShard
      BY <1>6, <3>1 DEF TypeOK, Cutover, Commit
    <3>2. CASE dir.migrating[move.logical] # NoShard
      <4>1. dir.migrating[move.logical] \in Nodes
        BY <2>1, <3>2 DEF TypeOK, Directories
      <4> QED BY <1>6, <2>1, <3>2, <4>1 DEF TypeOK, Cutover, Commit, Directories
    <3> QED BY <3>1, <3>2
  <2>3. move' \in Moves
    BY <1>6, <2>1 DEF Cutover, Moves, Steps
  <2> QED BY <1>1, <1>6, <2>2, <2>3 DEF TypeOK, Cutover, rows, InCall
<1>7. CASE CleanUp
  <2>1. orders' \in [Nodes -> SUBSET Orders]
    BY <1>7 DEF TypeOK, CleanUp
  <2> QED BY <1>1, <1>7, <2>1 DEF TypeOK, CleanUp, InCall
<1> QED BY <1>2, <1>3, <1>4, <1>5, <1>6, <1>7

LEMMA SeedBegins ==
  ASSUME TypeOK, NEW r \in Routers, Seed(r)
  PROVE  \E w : /\ BeginCall(r, w)
                /\ \E n \in 1..Cardinality(Nodes) : w \in [1..n -> Write]
                /\ \A i \in DOMAIN w : w[i].rows = Bucket(copy[r], w[i].node)
<1> DEFINE targets == {p \in Nodes : Bucket(copy[r], p) # {}}
<1>1. PICK order \in [1..Cardinality(targets) -> targets] :
        BeginCall(r, [i \in DOMAIN order |-> [node |-> order[i], rows |-> Bucket(copy[r], order[i])]])
  BY DEF Seed
<1>2. Bulk # {}
  BY DEF Seed
<1>3. \E n \in 1..Cardinality(Nodes) :
        [i \in DOMAIN order |-> [node |-> order[i], rows |-> Bucket(copy[r], order[i])]] \in [1..n -> Write]
  BY <1>2, SeedCalls
<1> DEFINE w == [i \in DOMAIN order |-> [node |-> order[i], rows |-> Bucket(copy[r], order[i])]]
<1>4. BeginCall(r, w) /\ \E n \in 1..Cardinality(Nodes) : w \in [1..n -> Write]
  BY <1>1, <1>3
<1>5. \A i \in DOMAIN w : w[i].rows = Bucket(copy[r], w[i].node)
  OBVIOUS
<1> HIDE DEF w
<1> QED BY <1>4, <1>5

LEMMA InsertBegins ==
  ASSUME TypeOK, NEW r \in Routers, NEW o \in Orders, Insert(r, o)
  PROVE  \E w : /\ w = OneRowTo(RouteWrite(copy[r], TenantOf[o]), o)
                /\ BeginCall(r, w)
                /\ \E n \in 1..Cardinality(Nodes) : w \in [1..n -> Write]
<1>1. copy[r] \in Directories(Nodes)
  BY DEF TypeOK
<1>2. BeginCall(r, OneRowTo(RouteWrite(copy[r], TenantOf[o]), o))
  BY DEF Insert, OneRowTo
<1> QED BY <1>1, <1>2, InsertCalls

LEMMA TypeStep ==
  ASSUME TypeOK, [Next]_vars
  PROVE  TypeOK'
<1>1. CASE UNCHANGED vars
  BY <1>1 DEF vars, TypeOK, InCall
<1>2. ASSUME NEW r \in Routers, SetTopology(r) PROVE TypeOK'
  BY <1>2 DEF SetTopology, TypeOK, InCall, mover, rows
<1>3. ASSUME NEW r \in Routers, Seed(r) PROVE TypeOK'
  BY <1>3, SeedBegins, BeginType
<1>4. ASSUME NEW r \in Routers, NEW o \in Orders, Insert(r, o) PROVE TypeOK'
  BY <1>4, InsertBegins, BeginType
<1>5. ASSUME NEW r \in Routers, Exec(r) PROVE TypeOK'
  <2>1. InCall(r) /\ orders' \in [Nodes -> SUBSET Orders]
        /\ UNION {w.rows : w \in Range(call[r].writes)} \subseteq Orders
    BY <1>5, ExecType DEF Exec
  <2>2. UNCHANGED <<dir, copy, move, moves>>
    BY <1>5 DEF Exec, mover
  <2>3. acked' \in [Routers -> SUBSET Orders]
    <3>1. CASE LastWrite(r)
      BY <1>5, <2>1, <3>1 DEF Exec, TypeOK
    <3>2. CASE ~LastWrite(r)
      BY <1>5, <3>2 DEF Exec, TypeOK
    <3> QED BY <3>1, <3>2
  <2>4. DOMAIN call' = Routers
        /\ \A q \in Routers : InCall(q)' => call'[q] \in Calls /\ call'[q].at \in DOMAIN call'[q].writes
    <3>1. CASE LastWrite(r)
      <4>1. call' = [call EXCEPT ![r] = NoCall]
        BY <1>5, <3>1 DEF Exec
      <4> QED BY <4>1, EndType DEF TypeOK
    <3>2. CASE ~LastWrite(r)
      <4>1. call' = [call EXCEPT ![r].at = @ + 1]
        BY <1>5, <3>2 DEF Exec
      <4> QED BY <2>1, <3>2, <4>1, AdvanceType DEF TypeOK, InCall
    <3> QED BY <3>1, <3>2
  <2> QED BY <2>1, <2>2, <2>3, <2>4 DEF TypeOK
<1>6. ASSUME NEW r \in Routers, ExecFails(r) PROVE TypeOK'
  <2>1. orders' \in [Nodes -> SUBSET Orders]
    BY <1>6, ExecType DEF ExecFails, TypeOK
  <2>2. UNCHANGED <<dir, copy, move, moves, acked>> /\ call' = [call EXCEPT ![r] = NoCall]
    BY <1>6 DEF ExecFails, mover
  <2>3. DOMAIN call' = Routers
        /\ \A q \in Routers : InCall(q)' => call'[q] \in Calls /\ call'[q].at \in DOMAIN call'[q].writes
    BY <2>2, EndType DEF TypeOK
  <2> QED BY <2>1, <2>2, <2>3 DEF TypeOK
<1> QED BY <1>1, <1>2, <1>3, <1>4, <1>5, <1>6, MoverType DEF Next, RouterStep

(* The file, the copies, the rows and the calls keep their types in every  *)
(* step of a router and of the mover.                                      *)
THEOREM TypeCorrect == Spec => []TypeOK
<1>1. Init => TypeOK
  BY ReshardAssumption DEF Init, TypeOK, InCall
<1>2. TypeOK /\ [Next]_vars => TypeOK'
  BY TypeStep
<1> QED BY <1>1, <1>2, PTL DEF Spec

-----------------------------------------------------------------------------
(* Where an order goes by the directory of the file and by one behind it *)

LEMMA InMove ==
  ASSUME TypeOK, move # NoMove
  PROVE  /\ move \in Moves /\ move.step \in Steps
         /\ move.source \in Nodes /\ move.target \in Nodes /\ move.logical \in Logicals
         /\ move.source # NoShard /\ move.target # NoShard
<1>1. NoShard \notin Nodes
  BY ReshardAssumption DEF NoShard
<1> QED BY <1>1 DEF TypeOK, Moves

LEMMA FormerParts ==
  ASSUME TypeOK, move # NoMove
  PROVE  /\ Former.pins = dir.pins
         /\ \A k \in Logicals : k # move.logical =>
              Former.placement[k] = dir.placement[k] /\ Former.migrating[k] = dir.migrating[k]
         /\ move.step = "open" =>
              /\ Former.placement[move.logical] = dir.placement[move.logical]
              /\ Former.migrating[move.logical] = NoShard
         /\ move.step # "open" =>
              /\ Former.placement[move.logical] = move.source
              /\ Former.migrating[move.logical] = move.target
BY InMove DEF TypeOK, Directories, Former

LEMMA LagType ==
  ASSUME TypeOK, NEW d, Lag(d)
  PROVE  d \in Directories(Nodes)
<1>1. CASE d = dir
  BY <1>1 DEF TypeOK
<1>2. CASE move # NoMove /\ d = Former
  BY <1>2, InMove DEF TypeOK, Former, Directories
<1> QED BY <1>1, <1>2 DEF Lag

LEMMA MovingMeans ==
  ASSUME NEW o \in Orders
  PROVE  Moving(o) <=> move # NoMove /\ Group(o) = move.logical /\ ~Fixed(dir, o)
BY DEF Moving, Moved, Group, Fixed

(* An order that is not being moved goes where reads go. *)
LEMMA AtRest ==
  ASSUME TypeOK, Shape, NEW o \in Orders, ~Moving(o), NEW d, Lag(d)
  PROVE  HomeOf(d, o) = HomeOf(dir, o) /\ Dests(d, o) = {HomeOf(dir, o)}
<1>1. d \in Directories(Nodes) /\ dir \in Directories(Nodes) /\ Group(o) \in Logicals
  BY LagType, Tenancy DEF TypeOK
<1>2. d.pins = dir.pins
  BY FormerParts DEF Lag
<1>3. Fixed(d, o) <=> Fixed(dir, o)
  BY <1>2 DEF Fixed, Pinned
<1>4. CASE Fixed(dir, o)
  BY <1>1, <1>2, <1>3, <1>4, Routing
<1>5. CASE ~Fixed(dir, o)
  <2>1. move = NoMove \/ Group(o) # move.logical
    BY <1>5, MovingMeans
  <2>2. dir.migrating[Group(o)] = NoShard
    BY <1>1, <2>1 DEF Shape
  <2>3. d.placement[Group(o)] = dir.placement[Group(o)] /\ d.migrating[Group(o)] = dir.migrating[Group(o)]
    BY <1>1, <2>1, FormerParts DEF Lag
  <2>4. HomeOf(d, o) = HomeOf(dir, o)
    BY <1>1, <1>2, <1>3, <2>3, Routing
  <2>5. Dests(d, o) = {HomeOf(d, o)}
    BY <1>1, <2>2, <2>3, Routing
  <2> QED BY <2>4, <2>5
<1> QED BY <1>4, <1>5

(* One that is goes to the source, the target or both, by how far the move *)
(* has come and by how far behind the directory is.                        *)
LEMMA OnTheMove ==
  ASSUME TypeOK, Shape, NEW o \in Orders, Moving(o)
  PROVE  /\ HomeOf(dir, o) = IF move.step = "cut" THEN move.target ELSE move.source
         /\ Dests(dir, o) = IF move.step = "cut" THEN {move.target} ELSE {move.source, move.target}
         /\ HomeOf(Former, o) = move.source
         /\ Dests(Former, o) = IF move.step = "open" THEN {move.source} ELSE {move.source, move.target}
<1>1. move # NoMove /\ Group(o) = move.logical /\ ~Fixed(dir, o)
  BY MovingMeans
<1>2. dir \in Directories(Nodes) /\ Former \in Directories(Nodes) /\ Group(o) \in Logicals
  <2>1. Former \in Directories(Nodes)
    BY <1>1, InMove DEF TypeOK, Former, Directories
  <2> QED BY <2>1, Tenancy DEF TypeOK
<1>3. ~Fixed(Former, o)
  BY <1>1, FormerParts DEF Fixed, Pinned
<1>4. move.source # move.target /\ move.target # NoShard
  BY <1>1, InMove DEF Shape
<1>5. /\ dir.placement[Group(o)] = IF move.step = "cut" THEN move.target ELSE move.source
      /\ dir.migrating[Group(o)] = IF move.step = "cut" THEN NoShard ELSE move.target
  BY <1>1, <1>2 DEF Shape
<1>6. /\ Former.placement[Group(o)] = move.source
      /\ Former.migrating[Group(o)] = IF move.step = "open" THEN NoShard ELSE move.target
  BY <1>1, <1>5, FormerParts
<1>7. HomeOf(dir, o) = dir.placement[Group(o)] /\ HomeOf(Former, o) = Former.placement[Group(o)]
  BY <1>1, <1>2, <1>3, Routing
<1>8. Dests(dir, o) = IF move.step = "cut" THEN {move.target} ELSE {move.source, move.target}
  BY <1>1, <1>2, <1>4, <1>5, <1>7, Routing
<1>9. Dests(Former, o) = IF move.step = "open" THEN {move.source} ELSE {move.source, move.target}
  BY <1>2, <1>3, <1>4, <1>6, <1>7, Routing
<1> QED BY <1>5, <1>6, <1>7, <1>8, <1>9

(* What a call sends is where readers of the file look, and goes nowhere   *)
(* but there and to the two nodes of the move.                             *)
LEMMA Reach ==
  ASSUME TypeOK, Shape, NEW o \in Orders, NEW d, Lag(d)
  PROVE  /\ HomeOf(dir, o) \in Dests(d, o)
         /\ \A p \in Dests(d, o) : p = HomeOf(dir, o) \/ (Moving(o) /\ p \in {move.source, move.target})
<1>1. CASE ~Moving(o)
  BY <1>1, AtRest
<1>2. CASE Moving(o)
  <2>1. d = dir \/ (move.step \in {"open", "cut"} /\ d = Former)
    BY DEF Lag
  <2> QED BY <1>2, <2>1, OnTheMove
<1> QED BY <1>1, <1>2

(* So is it where the router that sent it looks. *)
LEMMA OwnReach ==
  ASSUME TypeOK, Shape, NEW o \in Orders, NEW b, Lag(b), NEW c, Lag(c),
         move # NoMove /\ move.step = "cut" /\ b = dir => c = dir
  PROVE  HomeOf(c, o) \in Dests(b, o)
<1>1. CASE ~Moving(o)
  BY <1>1, AtRest
<1>2. CASE Moving(o)
  <2>1. move # NoMove
    BY <1>2 DEF Moving
  <2>2. b = dir \/ (move.step \in {"open", "cut"} /\ b = Former)
    BY DEF Lag
  <2>3. c = dir \/ (move.step \in {"open", "cut"} /\ c = Former)
    BY DEF Lag
  <2> QED BY <1>2, <2>1, <2>2, <2>3, OnTheMove
<1> QED BY <1>1, <1>2

-----------------------------------------------------------------------------
(* Steps of the routers *)

Inv == TypeOK /\ DirInv /\ RowInv

LEMMA Still ==
  ASSUME UNCHANGED <<dir, move>>
  PROVE  /\ Shape' <=> Shape
         /\ \A d : Lag(d)' <=> Lag(d)
         /\ \A o : Moving(o)' <=> Moving(o)
<1>1. Shape' <=> Shape
  BY DEF Shape
<1>2. \A d : Lag(d)' <=> Lag(d)
  BY DEF Lag, Former
<1>3. \A o : Moving(o)' <=> Moving(o)
  BY DEF Moving, Moved
<1> QED BY <1>1, <1>2, <1>3

LEMMA SetTopologyStep ==
  ASSUME Inv, NEW r \in Routers, SetTopology(r)
  PROVE  DirInv' /\ RowInv'
<1>0. UNCHANGED <<dir, move, moves, orders, call, acked>> /\ copy' = [copy EXCEPT ![r] = dir]
  BY DEF SetTopology, mover, rows
<1>1. \A q \in Routers : copy'[q] = copy[q] \/ copy'[q] = dir
  BY <1>0 DEF Inv, TypeOK
<1>2. Shape'
  BY <1>0, Still DEF Inv, DirInv
<1>3. Lags'
  BY <1>0, <1>1, Still DEF Inv, DirInv, Lags, InCall, Lag
<1>4. Behind'
  BY <1>0, <1>1 DEF Inv, DirInv, Behind, InCall
<1>5. CallsInv'
  BY <1>0 DEF Inv, RowInv, CallsInv, InCall, Landed
<1>6. Copied' /\ Placed' /\ NoLostOrder'
  BY <1>0, Still DEF Inv, RowInv, Copied, Placed, NoLostOrder, Acked, Reads
<1>7. ReadOwnWrites'
  <2> SUFFICES ASSUME NEW q \in Routers, NEW o \in acked[q]
               PROVE  o \in orders[RouteRead(copy'[q], TenantOf[o])]
    BY <1>0 DEF ReadOwnWrites, Reads
  <2>1. CASE copy'[q] = copy[q]
    BY <2>1 DEF Inv, RowInv, ReadOwnWrites, Reads
  <2>2. CASE copy'[q] = dir
    BY <2>2 DEF Inv, RowInv, NoLostOrder, Acked, Reads
  <2> QED BY <1>1, <2>1, <2>2
<1> QED BY <1>2, <1>3, <1>4, <1>5, <1>6, <1>7 DEF DirInv, RowInv

(* A call that begins by the router's directory, and sends as it says. *)
LEMMA BeginStep ==
  ASSUME Inv, NEW r \in Routers, NEW w, BeginCall(r, w),
         Sends([by |-> copy[r], writes |-> w, at |-> 1])
  PROVE  DirInv' /\ RowInv'
<1> DEFINE c == [by |-> copy[r], writes |-> w, at |-> 1]
<1>0. UNCHANGED <<dir, move, moves, orders, copy, acked>> /\ call' = [call EXCEPT ![r] = c]
  BY DEF BeginCall, mover
<1>1. c.by = copy[r] /\ c.at = 1 /\ Sends(c)
  OBVIOUS
<1> HIDE DEF c
<1>2. \A q \in Routers : call'[q] = call[q] \/ (q = r /\ call'[q] = c)
  BY <1>0 DEF Inv, TypeOK
<1>3. Shape'
  BY <1>0, Still DEF Inv, DirInv
<1>4. Lags'
  <2> SUFFICES ASSUME NEW q \in Routers
               PROVE  Lag(copy[q]) /\ (InCall(q)' => Lag(call'[q].by))
    BY <1>0, Still DEF Lags
  <2>1. Lag(copy[q]) /\ (InCall(q) => Lag(call[q].by))
    BY DEF Inv, DirInv, Lags
  <2> QED BY <1>1, <1>2, <2>1 DEF InCall
<1>5. Behind'
  BY <1>0, <1>1, <1>2 DEF Inv, DirInv, Behind, InCall
<1>6. CallsInv'
  <2> SUFFICES ASSUME NEW q \in Routers, InCall(q)'
               PROVE  Sends(call'[q]) /\ Landed(call'[q])
    BY <1>0 DEF CallsInv, Landed
  <2>1. CASE call'[q] = call[q]
    BY <2>1 DEF Inv, RowInv, CallsInv, InCall
  <2>2. CASE call'[q] = c
    BY <1>1, <2>2 DEF Landed
  <2> QED BY <1>2, <2>1, <2>2
<1>7. Copied' /\ Placed' /\ NoLostOrder' /\ ReadOwnWrites'
  BY <1>0, Still DEF Inv, RowInv, Copied, Placed, NoLostOrder, ReadOwnWrites, Acked, Reads
<1> QED BY <1>3, <1>4, <1>5, <1>6, <1>7 DEF DirInv, RowInv

LEMMA InsertStep ==
  ASSUME Inv, NEW r \in Routers, NEW o \in Orders, Insert(r, o)
  PROVE  DirInv' /\ RowInv'
<1> DEFINE shards == RouteWrite(copy[r], TenantOf[o])
           w == OneRowTo(shards, o)
           c == [by |-> copy[r], writes |-> w, at |-> 1]
<1>1. BeginCall(r, w)
  BY InsertBegins DEF Inv
<1>2. DOMAIN w = DOMAIN shards /\ \A i \in DOMAIN shards : w[i].node = shards[i] /\ w[i].rows = {o}
  BY DEF OneRowTo
<1>3. Dests(copy[r], o) = {shards[i] : i \in DOMAIN shards}
  BY DEF Dests, Range
<1>4. c.by = copy[r] /\ c.writes = w
  OBVIOUS
<1> HIDE DEF c, w, shards
<1>5. Sends(c)
  BY <1>2, <1>3, <1>4 DEF Sends
<1> QED BY <1>1, <1>5, BeginStep DEF c

LEMMA SeedStep ==
  ASSUME Inv, NEW r \in Routers, Seed(r)
  PROVE  DirInv' /\ RowInv'
<1>1. PICK w : /\ BeginCall(r, w)
               /\ \A i \in DOMAIN w : w[i].rows = Bucket(copy[r], w[i].node)
  BY SeedBegins DEF Inv
<1>2. move = NoMove /\ copy[r] = dir
  BY DEF Inv, DirInv, Lags, Lag, Seed
<1>3. \A i \in DOMAIN w : \A o \in w[i].rows : Dests(copy[r], o) = {w[i].node}
  <2> SUFFICES ASSUME NEW i \in DOMAIN w, NEW o \in w[i].rows
               PROVE  Dests(copy[r], o) = {w[i].node}
    OBVIOUS
  <2>1. o \in Orders /\ HomeOf(copy[r], o) = w[i].node
    BY <1>1, ReshardAssumption DEF Bucket, HomeOf
  <2>2. ~Moving(o) /\ Lag(dir)
    BY <1>2 DEF Moving, Lag
  <2> QED BY <1>2, <2>1, <2>2, AtRest DEF Inv, DirInv
<1> DEFINE c == [by |-> copy[r], writes |-> w, at |-> 1]
<1>4. c.by = copy[r] /\ c.writes = w
  OBVIOUS
<1> HIDE DEF c
<1>5. Sends(c)
  BY <1>3, <1>4 DEF Sends
<1> QED BY <1>1, <1>5, BeginStep DEF c

Grown == \A p \in Nodes : orders[p] \subseteq orders'[p]

LEMMA LandRows ==
  ASSUME TypeOK, NEW r \in Routers, InCall(r), Land(r)
  PROVE  LET w == call[r].writes[call[r].at] IN
         /\ w.node \in Nodes /\ w.rows \subseteq Orders
         /\ Grown
         /\ w.rows \subseteq orders'[w.node]
         /\ \A p \in Nodes : \A o \in orders'[p] : o \in orders[p] \/ (p = w.node /\ o \in w.rows)
<1> DEFINE w == call[r].writes[call[r].at]
<1>1. call[r] \in Calls /\ call[r].at \in DOMAIN call[r].writes
  BY DEF TypeOK
<1>2. w.node \in Nodes /\ w.rows \subseteq Orders
  BY <1>1, CallParts
<1>3. orders' = [orders EXCEPT ![w.node] = @ \cup w.rows]
  BY DEF Land
<1> HIDE DEF w
<1>4. Grown /\ w.rows \subseteq orders'[w.node]
  BY <1>2, <1>3 DEF TypeOK, Grown
<1>5. \A p \in Nodes : \A o \in orders'[p] : o \in orders[p] \/ (p = w.node /\ o \in w.rows)
  BY <1>2, <1>3 DEF TypeOK
<1> QED BY <1>2, <1>4, <1>5 DEF w

LEMMA WriteStaysPlaced ==
  ASSUME Inv, NEW r \in Routers, InCall(r), UNCHANGED <<dir, move>>, Land(r) \/ orders' = orders
  PROVE  Grown /\ Placed'
<1>1. CASE orders' = orders
  BY <1>1, Still DEF Inv, RowInv, Placed, Grown
<1>2. CASE Land(r)
  <2> DEFINE w == call[r].writes[call[r].at]
  <2>1. Grown /\ \A p \in Nodes : \A o \in orders'[p] : o \in orders[p] \/ (p = w.node /\ o \in w.rows)
    BY <1>2, LandRows DEF Inv
  <2>2. \A o \in w.rows : o \in Orders /\ w.node \in Dests(call[r].by, o)
    <3>1. call[r].at \in DOMAIN call[r].writes /\ w.rows \subseteq Orders
      BY <1>2, LandRows DEF Inv, TypeOK
    <3>2. Sends(call[r])
      BY DEF Inv, RowInv, CallsInv
    <3> QED BY <3>1, <3>2 DEF Sends
  <2>3. Lag(call[r].by)
    BY DEF Inv, DirInv, Lags
  <2> HIDE DEF w
  <2> SUFFICES ASSUME NEW p \in Nodes, NEW o \in orders'[p]
               PROVE  p = HomeOf(dir, o) \/ (Moving(o) /\ p \in {move.source, move.target})
    BY <2>1, Still DEF Placed
  <2>4. CASE o \in orders[p]
    BY <2>4 DEF Inv, RowInv, Placed
  <2>5. CASE p = w.node /\ o \in w.rows
    BY <2>2, <2>3, <2>5, Reach DEF Inv, DirInv
  <2> QED BY <2>1, <2>4, <2>5
<1> QED BY <1>1, <1>2

(* The other calls, when that of router r ends or goes on. *)
LEMMA OtherCalls ==
  ASSUME Inv, NEW r \in Routers, UNCHANGED <<dir, copy, move>>, Grown,
         \A q \in Routers : q # r => call'[q] = call[q],
         InCall(r)' => /\ InCall(r) /\ call'[r].by = call[r].by
                       /\ Sends(call'[r]) /\ Landed(call[r])'
  PROVE  DirInv' /\ CallsInv'
<1>1. Shape'
  BY Still DEF Inv, DirInv
<1>2. \A q \in Routers : InCall(q)' => InCall(q) /\ call'[q].by = call[q].by
  BY DEF InCall
<1>3. Lags'
  BY <1>2, Still DEF Inv, DirInv, Lags
<1>4. Behind'
  BY <1>2 DEF Inv, DirInv, Behind
<1>5. CallsInv'
  <2> SUFFICES ASSUME NEW q \in Routers, InCall(q)', q # r
               PROVE  Sends(call'[q]) /\ Landed(call[q])'
    BY DEF CallsInv
  <2>1. call'[q] = call[q] /\ call[q] \in Calls /\ Sends(call[q]) /\ Landed(call[q])
    BY DEF InCall, Inv, TypeOK, RowInv, CallsInv
  <2>2. call[q].at \in DOMAIN call[q].writes
    BY <2>1 DEF InCall, Inv, TypeOK
  <2>3. \A i \in 1..(call[q].at - 1) : call[q].writes[i].node \in Nodes
    <3>1. DOMAIN call[q].writes = 1..Len(call[q].writes) /\ Len(call[q].writes) \in Nat
      BY <2>1, CallParts, NodesCount
    <3>2. 1..(call[q].at - 1) \subseteq DOMAIN call[q].writes
      BY <2>2, <3>1
    <3> QED BY <2>1, <3>2, CallParts
  <2>4. Landed(call[q])'
    BY <2>1, <2>3 DEF Landed, Grown
  <2> QED BY <2>1, <2>4
<1> QED BY <1>1, <1>3, <1>4, <1>5 DEF DirInv

LEMMA OldAcks ==
  ASSUME Inv, UNCHANGED <<dir, copy, move>>, Grown
  PROVE  /\ \A o \in Acked : o \in orders'[HomeOf(dir, o)]
         /\ \A q \in Routers : \A o \in acked[q] : o \in orders'[HomeOf(copy[q], o)]
         /\ move # NoMove /\ move.step \in {"copy", "verified"} =>
              \A o \in Acked : Moving(o) /\ (move.step = "copy" => o < move.cursor) => o \in orders'[move.target]
<1>1. \A o \in Acked : o \in Orders
  BY DEF Acked, Inv, TypeOK
<1>2. \A o \in Acked : o \in orders'[HomeOf(dir, o)]
  <2>1. \A o \in Orders : HomeOf(dir, o) \in Nodes
    BY Routing DEF Inv, TypeOK
  <2> QED BY <1>1, <2>1 DEF Inv, RowInv, NoLostOrder, Reads, HomeOf, Grown
<1>3. \A q \in Routers : \A o \in acked[q] : o \in orders'[HomeOf(copy[q], o)]
  <2>1. \A q \in Routers : \A o \in Orders : HomeOf(copy[q], o) \in Nodes
    BY Routing DEF Inv, TypeOK
  <2>2. \A q \in Routers : acked[q] \subseteq Orders
    BY DEF Inv, TypeOK
  <2> QED BY <2>1, <2>2 DEF Inv, RowInv, ReadOwnWrites, Reads, HomeOf, Grown
<1>4. move # NoMove /\ move.step \in {"copy", "verified"} =>
        \A o \in Acked : Moving(o) /\ (move.step = "copy" => o < move.cursor) => o \in orders'[move.target]
  BY InMove DEF Inv, RowInv, Copied, Grown
<1> QED BY <1>2, <1>3, <1>4

LEMMA ExecFailsStep ==
  ASSUME Inv, NEW r \in Routers, ExecFails(r)
  PROVE  DirInv' /\ RowInv'
<1>0. UNCHANGED <<dir, copy, move, moves, acked>> /\ call' = [call EXCEPT ![r] = NoCall]
      /\ InCall(r) /\ (Land(r) \/ orders' = orders)
  BY DEF ExecFails, mover
<1>1. Grown /\ Placed'
  BY <1>0, WriteStaysPlaced
<1>2. DirInv' /\ CallsInv'
  <2>1. \A q \in Routers : q # r => call'[q] = call[q]
    BY <1>0
  <2>2. ~InCall(r)'
    BY <1>0 DEF InCall, Inv, TypeOK
  <2> QED BY <1>0, <1>1, <2>1, <2>2, OtherCalls
<1>3. NoLostOrder' /\ ReadOwnWrites' /\ Copied'
  BY <1>0, <1>1, OldAcks, Still DEF NoLostOrder, ReadOwnWrites, Copied, Reads, HomeOf, Acked
<1> QED BY <1>1, <1>2, <1>3 DEF RowInv

(* When the last write has landed, each order of the call is on every node *)
(* of its route.                                                           *)
LEMMA AllLanded ==
  ASSUME Inv, NEW r \in Routers, InCall(r), Land(r), LastWrite(r),
         NEW o \in UNION {w.rows : w \in Range(call[r].writes)}
  PROVE  o \in Orders /\ \A p \in Dests(call[r].by, o) : p \in Nodes => o \in orders'[p]
<1>1. call[r] \in Calls /\ call[r].at \in DOMAIN call[r].writes /\ Sends(call[r]) /\ Landed(call[r])
  BY DEF Inv, TypeOK, RowInv, CallsInv
<1>2. PICK i \in DOMAIN call[r].writes : o \in call[r].writes[i].rows
  BY DEF Range
<1>3. o \in Orders
  BY <1>1, <1>2, CallParts
<1>4. ASSUME NEW p \in Dests(call[r].by, o), p \in Nodes
      PROVE  o \in orders'[p]
  <2>1. PICK j \in DOMAIN call[r].writes : call[r].writes[j].node = p /\ o \in call[r].writes[j].rows
    BY <1>1, <1>2 DEF Sends
  <2>2. Len(call[r].writes) \in Nat /\ DOMAIN call[r].writes = 1..Len(call[r].writes)
    BY <1>1, CallParts, NodesCount
  <2>3. j = call[r].at \/ j \in 1..(call[r].at - 1)
    BY <1>1, <2>2 DEF LastWrite
  <2>4. CASE j = call[r].at
    BY <2>1, <2>4, LandRows DEF Inv
  <2>5. CASE j \in 1..(call[r].at - 1)
    <3>1. o \in orders[p]
      BY <1>1, <2>1, <2>5 DEF Landed
    <3> QED BY <1>4, <3>1, LandRows DEF Inv, Grown
  <2> QED BY <2>3, <2>4, <2>5
<1> QED BY <1>3, <1>4

LEMMA ExecStep ==
  ASSUME Inv, NEW r \in Routers, Exec(r)
  PROVE  DirInv' /\ RowInv'
<1>0. UNCHANGED <<dir, copy, move, moves>> /\ InCall(r) /\ Land(r)
  BY DEF Exec, mover
<1>1. Grown /\ Placed'
  BY <1>0, WriteStaysPlaced
<1>2. CASE ~LastWrite(r)
  <2>0. call' = [call EXCEPT ![r].at = @ + 1] /\ acked' = acked
    BY <1>2 DEF Exec
  <2>1. DirInv' /\ CallsInv'
    <3>1. /\ \A q \in Routers : q # r => call'[q] = call[q]
          /\ call'[r].by = call[r].by /\ call'[r].writes = call[r].writes
          /\ call'[r].at = call[r].at + 1
      BY <1>0, <1>2, <2>0, AdvanceType DEF Inv
    <3>2. Sends(call[r]) /\ Landed(call[r]) /\ call[r] \in Calls /\ call[r].at \in DOMAIN call[r].writes
      BY <1>0 DEF Inv, TypeOK, RowInv, CallsInv
    <3>3. Sends(call'[r])
      BY <3>1, <3>2 DEF Sends
    <3>4. Landed(call[r])'
      <4> SUFFICES ASSUME NEW i \in 1..call[r].at
                   PROVE  call[r].writes[i].rows \subseteq orders'[call[r].writes[i].node]
        <5>1. call[r].at \in Nat
          BY <3>2, CallParts, NodesCount
        <5> QED BY <3>1, <5>1 DEF Landed
      <4>1. DOMAIN call[r].writes = 1..Len(call[r].writes) /\ Len(call[r].writes) \in Nat
        BY <3>2, CallParts, NodesCount
      <4>2. i \in DOMAIN call[r].writes /\ (i = call[r].at \/ i \in 1..(call[r].at - 1))
        BY <3>2, <4>1
      <4>3. call[r].writes[i].node \in Nodes
        BY <3>2, <4>2, CallParts
      <4>4. CASE i = call[r].at
        BY <1>0, <4>4, LandRows DEF Inv
      <4>5. CASE i \in 1..(call[r].at - 1)
        BY <1>1, <3>2, <4>3, <4>5 DEF Landed, Grown
      <4> QED BY <4>2, <4>4, <4>5
    <3> QED BY <1>0, <1>1, <3>1, <3>3, <3>4, OtherCalls
  <2>2. NoLostOrder' /\ ReadOwnWrites' /\ Copied'
    BY <1>0, <1>1, <2>0, OldAcks, Still DEF NoLostOrder, ReadOwnWrites, Copied, Reads, HomeOf, Acked
  <2> QED BY <1>1, <2>1, <2>2 DEF RowInv
<1>3. CASE LastWrite(r)
  <2> DEFINE new == UNION {w.rows : w \in Range(call[r].writes)}
  <2>0. call' = [call EXCEPT ![r] = NoCall] /\ acked' = [acked EXCEPT ![r] = @ \cup new]
    BY <1>3 DEF Exec
  <2>1. DirInv' /\ CallsInv'
    <3>1. \A q \in Routers : q # r => call'[q] = call[q]
      BY <2>0
    <3>2. ~InCall(r)'
      BY <2>0 DEF InCall, Inv, TypeOK
    <3> QED BY <1>0, <1>1, <3>1, <3>2, OtherCalls
  <2>2. \A o \in new : o \in Orders /\ \A p \in Dests(call[r].by, o) : p \in Nodes => o \in orders'[p]
    BY <1>0, <1>3, AllLanded
  <2> HIDE DEF new
  <2>3. /\ \A q \in Routers : \A o \in acked'[q] : o \in acked[q] \/ (q = r /\ o \in new)
        /\ \A o \in Acked' : o \in Acked \/ o \in new
    <3>1. \A q \in Routers : \A o \in acked'[q] : o \in acked[q] \/ (q = r /\ o \in new)
      BY <2>0 DEF Inv, TypeOK
    <3> QED BY <3>1 DEF Acked
  <2>4. Lag(call[r].by) /\ Lag(copy[r]) /\ Lag(dir)
    BY <1>0 DEF Inv, DirInv, Lags, Lag
  <2>5. \A o \in new : o \in orders'[HomeOf(dir, o)]
    <3> SUFFICES ASSUME NEW o \in new PROVE o \in orders'[HomeOf(dir, o)]
      OBVIOUS
    <3>1. HomeOf(dir, o) \in Nodes
      BY <2>2, Routing DEF Inv, TypeOK
    <3>2. HomeOf(dir, o) \in Dests(call[r].by, o)
      BY <2>2, <2>4, Reach DEF Inv, DirInv
    <3> QED BY <2>2, <3>1, <3>2
  <2>6. \A o \in new : o \in orders'[HomeOf(copy[r], o)]
    <3> SUFFICES ASSUME NEW o \in new PROVE o \in orders'[HomeOf(copy[r], o)]
      OBVIOUS
    <3>1. HomeOf(copy[r], o) \in Nodes
      BY <2>2, Routing DEF Inv, TypeOK
    <3>2. move # NoMove /\ move.step = "cut" /\ call[r].by = dir => copy[r] = dir
      BY <1>0 DEF Inv, DirInv, Behind
    <3>3. HomeOf(copy[r], o) \in Dests(call[r].by, o)
      BY <2>2, <2>4, <3>2, OwnReach DEF Inv, DirInv
    <3> QED BY <2>2, <3>1, <3>3
  <2>7. move # NoMove /\ move.step \in {"copy", "verified"} =>
          \A o \in new : Moving(o) => o \in orders'[move.target]
    <3> SUFFICES ASSUME move # NoMove, move.step \in {"copy", "verified"}, NEW o \in new, Moving(o)
                 PROVE  o \in orders'[move.target]
      OBVIOUS
    <3>1. call[r].by = dir
      BY <2>4 DEF Lag
    <3>2. move.target \in Dests(dir, o) /\ move.target \in Nodes
      BY <2>2, OnTheMove, InMove DEF Inv, DirInv
    <3> QED BY <2>2, <3>1, <3>2
  <2>8. NoLostOrder'
    BY <1>0, <1>1, <2>3, <2>5, OldAcks DEF NoLostOrder, Reads, HomeOf
  <2>9. ReadOwnWrites'
    BY <1>0, <1>1, <2>3, <2>6, OldAcks DEF ReadOwnWrites, Reads, HomeOf
  <2>10. Copied'
    BY <1>0, <1>1, <2>3, <2>7, OldAcks, Still DEF Copied
  <2> QED BY <1>1, <2>1, <2>8, <2>9, <2>10 DEF RowInv
<1> QED BY <1>2, <1>3

-----------------------------------------------------------------------------
(* Steps of the mover *)

LEMMA SameCalls ==
  ASSUME Inv, UNCHANGED <<orders, call>>
  PROVE  CallsInv'
BY DEF Inv, RowInv, CallsInv, InCall, Landed

LEMMA SameReads ==
  ASSUME Inv, UNCHANGED <<orders, copy, acked>>
  PROVE  ReadOwnWrites'
BY DEF Inv, RowInv, ReadOwnWrites, Reads

(* Opening a window leaves the readers where they were. *)
LEMMA OpenWindowStep ==
  ASSUME Inv, OpenWindow
  PROVE  DirInv' /\ RowInv'
<1>0. UNCHANGED <<copy, orders, call, acked>> /\ move = NoMove
  BY DEF OpenWindow, rows
<1>1. PICK l \in Logicals, p \in Nodes :
        /\ dir.placement[l] # p
        /\ dir' = BeginMove(dir, l, p)
        /\ move' = [step |-> "open", logical |-> l, source |-> dir.placement[l], target |-> p, cursor |-> 1]
  BY DEF OpenWindow
<1>2. /\ dir'.placement = dir.placement /\ dir'.pins = dir.pins
      /\ dir'.migrating = [dir.migrating EXCEPT ![l] = p]
  BY <1>1 DEF BeginMove, Inv, TypeOK, Directories
<1>3. move' # NoMove
  <2>1. "cursor" \in DOMAIN move' /\ "cursor" \notin DOMAIN NoMove
    BY <1>1 DEF NoMove
  <2> QED BY <2>1
<1>4. /\ move'.step = "open" /\ move'.logical = l /\ move'.cursor = 1
      /\ move'.target = p /\ move'.source = dir.placement[l]
  BY <1>1
<1>5. dir.migrating = [k \in Logicals |-> NoShard]
  BY <1>0 DEF Inv, DirInv, Shape, TypeOK, Directories
<1>6. Shape'
  <2>1. \A k \in Logicals : dir'.migrating[k] = IF k = l THEN p ELSE NoShard
    BY <1>2, <1>5
  <2>2. dir.placement[l] # p
    BY <1>1
  <2> QED BY <1>2, <1>3, <1>4, <2>1, <2>2 DEF Shape
<1>7. Former' = dir
  <2>1. Former' = [dir' EXCEPT !.migrating[l] = NoShard]
    BY <1>4 DEF Former
  <2>2. dir' = [dir EXCEPT !.migrating[l] = p]
    BY <1>1 DEF BeginMove
  <2>3. [[dir EXCEPT !.migrating[l] = p] EXCEPT !.migrating[l] = NoShard] = dir
    BY <1>5 DEF Inv, TypeOK, Directories
  <2> QED BY <2>1, <2>2, <2>3
<1>8. Lags'
  BY <1>0, <1>3, <1>4, <1>7 DEF Inv, DirInv, Lags, Lag, InCall
<1>9. Behind'
  BY <1>4 DEF Behind
<1>10. \A o : HomeOf(dir', o) = HomeOf(dir, o)
  BY <1>2 DEF HomeOf, RouteRead, Pinned
<1>11. Placed'
  BY <1>0, <1>10 DEF Inv, RowInv, Placed, Moving
<1>12. NoLostOrder'
  BY <1>0, <1>10 DEF Inv, RowInv, NoLostOrder, Reads, HomeOf, Acked
<1>13. Copied'
  BY <1>4 DEF Copied
<1> QED BY <1>0, <1>6, <1>8, <1>9, <1>11, <1>12, <1>13, SameCalls, SameReads DEF DirInv, RowInv

(* The steps that only move the mover's own state on. *)
LEMMA SameFile ==
  ASSUME Inv, UNCHANGED <<dir, copy, call>>, move # NoMove, move' # NoMove,
         move'.logical = move.logical, move'.source = move.source, move'.target = move.target,
         move.step # "cut", move'.step \in {"copy", "verified"},
         \A r \in Routers : copy[r] = dir /\ (InCall(r) => call[r].by = dir)
  PROVE  DirInv' /\ \A o : Moving(o)' <=> Moving(o)
<1>1. Shape'
  BY DEF Inv, DirInv, Shape
<1>2. Lags'
  BY DEF Lags, Lag, InCall
<1>3. Behind'
  BY DEF Behind
<1>4. \A o : Moving(o)' <=> Moving(o)
  BY DEF Moving, Moved
<1> QED BY <1>1, <1>2, <1>3, <1>4 DEF DirInv

(* Nobody is behind while rows are copied. *)
LEMMA UpToDate ==
  ASSUME Inv, move # NoMove => move.step \in {"copy", "verified"}
  PROVE  \A r \in Routers : copy[r] = dir /\ (InCall(r) => call[r].by = dir)
BY DEF Inv, DirInv, Lags, Lag

LEMMA StartCopyStep ==
  ASSUME Inv, Drains = TRUE, StartCopy
  PROVE  DirInv' /\ RowInv'
<1>0. UNCHANGED <<dir, copy, orders, call, acked>> /\ move # NoMove /\ move.step = "open"
      /\ move' = [move EXCEPT !.step = "copy"] /\ move.cursor = 1
  BY DEF StartCopy, rows, Inv, DirInv, Shape
<1>1. /\ move'.step = "copy" /\ move'.logical = move.logical /\ move'.source = move.source
      /\ move'.target = move.target /\ move'.cursor = 1
  BY <1>0, InMove DEF Inv, Moves
<1>2. move' # NoMove
  <2>1. "cursor" \in DOMAIN move' /\ "cursor" \notin DOMAIN NoMove
    BY <1>0, InMove DEF Inv, NoMove, Moves
  <2> QED BY <2>1
<1>3. \A r \in Routers : copy[r] = dir /\ (InCall(r) => call[r].by = dir)
  BY DEF StartCopy, Confirmed
<1>4. DirInv' /\ \A o : Moving(o)' <=> Moving(o)
  BY <1>0, <1>1, <1>2, <1>3, SameFile
<1>5. Copied'
  <2>1. \A o \in Acked : o \in Nat /\ ~(o < 1)
    BY ReshardAssumption DEF Acked, Inv, TypeOK, Orders
  <2> QED BY <1>0, <1>1, <2>1 DEF Copied, Acked
<1>6. Placed' /\ NoLostOrder'
  BY <1>0, <1>1, <1>4 DEF Inv, RowInv, Placed, NoLostOrder, Acked, Reads
<1> QED BY <1>0, <1>4, <1>5, <1>6, SameCalls, SameReads DEF RowInv

LEMMA CopyRowStep ==
  ASSUME Inv, CopyRow
  PROVE  DirInv' /\ RowInv'
<1> DEFINE new == {move.cursor} \cap Moved(move.logical) \cap orders[move.source]
<1>0. UNCHANGED <<dir, copy, call, acked>> /\ move # NoMove /\ move.step = "copy" /\ move.cursor \in Orders
      /\ move' = [move EXCEPT !.cursor = @ + 1]
      /\ orders' = [orders EXCEPT ![move.target] = @ \cup new]
  BY DEF CopyRow
<1>1. /\ move'.step = "copy" /\ move'.logical = move.logical /\ move'.source = move.source
      /\ move'.target = move.target /\ move'.cursor = move.cursor + 1
  BY <1>0, InMove DEF Inv, Moves
<1>2. move' # NoMove
  <2>1. "cursor" \in DOMAIN move' /\ "cursor" \notin DOMAIN NoMove
    BY <1>0, InMove DEF Inv, NoMove, Moves
  <2> QED BY <2>1
<1>3. \A r \in Routers : copy[r] = dir /\ (InCall(r) => call[r].by = dir)
  BY <1>0, UpToDate
<1>4. DirInv' /\ \A o : Moving(o)' <=> Moving(o)
  BY <1>0, <1>1, <1>2, <1>3, SameFile
<1>5. \A o \in new : o = move.cursor /\ Moving(o) /\ o \in orders[move.source]
  BY <1>0 DEF Moving
<1>6. \A o : Moving(o) /\ o = move.cursor /\ o \in orders[move.source] => o \in new
  BY DEF Moving
<1> HIDE DEF new
<1>7. move.target \in Nodes /\ move.source \in Nodes
  BY <1>0, InMove DEF Inv
<1>8. /\ Grown /\ new \subseteq orders'[move.target]
      /\ \A p \in Nodes : \A o \in orders'[p] : o \in orders[p] \/ (p = move.target /\ o \in new)
  BY <1>0, <1>7 DEF Inv, TypeOK, Grown
<1>9. Placed'
  <2> SUFFICES ASSUME NEW p \in Nodes, NEW o \in orders'[p]
               PROVE  p = HomeOf(dir, o) \/ (Moving(o) /\ p \in {move.source, move.target})
    BY <1>0, <1>1, <1>4 DEF Placed
  <2> QED BY <1>5, <1>8 DEF Inv, RowInv, Placed
<1>10. CallsInv'
  <2>1. \A r \in Routers : InCall(r) => Landed(call[r])'
    <3> SUFFICES ASSUME NEW r \in Routers, InCall(r), NEW i \in 1..(call[r].at - 1)
                 PROVE  call[r].writes[i].rows \subseteq orders'[call[r].writes[i].node]
      BY <1>0 DEF Landed
    <3>1. call[r] \in Calls /\ call[r].at \in DOMAIN call[r].writes /\ Landed(call[r])
      BY DEF Inv, TypeOK, RowInv, CallsInv
    <3>2. DOMAIN call[r].writes = 1..Len(call[r].writes) /\ Len(call[r].writes) \in Nat
      BY <3>1, CallParts, NodesCount
    <3>3. i \in DOMAIN call[r].writes
      BY <3>1, <3>2
    <3>4. call[r].writes[i].node \in Nodes
      BY <3>1, <3>3, CallParts
    <3> QED BY <1>8, <3>1, <3>4 DEF Landed, Grown
  <2> QED BY <1>0, <2>1 DEF Inv, RowInv, CallsInv, InCall
<1>11. \A o \in Acked : o \in Orders
  BY DEF Inv, TypeOK, Acked
<1>12. NoLostOrder'
  <2>1. \A o \in Orders : HomeOf(dir, o) \in Nodes
    BY Routing DEF Inv, TypeOK
  <2> QED BY <1>0, <1>8, <1>11, <2>1 DEF Inv, RowInv, NoLostOrder, Reads, Grown, Acked, HomeOf
<1>13. ReadOwnWrites'
  <2>1. \A q \in Routers : \A o \in acked[q] :
          o \in orders[RouteRead(copy[q], TenantOf[o])] /\ HomeOf(copy[q], o) \in Nodes
    BY Routing DEF Inv, TypeOK, RowInv, ReadOwnWrites, Reads
  <2> QED BY <1>0, <1>8, <2>1 DEF ReadOwnWrites, Reads, Grown, HomeOf
<1>14. Copied'
  <2> SUFFICES ASSUME NEW o \in Acked, Moving(o), o < move.cursor + 1
               PROVE  o \in orders'[move.target]
    BY <1>0, <1>1, <1>4 DEF Copied, Acked
  <2>1. o \in Nat /\ move.cursor \in Nat
    BY <1>0, <1>11 DEF Orders
  <2>2. CASE o < move.cursor
    BY <1>0, <1>7, <1>8, <2>2 DEF Inv, RowInv, Copied, Grown
  <2>3. CASE o = move.cursor
    <3>1. HomeOf(dir, o) = move.source
      BY <1>0, <1>11, OnTheMove DEF Inv, DirInv
    <3>2. o \in orders[move.source]
      BY <3>1 DEF Inv, RowInv, NoLostOrder, Reads, HomeOf
    <3> QED BY <1>6, <1>8, <2>3, <3>2
  <2> QED BY <2>1, <2>2, <2>3
<1> QED BY <1>4, <1>9, <1>10, <1>12, <1>13, <1>14 DEF RowInv

LEMMA VerifyStep ==
  ASSUME Inv, Verify
  PROVE  DirInv' /\ RowInv'
<1> DEFINE same == orders[move.source] \cap Moved(move.logical) \subseteq orders[move.target]
<1>0. UNCHANGED <<dir, copy, orders, call, acked>> /\ move # NoMove /\ move.step = "copy"
      /\ move' = IF same THEN [move EXCEPT !.step = "verified"] ELSE [move EXCEPT !.cursor = 1]
  BY DEF Verify, rows
<1>1. \A o \in Acked : o \in Orders
  BY DEF Inv, TypeOK, Acked
<1>2. \A o \in Acked : Moving(o) => o \in orders[move.source] /\ o \in Moved(move.logical)
  <2> SUFFICES ASSUME NEW o \in Acked, Moving(o)
               PROVE  o \in orders[move.source] /\ o \in Moved(move.logical)
    OBVIOUS
  <2>1. HomeOf(dir, o) = move.source
    BY <1>0, <1>1, OnTheMove DEF Inv, DirInv
  <2> QED BY <2>1 DEF Inv, RowInv, NoLostOrder, Reads, HomeOf, Moving
<1>3. same => \A o \in Acked : Moving(o) => o \in orders[move.target]
  BY <1>2
<1> HIDE DEF same
<1>4. /\ move' # NoMove
      /\ move'.logical = move.logical /\ move'.source = move.source /\ move'.target = move.target
      /\ \/ same /\ move'.step = "verified"
         \/ move'.step = "copy" /\ move'.cursor = 1
  <2>1. move \in Moves
    BY <1>0, InMove DEF Inv
  <2>2. "cursor" \in DOMAIN move' /\ "cursor" \notin DOMAIN NoMove
    BY <1>0, <2>1 DEF NoMove, Moves
  <2> QED BY <1>0, <2>1, <2>2 DEF Moves
<1>5. \A r \in Routers : copy[r] = dir /\ (InCall(r) => call[r].by = dir)
  BY <1>0, UpToDate
<1>6. DirInv' /\ \A o : Moving(o)' <=> Moving(o)
  BY <1>0, <1>4, <1>5, SameFile
<1>7. Placed' /\ NoLostOrder'
  BY <1>0, <1>4, <1>6 DEF Inv, RowInv, Placed, NoLostOrder, Acked, Reads
<1>8. Copied'
  <2> SUFFICES ASSUME NEW o \in Acked, Moving(o), move'.step = "copy" => o < move'.cursor
               PROVE  o \in orders[move.target]
    BY <1>0, <1>4, <1>6 DEF Copied, Acked
  <2>1. ~(o < 1)
    BY <1>1, ReshardAssumption DEF Orders
  <2> QED BY <1>3, <1>4, <2>1
<1> QED BY <1>0, <1>6, <1>7, <1>8, SameCalls, SameReads DEF RowInv

(* At the cutover what was acknowledged is on the target. *)
LEMMA CutoverStep ==
  ASSUME Inv, Cutover
  PROVE  DirInv' /\ RowInv'
<1> DEFINE l == move.logical
<1>0. UNCHANGED <<copy, orders, call, acked>> /\ move # NoMove /\ move.step = "verified"
      /\ move' = [move EXCEPT !.step = "cut"] /\ dir' = Commit(dir, l)
  BY DEF Cutover, rows
<1>1. /\ move'.step = "cut" /\ move'.logical = l /\ move'.source = move.source /\ move'.target = move.target
      /\ move' # NoMove
  <2>1. move \in Moves
    BY <1>0, InMove DEF Inv
  <2>2. "cursor" \in DOMAIN move' /\ "cursor" \notin DOMAIN NoMove
    BY <1>0, <2>1 DEF NoMove, Moves
  <2> QED BY <1>0, <2>1, <2>2 DEF Moves
<1>2. /\ move.source # move.target /\ move.target # NoShard /\ l \in Logicals
      /\ dir.placement[l] = move.source /\ dir.migrating[l] = move.target
      /\ \A k \in Logicals : k # l => dir.migrating[k] = NoShard
  BY <1>0, InMove DEF Inv, DirInv, Shape
<1>3. dir' = [dir EXCEPT !.placement[l] = move.target, !.migrating[l] = NoShard]
  BY <1>0, <1>2 DEF Commit
<1>4. /\ dir'.pins = dir.pins
      /\ dir'.placement = [dir.placement EXCEPT ![l] = move.target]
      /\ dir'.migrating = [dir.migrating EXCEPT ![l] = NoShard]
  BY <1>3 DEF Inv, TypeOK, Directories
<1>5. dir.placement \in [Logicals -> Nodes] /\ dir.migrating \in [Logicals -> Nodes \cup {NoShard}]
  BY DEF Inv, TypeOK, Directories
<1>6. Shape'
  BY <1>1, <1>2, <1>4, <1>5 DEF Shape
<1>7. Former' = dir
  <2>1. Former' = [dir' EXCEPT !.placement[l] = move.source, !.migrating[l] = move.target]
    BY <1>1 DEF Former
  <2>2. [[dir EXCEPT !.placement[l] = move.target, !.migrating[l] = NoShard]
           EXCEPT !.placement[l] = move.source, !.migrating[l] = move.target] = dir
    BY <1>2 DEF Inv, TypeOK, Directories
  <2> QED BY <1>3, <2>1, <2>2
<1>8. \A r \in Routers : copy[r] = dir /\ (InCall(r) => call[r].by = dir)
  BY <1>0, UpToDate
<1>9. Lags'
  BY <1>0, <1>1, <1>7, <1>8 DEF Lags, Lag, InCall
<1>10. Behind'
  BY <1>0, <1>8 DEF Behind, InCall
<1>11. \A o : Moving(o)' <=> Moving(o)
  BY <1>0, <1>1, <1>4 DEF Moving, Moved, Pinned
<1>12. \A o \in Orders : ~Moving(o) => HomeOf(dir', o) = HomeOf(dir, o)
  <2> SUFFICES ASSUME NEW o \in Orders, ~Moving(o) PROVE HomeOf(dir', o) = HomeOf(dir, o)
    OBVIOUS
  <2>1. Fixed(dir, o) \/ (Group(o) # l /\ Group(o) \in Logicals)
    BY <1>0, MovingMeans, Tenancy
  <2> QED BY <1>4, <1>5, <2>1 DEF HomeOf, RouteRead, Fixed, Pinned, Group
<1>13. \A o \in Orders : Moving(o) => HomeOf(dir', o) = move.target /\ HomeOf(dir, o) = move.source
  <2> SUFFICES ASSUME NEW o \in Orders, Moving(o)
               PROVE  HomeOf(dir', o) = move.target /\ HomeOf(dir, o) = move.source
    OBVIOUS
  <2>1. ~Fixed(dir, o) /\ Group(o) = l
    BY MovingMeans
  <2> QED BY <1>2, <1>4, <1>5, <2>1 DEF HomeOf, RouteRead, Fixed, Pinned, Group
<1>14. Placed'
  <2> SUFFICES ASSUME NEW p \in Nodes, NEW o \in orders[p]
               PROVE  p = HomeOf(dir', o) \/ (Moving(o) /\ p \in {move.source, move.target})
    BY <1>0, <1>1, <1>11 DEF Placed
  <2>1. o \in Orders
    BY DEF Inv, TypeOK
  <2> QED BY <1>12, <1>13, <2>1 DEF Inv, RowInv, Placed
<1>15. NoLostOrder'
  <2> SUFFICES ASSUME NEW o \in Acked PROVE o \in orders[HomeOf(dir', o)]
    BY <1>0 DEF NoLostOrder, Reads, Acked, HomeOf
  <2>1. o \in Orders
    BY DEF Inv, TypeOK, Acked
  <2>2. CASE Moving(o)
    BY <1>0, <1>13, <2>1, <2>2 DEF Inv, RowInv, Copied
  <2>3. CASE ~Moving(o)
    BY <1>12, <2>1, <2>3 DEF Inv, RowInv, NoLostOrder, Reads, HomeOf
  <2> QED BY <2>2, <2>3
<1>16. Copied'
  BY <1>1 DEF Copied
<1> QED BY <1>0, <1>6, <1>9, <1>10, <1>14, <1>15, <1>16, SameCalls, SameReads DEF DirInv, RowInv

(* The rows that the clean-up deletes are read nowhere, and no call has    *)
(* sent them there.                                                        *)
LEMMA CleanUpStep ==
  ASSUME Inv, Drains = TRUE, CleanUp
  PROVE  DirInv' /\ RowInv'
<1>0. UNCHANGED <<dir, copy, call, acked>> /\ move # NoMove /\ move.step = "cut" /\ move' = NoMove
      /\ orders' = [orders EXCEPT ![move.source] = @ \ Moved(move.logical)]
  BY DEF CleanUp
<1>1. \A r \in Routers : copy[r] = dir /\ (InCall(r) => call[r].by = dir)
  BY DEF CleanUp, Confirmed
<1>2. move.source \in Nodes /\ move.target \in Nodes /\ move.source # move.target
  BY <1>0, InMove DEF Inv, DirInv, Shape
<1>3. \A o : o \in Moved(move.logical) <=> Moving(o)
  BY <1>0 DEF Moving
<1>4. \A p \in Nodes : \A o : o \in orders'[p] <=> o \in orders[p] /\ ~(p = move.source /\ Moving(o))
  BY <1>0, <1>2, <1>3 DEF Inv, TypeOK
<1>5. Shape'
  BY <1>0 DEF Inv, DirInv, Shape
<1>6. Lags'
  BY <1>0, <1>1 DEF Lags, Lag, InCall
<1>7. Behind'
  BY <1>0 DEF Behind
<1>8. \A o \in Orders : Moving(o) => HomeOf(dir, o) = move.target /\ Dests(dir, o) = {move.target}
  BY <1>0, OnTheMove DEF Inv, DirInv
<1>9. CallsInv'
  <2>1. \A r \in Routers : InCall(r) => Landed(call[r])'
    <3> SUFFICES ASSUME NEW r \in Routers, InCall(r), NEW i \in 1..(call[r].at - 1), NEW o \in call[r].writes[i].rows
                 PROVE  o \in orders'[call[r].writes[i].node]
      BY <1>0 DEF Landed
    <3>1. call[r] \in Calls /\ call[r].at \in DOMAIN call[r].writes /\ Landed(call[r]) /\ Sends(call[r])
      BY DEF Inv, TypeOK, RowInv, CallsInv
    <3>2. DOMAIN call[r].writes = 1..Len(call[r].writes) /\ Len(call[r].writes) \in Nat
      BY <3>1, CallParts, NodesCount
    <3>3. i \in DOMAIN call[r].writes
      BY <3>1, <3>2
    <3>4. call[r].writes[i].node \in Nodes /\ o \in Orders
      BY <3>1, <3>3, CallParts
    <3>5. o \in orders[call[r].writes[i].node]
      BY <3>1 DEF Landed
    <3>6. call[r].writes[i].node \in Dests(dir, o)
      BY <1>1, <3>1, <3>3 DEF Sends
    <3> QED BY <1>2, <1>4, <1>8, <3>4, <3>5, <3>6
  <2> QED BY <1>0, <2>1 DEF Inv, RowInv, CallsInv, InCall
<1>10. Placed'
  <2> SUFFICES ASSUME NEW p \in Nodes, NEW o \in orders'[p] PROVE p = HomeOf(dir, o)
    BY <1>0 DEF Placed
  <2>1. o \in orders[p] /\ o \in Orders
    BY <1>4 DEF Inv, TypeOK
  <2> QED BY <1>4, <1>8, <2>1 DEF Inv, RowInv, Placed
<1>11. \A o \in Acked : o \in orders'[HomeOf(dir, o)]
  <2> SUFFICES ASSUME NEW o \in Acked PROVE o \in orders'[HomeOf(dir, o)]
    OBVIOUS
  <2>1. o \in Orders
    BY DEF Inv, TypeOK, Acked
  <2>2. HomeOf(dir, o) \in Nodes
    BY <2>1, Routing DEF Inv, TypeOK
  <2>3. o \in orders[HomeOf(dir, o)]
    BY DEF Inv, RowInv, NoLostOrder, Reads, HomeOf
  <2> QED BY <1>2, <1>4, <1>8, <2>1, <2>2, <2>3
<1>12. NoLostOrder' /\ ReadOwnWrites'
  <2>1. \A r \in Routers : acked[r] \subseteq Acked
    BY DEF Acked
  <2> QED BY <1>0, <1>1, <1>11, <2>1 DEF NoLostOrder, ReadOwnWrites, Reads, HomeOf, Acked
<1>13. Copied'
  BY <1>0 DEF Copied
<1> QED BY <1>5, <1>6, <1>7, <1>9, <1>10, <1>12, <1>13 DEF DirInv, RowInv

-----------------------------------------------------------------------------
(* The first directory has no open window, and the mover waits for calls.  *)
Quiet == \A d \in Start, k \in Logicals : d.migrating[k] = NoShard

LEMMA InvInit ==
  ASSUME Quiet, Init
  PROVE  Inv
<1>1. TypeOK
  BY ReshardAssumption DEF Init, TypeOK, InCall
<1>2. DirInv
  BY DEF Init, Quiet, DirInv, Shape, Lags, Lag, Behind, InCall
<1>3. Acked = {} /\ \A p \in Nodes : orders[p] = {}
  BY DEF Init, Acked
<1>4. RowInv
  BY <1>3 DEF Init, RowInv, CallsInv, InCall, Copied, Placed, NoLostOrder, ReadOwnWrites
<1> QED BY <1>1, <1>2, <1>4 DEF Inv

LEMMA InvStep ==
  ASSUME Drains = TRUE, Inv, [Next]_vars
  PROVE  Inv'
<1>1. TypeOK'
  BY TypeStep DEF Inv
<1>2. CASE UNCHANGED vars
  <2>1. UNCHANGED <<dir, copy, orders, call, acked, move, moves>>
    BY <1>2 DEF vars
  <2>2. DirInv'
    BY <2>1, Still DEF Inv, DirInv, Lags, Behind, InCall
  <2>3. Copied' /\ Placed' /\ NoLostOrder'
    BY <2>1, Still DEF Inv, RowInv, Copied, Placed, NoLostOrder, Acked, Reads
  <2> QED BY <1>1, <2>1, <2>2, <2>3, SameCalls, SameReads DEF Inv, RowInv
<1>3. ASSUME NEW r \in Routers, RouterStep(r)
      PROVE  DirInv' /\ RowInv'
  BY <1>3, SetTopologyStep, SeedStep, ExecStep, ExecFailsStep, InsertStep DEF RouterStep
<1>4. CASE Next
  BY <1>1, <1>3, <1>4, OpenWindowStep, StartCopyStep, CopyRowStep, VerifyStep, CutoverStep, CleanUpStep
     DEF Next, Inv
<1> QED BY <1>2, <1>4

(* No move loses an acknowledged order, for every number of nodes, routers *)
(* and moves and however calls overlap them, if the mover waits for the    *)
(* calls in flight (orders.go:13-37, topology.go:206-236).                 *)
THEOREM MovesLoseNothing ==
  ASSUME Drains = TRUE, Quiet
  PROVE  Spec => []NoLostOrder
<1>1. Init => Inv
  BY InvInit
<1>2. Inv /\ [Next]_vars => Inv'
  BY InvStep
<1>3. Inv => NoLostOrder
  BY DEF Inv, RowInv
<1> QED BY <1>1, <1>2, <1>3, PTL DEF Spec

(* A router sees its own writes, though its copy of the directory may be   *)
(* behind the file (cluster.go:95-102).                                    *)
THEOREM RoutersReadTheirWrites ==
  ASSUME Drains = TRUE, Quiet
  PROVE  Spec => []ReadOwnWrites
<1>1. Init => Inv
  BY InvInit
<1>2. Inv /\ [Next]_vars => Inv'
  BY InvStep
<1>3. Inv => ReadOwnWrites
  BY DEF Inv, RowInv
<1> QED BY <1>1, <1>2, <1>3, PTL DEF Spec

(* The audit finds no row between two moves (orders.go:202-204). *)
THEOREM MovesLeaveNothing ==
  ASSUME Drains = TRUE, Quiet
  PROVE  Spec => []AuditClean
<1>1. Init => Inv
  BY InvInit
<1>2. Inv /\ [Next]_vars => Inv'
  BY InvStep
<1>3. Inv => AuditClean
  BY DEF Inv, RowInv, Placed, Moving, AuditClean, Misplaced, HomeOf
<1> QED BY <1>1, <1>2, <1>3, PTL DEF Spec
=============================================================================
