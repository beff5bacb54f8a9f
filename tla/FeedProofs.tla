------------------------------ MODULE FeedProofs ------------------------------
(***************************************************************************)
(* What Feed states of the pages, the counts and the audit, for every      *)
(* number of nodes, rows and pages, every limit and every directory.       *)
(***************************************************************************)
EXTENDS Feed, FiniteSetTheorems, NaturalsInduction, TLAPS

(* The order of the feed, and what ORDER BY ... LIMIT leaves of a set *)

LEMMA LeastNumber ==
  ASSUME NEW S \in SUBSET Nat, S # {}
  PROVE  \E n \in S : \A m \in S : n <= m
<1> DEFINE less == OpToRel(<, Nat)
<1>1. \E n \in S : \A m \in S : <<m, n>> \notin less
  BY NatLessThanWellFounded, WFMin
<1>2. \A m, n \in Nat : m < n => <<m, n>> \in less
  BY Zenon DEF OpToRel
<1> HIDE DEF less
<1>3. PICK n \in S : \A m \in S : <<m, n>> \notin less
  BY <1>1
<1>4. \A m \in S : ~(m < n)
  BY <1>2, <1>3
<1> QED BY <1>3, <1>4, SMT

LEMMA RowFields ==
  /\ \A r \in Rows : r.id \in Nat /\ r.at \in Nat \ {0} /\ r.shard \in Nodes /\ r.shard \in Nat
  /\ \A r, q \in Rows : r.id = q.id /\ r.shard = q.shard => r = q
BY FeedAssumption

(* Ahead is a strict total order of the rows. *)
LEMMA AheadOrder ==
  /\ \A r \in Rows : ~Ahead(r, r)
  /\ \A r, q, p \in Rows : Ahead(r, q) /\ Ahead(q, p) => Ahead(r, p)
  /\ \A r, q \in Rows : r # q => Ahead(r, q) \/ Ahead(q, r)
<1>1. ASSUME NEW r \in Rows PROVE ~Ahead(r, r)
  BY RowFields DEF Ahead, Newer
<1>2. ASSUME NEW r \in Rows, NEW q \in Rows, NEW p \in Rows, Ahead(r, q), Ahead(q, p) PROVE Ahead(r, p)
  BY <1>2, RowFields DEF Ahead, Newer
<1>3. ASSUME NEW r \in Rows, NEW q \in Rows, r # q PROVE Ahead(r, q) \/ Ahead(q, r)
  BY <1>3, RowFields DEF Ahead, Newer
<1> QED BY <1>1, <1>2, <1>3

LEMMA FiniteRows ==
  ASSUME NEW S \in SUBSET Rows
  PROVE  IsFiniteSet(S) /\ Cardinality(S) \in Nat
BY FeedAssumption, FS_Subset, FS_CardinalityType

(* A smaller set of rows has fewer rows. *)
LEMMA FewerRows ==
  ASSUME NEW T \in SUBSET Rows, NEW S \in SUBSET T
  PROVE  Cardinality(S) <= Cardinality(T) /\ (S # T => Cardinality(S) < Cardinality(T))
<1>1. IsFiniteSet(T) /\ Cardinality(T) \in Nat /\ Cardinality(S) \in Nat
  BY FiniteRows
<1>2. Cardinality(S) <= Cardinality(T) /\ (Cardinality(T) = Cardinality(S) => T = S)
  BY <1>1, FS_Subset
<1> QED BY <1>1, <1>2

AllAhead(S, r) == {q \in S : Ahead(q, r)}
AllBehind(S, r) == {q \in S : Ahead(r, q)}

LEMMA HasFirst ==
  ASSUME NEW S \in SUBSET Rows, S # {}
  PROVE  \E r \in S : \A q \in S \ {r} : Ahead(r, q)
<1> DEFINE ranks == {Cardinality(AllAhead(S, r)) : r \in S}
<1>1. \A r \in S : AllAhead(S, r) \in SUBSET Rows
  BY DEF AllAhead
<1>2. ranks \subseteq Nat /\ ranks # {}
  BY <1>1, FiniteRows
<1>3. PICK n \in ranks : \A m \in ranks : n <= m
  <2> HIDE DEF ranks
  <2> QED BY <1>2, LeastNumber
<1>4. PICK r \in S : n = Cardinality(AllAhead(S, r))
  OBVIOUS
<1>5. ASSUME NEW q \in S, Ahead(q, r) PROVE FALSE
  <2>1. AllAhead(S, q) \subseteq AllAhead(S, r) /\ q \in AllAhead(S, r) /\ q \notin AllAhead(S, q)
    BY <1>5, AheadOrder DEF AllAhead
  <2>2. Cardinality(AllAhead(S, q)) < Cardinality(AllAhead(S, r))
    BY <1>1, <2>1, FewerRows
  <2>3. Cardinality(AllAhead(S, r)) <= Cardinality(AllAhead(S, q))
    BY <1>3, <1>4
  <2> QED BY <1>1, <2>2, <2>3, FiniteRows
<1> QED BY <1>5, AheadOrder

LEMMA HasLast ==
  ASSUME NEW S \in SUBSET Rows, S # {}
  PROVE  \E r \in S : \A q \in S \ {r} : Ahead(q, r)
<1> DEFINE ranks == {Cardinality(AllBehind(S, r)) : r \in S}
<1>1. \A r \in S : AllBehind(S, r) \in SUBSET Rows
  BY DEF AllBehind
<1>2. ranks \subseteq Nat /\ ranks # {}
  BY <1>1, FiniteRows
<1>3. PICK n \in ranks : \A m \in ranks : n <= m
  <2> HIDE DEF ranks
  <2> QED BY <1>2, LeastNumber
<1>4. PICK r \in S : n = Cardinality(AllBehind(S, r))
  OBVIOUS
<1>5. ASSUME NEW q \in S, Ahead(r, q) PROVE FALSE
  <2>1. AllBehind(S, q) \subseteq AllBehind(S, r) /\ q \in AllBehind(S, r) /\ q \notin AllBehind(S, q)
    BY <1>5, AheadOrder DEF AllBehind
  <2>2. Cardinality(AllBehind(S, q)) < Cardinality(AllBehind(S, r))
    BY <1>1, <2>1, FewerRows
  <2>3. Cardinality(AllBehind(S, r)) <= Cardinality(AllBehind(S, q))
    BY <1>3, <1>4
  <2> QED BY <1>1, <2>2, <2>3, FiniteRows
<1> QED BY <1>5, AheadOrder

LEMMA LastOfIsLast ==
  ASSUME NEW S \in SUBSET Rows, S # {}
  PROVE  LastOf(S) \in S /\ \A q \in S \ {LastOf(S)} : Ahead(q, LastOf(S))
BY HasLast DEF LastOf

LEMMA TopRows ==
  ASSUME NEW S \in SUBSET Rows, NEW n \in Nat
  PROVE  /\ Top(S, n) \subseteq S
         /\ \A r \in S : r \in Top(S, n) <=> Cardinality(AllAhead(S, r)) < n
         /\ \A r \in Top(S, n), q \in S : Ahead(q, r) => q \in Top(S, n)
<1>1. Top(S, n) \subseteq S /\ \A r \in S : r \in Top(S, n) <=> Cardinality(AllAhead(S, r)) < n
  BY DEF Top, AllAhead
<1>2. ASSUME NEW r \in Top(S, n), NEW q \in S, Ahead(q, r) PROVE q \in Top(S, n)
  <2>1. r \in S /\ AllAhead(S, q) \subseteq AllAhead(S, r) /\ AllAhead(S, r) \in SUBSET Rows
    BY <1>1, <1>2, AheadOrder DEF AllAhead
  <2>2. Cardinality(AllAhead(S, q)) <= Cardinality(AllAhead(S, r)) /\ Cardinality(AllAhead(S, r)) < n
    BY <1>1, <2>1, FewerRows
  <2>3. Cardinality(AllAhead(S, q)) \in Nat /\ Cardinality(AllAhead(S, r)) \in Nat
    BY <2>1, FiniteRows
  <2>4. Cardinality(AllAhead(S, q)) < n
    BY <2>2, <2>3
  <2> QED BY <1>1, <2>4
<1> QED BY <1>1, <1>2

(* LIMIT n is a limit. *)
LEMMA TopIsLimited ==
  ASSUME NEW S \in SUBSET Rows, NEW n \in Nat
  PROVE  Cardinality(Top(S, n)) <= n
<1>1. Top(S, n) \in SUBSET Rows
  BY TopRows
<1>2. CASE Top(S, n) = {}
  BY <1>2, FS_EmptySet
<1>3. CASE Top(S, n) # {}
  <2>1. PICK r \in Top(S, n) : \A q \in Top(S, n) \ {r} : Ahead(q, r)
    BY <1>1, <1>3, HasLast
  <2>2. r \in S /\ Cardinality(AllAhead(S, r)) < n /\ AllAhead(S, r) \in SUBSET Rows
    BY TopRows DEF AllAhead
  <2>3. Top(S, n) \ {r} \subseteq AllAhead(S, r)
    BY <2>1, TopRows DEF AllAhead
  <2>4. Cardinality(Top(S, n) \ {r}) <= Cardinality(AllAhead(S, r))
    BY <2>2, <2>3, FewerRows
  <2>5. Cardinality(Top(S, n) \ {r}) = Cardinality(Top(S, n)) - 1
    BY <1>1, FiniteRows, FS_RemoveElement
  <2>6. Cardinality(Top(S, n)) \in Nat /\ Cardinality(AllAhead(S, r)) \in Nat
    BY <1>1, <2>2, FiniteRows
  <2> QED BY <2>2, <2>4, <2>5, <2>6
<1> QED BY <1>2, <1>3

(* A limit of one row or more leaves something of something. *)
LEMMA TopOfSome ==
  ASSUME NEW S \in SUBSET Rows, S # {}, NEW n \in Nat \ {0}
  PROVE  Top(S, n) # {}
<1>1. PICK r \in S : \A q \in S \ {r} : Ahead(r, q)
  BY HasFirst
<1>2. AllAhead(S, r) = {}
  BY <1>1, AheadOrder DEF AllAhead
<1>3. Cardinality(AllAhead(S, r)) < n
  BY <1>2, FS_EmptySet
<1> QED BY <1>3, TopRows

(* What the limit cuts off is behind a full page. *)
LEMMA CutOff ==
  ASSUME NEW S \in SUBSET Rows, NEW n \in Nat, NEW r \in S \ Top(S, n)
  PROVE  n <= Cardinality(Top(S, n)) /\ \A p \in Top(S, n) : Ahead(p, r)
<1>1. ASSUME NEW p \in Top(S, n) PROVE Ahead(p, r)
  BY AheadOrder, TopRows
<1>2. PICK f \in S \ Top(S, n) : \A q \in (S \ Top(S, n)) \ {f} : Ahead(f, q)
  <2>1. S \ Top(S, n) \in SUBSET Rows
    OBVIOUS
  <2> QED BY <2>1, HasFirst
<1>3. AllAhead(S, f) \subseteq Top(S, n)
  BY <1>2, AheadOrder DEF AllAhead
<1>4. ~(Cardinality(AllAhead(S, f)) < n) /\ AllAhead(S, f) \in SUBSET Rows /\ Top(S, n) \in SUBSET Rows
  BY TopRows DEF AllAhead
<1>5. Cardinality(AllAhead(S, f)) <= Cardinality(Top(S, n))
  BY <1>3, <1>4, FewerRows
<1>6. Cardinality(AllAhead(S, f)) \in Nat /\ Cardinality(Top(S, n)) \in Nat
  BY <1>4, FiniteRows
<1> QED BY <1>1, <1>4, <1>5, <1>6


-----------------------------------------------------------------------------
(* The inductive invariant *)

(* Not at its end, a process may show one more page at least. *)
PagesLeft == state \notin {"done", "failed"} => Len(pages) < Pages

(* The audit reads the shards in turn. *)
InTurn ==
  command = "audit" =>
    \A s \in Shards : task[s] = "running" => \A z \in Shards : z < s => task[z] = "ok"

(* The goroutines live in their call, and are of shards the process has. *)
Quiet ==
  /\ command # "audit" /\ state # "scatter" => \A s \in Nodes : task[s] \notin {"waiting", "running"}
  /\ \A s \in Nodes \ Shards : task[s] = "idle"

Typed == TypeOK /\ PagesLeft /\ InTurn /\ Quiet

(* Past the check of the directory there is a pool for each node it names. *)
Checked == state \in {"between", "scatter", "done"} => Fits

DueIsThere == \A r \in due : r \in visible /\ r.shard \in Named(topo)

OnlyPagesMove == command # "page" => cursor = Zero

(* Row r, that is due, is in the answer of its shard, or that has a full   *)
(* page of rows ahead of r.                                                *)
Answered(r) ==
  \/ r \in answer[r.shard]
  \/ Limit <= Cardinality(answer[r.shard]) /\ \A p \in answer[r.shard] : Ahead(p, r)

PageAnswers ==
  command = "page" /\ state = "scatter" =>
    /\ \A s \in Nodes : \A r \in answer[s] : Below(cursor, r)
    /\ \A r \in due : Below(cursor, r) /\ task[r.shard] = "ok" => Answered(r)

(* The rows shown are the one at the cursor and rows before it. *)
AtOrPast(c, r) == c.at # 0 /\ (Newer(r, c) \/ (r.at = c.at /\ r.id = c.id))

ShownIsPast == \A i \in DOMAIN pages : \A r \in pages[i] : AtOrPast(cursor, r)

EmptyIsEnd ==
  command = "page" /\ {} \in Range(pages) => state = "done" /\ \A r \in due : r.id \in Shown

CountAnswers ==
  command = "count" =>
    /\ state = "scatter" => \A r \in due : task[r.shard] = "ok" => r \in answer[r.shard]
    /\ state = "done" => due \subseteq counted

(* Before a shard is counted, the tenants of its due rows are listed. *)
AuditAnswers ==
  command = "audit" =>
    /\ \A r \in due : Stray(r)
    /\ state = "scatter" /\ ~cut => \A r \in due :
         /\ task[r.shard] = "running" => TenantOf[r.id] \in TenantsOf(answer[r.shard])
         /\ task[r.shard] = "ok" => r \in counted
    /\ state = "done" /\ ~cut => due \subseteq counted

FeedInv ==
  /\ Typed /\ Checked /\ DueIsThere /\ OnlyPagesMove
  /\ NothingSkipped /\ PageAnswers /\ ShownIsPast /\ NewestFirst /\ EmptyIsEnd
  /\ CountAnswers /\ AuditAnswers

-----------------------------------------------------------------------------
(* Types *)

LEMMA ShardsAreNodes ==
  ASSUME nShards \in PoolCounts
  PROVE  /\ Shards \in SUBSET Nodes /\ Shards \subseteq Nat
         /\ \A S \in SUBSET Shards : IsFiniteSet(S) /\ Cardinality(S) \in Nat
         /\ Slots \in Nat
         /\ Shards # {} => Slots >= 1
<1>1. Shards \in SUBSET Nodes /\ Shards \subseteq Nat
  BY FeedAssumption DEF Shards
<1>2. \A S \in SUBSET Shards : IsFiniteSet(S) /\ Cardinality(S) \in Nat
  BY <1>1, FeedAssumption, FS_Subset, FS_CardinalityType
<1>3. Cardinality(Shards) \in Nat /\ (Shards # {} => Cardinality(Shards) >= 1)
  <2>1. Cardinality(Shards) = 0 => Shards = {}
    BY <1>2, FS_EmptySet
  <2>2. Cardinality(Shards) \in Nat
    BY <1>2
  <2> QED BY <2>1, <2>2
<1>4. Concurrency \in Nat
  BY FeedAssumption
<1> QED BY <1>1, <1>2, <1>3, <1>4 DEF Slots

(* Who takes a free slot leaves no more running than there are slots. *)
LEMMA SlotTaken ==
  ASSUME TypeOK, NEW s \in Nodes, Acquire(s)
  PROVE  Cardinality(Running') <= Slots
<1>1. nShards \in PoolCounts /\ Shards' = Shards
  BY Zenon DEF TypeOK, Acquire, process, Shards
<1>2. Running \in SUBSET Shards /\ Cardinality(Running) < Slots
  BY Zenon DEF Running, Acquire, Taken
<1>3. Running' \subseteq Running \cup {s} /\ (s \notin Shards => Running' = Running)
  BY <1>1 DEF Running, Acquire, TypeOK
<1>4. IsFiniteSet(Running) /\ Cardinality(Running) \in Nat /\ Slots \in Nat
  BY <1>1, <1>2, ShardsAreNodes
<1>5. IsFiniteSet(Running \cup {s}) /\ Cardinality(Running \cup {s}) <= Cardinality(Running) + 1
      /\ Cardinality(Running \cup {s}) \in Nat
  BY <1>4, FS_AddElement
<1>6. Cardinality(Running') <= Cardinality(Running \cup {s}) /\ Cardinality(Running') \in Nat
  BY <1>3, <1>5, FS_Subset, FS_CardinalityType
<1> QED BY <1>2, <1>4, <1>5, <1>6

(* A goroutine that returns frees its slot. *)
LEMMA SlotFreed ==
  ASSUME TypeOK, Shards' = Shards, Running' \subseteq Running
  PROVE  Cardinality(Running') <= Slots
<1>1. nShards \in PoolCounts /\ Cardinality(Running) <= Slots
  BY Zenon DEF TypeOK
<1>2. Running \in SUBSET Shards
  BY Zenon DEF Running
<1>3. Slots \in Nat /\ IsFiniteSet(Running) /\ Cardinality(Running) \in Nat
  BY <1>1, <1>2, ShardsAreNodes
<1>4. Cardinality(Running') <= Cardinality(Running) /\ Cardinality(Running') \in Nat
  BY <1>3, FS_Subset, FS_CardinalityType
<1> QED BY <1>1, <1>3, <1>4

(* Only the shard whose turn it is runs in an audit. *)
LEMMA OneInTurn ==
  ASSUME TypeOK, InTurn, NEW s \in Nodes, AuditList(s)
  PROVE  /\ Running = {}
         /\ Cardinality(Running') <= Slots
<1>1. nShards \in PoolCounts /\ Shards' = Shards /\ s \in Shards
  BY Zenon DEF TypeOK, AuditList, process, Shards
<1>2. Shards \subseteq Nat
  BY <1>1, ShardsAreNodes
<1>3. TurnOf(s) /\ command = "audit"
  BY Zenon DEF AuditList
<1>4. ASSUME NEW z \in Shards, task[z] = "running" PROVE FALSE
  <2>1. s < z => task[s] = "ok"
    BY <1>1, <1>3, <1>4, Zenon DEF InTurn
  <2>2. z < s => task[z] = "ok"
    BY <1>3, Zenon DEF TurnOf
  <2>3. task[s] = "waiting"
    BY <1>3, Zenon DEF TurnOf
  <2>4. s < z \/ z < s \/ z = s
    BY <1>1, <1>2
  <2> QED BY <1>4, <2>1, <2>2, <2>3, <2>4
<1>5. Running = {}
  BY <1>4 DEF Running
<1>6. Running' \subseteq {s}
  BY <1>1, <1>5 DEF Running, AuditList, TypeOK
<1>7. Cardinality({s}) = 1 /\ IsFiniteSet({s})
  BY FS_Singleton
<1>8. Cardinality(Running') <= 1 /\ Cardinality(Running') \in Nat
  BY <1>6, <1>7, FS_Subset, FS_CardinalityType
<1>9. Slots \in Nat /\ Slots >= 1
  BY <1>1, ShardsAreNodes
<1> QED BY <1>5, <1>8, <1>9

LEMMA FetchedRows ==
  ASSUME TypeOK, NEW s \in Nodes
  PROVE  OnShard(s) \in SUBSET Rows /\ Fetch(s) \in SUBSET Rows
<1>1. OnShard(s) \in SUBSET Rows
  BY DEF OnShard, TypeOK
<1>2. Limit \in Nat /\ {r \in OnShard(s) : Below(cursor, r)} \in SUBSET Rows
  BY <1>1, FeedAssumption
<1>3. Top({r \in OnShard(s) : Below(cursor, r)}, Asked) \subseteq {r \in OnShard(s) : Below(cursor, r)}
  BY <1>2, TopRows DEF Asked
<1> QED BY <1>1, <1>2, <1>3 DEF Fetch

LEMMA AnswerRows ==
  ASSUME TypeOK
  PROVE  /\ UNION Range(answer) \in SUBSET Rows
         /\ \A r : r \in UNION Range(answer) <=> \E s \in Nodes : r \in answer[s]
<1>1. answer \in [Nodes -> SUBSET Rows]
  BY DEF TypeOK
<1> QED BY <1>1 DEF Range

LEMMA MergedPage ==
  ASSUME TypeOK
  PROVE  /\ MergeDesc(answer, Limit) \in SUBSET Rows
         /\ Cardinality(MergeDesc(answer, Limit)) <= Limit
         /\ MergeDesc(answer, Limit) \subseteq UNION Range(answer)
         /\ MergeDesc(answer, Limit) # {} => LastOf(MergeDesc(answer, Limit)) \in MergeDesc(answer, Limit)
<1>1. UNION Range(answer) \in SUBSET Rows /\ Limit \in Nat
  BY AnswerRows, FeedAssumption
<1>2. MergeDesc(answer, Limit) \subseteq UNION Range(answer) /\ Cardinality(MergeDesc(answer, Limit)) <= Limit
  BY <1>1, TopRows, TopIsLimited DEF MergeDesc
<1>3. MergeDesc(answer, Limit) \in SUBSET Rows
  BY <1>1, <1>2
<1> QED BY <1>2, <1>3, LastOfIsLast

LEMMA TypedInit == Init => Typed
<1> SUFFICES ASSUME Init PROVE Typed
  OBVIOUS
<1>1. nShards \in PoolCounts /\ Running = {}
  <2>1. nShards \in PoolCounts
    BY DEF Init
  <2>2. Shards \subseteq Nodes
    BY <2>1, ShardsAreNodes
  <2> QED BY <2>1, <2>2 DEF Init, Running
<1>2. Cardinality(Running) <= Slots
  BY <1>1, ShardsAreNodes, FS_EmptySet
<1>3. TypeOK
  <2>1. pages \in Seq(SUBSET Rows) /\ Len(pages) = 0 /\ DOMAIN pages = {} /\ Pages \in Nat
    BY FeedAssumption DEF Init
  <2>2. visible \in SUBSET Rows /\ task \in [Nodes -> {"idle", "waiting", "running", "ok", "failed"}]
        /\ answer \in [Nodes -> SUBSET Rows] /\ counted \in SUBSET Rows /\ due \in SUBSET Rows
    BY FeedAssumption DEF Init
  <2>3. command \in Commands /\ nShards \in PoolCounts /\ topo \in Files /\ state \in {"start", "between", "scatter", "done", "failed"}
        /\ cut \in BOOLEAN
    BY DEF Init
  <2>4. cursor \in {CursorOf(r) : r \in Rows} \cup {Zero}
    BY DEF Init
  <2>5. Len(pages) <= Pages /\ \A i \in DOMAIN pages : Cardinality(pages[i]) <= Limit
    BY <2>1, FeedAssumption
  <2> QED BY <1>2, <2>1, <2>2, <2>3, <2>4, <2>5, Zenon DEF TypeOK
<1>4. PagesLeft
  BY FeedAssumption DEF Init, PagesLeft
<1>5. InTurn /\ Quiet
  <2>1. Shards \subseteq Nodes
    BY <1>1, ShardsAreNodes
  <2> QED BY <2>1 DEF Init, InTurn, Quiet
<1> QED BY <1>3, <1>4, <1>5 DEF Typed

(* The steps that leave the goroutines and their slots alone *)
TablesStep == \E r \in Rows : Arrive(r) \/ CleanUp(r)
StillStep == TablesStep \/ Open \/ AuditFails \/ GatherFails \/ GatherCounts

LEMMA NextCases ==
  ASSUME [Next]_vars
  PROVE  \/ UNCHANGED vars \/ StillStep \/ Begin \/ GatherPage
         \/ \E s \in Nodes : Acquire(s) \/ Query(s) \/ QueryFails(s) \/ AuditList(s) \/ AuditCount(s)
BY Zenon DEF Next, Gather, StillStep, TablesStep

LEMMA ProcessStays ==
  ASSUME [Next]_vars
  PROVE  /\ command' = command /\ nShards' = nShards /\ topo' = topo
         /\ Shards' = Shards /\ Slots' = Slots /\ (Fits <=> Fits')
<1>1. UNCHANGED process
  <2>1. CASE UNCHANGED vars
    BY <2>1 DEF vars, process
  <2>2. CASE StillStep
    BY <2>2, Zenon DEF StillStep, TablesStep, Arrive, CleanUp, Open, AuditFails, GatherFails, GatherCounts
  <2>3. CASE Begin \/ GatherPage
    BY <2>3, Zenon DEF Begin, GatherPage
  <2>4. CASE \E s \in Nodes : Acquire(s) \/ Query(s) \/ QueryFails(s) \/ AuditList(s) \/ AuditCount(s)
    BY <2>4, Zenon DEF Acquire, Query, QueryFails, AuditList, AuditCount
  <2> QED BY <2>1, <2>2, <2>3, <2>4, NextCases
<1> QED BY <1>1 DEF process, Shards, Slots, Fits, CheckPlacementFits, PlacedOn, Pinned

LEMMA SlotsStep ==
  ASSUME Typed, [Next]_vars
  PROVE  Cardinality(Running') <= Slots
<1> USE DEF Typed
<1>1. TypeOK /\ InTurn /\ Shards' = Shards /\ Shards \subseteq Nodes /\ task \in [Nodes -> {"idle", "waiting", "running", "ok", "failed"}]
  <2>1. Shards' = Shards
    BY ProcessStays
  <2>2. nShards \in PoolCounts
    BY DEF TypeOK
  <2> QED BY <2>1, <2>2, ShardsAreNodes DEF TypeOK
<1>2. CASE UNCHANGED vars \/ StillStep \/ GatherPage
  <2>1. task' = task
    BY <1>2, Zenon DEF vars, StillStep, TablesStep, Arrive, CleanUp, Open, AuditFails, GatherFails,
      GatherCounts, GatherPage
  <2>2. Running' \subseteq Running
    BY <1>1, <2>1 DEF Running
  <2> QED BY <1>1, <2>2, SlotFreed
<1>3. CASE Begin
  <2>1. Running' \subseteq Running
    BY <1>1, <1>3 DEF Begin, Running
  <2> QED BY <1>1, <2>1, SlotFreed
<1>4. ASSUME NEW s \in Nodes, Acquire(s) PROVE Cardinality(Running') <= Slots
  BY <1>1, <1>4, SlotTaken
<1>5. ASSUME NEW s \in Nodes, Query(s) \/ QueryFails(s) \/ AuditCount(s) PROVE Cardinality(Running') <= Slots
  <2>1. task' = [task EXCEPT ![s] = "ok"] \/ task' = [task EXCEPT ![s] = "failed"]
    BY <1>5, Zenon DEF Query, QueryFails, AuditCount
  <2>2. Running' \subseteq Running
    BY <1>1, <2>1 DEF Running
  <2> QED BY <1>1, <2>2, SlotFreed
<1>6. ASSUME NEW s \in Nodes, AuditList(s) PROVE Cardinality(Running') <= Slots
  BY <1>1, <1>6, OneInTurn
<1> QED BY <1>2, <1>3, <1>4, <1>5, <1>6, NextCases, Zenon

LEMMA TypeStep ==
  ASSUME Typed, [Next]_vars
  PROVE  TypeOK'
<1>1. TypeOK
  BY DEF Typed
<1>2. Cardinality(Running') <= Slots' /\ command' \in Commands /\ nShards' \in PoolCounts /\ topo' \in Files
  BY <1>1, SlotsStep, ProcessStays DEF TypeOK
<1>3. CASE UNCHANGED vars
  BY <1>1, <1>2, <1>3 DEF TypeOK, vars
<1>4. CASE TablesStep
  BY <1>1, <1>2, <1>4 DEF TypeOK, TablesStep, Arrive, CleanUp
<1>5. CASE Open \/ AuditFails \/ GatherFails
  BY <1>1, <1>2, <1>5 DEF TypeOK, Open, AuditFails, GatherFails
<1>6. CASE GatherCounts
  BY <1>1, <1>2, <1>6, AnswerRows DEF TypeOK, GatherCounts
<1>7. CASE Begin
  BY <1>1, <1>2, <1>7 DEF TypeOK, Begin, Wanted
<1>8. CASE GatherPage
  <2> DEFINE page == MergeDesc(answer, Limit)
  <2>1. page \in SUBSET Rows /\ Cardinality(page) <= Limit /\ (page # {} => LastOf(page) \in page)
    BY <1>1, MergedPage
  <2>2. cursor' \in {CursorOf(r) : r \in Rows} \cup {Zero}
    BY <1>1, <1>8, <2>1 DEF GatherPage, TypeOK
  <2>3. Len(pages) < Pages /\ pages \in Seq(SUBSET Rows) /\ \A i \in DOMAIN pages : Cardinality(pages[i]) <= Limit
    BY <1>8 DEF Typed, PagesLeft, TypeOK, GatherPage, AllReturned
  <2>4. pages' = Append(pages, page)
    BY <1>8, Zenon DEF GatherPage
  <2>5. pages' \in Seq(SUBSET Rows) /\ Len(pages') <= Pages /\ \A i \in DOMAIN pages' : Cardinality(pages'[i]) <= Limit
    <3> HIDE DEF page
    <3> QED BY <2>1, <2>3, <2>4, FeedAssumption
  <2>6. state' \in {"done", "between"}
        /\ UNCHANGED <<task, answer, visible, counted, cut, due>>
    BY <1>8, Zenon DEF GatherPage
  <2> QED BY <1>1, <1>2, <2>2, <2>5, <2>6 DEF TypeOK
<1>9. ASSUME NEW s \in Nodes, Acquire(s) \/ AuditCount(s) PROVE TypeOK'
  <2>1. OnShard(s) \in SUBSET Rows
    BY <1>1, FetchedRows
  <2> QED BY <1>1, <1>2, <1>9, <2>1 DEF TypeOK, Acquire, AuditCount
<1>10. ASSUME NEW s \in Nodes, Query(s) PROVE TypeOK'
  <2>1. Fetch(s) \in SUBSET Rows
    BY <1>1, FetchedRows
  <2> QED BY <1>1, <1>2, <1>10, <2>1 DEF TypeOK, Query
<1>11. ASSUME NEW s \in Nodes, QueryFails(s) PROVE TypeOK'
  <2>1. PICK sent \in IF AllowPartial THEN SUBSET Fetch(s) ELSE {{}} : answer' = [answer EXCEPT ![s] = sent]
    BY <1>11, Zenon DEF QueryFails
  <2>2. sent \in SUBSET Rows
    BY <1>1, FetchedRows
  <2>3. task' = [task EXCEPT ![s] = "failed"] /\ UNCHANGED <<process, state, visible, cursor, pages, counted, cut, due>>
    BY <1>11, Zenon DEF QueryFails
  <2> QED BY <1>1, <1>2, <2>1, <2>2, <2>3 DEF TypeOK
<1>12. ASSUME NEW s \in Nodes, AuditList(s) PROVE TypeOK'
  <2>1. PICK listed \in SUBSET TenantsOf(OnShard(s)) :
          /\ answer' = [answer EXCEPT ![s] = {r \in OnShard(s) : TenantOf[r.id] \in WrongOn(s, listed)}]
          /\ cut' = (cut \/ listed # TenantsOf(OnShard(s)))
    BY <1>12, Zenon DEF AuditList
  <2>2. {r \in OnShard(s) : TenantOf[r.id] \in WrongOn(s, listed)} \in SUBSET Rows
    BY <1>1, FetchedRows
  <2>3. task' = [task EXCEPT ![s] = IF answer'[s] = {} THEN "ok" ELSE "running"]
        /\ UNCHANGED <<process, state, visible, cursor, pages, counted, due>>
    BY <1>12, Zenon DEF AuditList
  <2>4. cut' \in BOOLEAN /\ answer' \in [Nodes -> SUBSET Rows]
        /\ task' \in [Nodes -> {"idle", "waiting", "running", "ok", "failed"}]
    BY <1>1, <2>1, <2>2, <2>3 DEF TypeOK
  <2> QED BY <1>1, <1>2, <2>3, <2>4 DEF TypeOK
<1> QED BY <1>3, <1>4, <1>5, <1>6, <1>7, <1>8, <1>9, <1>10, <1>11, <1>12, NextCases, Zenon DEF StillStep

LEMMA ControlStep ==
  ASSUME Typed, [Next]_vars
  PROVE  PagesLeft' /\ InTurn' /\ Quiet'
<1>1. TypeOK /\ PagesLeft /\ InTurn /\ Quiet /\ Shards' = Shards /\ command' = command
  BY ProcessStays DEF Typed
<1>2. Shards \subseteq Nodes /\ Shards \subseteq Nat /\ task \in [Nodes -> {"idle", "waiting", "running", "ok", "failed"}]
  <2>1. nShards \in PoolCounts
    BY <1>1 DEF TypeOK
  <2> QED BY <1>1, <2>1, ShardsAreNodes DEF TypeOK
<1>3. CASE UNCHANGED vars
  BY <1>1, <1>3 DEF vars, PagesLeft, InTurn, Quiet
<1>4. CASE StillStep
  <2>1. UNCHANGED <<task, pages>> /\ (state' \notin {"done", "failed"} => state \notin {"done", "failed"})
    BY <1>4, Zenon DEF StillStep, TablesStep, Arrive, CleanUp, Open, AuditFails, GatherFails, GatherCounts
  <2>2. command # "audit" /\ state' # "scatter" =>
          state # "scatter" \/ \A s \in Shards : task[s] \in {"ok", "failed"}
    BY <1>4, Zenon DEF StillStep, TablesStep, Arrive, CleanUp, Open, AuditFails, GatherFails, GatherCounts, AllReturned
  <2>3. PagesLeft' /\ InTurn'
    BY <1>1, <2>1 DEF PagesLeft, InTurn
  <2>4. Quiet'
    <3>1. ASSUME command # "audit", state' # "scatter", NEW s \in Nodes PROVE task[s] \notin {"waiting", "running"}
      <4>1. CASE state # "scatter"
        BY <1>1, <3>1, <4>1 DEF Quiet
      <4>2. CASE \A z \in Shards : task[z] \in {"ok", "failed"}
        BY <1>1, <4>2 DEF Quiet
      <4> QED BY <2>2, <3>1, <4>1, <4>2
    <3> QED BY <1>1, <2>1, <3>1 DEF Quiet
  <2> QED BY <2>3, <2>4
<1>5. CASE Begin
  BY <1>1, <1>2, <1>5 DEF Begin, PagesLeft, InTurn, Quiet
<1>6. CASE GatherPage
  <2>1. state = "scatter" /\ command # "audit" /\ task' = task /\ \A s \in Shards : task[s] \in {"ok", "failed"}
    BY <1>6 DEF GatherPage, AllReturned
  <2>2. Len(pages) < Pages /\ Len(pages') = Len(pages) + 1 /\ Len(pages) \in Nat /\ Pages \in Nat
    BY <1>1, <1>6, <2>1, FeedAssumption DEF PagesLeft, TypeOK, GatherPage
  <2>3. state' = "done" \/ Len(pages') # Pages
    BY <1>6, Zenon DEF GatherPage
  <2>4. PagesLeft'
    BY <2>2, <2>3 DEF PagesLeft
  <2>5. InTurn' /\ Quiet'
    BY <1>1, <2>1 DEF InTurn, Quiet
  <2> QED BY <2>4, <2>5
<1>7. ASSUME NEW s \in Nodes, Acquire(s) \/ Query(s) \/ QueryFails(s) PROVE PagesLeft' /\ InTurn' /\ Quiet'
  <2>1. UNCHANGED <<state, pages>> /\ command # "audit" /\ task[s] \in {"waiting", "running"}
    BY <1>7, Zenon DEF Acquire, Query, QueryFails
  <2>2. PICK t \in {"running", "ok", "failed"} : task' = [task EXCEPT ![s] = t]
    BY <1>7, Zenon DEF Acquire, Query, QueryFails
  <2>3. state = "scatter" /\ s \in Shards
    BY <1>1, <2>1 DEF Quiet
  <2> QED BY <1>1, <1>2, <2>1, <2>2, <2>3 DEF PagesLeft, InTurn, Quiet
<1>8. ASSUME NEW s \in Nodes, AuditList(s) PROVE PagesLeft' /\ InTurn' /\ Quiet'
  <2>1. UNCHANGED <<state, pages>> /\ command = "audit" /\ s \in Shards /\ TurnOf(s)
    BY <1>8, Zenon DEF AuditList
  <2>2. PICK t \in {"ok", "running"} : task' = [task EXCEPT ![s] = t]
    BY <1>8 DEF AuditList
  <2>3. \A z \in Shards : task[z] # "running"
    BY <1>1, <1>8, OneInTurn DEF Running
  <2>4. InTurn'
    BY <1>1, <1>2, <2>1, <2>2, <2>3 DEF InTurn, TurnOf
  <2> QED BY <1>1, <1>2, <2>1, <2>2, <2>4 DEF PagesLeft, Quiet
<1>9. ASSUME NEW s \in Nodes, AuditCount(s) PROVE PagesLeft' /\ InTurn' /\ Quiet'
  <2>1. UNCHANGED <<state, pages>> /\ command = "audit" /\ task[s] = "running" /\ task' = [task EXCEPT ![s] = "ok"]
    BY <1>9, Zenon DEF AuditCount
  <2>2. s \in Shards
    BY <1>1, <2>1 DEF Quiet
  <2> QED BY <1>1, <1>2, <2>1, <2>2 DEF PagesLeft, InTurn, Quiet
<1> QED BY <1>3, <1>4, <1>5, <1>6, <1>7, <1>8, <1>9, NextCases, Zenon

LEMMA TypedStep ==
  ASSUME Typed, [Next]_vars
  PROVE  Typed'
BY TypeStep, ControlStep DEF Typed

-----------------------------------------------------------------------------
(* The directory that was checked, and the rows that are due *)

LEMMA FitsNamed ==
  ASSUME TypeOK, Fits
  PROVE  Named(topo) \subseteq Shards
<1>1. topo \in Directories(Nodes) /\ nShards \in Nat /\ Nodes \subseteq Nat
  BY FeedAssumption DEF TypeOK
<1>2. ASSUME NEW p \in PlacedOn(topo) PROVE p \in Shards
  <2>1. p \in Nat /\ p < nShards
    BY <1>1, <1>2 DEF Fits, CheckPlacementFits, PlacedOn, Directories, Range, NoShard
  <2> QED BY <1>1, <2>1 DEF Shards
<1>3. ASSUME NEW p \in Range(topo.pins) \ {NoShard} PROVE p \in Shards
  <2>1. PICK t \in Tenants : p = topo.pins[t] /\ p # NoShard
    BY <1>1, <1>3 DEF Directories, Range
  <2>2. p \in Nat
    BY <1>1, <2>1 DEF Directories
  <2>3. p < nShards
    BY <2>1, Zenon DEF Fits, CheckPlacementFits, Pinned
  <2> QED BY <1>1, <2>2, <2>3 DEF Shards
<1> QED BY <1>2, <1>3, Zenon DEF Named

LEMMA CheckedStep ==
  ASSUME Typed, Checked, [Next]_vars
  PROVE  Checked'
<1>1. Fits <=> Fits'
  BY ProcessStays
<1>2. state' \in {"between", "scatter", "done"} => Fits
  <2>1. CASE UNCHANGED vars
    BY <2>1 DEF vars, Checked
  <2>2. CASE TablesStep \/ AuditFails \/ GatherFails
    BY <2>2 DEF Checked, TablesStep, Arrive, CleanUp, AuditFails, GatherFails
  <2>3. CASE Open
    BY <2>3 DEF Open
  <2>4. CASE Begin \/ GatherPage \/ GatherCounts
    BY <2>4 DEF Checked, Begin, GatherPage, GatherCounts, AllReturned
  <2>5. CASE \E s \in Nodes : Acquire(s) \/ Query(s) \/ QueryFails(s) \/ AuditList(s) \/ AuditCount(s)
    <3>1. state' = state
      BY <2>5, Zenon DEF Acquire, Query, QueryFails, AuditList, AuditCount
    <3> QED BY <3>1 DEF Checked
  <2> QED BY <2>1, <2>2, <2>3, <2>4, <2>5, NextCases DEF StillStep
<1> QED BY <1>1, <1>2 DEF Checked

LEMMA PagesStay ==
  ASSUME [Next]_vars, ~GatherPage
  PROVE  pages' = pages /\ cursor' = cursor /\ Range(pages)' = Range(pages) /\ Shown' = Shown
<1>1. pages' = pages /\ cursor' = cursor
  BY NextCases, Zenon DEF StillStep, TablesStep, vars, Arrive, CleanUp, Open, AuditFails, GatherFails, GatherCounts,
    Begin, Acquire, Query, QueryFails, AuditList, AuditCount
<1> QED BY <1>1 DEF Shown, Range

LEMMA DueStays ==
  ASSUME [Next]_vars, ~Begin
  PROVE  due' \subseteq due
<1>1. due' = due \/ \E r \in Rows : due' = due \ {r}
  BY NextCases, Zenon DEF StillStep, TablesStep, vars, Arrive, CleanUp, Open, AuditFails, GatherFails, GatherCounts,
    GatherPage, Acquire, Query, QueryFails, AuditList, AuditCount
<1> QED BY <1>1

LEMMA DueStep ==
  ASSUME Typed, DueIsThere, [Next]_vars
  PROVE  DueIsThere'
<1>1. topo' = topo
  BY ProcessStays
<1>2. \A r \in due' : r \in visible' /\ r.shard \in Named(topo)
  <2>1. CASE Begin
    BY <2>1 DEF DueIsThere, Begin, Wanted
  <2>2. CASE TablesStep
    BY <2>2 DEF DueIsThere, TablesStep, Arrive, CleanUp
  <2>3. CASE ~Begin /\ ~TablesStep
    <3>1. visible' = visible
      BY <2>3, NextCases, Zenon DEF StillStep, vars, Open, AuditFails, GatherFails, GatherCounts,
        GatherPage, Acquire, Query, QueryFails, AuditList, AuditCount
    <3> QED BY <2>3, <3>1, DueStays DEF DueIsThere
  <2> QED BY <2>1, <2>2, <2>3
<1> QED BY <1>1, <1>2 DEF DueIsThere

LEMMA OnlyPagesMoveStep ==
  ASSUME OnlyPagesMove, [Next]_vars
  PROVE  OnlyPagesMove'
<1>1. command' = command
  BY ProcessStays
<1>2. CASE GatherPage
  BY <1>1, <1>2 DEF OnlyPagesMove, GatherPage
<1>3. CASE ~GatherPage
  BY <1>1, <1>3, PagesStay DEF OnlyPagesMove
<1> QED BY <1>2, <1>3

-----------------------------------------------------------------------------
(* Nothing is skipped *)

(* A row that is due below the cursor is on the page, or the page ends     *)
(* before it.                                                              *)
LEMMA PageBrings ==
  ASSUME Typed, Checked, DueIsThere, PageAnswers,
         command = "page", AllReturned, ~Refused,
         NEW r \in due, Below(cursor, r)
  PROVE  LET page == MergeDesc(answer, Limit)
         IN  page # {} /\ (r \in page \/ Ahead(LastOf(page), r))
<1> DEFINE page == MergeDesc(answer, Limit)
           U == UNION Range(answer)
           A == answer[r.shard]
<1>1. TypeOK /\ Limit \in Nat \ {0}
  BY FeedAssumption DEF Typed
<1>2. r \in Rows /\ r.shard \in Shards /\ r.shard \in Nodes
  <2>1. Named(topo) \subseteq Shards
    BY <1>1, FitsNamed DEF Checked, AllReturned
  <2>2. r \in Rows /\ r.shard \in Named(topo)
    BY <1>1 DEF DueIsThere, TypeOK
  <2> QED BY <2>1, <2>2, RowFields
<1>3. Answered(r)
  <2>1. ~AllowPartial
    BY DEF AllowPartial
  <2>2. task[r.shard] = "ok"
    BY <1>2, <2>1 DEF AllReturned, Refused, Failed
  <2> QED BY <2>2 DEF PageAnswers, AllReturned
<1>4. U \in SUBSET Rows /\ A \subseteq U /\ A \in SUBSET Rows /\ page = Top(U, Limit)
  BY <1>1, <1>2, AnswerRows DEF MergeDesc, TypeOK
<1> HIDE DEF page, U, A
<1>5. page \subseteq U /\ page \in SUBSET Rows /\ (page # {} => LastOf(page) \in page)
  BY <1>1, <1>4, TopRows, LastOfIsLast
<1>6. CASE r \in A
  <2>1. CASE r \in page
    BY <2>1 DEF page
  <2>2. CASE r \notin page
    <3>1. r \in U \ Top(U, Limit)
      BY <1>4, <1>6, <2>2
    <3>2. Limit <= Cardinality(page) /\ \A p \in page : Ahead(p, r)
      BY <1>1, <1>4, <3>1, CutOff
    <3>3. page # {}
      BY <1>1, <3>2, FS_EmptySet
    <3> QED BY <1>5, <3>2, <3>3 DEF page
  <2> QED BY <2>1, <2>2
<1>7. CASE r \notin A
  <2>1. Limit <= Cardinality(A) /\ \A p \in A : Ahead(p, r)
    BY <1>3, <1>7 DEF Answered, A
  <2>2. A # {}
    BY <1>1, <2>1, FS_EmptySet
  <2>3. page # {}
    BY <1>1, <1>4, <2>2, TopOfSome
  <2>4. ASSUME Ahead(r, LastOf(page)) PROVE FALSE
    <3>1. LastOf(page) \in Rows /\ LastOf(page) \in U /\ LastOf(page) \in Top(U, Limit)
      BY <1>4, <1>5, <2>3
    <3>2. A \subseteq AllAhead(U, LastOf(page))
      BY <1>2, <1>4, <2>1, <2>4, <3>1, AheadOrder DEF AllAhead
    <3>3. AllAhead(U, LastOf(page)) \in SUBSET Rows
      BY <1>4 DEF AllAhead
    <3>4. Cardinality(A) <= Cardinality(AllAhead(U, LastOf(page)))
      BY <3>2, <3>3, FewerRows
    <3>5. Cardinality(AllAhead(U, LastOf(page))) < Limit
      BY <1>1, <1>4, <3>1, TopRows
    <3> QED BY <1>1, <1>4, <2>1, <3>3, <3>4, <3>5, FiniteRows
  <2>5. r = LastOf(page) \/ Ahead(LastOf(page), r)
    BY <1>2, <1>5, <2>3, <2>4, AheadOrder
  <2> QED BY <1>5, <2>3, <2>5 DEF page
<1> QED BY <1>6, <1>7

LEMMA ShownByPage ==
  ASSUME TypeOK, GatherPage
  PROVE  /\ Range(pages') = Range(pages) \cup {MergeDesc(answer, Limit)}
         /\ Shown' = Shown \cup {r.id : r \in MergeDesc(answer, Limit)}
<1> DEFINE page == MergeDesc(answer, Limit)
<1>1. pages' = Append(pages, page) /\ pages \in Seq(SUBSET Rows) /\ page \in SUBSET Rows
  BY MergedPage, Zenon DEF GatherPage, TypeOK
<1> HIDE DEF page
<1>2. Range(pages') = Range(pages) \cup {page}
  <2>1. DOMAIN pages' = 1..(Len(pages) + 1) /\ DOMAIN pages = 1..Len(pages) /\ Len(pages) \in Nat
    BY <1>1
  <2>2. \A i \in 1..Len(pages) : pages'[i] = pages[i]
    BY <1>1
  <2>3. pages'[Len(pages) + 1] = page
    BY <1>1
  <2> QED BY <2>1, <2>2, <2>3 DEF Range
<1>3. Shown' = {r.id : r \in UNION Range(pages')}
  BY DEF Shown, Range
<1>4. ASSUME NEW R, NEW S PROVE UNION (R \cup {S}) = (UNION R) \cup S
  BY Zenon
<1>5. Shown' = Shown \cup {r.id : r \in page}
  BY <1>2, <1>3, <1>4 DEF Shown
<1> QED BY <1>2, <1>5 DEF page

LEMMA SkipStep ==
  ASSUME Typed, Checked, DueIsThere, PageAnswers, NothingSkipped, [Next]_vars
  PROVE  NothingSkipped'
<1>1. command' = command /\ TypeOK
  BY ProcessStays DEF Typed
<1> SUFFICES ASSUME command = "page", NEW r \in due' PROVE r.id \in Shown' \/ Below(cursor', r)
  BY <1>1 DEF NothingSkipped, Below, Newer
<1>2. CASE GatherPage
  <2> DEFINE page == MergeDesc(answer, Limit)
  <2>1. r \in due /\ AllReturned /\ ~Refused
    BY <1>2, Zenon DEF GatherPage
  <2>2. Shown' = Shown \cup {q.id : q \in page}
    BY <1>1, <1>2, ShownByPage
  <2>3. CASE ~Below(cursor, r)
    BY <2>1, <2>2, <2>3 DEF NothingSkipped
  <2>4. CASE Below(cursor, r)
    <3>1. page # {} /\ (r \in page \/ Ahead(LastOf(page), r))
      BY <2>1, <2>4, PageBrings
    <3>2. cursor' = CursorOf(LastOf(page)) /\ LastOf(page) \in page
      <4>1. LastOf(page) \in page
        BY <1>1, <3>1, MergedPage
      <4>2. cursor' = IF page = {} THEN cursor ELSE CursorOf(LastOf(page))
        BY <1>2, Zenon DEF GatherPage
      <4> QED BY <3>1, <4>1, <4>2
    <3> HIDE DEF page
    <3>3. CASE r \in page
      BY <2>2, <3>3
    <3>4. CASE Newer(LastOf(page), r)
      BY <3>2, <3>4 DEF Below, CursorOf, Newer
    <3>5. CASE LastOf(page).id = r.id
      BY <2>2, <3>2, <3>5
    <3> QED BY <3>1, <3>3, <3>4, <3>5 DEF Ahead
  <2> QED BY <2>3, <2>4
<1>3. CASE Begin
  <2>1. r \in due \/ r \in Wanted
    BY <1>3 DEF Begin
  <2>2. Shown' = Shown /\ cursor' = cursor
    BY <1>3 DEF Begin, Shown, Range
  <2>3. r \in Wanted => Below(cursor, r)
    BY DEF Wanted
  <2> QED BY <2>1, <2>2, <2>3 DEF NothingSkipped
<1>4. CASE ~GatherPage /\ ~Begin
  BY <1>4, DueStays, PagesStay DEF NothingSkipped
<1> QED BY <1>2, <1>3, <1>4

(* The steps that change no answer, and end none that is not there *)
LEMMA AnswersStay ==
  ASSUME [Next]_vars, ~Begin, \A s \in Nodes : ~(Query(s) \/ QueryFails(s) \/ AuditList(s))
  PROVE  /\ answer' = answer
         /\ cut' = cut
         /\ state' = "scatter" => state = "scatter"
<1>1. answer' = answer /\ cut' = cut
  BY NextCases, Zenon DEF StillStep, TablesStep, vars, Arrive, CleanUp, Open, AuditFails, GatherFails, GatherCounts,
    GatherPage, Acquire, AuditCount
<1>2. UNCHANGED state \/ state' \in {"between", "failed", "done"}
  <2>1. CASE UNCHANGED vars
    BY <2>1 DEF vars
  <2>2. CASE StillStep \/ GatherPage
    BY <2>2 DEF StillStep, TablesStep, Arrive, CleanUp, Open, AuditFails, GatherFails, GatherCounts, GatherPage
  <2>3. CASE \E s \in Nodes : Acquire(s) \/ Query(s) \/ QueryFails(s) \/ AuditList(s) \/ AuditCount(s)
    BY <2>3, Zenon DEF Acquire, Query, QueryFails, AuditList, AuditCount
  <2> QED BY <2>1, <2>2, <2>3, NextCases
<1> QED BY <1>1, <1>2

LEMMA TasksStay ==
  ASSUME [Next]_vars, ~Begin, \A s \in Nodes : ~(Query(s) \/ QueryFails(s) \/ AuditList(s) \/ AuditCount(s))
  PROVE  task' = task \/ \E s \in Nodes : command # "audit" /\ task' = [task EXCEPT ![s] = "running"]
BY NextCases, Zenon DEF StillStep, TablesStep, vars, Arrive, CleanUp, Open, AuditFails, GatherFails, GatherCounts,
    GatherPage, Acquire

LEMMA DueRows ==
  ASSUME TypeOK, DueIsThere
  PROVE  \A r \in due : r \in Rows /\ r.shard \in Nodes /\ r \in OnShard(r.shard)
BY RowFields DEF TypeOK, DueIsThere, OnShard

LEMMA PageAnswersStep ==
  ASSUME Typed, DueIsThere, PageAnswers, [Next]_vars
  PROVE  PageAnswers'
<1>1. command' = command /\ TypeOK /\ TypeOK' /\ due' \in SUBSET Rows /\ Limit \in Nat
  BY ProcessStays, TypedStep, FeedAssumption DEF Typed, TypeOK
<1>2. task \in [Nodes -> {"idle", "waiting", "running", "ok", "failed"}] /\ answer \in [Nodes -> SUBSET Rows]
  BY <1>1 DEF TypeOK
<1>3. CASE ~Begin /\ \A s \in Nodes : ~(Query(s) \/ QueryFails(s) \/ AuditList(s) \/ AuditCount(s))
  <2>1. CASE GatherPage
    BY <2>1 DEF PageAnswers, GatherPage
  <2>2. CASE ~GatherPage
    <3>1. answer' = answer /\ due' \subseteq due /\ cursor' = cursor /\ (state' = "scatter" => state = "scatter")
      BY <1>3, <2>2, AnswersStay, DueStays, PagesStay
    <3>2. \A s \in Nodes : task'[s] = "ok" => task[s] = "ok"
      BY <1>2, <1>3, TasksStay
    <3>3. \A r \in due : r.shard \in Nodes
      BY <1>1, DueRows
    <3> QED BY <1>1, <3>1, <3>2, <3>3 DEF PageAnswers, Answered, Below, Newer
  <2> QED BY <2>1, <2>2
<1>4. CASE Begin
  <2>1. answer' = [s \in Nodes |-> {}] /\ task' = [s \in Nodes |-> IF s \in Shards THEN "waiting" ELSE "idle"]
    BY <1>4, Zenon DEF Begin
  <2>2. \A r \in due' : r.shard \in Nodes
    BY <1>1, RowFields
  <2> QED BY <2>1, <2>2 DEF PageAnswers
<1>5. ASSUME NEW s \in Nodes, Query(s), command = "page" PROVE PageAnswers'
  <2> DEFINE S == {r \in OnShard(s) : Below(cursor, r)}
  <2>1. UNCHANGED <<state, cursor, due>> /\ answer' = [answer EXCEPT ![s] = Top(S, Limit)] /\ task' = [task EXCEPT ![s] = "ok"]
    BY <1>5, Zenon DEF Query, Fetch, Asked
  <2>2. S \in SUBSET Rows
    BY <1>1, FetchedRows
  <2>3. \A r \in S : Below(cursor, r)
    OBVIOUS
  <2>4. \A r \in due : r.shard = s /\ Below(cursor, r) => r \in S
    BY <1>1, DueRows
  <2> HIDE DEF S
  <2>5. \A r \in Top(S, Limit) : Below(cursor, r)
    BY <1>1, <2>2, <2>3, TopRows
  <2>6. ASSUME NEW r \in S
        PROVE  r \in Top(S, Limit) \/ (Limit <= Cardinality(Top(S, Limit)) /\ \A p \in Top(S, Limit) : Ahead(p, r))
    BY <1>1, <2>2, CutOff
  <2>7. \A r \in due : r.shard \in Nodes
    BY <1>1, DueRows
  <2>8. ASSUME state = "scatter", NEW z \in Nodes, NEW r \in answer'[z] PROVE Below(cursor, r)
    BY <1>2, <1>5, <2>1, <2>5, <2>8 DEF PageAnswers
  <2>9. ASSUME state = "scatter", NEW r \in due, Below(cursor, r), task'[r.shard] = "ok" PROVE Answered(r)'
    <3>1. CASE r.shard = s
      <4>1. answer'[r.shard] = Top(S, Limit) /\ r \in S
        BY <1>2, <2>1, <2>4, <2>9, <3>1
      <4> QED BY <2>6, <4>1 DEF Answered
    <3>2. CASE r.shard # s
      <4>1. answer'[r.shard] = answer[r.shard] /\ task[r.shard] = "ok"
        BY <1>2, <2>1, <2>7, <2>9, <3>2
      <4> QED BY <1>5, <2>9, <4>1 DEF PageAnswers, Answered
    <3> QED BY <3>1, <3>2
  <2>10. \A r : Below(cursor', r) <=> Below(cursor, r)
    BY <2>1
  <2> QED BY <2>1, <2>8, <2>9, <2>10 DEF PageAnswers, Below, Newer
<1>6. ASSUME NEW s \in Nodes, QueryFails(s), command = "page" PROVE PageAnswers'
  <2>1. UNCHANGED <<state, cursor, due>> /\ answer' = [answer EXCEPT ![s] = {}] /\ task' = [task EXCEPT ![s] = "failed"]
    BY <1>6 DEF QueryFails, AllowPartial
  <2>2. \A r \in due : r.shard \in Nodes
    BY <1>1, DueRows
  <2> QED BY <1>2, <1>6, <2>1, <2>2 DEF PageAnswers, Answered, Below, Newer
<1>7. ASSUME command # "page" PROVE PageAnswers'
  BY <1>1, <1>7 DEF PageAnswers
<1>8. ASSUME NEW s \in Nodes, AuditList(s) \/ AuditCount(s) PROVE command # "page"
  BY <1>8 DEF AuditList, AuditCount
<1> QED BY <1>3, <1>4, <1>5, <1>6, <1>7, <1>8

-----------------------------------------------------------------------------
(* The pages go down *)

(* A row below the cursor is newer than none shown before it. *)
LEMMA PastAndBelow ==
  ASSUME NEW c \in {CursorOf(r) : r \in Rows} \cup {Zero}, NEW r \in Rows, NEW q \in Rows,
         AtOrPast(c, r), Below(c, q)
  PROVE  Newer(r, q) /\ AtOrPast(CursorOf(q), r)
<1>1. c.at \in Nat /\ c.id \in Nat
  BY RowFields DEF CursorOf, Zero
<1> QED BY <1>1, RowFields DEF AtOrPast, Below, Newer, CursorOf

LEMMA OrderStep ==
  ASSUME Typed, PageAnswers, ShownIsPast, NewestFirst, [Next]_vars
  PROVE  ShownIsPast' /\ NewestFirst'
<1>1. TypeOK
  BY DEF Typed
<1>2. CASE ~GatherPage
  <2>1. pages' = pages /\ cursor' = cursor
    BY <1>2, PagesStay
  <2> QED BY <2>1 DEF ShownIsPast, NewestFirst, AtOrPast, Newer
<1>3. CASE GatherPage
  <2> DEFINE page == MergeDesc(answer, Limit)
             last == LastOf(page)
  <2>1. page \in SUBSET Rows /\ (page # {} => last \in page /\ \A q \in page \ {last} : Ahead(q, last))
    BY <1>1, MergedPage, LastOfIsLast
  <2>2. \A q \in page : Below(cursor, q)
    <3>1. \A s \in Nodes : \A q \in answer[s] : Below(cursor, q)
      BY <1>3, Zenon DEF PageAnswers, GatherPage, AllReturned
    <3> QED BY <1>1, <3>1, MergedPage, AnswerRows
  <2>3. pages' = Append(pages, page) /\ cursor' = IF page = {} THEN cursor ELSE CursorOf(last)
    BY <1>3, Zenon DEF GatherPage
  <2>4. pages \in Seq(SUBSET Rows) /\ cursor \in {CursorOf(r) : r \in Rows} \cup {Zero}
    BY <1>1 DEF TypeOK
  <2> HIDE DEF page, last
  <2>5. DOMAIN pages' = 1..(Len(pages) + 1) /\ DOMAIN pages = 1..Len(pages) /\ Len(pages) \in Nat
    BY <2>1, <2>3, <2>4
  <2>6. /\ \A i \in 1..Len(pages) : pages'[i] = pages[i] /\ pages[i] \in SUBSET Rows
        /\ pages'[Len(pages) + 1] = page
    BY <2>1, <2>3, <2>4
  <2>7. ASSUME NEW i \in 1..Len(pages), NEW r \in pages[i]
        PROVE  /\ \A q \in page : Newer(r, q)
               /\ AtOrPast(cursor', r)
    <3>1. r \in Rows /\ AtOrPast(cursor, r)
      BY <2>5, <2>6, <2>7 DEF ShownIsPast
    <3>2. \A q \in page : Newer(r, q) /\ AtOrPast(CursorOf(q), r)
      BY <2>1, <2>2, <2>4, <3>1, PastAndBelow
    <3> QED BY <2>1, <2>3, <3>1, <3>2
  <2>8. ASSUME NEW q \in page PROVE AtOrPast(cursor', q)
    <3>1. cursor' = CursorOf(last) /\ last \in Rows /\ q \in Rows /\ (q = last \/ Ahead(q, last))
      BY <2>1, <2>3, <2>8
    <3> QED BY <3>1, RowFields DEF AtOrPast, CursorOf, Ahead, Newer
  <2>9. \A i \in DOMAIN pages' : \A r \in pages'[i] : AtOrPast(cursor', r)
    <3> SUFFICES ASSUME NEW i \in 1..(Len(pages) + 1) PROVE \A r \in pages'[i] : AtOrPast(cursor', r)
      BY <2>5
    <3>1. CASE i = Len(pages) + 1
      BY <2>6, <2>8, <3>1
    <3>2. CASE i \in 1..Len(pages)
      BY <2>6, <2>7, <3>2
    <3> QED BY <2>5, <3>1, <3>2
  <2>10. \A i, j \in DOMAIN pages' : i < j => \A r \in pages'[i], q \in pages'[j] : Newer(r, q)
    <3> SUFFICES ASSUME NEW i \in 1..(Len(pages) + 1), NEW j \in 1..(Len(pages) + 1), i < j,
                        NEW r \in pages'[i], NEW q \in pages'[j]
                 PROVE  Newer(r, q)
      BY <2>5
    <3>1. i \in 1..Len(pages)
      BY <2>5
    <3>2. CASE j = Len(pages) + 1
      BY <2>6, <2>7, <3>1, <3>2
    <3>3. CASE j \in 1..Len(pages)
      BY <2>5, <2>6, <3>1, <3>3 DEF NewestFirst
    <3> QED BY <2>5, <3>2, <3>3
  <2> QED BY <2>9, <2>10 DEF ShownIsPast, NewestFirst, AtOrPast, Newer
<1> QED BY <1>2, <1>3

-----------------------------------------------------------------------------
(* An answer is whole *)

LEMMA EmptyIsEndStep ==
  ASSUME Typed, Checked, DueIsThere, PageAnswers, NothingSkipped, EmptyIsEnd, [Next]_vars
  PROVE  EmptyIsEnd'
<1>1. command' = command /\ TypeOK
  BY ProcessStays DEF Typed
<1>2. CASE command # "page"
  BY <1>1, <1>2 DEF EmptyIsEnd
<1>3. CASE command = "page" /\ ~GatherPage
  <2>1. Range(pages)' = Range(pages) /\ Shown' = Shown
    BY <1>3, PagesStay
  <2>2. CASE {} \notin Range(pages)
    BY <2>1, <2>2 DEF EmptyIsEnd
  <2>3. CASE {} \in Range(pages)
    <3>1. state = "done" /\ \A r \in due : r.id \in Shown
      BY <1>3, <2>3 DEF EmptyIsEnd
    <3>2. ~Begin
      BY <3>1 DEF Begin
    <3>3. state' = "done"
      <4>1. CASE UNCHANGED vars
        BY <3>1, <4>1 DEF vars
      <4>2. CASE StillStep
        BY <3>1, <4>2 DEF StillStep, TablesStep, Arrive, CleanUp, Open, AuditFails, GatherFails, GatherCounts, AllReturned
      <4>3. CASE \E s \in Nodes : Acquire(s) \/ Query(s) \/ QueryFails(s) \/ AuditList(s) \/ AuditCount(s)
        BY <3>1, <4>3, Zenon DEF Acquire, Query, QueryFails, AuditList, AuditCount
      <4> QED BY <1>3, <3>2, <4>1, <4>2, <4>3, NextCases
    <3>4. due' \subseteq due
      BY <3>2, DueStays
    <3> QED BY <2>1, <3>1, <3>3, <3>4 DEF EmptyIsEnd
  <2> QED BY <2>2, <2>3
<1>4. CASE command = "page" /\ GatherPage
  <2> DEFINE page == MergeDesc(answer, Limit)
  <2>1. AllReturned /\ ~Refused /\ state = "scatter" /\ due' = due
    BY <1>4, Zenon DEF GatherPage, AllReturned
  <2>2. {} \notin Range(pages)
    BY <1>4, <2>1 DEF EmptyIsEnd
  <2>3. Range(pages') = Range(pages) \cup {page} /\ Shown' = Shown \cup {q.id : q \in page}
    BY <1>1, <1>4, ShownByPage
  <2>4. Range(pages)' = Range(pages')
    BY DEF Range
  <2>5. CASE page # {}
    BY <2>2, <2>3, <2>4, <2>5 DEF EmptyIsEnd
  <2>6. CASE page = {}
    <3>1. \A r \in due : ~Below(cursor, r)
      BY <1>4, <2>1, <2>6, PageBrings
    <3>2. \A r \in due : r.id \in Shown
      BY <1>4, <3>1 DEF NothingSkipped
    <3>3. state' = "done"
      BY <1>4, <2>6, Zenon DEF GatherPage
    <3> QED BY <2>1, <2>3, <3>2, <3>3 DEF EmptyIsEnd
  <2> QED BY <2>5, <2>6
<1> QED BY <1>2, <1>3, <1>4

LEMMA CountStep ==
  ASSUME Typed, Checked, DueIsThere, CountAnswers, [Next]_vars
  PROVE  CountAnswers'
<1>1. command' = command /\ TypeOK /\ TypeOK' /\ due' \in SUBSET Rows
  BY ProcessStays, TypedStep DEF Typed, TypeOK
<1>2. task \in [Nodes -> {"idle", "waiting", "running", "ok", "failed"}] /\ answer \in [Nodes -> SUBSET Rows]
      /\ \A r \in due : r.shard \in Nodes /\ r \in OnShard(r.shard)
  BY <1>1, DueRows DEF TypeOK
<1>3. CASE command # "count"
  BY <1>1, <1>3 DEF CountAnswers
<1>4. CASE command = "count" /\ Begin
  <2>1. state' = "scatter" /\ task' = [s \in Nodes |-> IF s \in Shards THEN "waiting" ELSE "idle"]
    BY <1>4, Zenon DEF Begin
  <2>2. \A r \in due' : r.shard \in Nodes
    BY <1>1, RowFields
  <2> QED BY <2>1, <2>2 DEF CountAnswers
<1>5. ASSUME command = "count", NEW s \in Nodes, Query(s) PROVE CountAnswers'
  <2>1. UNCHANGED <<state, due, counted>> /\ answer' = [answer EXCEPT ![s] = OnShard(s)]
        /\ task' = [task EXCEPT ![s] = "ok"]
    BY <1>5 DEF Query, Fetch
  <2>2. ASSUME state = "scatter", NEW r \in due, task'[r.shard] = "ok" PROVE r \in answer'[r.shard]
    <3>1. CASE r.shard = s
      BY <1>2, <2>1, <3>1
    <3>2. CASE r.shard # s
      BY <1>2, <1>5, <2>1, <2>2, <3>2 DEF CountAnswers
    <3> QED BY <3>1, <3>2
  <2> QED BY <1>5, <2>1, <2>2 DEF CountAnswers
<1>6. ASSUME command = "count", NEW s \in Nodes, QueryFails(s) PROVE CountAnswers'
  <2>1. PICK sent : answer' = [answer EXCEPT ![s] = sent]
    BY <1>6, Zenon DEF QueryFails
  <2>2. UNCHANGED <<state, due, counted>> /\ task' = [task EXCEPT ![s] = "failed"]
    BY <1>6, Zenon DEF QueryFails
  <2> QED BY <1>2, <1>6, <2>1, <2>2 DEF CountAnswers
<1>7. CASE command = "count" /\ GatherCounts
  <2>1. AllReturned /\ ~Refused /\ counted' = UNION Range(answer) /\ state' = "done" /\ due' = due
    BY <1>7, Zenon DEF GatherCounts
  <2>2. Named(topo) \subseteq Shards
    BY <1>1, <2>1, FitsNamed DEF Checked, AllReturned
  <2>3. \A s \in Shards : task[s] = "ok"
    BY <1>7, <2>1 DEF AllReturned, Refused, AllowPartial, Failed
  <2>4. \A r \in due : r \in answer[r.shard]
    BY <1>7, <2>1, <2>2, <2>3 DEF CountAnswers, AllReturned, DueIsThere
  <2>5. due \subseteq UNION Range(answer)
    BY <1>1, <1>2, <2>4, AnswerRows
  <2> QED BY <2>1, <2>5 DEF CountAnswers
<1>8. CASE command = "count" /\ ~GatherCounts /\ ~Begin
         /\ \A s \in Nodes : ~(Query(s) \/ QueryFails(s))
  <2>1. \A s \in Nodes : ~(AuditList(s) \/ AuditCount(s))
    BY <1>8 DEF AuditList, AuditCount
  <2>2. answer' = answer /\ due' \subseteq due /\ (state' = "scatter" => state = "scatter")
    BY <1>8, <2>1, AnswersStay, DueStays
  <2>3. \A s \in Nodes : task'[s] = "ok" => task[s] = "ok"
    BY <1>2, <1>8, <2>1, TasksStay
  <2>4. counted' = counted /\ (state' = "done" => state = "done")
    <3>1. CASE UNCHANGED vars
      BY <3>1 DEF vars
    <3>2. CASE StillStep
      BY <1>8, <3>2 DEF StillStep, TablesStep, Arrive, CleanUp, Open, AuditFails, GatherFails
    <3>3. CASE GatherPage
      BY <1>8, <3>3 DEF GatherPage
    <3>4. CASE \E s \in Nodes : Acquire(s)
      BY <3>4, Zenon DEF Acquire
    <3> QED BY <1>8, <2>1, <3>1, <3>2, <3>3, <3>4, NextCases
  <2> QED BY <1>1, <1>2, <1>8, <2>2, <2>3, <2>4 DEF CountAnswers
<1> QED BY <1>3, <1>4, <1>5, <1>6, <1>7, <1>8

LEMMA AuditStep ==
  ASSUME Typed, Checked, DueIsThere, OnlyPagesMove, AuditAnswers, [Next]_vars
  PROVE  AuditAnswers'
<1>1. command' = command /\ topo' = topo /\ TypeOK /\ TypeOK' /\ due' \in SUBSET Rows
  BY ProcessStays, TypedStep DEF Typed, TypeOK
<1>2. task \in [Nodes -> {"idle", "waiting", "running", "ok", "failed"}] /\ answer \in [Nodes -> SUBSET Rows]
      /\ \A r \in due : r.shard \in Nodes /\ r \in OnShard(r.shard) /\ r \in Rows
  BY <1>1, DueRows DEF TypeOK
<1>3. CASE command # "audit"
  BY <1>1, <1>3 DEF AuditAnswers
<1>4. CASE command = "audit" /\ Begin
  <2>1. state' = "scatter" /\ task' = [s \in Nodes |-> IF s \in Shards THEN "waiting" ELSE "idle"]
        /\ due' \subseteq due \cup Wanted
    BY <1>4 DEF Begin
  <2>2. \A r \in due' : Stray(r)
    BY <1>4, <2>1 DEF AuditAnswers, Wanted
  <2>3. \A r \in due' : r.shard \in Nodes
    BY <1>1, RowFields
  <2>4. \A r \in due' : task'[r.shard] \notin {"running", "ok"}
    BY <2>1, <2>3
  <2>5. \A r \in due' : RouteRead(topo', TenantOf[r.id]) # r.shard
    BY <1>1, <2>2 DEF Stray
  <2>6. \A r \in due' : Stray(r)'
    BY <2>5 DEF Stray
  <2> QED BY <2>1, <2>4, <2>6 DEF AuditAnswers
<1>5. \A r \in due : Stray(r)' <=> Stray(r)
  BY <1>1 DEF Stray
<1>6. ASSUME command = "audit", NEW s \in Nodes, AuditList(s) PROVE AuditAnswers'
  <2>1. PICK listed \in SUBSET TenantsOf(OnShard(s)) :
          /\ answer' = [answer EXCEPT ![s] = {r \in OnShard(s) : TenantOf[r.id] \in WrongOn(s, listed)}]
          /\ cut' = (cut \/ listed # TenantsOf(OnShard(s)))
    BY <1>6, Zenon DEF AuditList
  <2>2. task' = [task EXCEPT ![s] = IF answer'[s] = {} THEN "ok" ELSE "running"]
        /\ UNCHANGED <<state, counted, due>> /\ state = "scatter"
    BY <1>6, Zenon DEF AuditList
  <2>3. ~cut' => ~cut /\ listed = TenantsOf(OnShard(s))
    BY <2>1
  <2>4. ASSUME ~cut', NEW r \in due, r.shard = s PROVE r \in answer'[s]
    <3>1. TenantOf[r.id] \in listed
      BY <1>2, <2>3, <2>4 DEF TenantsOf
    <3>2. RouteRead(topo, TenantOf[r.id]) # s
      BY <1>6, <2>4 DEF AuditAnswers, Stray
    <3>3. TenantOf[r.id] \in WrongOn(s, listed)
      BY <3>1, <3>2 DEF WrongOn
    <3>4. answer'[s] = {q \in OnShard(s) : TenantOf[q.id] \in WrongOn(s, listed)}
      BY <1>2, <2>1
    <3> QED BY <1>2, <2>4, <3>3, <3>4
  <2>5. ASSUME ~cut', NEW r \in due
        PROVE  /\ task'[r.shard] = "running" => TenantOf[r.id] \in TenantsOf(answer'[r.shard])
               /\ task'[r.shard] = "ok" => r \in counted
    <3>1. CASE r.shard = s
      <4>1. r \in answer'[s]
        BY <2>4, <2>5, <3>1
      <4>2. task'[s] = "running"
        BY <1>2, <2>2, <4>1
      <4> QED BY <3>1, <4>1, <4>2 DEF TenantsOf
    <3>2. CASE r.shard # s
      <4>1. task'[r.shard] = task[r.shard] /\ answer'[r.shard] = answer[r.shard]
        BY <1>2, <2>1, <2>2, <3>2
      <4> QED BY <1>6, <2>2, <2>3, <2>5, <4>1 DEF AuditAnswers
    <3> QED BY <3>1, <3>2
  <2>6. \A r \in due : Stray(r)'
    BY <1>5, <1>6 DEF AuditAnswers
  <2> QED BY <2>2, <2>5, <2>6 DEF AuditAnswers, TenantsOf
<1>7. ASSUME command = "audit", NEW s \in Nodes, AuditCount(s) PROVE AuditAnswers'
  <2>1. counted' = counted \cup {r \in OnShard(s) : TenantOf[r.id] \in TenantsOf(answer[s])}
        /\ task' = [task EXCEPT ![s] = "ok"] /\ task[s] = "running"
        /\ UNCHANGED <<state, answer, cut, due>> /\ state = "scatter"
    BY <1>7, Zenon DEF AuditCount
  <2>2. ASSUME ~cut, NEW r \in due
        PROVE  /\ task'[r.shard] = "running" => TenantOf[r.id] \in TenantsOf(answer[r.shard])
               /\ task'[r.shard] = "ok" => r \in counted'
    <3>1. CASE r.shard = s
      <4>1. r \in OnShard(s) /\ TenantOf[r.id] \in TenantsOf(answer[s])
        BY <1>2, <1>7, <2>1, <2>2, <3>1 DEF AuditAnswers
      <4> QED BY <1>2, <2>1, <3>1, <4>1
    <3>2. CASE r.shard # s
      <4>1. task'[r.shard] = task[r.shard]
        BY <1>2, <2>1, <3>2
      <4> QED BY <1>7, <2>1, <2>2, <4>1 DEF AuditAnswers
    <3> QED BY <3>1, <3>2
  <2>3. \A r \in due : Stray(r)'
    BY <1>5, <1>7 DEF AuditAnswers
  <2> QED BY <2>1, <2>2, <2>3 DEF AuditAnswers, TenantsOf
<1>8. CASE command = "audit" /\ GatherCounts
  <2>1. AllReturned /\ ~Refused /\ counted' = counted /\ state' = "done" /\ due' = due /\ cut' = cut
    BY <1>8, Zenon DEF GatherCounts
  <2>2. Named(topo) \subseteq Shards
    BY <1>1, <2>1, FitsNamed DEF Checked, AllReturned
  <2>3. \A s \in Shards : task[s] = "ok"
    BY <1>8, <2>1 DEF AllReturned, Refused, AllowPartial, Failed
  <2>4. ~cut => due \subseteq counted
    BY <1>8, <2>1, <2>2, <2>3 DEF AuditAnswers, AllReturned, DueIsThere
  <2>5. \A r \in due : Stray(r)'
    BY <1>5, <1>8 DEF AuditAnswers
  <2> QED BY <2>1, <2>4, <2>5 DEF AuditAnswers
<1>9. CASE command = "audit" /\ ~GatherCounts /\ ~Begin
         /\ \A s \in Nodes : ~(AuditList(s) \/ AuditCount(s))
  <2>1. \A s \in Nodes : ~(Query(s) \/ QueryFails(s))
    BY <1>9 DEF Query, QueryFails
  <2>2. answer' = answer /\ cut' = cut /\ due' \subseteq due /\ (state' = "scatter" => state = "scatter")
    BY <1>9, <2>1, AnswersStay, DueStays
  <2>3. task' = task
    BY <1>9, <2>1, TasksStay
  <2>4. counted' = counted /\ (state' = "done" => state = "done")
    <3>1. CASE UNCHANGED vars
      BY <3>1 DEF vars
    <3>2. CASE StillStep
      BY <1>9, <3>2 DEF StillStep, TablesStep, Arrive, CleanUp, Open, AuditFails, GatherFails
    <3>3. CASE GatherPage
      BY <1>9, <3>3 DEF GatherPage
    <3>4. CASE \E s \in Nodes : Acquire(s)
      BY <3>4, Zenon DEF Acquire
    <3> QED BY <1>9, <2>1, <3>1, <3>2, <3>3, <3>4, NextCases
  <2>5. \A r \in due' : Stray(r)'
    BY <1>5, <1>9, <2>2 DEF AuditAnswers
  <2> QED BY <1>1, <1>9, <2>2, <2>3, <2>4, <2>5 DEF AuditAnswers, TenantsOf
<1> QED BY <1>3, <1>4, <1>6, <1>7, <1>8, <1>9

-----------------------------------------------------------------------------
(* The theorems *)

LEMMA FeedInvInit == Init => FeedInv
<1> SUFFICES ASSUME Init PROVE FeedInv
  OBVIOUS
<1>1. Typed
  BY TypedInit
<1>2. state = "start" /\ due = {} /\ cursor = Zero /\ pages = << >>
  BY DEF Init
<1>3. DOMAIN pages = {} /\ Range(pages) = {}
  BY <1>2 DEF Range
<1>4. Checked /\ DueIsThere /\ OnlyPagesMove /\ NothingSkipped /\ PageAnswers
  BY <1>2 DEF Checked, DueIsThere, OnlyPagesMove, NothingSkipped, PageAnswers
<1>5. ShownIsPast /\ NewestFirst /\ EmptyIsEnd
  BY <1>3 DEF ShownIsPast, NewestFirst, EmptyIsEnd
<1>6. CountAnswers /\ AuditAnswers
  BY <1>2 DEF CountAnswers, AuditAnswers
<1> QED BY <1>1, <1>4, <1>5, <1>6 DEF FeedInv

LEMMA FeedInvStep == FeedInv /\ [Next]_vars => FeedInv'
<1> SUFFICES ASSUME FeedInv, [Next]_vars PROVE FeedInv'
  OBVIOUS
<1>1. Typed' /\ Checked' /\ DueIsThere' /\ OnlyPagesMove'
  BY TypedStep, CheckedStep, DueStep, OnlyPagesMoveStep DEF FeedInv
<1>2. NothingSkipped' /\ PageAnswers'
  BY SkipStep, PageAnswersStep DEF FeedInv
<1>3. ShownIsPast' /\ NewestFirst' /\ EmptyIsEnd'
  BY OrderStep, EmptyIsEndStep DEF FeedInv
<1>4. CountAnswers' /\ AuditAnswers'
  BY CountStep, AuditStep DEF FeedInv
<1> QED BY <1>1, <1>2, <1>3, <1>4 DEF FeedInv

(* The invariant that the four below follow from holds in every reachable  *)
(* state of a process that pages, counts or audits.                        *)
THEOREM FeedInvariant == Spec => []FeedInv
<1>1. Init => FeedInv
  BY FeedInvInit
<1>2. FeedInv /\ [Next]_vars => FeedInv'
  BY FeedInvStep
<1> QED BY <1>1, <1>2, PTL DEF Spec

(* The state is of its type: never are more shards asked at once than      *)
(* Scatter has slots, and no page is longer than the limit                 *)
(* (scatter.go:63-66, keyset.go:121-123).                                  *)
THEOREM FeedTypes == Spec => []TypeOK
<1>1. FeedInv => TypeOK
  BY DEF FeedInv, Typed
<1> QED BY <1>1, FeedInvariant, PTL

(* No row that was there when a page was asked for falls between that page *)
(* and the next, for every limit and every number of shards (MergeDesc and *)
(* PageRecent, keyset.go:76-157).                                          *)
THEOREM WalkSkipsNothing == Spec => []NothingSkipped
<1>1. FeedInv => NothingSkipped
  BY DEF FeedInv
<1> QED BY <1>1, FeedInvariant, PTL

(* The pages of a walk go down in the order of the feed, whatever is       *)
(* committed in between (Cursor, keyset.go:16-26).                         *)
THEOREM WalkGoesDown == Spec => []NewestFirst
<1>1. FeedInv => NewestFirst
  BY DEF FeedInv
<1> QED BY <1>1, FeedInvariant, PTL

(* A walk that came to its end and a count that was not asked for as       *)
(* partial have everything (Scatter, scatter.go:96-110; main.go:134-177).  *)
THEOREM AnswersAreWhole == Spec => []WholeOrError
<1>1. FeedInv => WholeOrError
  BY DEF FeedInv, EmptyIsEnd, CountAnswers, WholeOrError
<1> QED BY <1>1, FeedInvariant, PTL

(* An audit whose lists were not cut short has counted every stray row     *)
(* (Misplaced, orders.go:213-249).                                         *)
THEOREM AuditsAreWhole == Spec => []AuditCountsStrays
<1>1. FeedInv => AuditCountsStrays
  BY DEF FeedInv, AuditAnswers, AuditCountsStrays
<1> QED BY <1>1, FeedInvariant, PTL
=====
