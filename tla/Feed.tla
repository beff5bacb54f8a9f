--------------------------------- MODULE Feed ---------------------------------
(***************************************************************************)
(* Reading all shards: Scatter (src/internal/shard/scatter.go), the pages  *)
(* of the feed (keyset.go), the counts by state and the audit (orders.go). *)
(*                                                                         *)
(* One process runs `shardctl page`, `count` or `audit` from its start to  *)
(* its end, while orders are committed on the shards and moved from one to *)
(* another.  Each shard answers when it gets to it: what one call gathers  *)
(* is no snapshot.                                                         *)
(***************************************************************************)
EXTENDS Directory

CONSTANTS
  Nodes,        \* the physical shards there are
  PoolCounts,   \* what SHARDS may be: the process has pools for 0..SHARDS-1
  Files,        \* the directories that the placement file may hold
  Rows,         \* the rows of the tables: [id, at, shard], at for created_at
  TenantOf,     \* TenantOf[id]: the tenant of an order
  Old,          \* the rows committed before the process starts
  Limit,        \* the flag -limit: rows of a page
  Pages,        \* the flag -pages: how many pages to walk
  Concurrency   \* ScatterOpts.Concurrency

(* id is the primary key of each shard. *)
ASSUME FeedAssumption ==
  /\ Nodes \subseteq Nat /\ IsFiniteSet(Nodes)
  /\ PoolCounts \subseteq Nat /\ \A n \in PoolCounts : 0..(n - 1) \subseteq Nodes
  /\ Files \subseteq Directories(Nodes)
  /\ Rows \subseteq [id : Nat, at : Nat \ {0}, shard : Nodes] /\ IsFiniteSet(Rows)
  /\ \A r \in Rows : TenantOf[r.id] \in Tenants
  /\ \A r, q \in Rows : r.id = q.id /\ r.shard = q.shard => r = q
  /\ Old \subseteq Rows
  /\ Limit \in Nat \ {0} /\ Pages \in Nat \ {0}
  /\ Concurrency \in Nat

VARIABLES
  command,   \* what the process was started for
  nShards,   \* its SHARDS
  topo,      \* the directory it loaded
  state,     \* at the start, between two calls, in one, or at the end
  task,      \* task[s]: the goroutine for shard s, or the step of the audit
  answer,    \* answer[s]: the rows shard s answered with, or whose tenants it named
  visible,   \* the rows of the tables
  cursor,    \* the position after the last page
  pages,     \* the pages shown
  counted,   \* the rows in the merged counts, or in those of the audit
  cut,       \* history: the audit was given half a list
  due        \* history: rows a call has to bring, or leave to a later page

process == <<command, nShards, topo>>
vars == <<process, state, task, answer, visible, cursor, pages, counted, cut, due>>

Shards == 0..(nShards - 1)

(* The zero Cursor, and the position of a row. *)
Zero == [at |-> 0, id |-> 0]
CursorOf(r) == [at |-> r.at, id |-> r.id]

Commands == {"page", "count", "count -partial", "audit"}
AllowPartial == command = "count -partial"

-----------------------------------------------------------------------------
(* The order of the feed: created_at DESC, id DESC.                        *)
Newer(r, q) == r.at > q.at \/ (r.at = q.at /\ r.id > q.id)

(* Where both are equal, one order is on two shards.  The merge is stable, *)
(* and the results come in the order of the shards.                        *)
Ahead(r, q) == Newer(r, q) \/ (r.at = q.at /\ r.id = q.id /\ r.shard < q.shard)

(* ORDER BY ... LIMIT n *)
Top(S, n) == {r \in S : Cardinality({q \in S : Ahead(q, r)}) < n}

LastOf(S) == CHOOSE r \in S : \A q \in S \ {r} : Ahead(q, r)

(* Mistake: only the times are compared. *)
BelowByTime(c, r) == c.at = 0 \/ r.at <= c.at

(* WHERE (created_at, id) < cursor *)
Below(c, r) == c.at = 0 \/ Newer(c, r)

(* Mistake: each shard is asked for its share of the page. *)
ShareOfPage == (Limit + Cardinality(Shards) - 1) \div Cardinality(Shards)

(* Every shard is asked for a full page. *)
Asked == Limit

OnShard(s) == {r \in visible : r.shard = s}

(* firstPage and nextPage; SELECT state, count( ) of all rows for a count. *)
Fetch(s) ==
  IF command = "page" THEN Top({r \in OnShard(s) : Below(cursor, r)}, Asked) ELSE OnShard(s)

(* Mistake: the rows beyond the limit stay in the page. *)
MergeAll(perShard, limit) == UNION Range(perShard)

MergeDesc(perShard, limit) == Top(UNION Range(perShard), limit)

(* withDefaults *)
Slots == IF Concurrency = 0 THEN Cardinality(Shards) ELSE Concurrency

(* A row that reads of its tenant would not find where it is. *)
Stray(r) == RouteRead(topo, TenantOf[r.id]) # r.shard

(* The nodes that the directory names, by its table, windows and pins. *)
Named(d) == PlacedOn(d) \cup (Range(d.pins) \ {NoShard})

Wanted == {r \in visible :
  r.shard \in Named(topo) /\ IF command = "audit" THEN Stray(r) ELSE Below(cursor, r)}

Running == {s \in Shards : task[s] = "running"}
Failed == {s \in Shards : task[s] = "failed"}

TypeOK ==
  /\ command \in Commands /\ nShards \in PoolCounts /\ topo \in Files
  /\ state \in {"start", "between", "scatter", "done", "failed"}
  /\ task \in [Nodes -> {"idle", "waiting", "running", "ok", "failed"}]
  /\ Cardinality(Running) <= Slots
  /\ answer \in [Nodes -> SUBSET Rows]
  /\ visible \in SUBSET Rows
  /\ cursor \in {CursorOf(r) : r \in Rows} \cup {Zero}
  /\ pages \in Seq(SUBSET Rows) /\ Len(pages) <= Pages
  /\ \A i \in DOMAIN pages : Cardinality(pages[i]) <= Limit
  /\ counted \in SUBSET Rows
  /\ cut \in BOOLEAN
  /\ due \in SUBSET Rows

Init ==
  /\ command \in Commands /\ nShards \in PoolCounts /\ topo \in Files
  /\ state = "start"
  /\ task = [s \in Nodes |-> "idle"]
  /\ answer = [s \in Nodes |-> {}]
  /\ visible = Old
  /\ cursor = Zero
  /\ pages = << >>
  /\ counted = {}
  /\ cut = FALSE
  /\ due = {}

-----------------------------------------------------------------------------
(* An order is committed, or a row of one is copied to another shard; its  *)
(* created_at is that of the beginning of the transaction (orders.go:27),  *)
(* so it may be older than others.  Insert writes one order to two shards  *)
(* while its tenant moves, at two times.                                   *)
Arrive(r) ==
  /\ r \notin visible
  /\ visible' = visible \cup {r}
  /\ UNCHANGED <<process, state, task, answer, cursor, pages, counted, cut, due>>

(* External: the tool that moves tenants deletes a row it has copied. *)
CleanUp(r) ==
  /\ r \in visible
  /\ \E q \in visible \ {r} : q.id = r.id
  /\ visible' = visible \ {r}
  /\ due' = due \ {r}
  /\ UNCHANGED <<process, state, task, answer, cursor, pages, counted, cut>>

(* Mistake: the placement file is not compared with SHARDS. *)
Unchecked == TRUE

Fits == CheckPlacementFits(topo, nShards)

(* The directory is loaded and checked, and every shard is pinged. *)
Open ==
  /\ state = "start"
  /\ state' \in IF Fits THEN {"between", "failed"} ELSE {"failed"}
  /\ UNCHANGED <<process, task, answer, visible, cursor, pages, counted, cut, due>>

(* PageRecent or StateCounts starts Scatter, which has a goroutine for     *)
(* each shard; or Misplaced starts to read them in turn.                   *)
Begin ==
  /\ state = "between"
  /\ state' = "scatter"
  /\ task' = [s \in Nodes |-> IF s \in Shards THEN "waiting" ELSE "idle"]
  /\ answer' = [s \in Nodes |-> {}]
  /\ due' = {r \in due : ~Below(cursor, r)} \cup Wanted
  /\ UNCHANGED <<process, visible, cursor, pages, counted, cut>>

(* Mistake: a query that failed does not give its slot back. *)
KeptByErrors == Cardinality(Running \cup Failed)

(* sema: who is past it and has not returned. *)
Taken == Cardinality(Running)

Acquire(s) ==
  /\ command # "audit" /\ task[s] = "waiting"
  /\ Taken < Slots
  /\ task' = [task EXCEPT ![s] = "running"]
  /\ UNCHANGED <<process, state, answer, visible, cursor, pages, counted, cut, due>>

(* The shard answers, with the rows of this moment. *)
Query(s) ==
  /\ command # "audit" /\ task[s] = "running"
  /\ answer' = [answer EXCEPT ![s] = Fetch(s)]
  /\ task' = [task EXCEPT ![s] = "ok"]
  /\ UNCHANGED <<process, state, visible, cursor, pages, counted, cut, due>>

(* It answers with an error, or PerShardTimeout is over.  The counts that  *)
(* it had sent are added to a partial answer all the same.                 *)
QueryFails(s) ==
  /\ command # "audit" /\ task[s] = "running"
  /\ \E sent \in IF AllowPartial THEN SUBSET Fetch(s) ELSE {{}} :
       answer' = [answer EXCEPT ![s] = sent]
  /\ task' = [task EXCEPT ![s] = "failed"]
  /\ UNCHANGED <<process, state, visible, cursor, pages, counted, cut, due>>

(* Mistake: the rows are judged by where writes go. *)
StrayForWrites(s, tenants) == {t \in tenants : s \notin Range(RouteWrite(topo, t))}

WrongOn(s, tenants) == {t \in tenants : RouteRead(topo, t) # s}

TenantsOf(S) == {TenantOf[r.id] : r \in S}

TurnOf(s) == task[s] = "waiting" /\ \A z \in Shards : z < s => task[z] = "ok"

(* SELECT DISTINCT tenant_id.  Misplaced does not look at rows.Err(): a    *)
(* list that a lost connection cut short is a list.                        *)
AuditList(s) ==
  /\ command = "audit" /\ state = "scatter" /\ s \in Shards /\ TurnOf(s)
  /\ \E listed \in SUBSET TenantsOf(OnShard(s)) :
       /\ answer' = [answer EXCEPT
            ![s] = {r \in OnShard(s) : TenantOf[r.id] \in WrongOn(s, listed)}]
       /\ cut' = (cut \/ listed # TenantsOf(OnShard(s)))
  /\ task' = [task EXCEPT ![s] = IF answer'[s] = {} THEN "ok" ELSE "running"]
  /\ UNCHANGED <<process, state, visible, cursor, pages, counted, due>>

(* SELECT count of the rows of those tenants, a moment later. *)
AuditCount(s) ==
  /\ command = "audit" /\ state = "scatter" /\ task[s] = "running"
  /\ counted' = counted \cup {r \in OnShard(s) : TenantOf[r.id] \in TenantsOf(answer[s])}
  /\ task' = [task EXCEPT ![s] = "ok"]
  /\ UNCHANGED <<process, state, answer, visible, cursor, pages, cut, due>>

(* Any query of the audit fails, at the latest at the deadline of main. *)
AuditFails ==
  /\ command = "audit" /\ state = "scatter" /\ \E s \in Shards : task[s] # "ok"
  /\ state' = "failed"
  /\ UNCHANGED <<process, task, answer, visible, cursor, pages, counted, cut, due>>

(* wg.Wait() *)
AllReturned == state = "scatter" /\ \A s \in Shards : task[s] \in {"ok", "failed"}

(* Mistake: what the others answered will do. *)
NeverRefused == FALSE

Refused == Failed # {} /\ ~AllowPartial

(* The errors are joined and the command ends with them. *)
GatherFails ==
  /\ AllReturned /\ Refused
  /\ state' = "failed"
  /\ UNCHANGED <<process, task, answer, visible, cursor, pages, counted, cut, due>>

(* The page is shown.  The walk goes on from its last row, unless it is    *)
(* empty or the last one asked for.                                        *)
GatherPage ==
  LET page == MergeDesc(answer, Limit) IN
  /\ command = "page" /\ AllReturned /\ ~Refused
  /\ pages' = Append(pages, page)
  /\ cursor' = IF page = {} THEN cursor ELSE CursorOf(LastOf(page))
  /\ state' = IF page = {} \/ Len(pages') = Pages THEN "done" ELSE "between"
  /\ UNCHANGED <<process, task, answer, visible, counted, cut, due>>

(* The counts by state are added up, or those of the audit are shown. *)
GatherCounts ==
  /\ command # "page" /\ AllReturned /\ ~Refused
  /\ counted' = IF command = "audit" THEN counted ELSE UNION Range(answer)
  /\ state' = "done"
  /\ UNCHANGED <<process, task, answer, visible, cursor, pages, cut, due>>

Gather == GatherFails \/ GatherPage \/ GatherCounts

Next ==
  \/ \E r \in Rows : Arrive(r) \/ CleanUp(r)
  \/ Open \/ Begin
  \/ \E s \in Nodes : Acquire(s) \/ Query(s) \/ QueryFails(s) \/ AuditList(s) \/ AuditCount(s)
  \/ AuditFails
  \/ Gather

Spec == Init /\ [][Next]_vars

(* The goroutines run.  A shard need not answer, but the timeout comes.    *)
FairSpec ==
  /\ Spec
  /\ WF_vars(Open) /\ WF_vars(Begin) /\ WF_vars(AuditFails) /\ WF_vars(Gather)
  /\ \A s \in Nodes : WF_vars(Acquire(s)) /\ WF_vars(QueryFails(s))

-----------------------------------------------------------------------------
Shown == {r.id : r \in UNION Range(pages)}

(* Every row that was there when a page was asked for, and belongs on it   *)
(* or on a later one, has been shown or is still to come: the limit of a   *)
(* shard, ties on created_at within and across shards, rows committed in   *)
(* between and orders moved past the walk push none past the cursor        *)
(* (keyset.go:16-18, 111-112).  An order that is copied and cleaned up     *)
(* within one call may be in no answer to it.                              *)
NothingSkipped ==
  command = "page" => \A r \in due : r.id \in Shown \/ Below(cursor, r)

(* The pages go down in the order of the feed, so no row comes up twice,   *)
(* whatever is committed between them.  (One order may: it is on two       *)
(* shards, at two times, while its tenant moves.)                          *)
NewestFirst ==
  \A i, j \in DOMAIN pages : i < j => \A r \in pages[i], q \in pages[j] : Newer(r, q)

(* An answer not asked for as partial is whole, although shards may fail:  *)
(* a feed that came to its end has shown all there was to show, and the    *)
(* counts have every row that was there when they began and stayed         *)
(* (scatter.go:33-36), on every node that the directory names ("refuse to  *)
(* answer when it cannot reach all of them", main.go:134-136).             *)
WholeOrError ==
  /\ command = "page" /\ {} \in Range(pages) => \A r \in due : r.id \in Shown
  /\ command = "count" /\ state = "done" => due \subseteq counted

(* An audit that ends has counted every stray row that was there when it   *)
(* began and stayed, on every node that the directory names, though orders *)
(* come and go between its queries (orders.go:202-208) - unless a list was *)
(* cut short, which it does not notice (orders.go:219).                    *)
AuditCountsStrays == command = "audit" /\ state = "done" /\ ~cut => due \subseteq counted

(* One shard that does not answer does not hang the command (scatter.go:   *)
(* 26-29), also when it holds the slot that another waits for.             *)
EveryCommandEnds == <>(state \in {"done", "failed"})
=============================================================================
