------------------------------- MODULE Outbox -------------------------------
(***************************************************************************)
(* Transfers through the outbox: src/internal/shard/outbox.go, its schema  *)
(* (src/labs/04-app-sharding-go/schema.sql) and its caller `shardctl       *)
(* transfer outbox` (src/cmd/shardctl/main.go).                            *)
(*                                                                         *)
(* Every shard is a Postgres database with a ledger, an outbox and an      *)
(* `applied` table.  A transaction on one shard is one step; nothing spans *)
(* two shards.  A call that fails, a call whose answer is lost and a relay *)
(* that dies all end the same way: the relay forgets the batch it read     *)
(* (Abandon) and what its transactions did stays done.                     *)
(***************************************************************************)
EXTENDS Integers, FiniteSets, Functions

CONSTANTS
  Shards,      \* the nodes
  Tenants,     \* ledger.tenant_id
  EventIDs,    \* outbox.id: the UnixNano of the call, ordered
  Amounts,     \* the cents a transfer may move
  Opening,     \* each tenant's seeded balance; NoRow: the tenant was not seeded
  NoRow,       \* the table has no row under that key
  Home,        \* Home[t]: the shard RouteRead gives for tenant t
  Relays,      \* the processes that loop over RelayOnce
  Source,      \* Source[r]: the shard relay r drains
  Batch,       \* RelayOnce's LIMIT
  Dead,        \* shards that do not answer
  MaxReplays   \* bound: how often replayLast runs

(* One outbox row.  Only delivered ever changes, and no row is deleted, so *)
(* a relay's copy of a row is its id.                                      *)
Row == [to : Tenants, target : Shards, cents : Amounts, delivered : BOOLEAN]

(* The tables are finite: an id is an int64. *)
ASSUME OutboxAssumption ==
  /\ IsFiniteSet(Shards) /\ IsFiniteSet(Tenants) /\ IsFiniteSet(EventIDs)
  /\ EventIDs \subseteq Int /\ Amounts \subseteq Int
  /\ NoRow \notin Int
  /\ NoRow \notin Row /\ NoRow \notin [to : Tenants, cents : Amounts, credited : BOOLEAN]
  /\ Opening \in [Tenants -> Nat \cup {NoRow}]
  /\ Home \in [Tenants -> Shards]
  /\ Source \in [Relays -> Shards]
  /\ Batch \in Nat \ {0}
  /\ Dead \subseteq Shards
  /\ MaxReplays \in Nat

VARIABLES
  ledger,      \* ledger[s][t]: balance_cents of t's row on shard s, or NoRow
  outbox,      \* outbox[s][e]: the row with id e in shard s's outbox, or NoRow
  applied,     \* applied[s]: the ids in shard s's applied table
  relay,       \* relay[r]: where relay r is and the events it has still to do
  replays      \* how many replays there were

vars == <<ledger, outbox, applied, relay, replays>>

RelayState == [pc : {"idle", "apply", "mark"}, evs : SUBSET EventIDs]

Idle == [pc |-> "idle", evs |-> {}]

TypeOK ==
  /\ ledger \in [Shards -> [Tenants -> Int \cup {NoRow}]]
  /\ outbox \in [Shards -> [EventIDs -> Row \cup {NoRow}]]
  /\ applied \in [Shards -> SUBSET EventIDs]
  /\ relay \in [Relays -> RelayState]
  /\ \A r \in Relays : relay[r].pc = "idle" <=> relay[r].evs = {}
  /\ replays \in 0..MaxReplays

Init ==
  /\ ledger = [s \in Shards |-> [t \in Tenants |-> IF Home[t] = s THEN Opening[t] ELSE NoRow]]
  /\ outbox = [s \in Shards |-> [e \in EventIDs |-> NoRow]]
  /\ applied = [s \in Shards |-> {}]
  /\ relay = [r \in Relays |-> Idle]
  /\ replays = 0

-----------------------------------------------------------------------------
(* The outbox of shard s. *)
Rows(s) == {e \in EventIDs : outbox[s][e] # NoRow}

(* The primary key refuses an id twice on one shard.  The id is the        *)
(* nanosecond of the call (main.go:594), so nothing keeps two processes    *)
(* from giving one id to transfers from two shards.                        *)
KeyFree(s, e) == outbox[s][e] = NoRow

(* Mistake: the WHERE clause forgets the balance. *)
DebitUnchecked(s, from, cents) == ledger[s][from] # NoRow

(* WHERE tenant_id = $1 AND balance_cents >= $2 *)
CanDebit(s, from, cents) == ledger[s][from] # NoRow /\ ledger[s][from] >= cents

(* Outbox.Transfer: the debit and the outbox row commit together. *)
Transfer(e, from, to, cents) ==
  LET s == Home[from] IN
  /\ s \notin Dead
  /\ KeyFree(s, e)
  /\ CanDebit(s, from, cents)
  /\ ledger' = [ledger EXCEPT ![s][from] = @ - cents]
  /\ outbox' = [outbox EXCEPT ![s][e] =
       [to |-> to, target |-> Home[to], cents |-> cents, delivered |-> FALSE]]
  /\ UNCHANGED <<applied, relay, replays>>

(* What PendingOutbox counts for shard s. *)
Pending(s, e) == e \in Rows(s) /\ ~outbox[s][e].delivered

(* WHERE delivered_at IS NULL *)
Undelivered(s) == {e \in Rows(s) : ~outbox[s][e].delivered}

(* ORDER BY id LIMIT $1 *)
Polled(s) == {e \in Undelivered(s) : Cardinality({f \in Undelivered(s) : f < e}) < Batch}

(* Mistake: mark, then apply. *)
MarkFirst == "mark"

(* What RelayOnce does first with an event. *)
FirstStep == "apply"

(* RelayOnce reads a batch; with nothing to do it returns. *)
Poll(r) ==
  /\ relay[r].pc = "idle"
  /\ Source[r] \notin Dead
  /\ Polled(Source[r]) # {}
  /\ relay' = [relay EXCEPT ![r] = [pc |-> FirstStep, evs |-> Polled(Source[r])]]
  /\ UNCHANGED <<ledger, outbox, applied, replays>>

(* Mistake: ORDER BY id DESC. *)
NewestFirst(r, e) == e \in relay[r].evs /\ \A f \in relay[r].evs : e >= f

(* The batch is worked off in id order. *)
Current(r, e) == e \in relay[r].evs /\ \A f \in relay[r].evs : e <= f

(* Mistake: the duplicate is not noticed. *)
NeverApplied(d, e) == FALSE

(* Mistake: the target trusts the mark on the source. *)
MarkedDelivered(d, e) == \E s \in Shards : e \in Rows(s) /\ outbox[s][e].delivered

(* INSERT INTO applied ... ON CONFLICT DO NOTHING touched no row *)
AlreadyApplied(d, e) == e \in applied[d]

(* The ledger upsert on the target. *)
CreditRow(balance, cents) == IF balance = NoRow THEN cents ELSE balance + cents

(* The apply transaction of event e on its target. *)
Apply(r) == \E e \in EventIDs :
  LET row == outbox[Source[r]][e] IN
  /\ relay[r].pc = "apply"
  /\ Current(r, e)
  /\ row.target \notin Dead
  /\ applied' = [applied EXCEPT ![row.target] = @ \cup {e}]
  /\ IF AlreadyApplied(row.target, e)
       THEN UNCHANGED ledger
       ELSE ledger' = [ledger EXCEPT ![row.target][row.to] = CreditRow(@, row.cents)]
  /\ relay' = [relay EXCEPT ![r].pc = "mark"]
  /\ UNCHANGED <<outbox, replays>>

(* Mistake: the loop does not notice that the batch is empty. *)
AfterMarkKeepsGoing(evs) == [pc |-> "apply", evs |-> evs]

(* The next event of the batch, or RelayOnce returns. *)
AfterMark(evs) == IF evs = {} THEN Idle ELSE [pc |-> "apply", evs |-> evs]

(* UPDATE outbox SET delivered_at = now() on the source *)
Mark(r) == \E e \in EventIDs :
  /\ relay[r].pc = "mark"
  /\ Current(r, e)
  /\ Source[r] \notin Dead
  /\ outbox' = [outbox EXCEPT ![Source[r]][e].delivered = TRUE]
  /\ relay' = [relay EXCEPT ![r] = AfterMark(relay[r].evs \ {e})]
  /\ UNCHANGED <<ledger, applied, replays>>

(* The target does not answer: RelayOnce returns, and leaves the rest of   *)
(* the batch undone.                                                       *)
TargetDown(r) == \E e \in EventIDs :
  /\ relay[r].pc = "apply"
  /\ Current(r, e)
  /\ outbox[Source[r]][e].target \in Dead
  /\ relay' = [relay EXCEPT ![r] = Idle]
  /\ UNCHANGED <<ledger, outbox, applied, replays>>

(* A step fails, its answer is lost, or the process dies, at any point. *)
Abandon(r) ==
  /\ relay[r].pc # "idle"
  /\ relay' = [relay EXCEPT ![r] = Idle]
  /\ UNCHANGED <<ledger, outbox, applied, replays>>

(* replayLast: an operator clears delivered_at to have e delivered again. *)
Replay(s, e) ==
  /\ s \notin Dead
  /\ replays < MaxReplays
  /\ e \in Rows(s) /\ outbox[s][e].delivered
  /\ outbox' = [outbox EXCEPT ![s][e].delivered = FALSE]
  /\ replays' = replays + 1
  /\ UNCHANGED <<ledger, applied, relay>>

RelayNext(r) == Poll(r) \/ Apply(r) \/ Mark(r) \/ TargetDown(r) \/ Abandon(r)

Next ==
  \/ \E e \in EventIDs, from, to \in Tenants, cents \in Amounts : Transfer(e, from, to, cents)
  \/ \E r \in Relays : RelayNext(r)
  \/ \E s \in Shards, e \in EventIDs : Replay(s, e)

Spec == Init /\ [][Next]_vars

(* "Run it in a loop, on a timer, forever" (outbox.go:58): an idle relay   *)
(* polls again, a step that keeps being tried works in the end, and an     *)
(* error is returned.                                                      *)
Fairness == \A r \in Relays :
  /\ WF_vars(Poll(r))
  /\ WF_vars(TargetDown(r))
  /\ SF_vars(Apply(r))
  /\ SF_vars(Mark(r))

FairSpec == Spec /\ Fairness

-----------------------------------------------------------------------------
(* No id names two transfers in the whole cluster: a fact about the        *)
(* callers' clocks, which dedupe by id relies on.  No row is deleted, so   *)
(* once it fails it fails for good.                                        *)
UniqueIDs == \A s1, s2 \in Shards, e \in EventIDs :
  outbox[s1][e] # NoRow /\ outbox[s2][e] # NoRow => s1 = s2

(* The id of an event marked delivered on its source is in its target's    *)
(* `applied` table (so, under UniqueIDs, the event was credited): the      *)
(* order Apply, then Mark in RelayOnce (outbox.go:103-131), kept by        *)
(* concurrent relays, stale batches and replays.  Otherwise a crash        *)
(* between the two would lose the money for good.                          *)
DeliveredImpliesApplied ==
  \A s \in Shards : \A e \in Rows(s) :
    outbox[s][e].delivered => e \in applied[outbox[s][e].target]

(* No interleaving of debits and credits takes a balance below zero, when  *)
(* what is moved is not negative: the WHERE balance_cents >= $2 of         *)
(* Transfer (outbox.go:42-43).                                             *)
NoOverdraft ==
  Amounts \subseteq Nat =>
    \A s \in Shards, t \in Tenants : ledger[s][t] # NoRow =>
      ledger[s][t] >= 0

Cents(balance) == IF balance = NoRow THEN 0 ELSE balance

(* What the event e of shard s has still to credit. *)
Owed(s, e) ==
  IF e \in Rows(s) /\ e \notin applied[outbox[s][e].target] THEN outbox[s][e].cents ELSE 0

(* The sum of what a table of each shard holds *)
TableSum(table) == SumFunction([s \in Shards |-> SumFunction(table[s])])

Held == TableSum([s \in Shards |-> [t \in Tenants |-> Cents(ledger[s][t])]])
InTransit == TableSum([s \in Shards |-> [e \in EventIDs |-> Owed(s, e)]])

(* "The `applied` table with a primary key on the event id is what turns   *)
(* at-least-once into effectively-once" (outbox.go:24-25): what the        *)
(* ledgers hold and what the outboxes have still to deliver is what was    *)
(* seeded, at every instant.                                               *)
MoneyAddsUp == Held + InTransit = SumFunction([t \in Tenants |-> Cents(Opening[t])])

(* Money is neither made nor lost while ids are unique, whatever relays,   *)
(* crashes and replays do.  The one place it could leak is the dedupe      *)
(* insert sharing the effect's transaction (outbox.go:103-121).            *)
Conservation == UniqueIDs => MoneyAddsUp

(* Some event ahead of e in its outbox is for a shard that does not answer. *)
Blocked(s, e) == \E f \in EventIDs : Pending(s, f) /\ f < e /\ outbox[s][f].target \in Dead

(* The shards whose outboxes somebody relays. *)
Drained == {Source[r] : r \in Relays}

(* Every committed transfer is in the end marked delivered (and so, by     *)
(* DeliveredImpliesApplied, applied), "retrying until it succeeds"         *)
(* (outbox.go:14-15), if its shard is drained and its target answers, and  *)
(* unless one ahead of it in its outbox is for a dead shard: RelayOnce     *)
(* returns at the first event it cannot apply (outbox.go:98-101, 122-124). *)
(* A delivered row may be replayed, so this is about every row at every    *)
(* time.                                                                   *)
DeliveredUnlessBlocked ==
  \A s \in Drained, e \in EventIDs :
    (Pending(s, e) /\ outbox[s][e].target \notin Dead)
      ~> (~Pending(s, e) \/ Blocked(s, e))

(* What the tables say in terms of the promise. *)
BalanceOf == [t \in Tenants |-> ledger[Home[t]][t]]

TransferOf == [e \in EventIDs |->
  IF \A s \in Shards : outbox[s][e] = NoRow THEN NoRow
  ELSE LET row == outbox[CHOOSE s \in Shards : outbox[s][e] # NoRow][e]
       IN  [to |-> row.to, cents |-> row.cents, credited |-> e \in applied[row.target]]]

T == INSTANCE Transfers WITH balance <- BalanceOf, transfer <- TransferOf

(* While ids are unique every step is one of the promise: each transfer is *)
(* debited once and credited exactly once, whatever relays, crashes and    *)
(* replays do ("effectively-once", outbox.go:22-25).                       *)
ImplementsTransfers ==
  T!Init /\ [][UniqueIDs' => T!Next \/ UNCHANGED T!vars]_vars
=============================================================================
