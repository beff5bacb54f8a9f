# A TLA+ development for db_scaling

The repository is a laboratory for scaling Postgres. Its program is
`internal/shard` (a Go library that routes tenants to Postgres nodes, writes
across them and reads from all of them) and `cmd/shardctl` (the command line
over it). The rest is SQL: partitioning and retention scripts, and the schema of
a shard. This directory holds TLA+ models of that code, TLC configurations that
check them on small instances, and TLAPS proofs.

`cmd/reshard` and labs 05-07, which the documentation refers to, are not in the
repository; what the code in `src/` expects of them is marked as external.

## 1. Inventory

| Part | State it keeps | Operations | Hard behaviour | What makes it correct |
|---|---|---|---|---|
| Outbox (`outbox.go`) | per shard: `ledger`, `outbox`, `applied` | `Transfer`, `RelayOnce`, `PendingOutbox`, `replayLast` | relays that die between apply and mark, two relays of one shard, replays, a target that is down | each transfer debits once and credits once; nothing is marked before it is applied; money is conserved while ids are unique; every event arrives |
| Two-phase commit (`txn.go`, `main.go:556-590`, `682-730`) | prepared transactions and their row locks on the shards, the coordinator's list of legs | `Do`, `rollbackAll`, `Orphans`, `orphans -resolve`, `-crash` | failed and unanswered calls, deadlines, dead coordinators, lock waits across shards, prepared slots running out, a resolver that guesses | all legs commit or none; success means all committed; no overdraft; no leg is left behind; every `Do` returns |
| Snowflake ids (`id.go`) | `lastMs`, `seq` of a generator | `NewIDGen`, `Next`, `DecodeID` | a clock that steps back, 4096 ids in one millisecond, a restart, the 12 and 10 bit fields | ids grow, are unique, and decode to what was encoded |
| Topologies (`topology.go`, `hash.go`) | `Placement`, `Migrating`, `Pins`; ring points | `RouteRead`, `RouteWrite`, `BeginMove`, `Commit`, `Pin`, `PhysicalCount`, `LogicalsOn`, `Churn`, `Distribution` | a move while routers read and write, pins during a move, ties on the ring | a tenant's logical shard never changes; a move touches one logical shard; adding a node to a ring moves keys only to it |
| Placement file (`topology.go:257-295`, `store.go`) | one JSON file and its `.tmp` | `Save`, `LoadDirectory`, `LoadOrInitDirectory` | two processes that save, a crash in the middle of a write, check-then-create | a reader sees a whole placement; no saved move is lost |
| Cluster (`cluster.go`) | pools, the current topology | `Open`, `Close`, `Topology`, `SetTopology`, `Shards`, `Pool`, `ReadPool`, `WritePools`, `Ping` | a topology that is swapped between two reads of one call | a call uses one topology and pools that exist |
| Orders (`orders.go`) | per shard: `orders` | `Insert`, `Seed`, `SummarizeTenant`, `StateCounts`, `Stats`, `Misplaced` | a dual write that stops half way, routers with an old topology | a committed order is where readers look; the audit finds what is not |
| Scatter-gather (`scatter.go`) | results by shard | `Scatter`, `SlowestShard` | a bounded number of calls in flight, timeouts, partial answers | a result that is not partial has every shard's answer; at most `Concurrency` calls at once; the call ends |
| Keyset feed (`keyset.go`) | the cursor of a client | `MergeDesc`, `PageRecent` | rows with equal times, inserts between pages, a shard that fails | pages are sorted, without gaps or repetitions |
| Retention (labs 01, 02) | the month partitions of a parent table, its default partition and what that holds | the statements of `05-retention.sql`; `ensure_month_partitions`, `retire_month_partitions` | the script is not one transaction: it dies between two statements and is run again, perhaps in another month; the functions run beside it | no month that is in use is dropped, the default partition comes back, a detached table is dropped |
| `shardctl` (`main.go`) | the deadline of its context, the flags, the number of its pools | its eleven commands | it is started with too few pools for the directory it finds; its commands drive the parts above | a command reaches every node that its directory names, or refuses; it ends |
| Scripts, compose file, labs 00, 01, 03 | none that outlives them | start containers, load data, explain plans | none | not modelled |

The parts meet in three places. `shardctl transfer` runs a transfer through the
outbox or through two-phase commit on the ledgers of the shards `RouteRead`
names. The orders path takes `RouteWrite` from the topology the cluster holds,
which comes from the placement file. The feed and the counts go through
`Scatter`, and they and the audit read while orders are written and moved. The hazards found in each part, line by line, are in
`PROJECT.json`.

## 2. Plan

Written, in this order, the most important behaviour first:

1. `Transfers` (abstract) and `Outbox`, which implements it; `OutboxProofs`.
2. `TwoPC`; `TwoPCProofs`.
3. `IDGen`; `IDGenProofs`.
4. `Directory` (operators), `DirectoryEdits` (its edits as a state machine).
5. `Reshard`, which composes `Directory` with routers, inserts, the audit and an
   external mover; `ReshardProofs`.
6. `PlacementFile`; `PlacementFileProofs`.
7. `Ring`; `Topologies`, which puts `Ring` beside `DirectoryEdits`;
   `TopologiesProofs`, about all three.
8. `Feed`, which composes `Directory` with `Scatter`, the pages, the counts and the
   audit, while orders are committed, copied and cleaned up; `FeedProofs`.
9. `Retention`; `RetentionProofs`.

To come:

10. An abstract specification for `Reshard` (a table of orders per tenant) that
    it implements through the reader's directory, with its proof in `ReshardProofs`.
11. The invariants of `Retention` that its two liveness properties rest on.
12. `IDGen` under `Reshard`: what `ON CONFLICT DO NOTHING` does to two orders
    with one id.

## 3. Modules and code

| Module | Models | State and code |
|---|---|---|
| `Transfers` | the promise of `outbox.go:10-25` | one balance per tenant, one record per event; debit once, credit once |
| `Outbox` | `outbox.go`, `cmdTransfer`'s outbox branch, `replayLast` | `ledger`, `outbox`, `applied`: the tables of each shard; `relay[r]`: the batch in a `RelayOnce` and the line it is at |
| `TwoPC` | `txn.go`, `cmdTransfer`'s 2pc branch and `-crash`, `cmdOrphans` | `leg[x][s]`: a transaction in Postgres; `pc`, `legs`, `at`, `errs`: the locals of `Do`; `scanned`, `found`: those of `cmdOrphans` |
| `IDGen` | `id.go` | `gen[g]`: `lastMs` and `seq`; `pc[c]`: the goroutine is outside `Next`, at its mutex, or in its spin loop; `now`: `time.Now` |
| `Directory` | `Directory` in `topology.go`, `checkPlacementFits` | a record of `placement`, `migrating` and `pins`; operators named for the methods |
| `DirectoryEdits` | sequences of `BeginMove`, `Commit`, `Pin` | `dir` |
| `Ring` | `ModN` and `Ring` in `topology.go`, `Churn`, `Distribution` | `ring`: the sorted points and the shards they are of |
| `Topologies` | `cmdTopology` in `main.go`: the three side by side, the split of a directory | `from`: the number of nodes before the doubling |
| `Reshard` | `cluster.go`, `Insert`, `Seed`, `Misplaced` | `dir`: the placement file; `copy[r]`: a `Cluster`'s topology; `orders[p]`: the table on a node; `call[r]`: the statements a call has still to send |
| `PlacementFile` | `Save`, `LoadDirectory`, `LoadOrInitDirectory` | `file`, `tmp`; `proc[p]`: the call a process is in and whether it has a file open |
| `Feed` | `scatter.go`, `keyset.go`, `StateCounts`, `Misplaced`, `Open` and `openCluster`, `cmdPage`, `cmdCount`, `cmdAudit` | `nShards`, `topo`: the pools and the directory of the process; `task[s]`, `answer[s]`: the goroutine of a shard (for the audit, the loop's step) and its result; `cursor`, `pages`: the locals of `cmdPage`; `counted`: the sums shown; `visible`: the committed rows of all shards |
| `Retention` | `05-retention.sql` of lab 01, `02-rollover-manual.sql` of lab 02 | `tables[m]`: the table of a month and whether it is a partition; `default`, `inDefault`: the default partition and its rows; `step`: the script's next statement; `month`: `now()` |
| `MC...` | constants for TLC | |

What is abstracted:

- A statement or a transaction on one Postgres server is one step. In
  `TwoPC` the row locks between the steps of a transaction are modelled, as is
  the number of prepared transactions a server allows.
- A call that fails before it had an effect, one that fails after, and (for
  relays) a process that dies are different outcomes of the same step; what the
  caller cannot tell apart leads to the same state of the caller.
- Hashes are constants (`Key` in `Directory`, `Position` and `PointAt` in `Ring`,
  `Home` where routes do not change during the run). `sort.Slice` may leave points
  of one hash in any order; in `Ring` no two points have one hash. Order columns other than the tenant and the id, connection
  strings, deadlines in seconds and printed output are left out.
- In `IDGen` a millisecond no generator uses does not pass, and a call that
  takes one mutex and returns is one step; the spin is not.
- In `Feed` a row is its id, its time and its shard, and a query is one snapshot
  of one shard. A count is the set of rows that it counts, and the audit keeps
  rows where the code keeps tenant ids. A cursor is its two fields; `Encode` prints
  it and no command decodes it. All callers leave `ScatterOpts.Concurrency` at its
  default; the run sets it to 1 of 2, so that there is something to wait for.
- In `Retention` a table is its month and a statement with `\gexec` is one step,
  except `DETACH ... CONCURRENTLY`, which is two transactions. A statement that
  PostgreSQL refuses ends the script. Whether a retired table is dropped or
  renamed into the archive is one case.
- The order in which Go ranges over the `parts` map in `Do` and over the node
  map in `Seed` is any order.

External, modelled from how the code uses it: Postgres' locks and prepared
transactions, the clock, the file system (`os.WriteFile` truncates and then
writes; a renamed file keeps its readers and writers), and the mover. The mover
of `Reshard` follows the five steps of `docs/curriculum.md:326-339`, because
`cmd/reshard` is absent. It copies, compares and, where the nodes differ, copies
again; it cleans up only the rows it moved, so a pinned tenant keeps its rows. In
`Feed` it is no more than what readers see of it: rows that appear on a second
node and rows that go from a node while another has the order. Of PostgreSQL's
partitioning `Retention` uses four rules: `DETACH ... CONCURRENTLY` leaves a
pending partition between its two transactions and is refused while there is
one; plain `DETACH` of a pending partition is refused; a default partition is not
attached over rows that belong elsewhere; and no partition is created for which
the default one has rows.

## 4. What the runs check

Each property has a mutant in `PROJECT.json`: an operator named under a comment
"Mistake:" in the module replaces the code's own, and the property then fails
under the configuration of its run.

| Run | Instance | Properties |
|---|---|---|
| `outbox` | 3 shards, the third not answering; two relays of shard 0, none of shard 1; 2 event ids, which two shards may both use, and 1 cent each; one tenant without a row; batch 2, 1 replay | `TypeOK`, `Conservation`, `DeliveredImpliesApplied`, `NoOverdraft`, `ImplementsTransfers`, `DeliveredUnlessBlocked` |
| `twopc` | 2 transfers out of one account to another shard, in either order of legs; 1 prepared slot each; money for both, or for one; 2 faults (lost calls, crashes), any deadlines, `orphans -resolve` once | `TypeOK`, `Atomic`, `NoOverdraft`, `EndedLeavesNothing`, `DoneMeansCommitted`, `EveryTransferEnds` |
| `ids` | 2 generators, 3 goroutines, 2 sequence numbers per millisecond, 5 ids, the clock steps back twice, 1 restart | `TypeOK`, `Unique`, `Increasing`, `OwnShard`, `EveryCallReturns` |
| `topologies` | 3 logical shards, 3 tenants, 1 or 2 nodes, any edits; a ring of up to 4 shards with 2 points each, added in any order | `TypeOK`, `FittingRoutesHavePools`, `DoublingHalves`, `ReadsFollowWrites`, `MovesOneLogical`, `GrowsByMovesToTheNew` |
| `reshard_safety` | 3 routers, one without the second node; 4 orders of 3 tenants, two of them loaded by `Seed`, one tenant pinned or not; 2 moves | `TypeOK`, `NoLostOrder`, `ReadOwnWrites`, `AuditClean` |
| `placement` | 3 processes, 2 of them editors, 3 edits, 2 deaths | `TypeOK`, `WholeFile`, `NoEditLost`, `QuietIsNotEmpty` |
| `feed` | 1 or 2 pools and 2 nodes, asked one at a time; three directories (all on one node, split, split with a window); 7 rows, 3 of them committed during the run, with ties, a double insert, and an order that is moved; pages of 2, at most 5 | `TypeOK`, `NothingSkipped`, `NewestFirst`, `WholeOrError`, `AuditCountsStrays`, `EveryCommandEnds` |
| `retention` | 3 months pass; the script retires at 3 months and dies twice, the functions keep 2 and look 1 ahead; rows of any month come misdated | `TypeOK`, `DefaultComesBack`, `DetachedIsDropped` |

Four runs show where the code does something else than it says; the findings in
`PROJECT.json` quote the sentences that they contradict.

| Run | What TLC finds |
|---|---|
| `outbox_same_id` | Two processes call `time.Now().UnixNano()` (`main.go:594`) in one nanosecond and debit on different shards, each of which takes the id. The target applies one of the two and drops the credit of the other, which is marked delivered: its money is gone. |
| `twopc_not_moved` | Two transfers report success without a fault. With both tenants on one shard the map of legs has one key, the debit, and the credit is never made. Where the source has less than the amount the debit matches no row, which is no error, and the credit is committed alone. |
| `ids_carry` | With the clock behind `lastMs` the sequence number is not bounded; it runs into the shard bits and, where the bit is set already, repeats an id. |
| `reshard_in_flight` | The mover waits for every router's directory, not for the calls in flight: an `Insert` that took its route before the window opened writes behind the copy and is lost at the cutover. |

### The bounds, and why they are enough

- Two events suffice for an order within one outbox and for two outboxes; two
  relays of one shard suffice for a stale batch, since a batch interacts with
  others only through a row's `delivered_at` and the applied set. A shard may use
  an id that another has used, so up to four transfers are under way. One cent
  against balances of 1 and 3 makes some debits fail. Relays of different shards
  meet only in a target's tables, by an id that both sources use; there
  `outbox_same_id` shows what happens, and the theorems are about any relays.
- Two two-phase transfers from one account to another on a second shard debit
  one row twice and credit one row twice; as Go takes the legs of each in any
  order, they also wait for each other across the shards. One slot per shard
  makes `PREPARE` fail on one shard only. Two faults let a second failure hit the
  handling of the first, and one resolver meets transfers at every point.
- Two sequence numbers make every millisecond overflow; five ids are enough to
  overflow twice, or to overflow, step back and go on. Two shard bits leave a
  carry somewhere to go (`ids_carry` has one, so that it comes around).
- Three logical shards on one or two nodes include the uneven division and a
  logical shard without tenants. Four ring shards with two points each, between
  those of others, let a shard take a range from one other or from two, wrap
  around, and be added between two that were added before it.
- Two moves allow a logical shard to move there and back, or both to move. Three
  routers: one in a call, one behind with its directory, one without the pool.
- Three processes at one file: one that renames, one that has the file open and
  one that reads; two deaths leave two stale `.tmp` files.
- A page of 2 among seven rows ends within a tie on one shard, within a tie across
  shards and between the copies of one order; five pages show all rows or reach
  the empty page behind fewer. One of two queries at a time makes the second wait
  behind one that fails. One or two pools against directories of one and of two
  nodes, one with a window, give every answer of the start-up check.
- Three months with the script at 3 and the functions at 2 put the month the
  script is at within reach of both, before and after the month rolls over. Two
  deaths leave one state for the first re-run and another for the second.

`MaxReplays`, `MaxFaults`, `MaxResolves`, `MaxMs`, `MaxIds`, `MaxBack`,
`MaxRestarts`, `MaxMoves`, `MaxCrashes`, `MaxStops` and the months `First..Last` are
bounds of the models and not of the code. Where they are reached the models stop,
or the process that `Feed` models ends, hence `CHECK_DEADLOCK FALSE`; `topologies`
and `retention` never come to a stop and are checked for deadlock.

### Fairness

- `Outbox`: `outbox.go:58-60` has the relay run "in a loop, on a timer,
  forever", for each shard that has one (`Drained`), hence weak fairness of `Poll` and of returning from an error. Strong
  fairness of `Apply` and `Mark`: a statement that keeps being tried against a
  shard that answers succeeds in the end, though some tries fail.
- `TwoPC`: every call of `Do` returns or waits for a lock, and the deadline of
  `main`'s context passes; weak fairness of each coordinator's steps and of
  `Expire`. Crashes and the resolver are not fair.
- `IDGen`: the clock goes on (weak), and Go's mutex lets every waiter in, however
  many come after it (strong).
- `Feed`: the goroutines run and the timeout of a query comes, as does the deadline
  of `main` for the audit (weak); that a shard answers is not assumed.
- `Retention`: a script that runs goes on, and one that died is run again ("Retention
  jobs get re-run after they fail", `05-retention.sql:41`): weak fairness of the
  script as a whole. The functions of lab 02 may never be run.

The liveness properties are claims under exactly these assumptions.
`DeliveredUnlessBlocked` is the strongest delivery property that holds:
`RelayOnce` returns at the first event whose target fails.

### Conditions under which a property is checked

- `Conservation` and `ImplementsTransfers` need that no event id is used on two
  shards (`UniqueIDs`). The code does not see to that: the id is the nanosecond
  of the call (`main.go:594`) and the primary key of `outbox` is one shard's
  (`schema.sql:41-42`), which is all that `Transfer` asks for in the model
  (`KeyFree`). The runs reach both kinds of state; `outbox_same_id` drops the
  condition. `DeliveredImpliesApplied`, `NoOverdraft` and `DeliveredUnlessBlocked`
  do without it, but where it fails "applied" does not mean "credited".
- Both `NoOverdraft`s are about amounts that are not negative. `-cents` is any
  `int64` (`main.go:520`): a negative one passes the debit's `WHERE` clause, adds to
  the source and takes the target below zero, through either mode. The other
  properties do not depend on the sign.
- Each transfer of `TwoPC` has a gid of its own (`xfer-` and the nanosecond,
  `main.go:557`). Two processes that share one are not modelled; Postgres refuses a
  second `PREPARE` of a gid on a server that has the first.
- `Atomic` holds until somebody runs `orphans -resolve` (`Unresolved`): the
  resolver rolls back what it listed, also one leg of a transfer that is in
  phase 2 or whose other leg is committed. The other properties of `TwoPC` hold
  with the resolver running.
- `OwnShard` needs that no sequence number has outgrown its field, which only
  happens when the clock stays behind for longer than the numbers last (history
  variable `carried`). `Unique` and `Increasing` need in addition that the clock
  did not step back or no generator was restarted, since `lastMs` lives in the
  process; and a restart takes longer than a millisecond (`Restart`'s guard).
  `ids_carry` drops the first of these conditions.
- `NothingSkipped` is about the rows that were committed when a page was asked
  for and lie below its cursor. `created_at` is the time at which a transaction
  began, so a row can be committed behind the cursor; the walk does not show it.
  Like `WholeOrError` and `AuditCountsStrays` it says nothing of a row that was
  cleaned up on one shard while the call had not asked another for its copy, or
  had asked it before.
- `AuditCountsStrays` needs that no list of tenants was cut short (history variable
  `cut`), and is about the nodes that the directory names.
- `DoublingHalves` is about contiguous halves only where the division leaves no
  rest: otherwise the last node has a larger share, and `main.go:242` splits it by
  the remainder of the smaller one.
- `DefaultComesBack` has two exceptions, both named in it: a partition left pending
  by a death within `DETACH ... CONCURRENTLY`, and rows in the default partition of
  a month that `ensure_month_partitions` created while it was away.
  `DetachedIsDropped` lasts as long as the month: afterwards the script looks for
  the table of the next one.
- `NoLostOrder`, `ReadOwnWrites` and `AuditClean` need the mover to wait for the
  calls in flight as well (`Drains`), and that nothing is loaded in bulk during a
  move, which `labs/04-app-sharding-go/README.md:231-234` asks for.
- `WholeFile` and `NoEditLost` need that no two processes are between load and
  rename at once; the history variable `overlap` says whether that was so.
  `QuietIsNotEmpty` needs no such thing.

## 5. What is proved

TLAPS checks these for all values of the constants that satisfy the modules'
`ASSUME`s. Sets whose elements are summed or counted (shards, tenants, event ids,
goroutines, rows) are assumed finite.

| Theorem | Statement | Argument |
|---|---|---|
| `OutboxProofs!TypeCorrect` | `[]TypeOK` | inductive as `Typed` |
| `OutboxProofs!DeliveredWasApplied` | `[]DeliveredImpliesApplied` | `IInv` |
| `OutboxProofs!NeverOverdrawn` | `[]NoOverdraft`, for amounts that are not negative | inductive given `Typed` |
| `OutboxProofs!MoneyIsConserved` | `[]Conservation` | while ids are unique every step moves cents between `Held` and `InTransit`, under `IInv`; sums by their folds |
| `OutboxProofs!EffectivelyOnce` | `Spec => ImplementsTransfers` | refinement under `IInv`, of the steps that end with unique ids |
| `TwoPCProofs!TypeCorrect` | `[]TypeOK` | `Typed`, with the loops in bounds |
| `TwoPCProofs!AtomicUntilResolved` | `[]Atomic` | `DecidedInv`, which holds while `Unresolved` does |
| `TwoPCProofs!NeverOverdrawn` | `[]NoOverdraft`, for amounts that are not negative | `LockInv` |
| `TwoPCProofs!SuccessMeansCommitted` | `[]DoneMeansCommitted` | `Walked` of every transfer |
| `TwoPCProofs!NothingIsLeft` | `[]EndedLeavesNothing` | `Owes` of every transfer |
| `IDGenProofs!IdsIncrease`, `IdsNameTheirShard` | `[]Increasing`, `[]OwnShard` | `IInv` |
| `IDGenProofs!FieldsFit` | `[](~carried => TypeOK)` | inductive with the number of calls under way (`Fielded`) |
| `IDGenProofs!NoIdTwice` | one generator per shard gives `[]Unique` | `IInv`: equal ids are of one shard, so of one generator, and its ids grow |
| `TopologiesProofs!TypeCorrect` | `[]TypeOK` | division into ranges covers the logical shards |
| `TopologiesProofs!ReadsMoveToPreparedNodes`, `EditsMoveOneLogical` | the action properties | case split over the three edits |
| `TopologiesProofs!FitMeansRoutable` | `[]FittingRoutesHavePools` | every route is a placement, a window or a pin that the check looked at |
| `TopologiesProofs!DoublingSplitsInTwo` | `TopologiesSpec => []DoublingHalves` | arithmetic of `%` and `\div` for every number of shards |
| `TopologiesProofs!TopologiesKeepTheirPromises` | `TopologiesSpec` implies what `Spec` and `RingSpec` do, and `[]DoublingHalves` | each component steps or stutters |
| `ReshardProofs!TypeCorrect` | `[]TypeOK` | one lemma per action |
| `ReshardProofs!MovesLoseNothing`, `RoutersReadTheirWrites`, `MovesLeaveNothing` | `[]` of `NoLostOrder`, `ReadOwnWrites`, `AuditClean`, if `Drains` and `Quiet` | `Inv` |
| `TopologiesProofs!OnlyToTheNewShard` | `RingSpec => GrowsByMovesToTheNew` | the first point at or after a tenant is as before or one of the new ones |
| `FeedProofs!FeedTypes`, `WalkSkipsNothing`, `WalkGoesDown`, `AnswersAreWhole`, `AuditsAreWhole` | `[]` of `TypeOK`, `NothingSkipped`, `NewestFirst`, `WholeOrError`, `AuditCountsStrays` | `FeedInv` (`FeedInvariant`) |
| `PlacementFileProofs!TypeCorrect`, `ReadersFindWholeFiles`, `SavedEditsStay`, `NotLeftEmpty` | `[]` of `TypeOK`, `WholeFile`, `NoEditLost`, `QuietIsNotEmpty` | `IInv` |
| `RetentionProofs!KeptMonthsStay` | `[]TypeOK`, whose last conjunct is that kept months stay | inductive as it stands |

The inductive invariants:

- `OutboxProofs!IInv`: `DeliveredImpliesApplied` is not inductive, because a
  relay at its `Mark` step must have applied the event before (`MarkApplied`),
  and what it applied must stay applied under the target that the row names.
  `RowsRouted` and `AppliedHaveRows` say that a row's target is its tenant's home,
  and that nothing is applied that was never written. `UniqueIDs` is no part of it,
  since the code does not keep it. Where it holds after a step it held before
  (`UniqueBefore`), as no row is ever deleted, and a new row's id is then new to every
  shard (`FreshEverywhere`); so the refinement may use it at both ends of a step, to
  read the abstract record of an event off its one row.
  `MoneyIsConserved` needs no more: a credit is owed until its id is in the target's
  `applied` table, by one row only (`UniqueIDs`), and a new row's id is in no such
  table (`AppliedHaveRows`). The work is in the sums. `SumFunction` is a fold over
  subsets, which the provers see as a `CHOOSE`: `SumsUpTo` shows, by the least
  number without one, that there is such a function, `SumChanges` that changing one
  summand changes the sum by as much, and `SpreadOverHomes` that the seeded tables
  hold what the tenants were given.
- `TwoPCProofs!DecidedInv` says of each transfer that the decision to commit is
  that all its parts are in the coordinator's list: a leg is committed only if
  they are, rolled back only if they are not, and the list does not change after
  phase 1. `Atomic` alone does not exclude the state in which one leg has
  committed and a coordinator is about to roll back another.
- `TwoPCProofs!LockInv` adds to the balances not being negative (`NobodyOwes`), which
  it keeps if no amount is (`AmountsCount`), that a row is locked by one transfer
  (`OneLocker`) and that while it is locked for a debit it has the money
  (`Funded`). A step either releases locks, or is a statement that takes one, or
  commits a leg, which is the only one to change a balance (`LockMoves`).
- `TwoPCProofs!Walked`: in phase 2 every leg behind `at` is committed unless an error
  was noted, and success is the end of the legs without one. `Owes`: while nothing
  went wrong, what is prepared is among the legs from `at` on, and what is open is
  one transaction of phase 1.
- `ReshardProofs!Inv`: at most one window is open, and it is the mover's (`Shape`);
  a router or a call that does not have the directory of the file has the one
  before the last edit (`Lags`), which the mover does not let grow older. By either
  an order is written at least to the node that readers of the file use (`Reach`)
  and that readers with the router's copy use (`OwnReach`), and nowhere but on the
  two nodes of the move besides (`Placed`). `Copied` carries a move: what is
  acknowledged and behind the copy's cursor is on the target, because the copy took
  it or because its call wrote to both ends. `CallsInv` lets a call that spans steps
  of the mover keep what it has written, also through the clean-up.
  `Quiet` says that the first directory has no open window; without `Drains` a call
  may be older than the one edit that `Lags` allows, which is what
  `reshard_in_flight` shows.
- `TopologiesProofs!RingInv`: the points of a ring are exactly those of its shards, so
  there is a first one to wrap around to. That a finite set of positions has a
  least one is proved from the numbering of the points.
- `FeedProofs!FeedInv`: none of the four properties is inductive, as each is about
  the end of a call and the answers come one by one. `PageAnswers` and `CountAnswers`
  say what a shard that has answered has answered: each due row, or a full page of
  rows ahead of it (`Answered`); `AuditAnswers` says it of the audit's two queries.
  That suffices for the merge because the first rows of all answers together lie
  among the first of each (the lemmas on `Top`, by cardinalities). `ShownIsPast` keeps
  the pages above the cursor, `EmptyIsEnd` makes an empty page the last, `Checked`
  gives every node that is named a pool, and `DueIsThere` and `OnlyPagesMove` say of
  the history variable `due` and of the cursor what the commands leave alone.
- `PlacementFileProofs!IInv`: while no two processes overlapped, at most one is at
  work (`Alone`), the `.tmp` it writes is its own (`OwnTmp`), and what it loaded is
  what the file has (`Current`); all of it is the conjunct `InTurn`. `EmptyIsOpen`,
  which needs no turns, says that, while none died, a file which is empty is open in
  a process that has yet to write.
- `IDGenProofs!IInv` adds to `OwnShard` and `Increasing` that no generator is
  ahead of a clock that has never stepped back (`Clocked`), that a sequence
  number is beyond its field only while somebody spins (`Guarded`), and that
  every id issued is not beyond its generator's last or, after a restart, of an
  earlier millisecond (`History`). Either half of `History` is enough for what
  comes next: a generator that remembers is safe whatever the clock does, and
  one that has forgotten everything is safe because of the clock.

Only model-checked: the liveness properties (`DeliveredUnlessBlocked`,
`EveryTransferEnds`, `EveryCallReturns`, `EveryCommandEnds`, `DefaultComesBack`,
`DetachedIsDropped`), as liveness under fairness is outside the prover's reach; and
the type of an id once a sequence number has outgrown its field, which is a matter
of powers of two and of a sum over bits, about which the provers know nothing.

## 6. Divergences seen that have no run

- `txn.go:96-98` says the only correct move after the first commit is "retry
  until it succeeds"; phase 2 tries each leg once and returns the joined errors.
- `txn.go:16-17` promises atomicity across nodes; `orphans -resolve`
  (`main.go:713-723`) can roll back one leg of a transfer whose other leg commits.
- `outbox.go:14-15` says a relay retries until it succeeds; an event behind one
  for a dead shard is not tried at all (see `DeliveredUnlessBlocked`).
- `topology.go:228-229` says every router must see the flip of reads before any
  of them stops dual-writing; `Commit` flips reads and closes the window in one
  edit, so the first router to load it stops dual-writing while others still
  read the old node.
- `labs/04-app-sharding-go/README.md:224-226` calls `Misplaced` the verify half
  of a dual write; a row that the second insert did not reach is where it
  belongs, on the source, and is counted nowhere. The model's mover compares the
  nodes itself.
- `topology.go:276` calls the rename "the file-system version of a CAS"; nothing
  is compared, so of two overlapping edits the second to save wins, and since
  all `Save`s share one `.tmp` name, a rename can publish a file that another
  process has just truncated. `LoadOrInitDirectory` (`store.go:15-29`) has the
  same window between its look and its create.
- `docs/glossary.md:180-184` calls keyset pagination stable under concurrent
  writes. No row comes twice and none that was there is skipped, but an order
  that `Insert` wrote to both ends of a window has two times and comes up twice,
  and a row committed with a `created_at` behind the cursor does not come up.
- `Misplaced` does not look at `rows.Err()` (`orders.go:219`): a list of tenants that
  a lost connection cut short makes the audit smaller, not an error. Rows on nodes
  that no route names any more are on no list either when SHARDS is that of the
  smaller cluster.
- `scatter.go:33-36` has partial results leave out failed shards; `StateCounts` adds
  each state as its row is read, so with `-partial` a shard that fails half way is
  counted in part.
- `05-retention.sql:36-41` says that every statement may be run again. After a death
  within `DETACH ... CONCURRENTLY` the partition is pending, every later run fails at
  its second statement, before `ATTACH`, `retire_month_partitions` fails as well,
  and the default partition stays away until somebody runs `DETACH ... FINALIZE`.
- The script asks for `now()` in each statement. When the month ends between two,
  or before a re-run, the detached table is never dropped, and the table of the next
  month is dropped while it is a partition.
- While the default partition is away `ensure_month_partitions` creates a month of
  which it holds rows, and `ATTACH` then fails at every run; while it is attached,
  one such row makes `ensure_month_partitions` fail at every run.
- `main.go:238-239` calls the halves of a split contiguous; where the last node has a
  larger share, what it gives away is in two pieces.
- `topology.go:26` says `PhysicalCount` is how many nodes a topology can address;
  `Directory.PhysicalCount` leaves out nodes that only a pin names.

## 7. What is not modelled

- `Close` of the cluster, pool sizes and connection strings: no command uses a
  cluster after it closed it. The read-only commands `stats`, `tenant` and `ids`, and
  `SlowestShard`: one query or a sequence of prints that keeps no state; `seed` is
  `Seed` in `Reshard`, and `demo` runs other commands.
- The values of the hash functions, and base64 and JSON: no property tells them
  apart.
- `03-partman.sql` of lab 02 leaves the same job to an extension that is not in the
  repository.
- Balances do not move with their tenants: `Outbox` and `TwoPC` take `Home` as a
  constant, as no document says how ledgers follow a move.
- The labs' scripts, containers and Makefile: start-up and sequential SQL. Of
  `docker-compose.yml` one number is a constant, `MaxPrepared`.
