-------------------------------- MODULE TwoPC --------------------------------
(***************************************************************************)
(* Transfers by PREPARE TRANSACTION: TwoPC.Do and Orphans                  *)
(* (src/internal/shard/txn.go), `shardctl transfer 2pc` with the two legs  *)
(* it builds and `shardctl orphans -resolve` (src/cmd/shardctl/main.go).   *)
(*                                                                         *)
(* Each transfer is a process, the coordinator, whose only memory is its   *)
(* own.  The shards are Postgres: a leg is a transaction that works, is    *)
(* prepared and is then committed or rolled back, and holds the lock of    *)
(* the ledger row it wrote until then.  A balance is the committed one; a  *)
(* tenant without a ledger row has 0, which no debit matches and the       *)
(* upsert turns into the credit.                                           *)
(***************************************************************************)
EXTENDS Integers, Sequences, FiniteSets

CONSTANTS
  Shards,       \* the nodes, numbered
  Tenants,      \* ledger.tenant_id
  Home,         \* Home[t]: the shard RouteRead gives for tenant t
  Transfers,    \* the runs of `shardctl transfer 2pc`
  From, To,     \* From[x], To[x]: the tenants of transfer x
  Cents,        \* Cents[x]: what it moves, any int64 of the flag
  Openings,     \* the balances there may be before any transfer
  MaxPrepared,  \* max_prepared_transactions of every shard
  FaultKinds,   \* what may go wrong: "call", "crash"
  MaxFaults,    \* bound: how much goes wrong
  MaxResolves   \* bound: how often `orphans -resolve` runs

ASSUME TwoPCAssumption ==
  /\ Shards \subseteq Nat
  /\ Home \in [Tenants -> Shards]
  /\ From \in [Transfers -> Tenants] /\ To \in [Transfers -> Tenants]
  /\ Cents \in [Transfers -> Int]
  /\ Openings \subseteq [Tenants -> Nat]
  /\ MaxPrepared \in Nat /\ MaxFaults \in Nat /\ MaxResolves \in Nat
  /\ FaultKinds \subseteq {"call", "crash"}

VARIABLES
  balance,   \* balance[t]: committed balance_cents
  leg,       \* leg[x][s]: the transaction of transfer x on shard s
  took,      \* took[x]: the debit of x matched its row
  pc,        \* pc[x]: where coordinator x is
  legs,      \* legs[x]: the shards it knows to be prepared, in order
  at,        \* at[x]: the leg it commits or rolls back next
  errs,      \* errs[x]: a commit returned an error
  expired,   \* expired[x]: the deadline of its context passed
  faults,    \* how much went wrong so far
  scanned,   \* the shards `orphans` has listed
  found,     \* the orphans it holds, as <<transfer, shard>>
  resolves   \* how often it ran

coordinator == <<pc, legs, at, errs, expired>>
resolver == <<scanned, found, resolves>>
vars == <<balance, leg, took, coordinator, faults, resolver>>

LegState == {"none", "begun", "active", "prepared", "committed", "aborted"}
Running == {"phase1", "rollback", "phase2"}

TypeOK ==
  /\ balance \in [Tenants -> Int]
  /\ leg \in [Transfers -> [Shards -> LegState]]
  /\ took \in [Transfers -> BOOLEAN]
  /\ pc \in [Transfers -> Running \cup {"done", "failed", "crashed"}]
  /\ legs \in [Transfers -> Seq(Shards)]
  /\ at \in [Transfers -> Nat]
  /\ \A x \in Transfers :
       /\ at[x] \in 1..(Len(legs[x]) + 1)
       /\ pc[x] \in {"rollback", "phase2"} => at[x] <= Len(legs[x])
  /\ errs \in [Transfers -> BOOLEAN]
  /\ expired \in [Transfers -> BOOLEAN]
  /\ faults \in 0..MaxFaults
  /\ scanned \subseteq Shards
  /\ found \subseteq Transfers \X Shards
  /\ resolves \in 0..MaxResolves

Init ==
  /\ balance \in Openings
  /\ leg = [x \in Transfers |-> [s \in Shards |-> "none"]]
  /\ took = [x \in Transfers |-> FALSE]
  /\ pc = [x \in Transfers |-> "phase1"]
  /\ legs = [x \in Transfers |-> << >>]
  /\ at = [x \in Transfers |-> 1]
  /\ errs = [x \in Transfers |-> FALSE]
  /\ expired = [x \in Transfers |-> FALSE]
  /\ faults = 0
  /\ scanned = {}
  /\ found = {}
  /\ resolves = 0

-----------------------------------------------------------------------------
Source(x) == Home[From[x]]
Target(x) == Home[To[x]]

(* The keys of the map handed to Do: one leg when both are on one shard. *)
Parts(x) == {Source(x), Target(x)}

(* The legs x holds in memory. *)
HasLeg(x, s) == \E i \in 1..Len(legs[x]) : legs[x][i] = s
AllLegs(x) == \A s \in Parts(x) : HasLeg(x, s)

(* The credit is a part of its own only on another shard. *)
Credits(x, s) == s = Target(x) /\ Target(x) # Source(x)

(* A row lock is kept until COMMIT PREPARED or ROLLBACK PREPARED. *)
UntilResolved == {"active", "prepared"}

Locks(x, t) ==
  \/ t = From[x] /\ took[x] /\ leg[x][Source(x)] \in UntilResolved
  \/ t = To[x] /\ Credits(x, Target(x)) /\ leg[x][Target(x)] \in UntilResolved

LockFree(x, t) == \A y \in Transfers \ {x} : ~Locks(y, t)

(* Mistake: the UPDATE has no condition on the balance. *)
AnyBalance(x) == TRUE

(* WHERE tenant_id = $1 AND balance_cents >= $2 *)
Matches(x) == balance[From[x]] >= Cents[x]

PreparedOn(s) == {x \in Transfers : leg[x][s] = "prepared"}

SlotFree(s) == Cardinality(PreparedOn(s)) < MaxPrepared

(* One more thing goes wrong. *)
Fault(kind) == kind \in FaultKinds /\ faults < MaxFaults /\ faults' = faults + 1

(* Mistake: the calls run on a context without a deadline. *)
OnlyFaultsFail(x) == Fault("call")

(* A call of x fails: the network, the server, or the expired context. *)
CallFails(x) == Fault("call") \/ (expired[x] /\ UNCHANGED faults)

(* It succeeds; or it does its work, and x sees an error. *)
Answered(x) == ~expired[x] /\ UNCHANGED faults
Unanswered(x) == ~expired[x] /\ Fault("call")

-----------------------------------------------------------------------------
(* The transaction x has open on a shard. *)
Open(x) == {s \in Shards : leg[x][s] \in {"begun", "active"}}

(* Acquire and Begin on the next shard of the map: Go picks any. *)
Begin(x, s) ==
  /\ pc[x] = "phase1" /\ ~expired[x]
  /\ Open(x) = {}
  /\ s \in Parts(x) /\ leg[x][s] = "none"
  /\ leg' = [leg EXCEPT ![x][s] = "begun"]
  /\ UNCHANGED <<balance, took, coordinator, faults, resolver>>

(* fn: the statement waits while another leg holds the lock of its row, so *)
(* it has no step then.  A debit that matches no row locks none and is no  *)
(* error (main.go:561-566).                                                *)
Work(x, s) ==
  /\ pc[x] = "phase1" /\ ~expired[x]
  /\ leg[x][s] = "begun"
  /\ Credits(x, s) => LockFree(x, To[x])
  /\ s = Source(x) /\ Matches(x) => LockFree(x, From[x])
  /\ leg' = [leg EXCEPT ![x][s] = "active"]
  /\ took' = IF s = Source(x) THEN [took EXCEPT ![x] = Matches(x)] ELSE took
  /\ UNCHANGED <<balance, coordinator, faults, resolver>>

(* Mistake: the first promise is taken for all of them. *)
EagerPhase2(x, s) == "phase2"

(* Phase 1 ends when the last part is prepared. *)
AfterPrepare(x, s) ==
  IF \A z \in Parts(x) \ {s} : HasLeg(x, z) THEN "phase2" ELSE "phase1"

(* Mistake: an error path that forgets rollbackAll. *)
JustReturn(x) == "failed"

(* What Do does with an error of phase 1: rollbackAll, over legs. *)
GiveUp(x) == IF legs[x] = << >> THEN "failed" ELSE "rollback"

(* PREPARE TRANSACTION: Do remembers the leg; or its answer is lost and Do *)
(* takes it for a failure, so that the leg is not among those rollbackAll  *)
(* undoes; or no slot is free and the transaction is rolled back.          *)
Prepare(x, s) ==
  /\ pc[x] = "phase1"
  /\ leg[x][s] = "active"
  /\ \/ /\ SlotFree(s) /\ Answered(x)
        /\ leg' = [leg EXCEPT ![x][s] = "prepared"]
        /\ legs' = [legs EXCEPT ![x] = Append(@, s)]
        /\ pc' = [pc EXCEPT ![x] = AfterPrepare(x, s)]
     \/ /\ SlotFree(s) /\ Unanswered(x)
        /\ leg' = [leg EXCEPT ![x][s] = "prepared"]
        /\ pc' = [pc EXCEPT ![x] = GiveUp(x)]
        /\ UNCHANGED legs
     \/ /\ ~SlotFree(s) /\ Answered(x)
        /\ leg' = [leg EXCEPT ![x][s] = "aborted"]
        /\ pc' = [pc EXCEPT ![x] = GiveUp(x)]
        /\ UNCHANGED legs
  /\ UNCHANGED <<balance, took, at, errs, expired, resolver>>

(* The open transaction of x, if there is one, is rolled back. *)
DropActive(x) ==
  leg' = [leg EXCEPT ![x] = [s \in Shards |-> IF s \in Open(x) THEN "aborted" ELSE @[s]]]

(* Any call of phase 1 fails. *)
Phase1Fails(x) ==
  /\ pc[x] = "phase1"
  /\ CallFails(x)
  /\ DropActive(x)
  /\ pc' = [pc EXCEPT ![x] = GiveUp(x)]
  /\ UNCHANGED <<balance, took, legs, at, errs, expired, resolver>>

(* Mistake: the loop runs one leg too far. *)
OneTooFar(x, e) ==
  /\ at' = [at EXCEPT ![x] = @ + 1]
  /\ pc' = IF at[x] > Len(legs[x]) THEN [pc EXCEPT ![x] = e] ELSE pc
  /\ UNCHANGED <<legs, expired>>

(* The loop over legs goes on, or ends in pc value e. *)
NextLeg(x, e) ==
  /\ at' = [at EXCEPT ![x] = @ + 1]
  /\ pc' = IF at[x] = Len(legs[x]) THEN [pc EXCEPT ![x] = e] ELSE pc
  /\ UNCHANGED <<legs, expired>>

(* ROLLBACK PREPARED of a leg that is gone is an error, and changes nothing. *)
RolledBack(state) == IF state = "prepared" THEN "aborted" ELSE state

(* rollbackAll, on the context of Do: an error is dropped. *)
Rollback(x) ==
  /\ pc[x] = "rollback"
  /\ \/ /\ Answered(x) \/ Unanswered(x)
        /\ leg' = [leg EXCEPT ![x][legs[x][at[x]]] = RolledBack(@)]
     \/ CallFails(x) /\ UNCHANGED leg
  /\ NextLeg(x, "failed")
  /\ UNCHANGED <<balance, took, errs, resolver>>

(* What committing the leg of x on s does to the ledger. *)
Effect(x, s) ==
  [t \in Tenants |-> balance[t]
     - (IF s = Source(x) /\ took[x] /\ t = From[x] THEN Cents[x] ELSE 0)
     + (IF Credits(x, s) /\ t = To[x] THEN Cents[x] ELSE 0)]

(* COMMIT PREPARED on shard s. *)
CommitPrepared(x, s) ==
  IF leg[x][s] = "prepared"
    THEN leg' = [leg EXCEPT ![x][s] = "committed"] /\ balance' = Effect(x, s)
    ELSE UNCHANGED <<leg, balance>>

(* Mistake: the errors of phase 2 are dropped, like those of rollbackAll. *)
ErrorsIgnored(error) == "done"

(* Do returns the joined errors of phase 2. *)
Outcome(error) == IF error THEN "failed" ELSE "done"

Phase2Step(x, error) ==
  /\ errs' = [errs EXCEPT ![x] = @ \/ error]
  /\ NextLeg(x, Outcome(errs[x] \/ error))

(* The one attempt at a leg: it may also have no effect, or no answer. *)
Commit(x) ==
  LET s == legs[x][at[x]] IN
  /\ pc[x] = "phase2"
  /\ \/ Answered(x) /\ CommitPrepared(x, s) /\ Phase2Step(x, leg[x][s] # "prepared")
     \/ Unanswered(x) /\ CommitPrepared(x, s) /\ Phase2Step(x, TRUE)
     \/ CallFails(x) /\ UNCHANGED <<balance, leg>> /\ Phase2Step(x, TRUE)
  /\ UNCHANGED <<took, resolver>>

(* The ten minutes of main's context are over: every later call fails. *)
Expire(x) ==
  /\ pc[x] \in Running /\ ~expired[x]
  /\ expired' = [expired EXCEPT ![x] = TRUE]
  /\ UNCHANGED <<balance, leg, took, pc, legs, at, errs, faults, resolver>>

(* The process dies, or exits on -crash: its session is rolled back, what  *)
(* it prepared stays.                                                      *)
Crash(x) ==
  /\ pc[x] \in Running
  /\ Fault("crash")
  /\ DropActive(x)
  /\ pc' = [pc EXCEPT ![x] = "crashed"]
  /\ UNCHANGED <<balance, took, legs, at, errs, expired, resolver>>

-----------------------------------------------------------------------------
(* Orphans lists pg_prepared_xacts shard by shard, in shard order.         *)
ListShard(s) ==
  /\ resolves < MaxResolves
  /\ s \in Shards \ scanned
  /\ \A z \in Shards \ scanned : s <= z
  /\ scanned' = scanned \cup {s}
  /\ found' = found \cup (PreparedOn(s) \X {s})
  /\ UNCHANGED <<balance, leg, took, coordinator, faults, resolves>>

ResolverEnds ==
  /\ scanned' = {}
  /\ found' = {}
  /\ resolves' = resolves + 1

(* The listing is worked off by shard; the order within one is by age, and *)
(* any order here.                                                         *)
FirstFound(o) == o \in found /\ \A p \in found : o[2] <= p[2]

(* ROLLBACK PREPARED of every orphan found, whatever its age and whatever  *)
(* became of its siblings.  One that is gone is an error and ends the run. *)
Resolve(o) ==
  /\ scanned = Shards
  /\ FirstFound(o)
  /\ leg' = [leg EXCEPT ![o[1]][o[2]] = RolledBack(@)]
  /\ IF leg[o[1]][o[2]] # "prepared" \/ found = {o}
       THEN ResolverEnds
       ELSE found' = found \ {o} /\ UNCHANGED <<scanned, resolves>>
  /\ UNCHANGED <<balance, took, coordinator, faults>>

(* Nothing was found, or a call of the resolver fails. *)
ResolverStops ==
  /\ scanned # {}
  /\ (scanned = Shards /\ found = {} /\ UNCHANGED faults) \/ Fault("call")
  /\ ResolverEnds
  /\ UNCHANGED <<balance, leg, took, coordinator>>

-----------------------------------------------------------------------------
CoordinatorStep(x) ==
  \/ \E s \in Shards : Begin(x, s) \/ Work(x, s) \/ Prepare(x, s)
  \/ Rollback(x) \/ Commit(x) \/ Phase1Fails(x)

Next ==
  \/ \E x \in Transfers : CoordinatorStep(x) \/ Expire(x) \/ Crash(x)
  \/ \E s \in Shards : ListShard(s)
  \/ \E o \in found : Resolve(o)
  \/ ResolverStops

Spec == Init /\ [][Next]_vars

(* A living coordinator goes on, since each call of Do returns or waits    *)
(* for a lock, and the deadline of main's context (main.go:44) passes.     *)
FairSpec == Spec /\ \A x \in Transfers : WF_vars(CoordinatorStep(x)) /\ WF_vars(Expire(x))

-----------------------------------------------------------------------------
Committed(x) == \A s \in Parts(x) : leg[x][s] = "committed"

(* Nobody has begun to resolve orphans. *)
Unresolved == resolves = 0 /\ scanned = {}

(* A transfer that committed on one shard has committed, or holds the      *)
(* promise that it can, on all its shards: "atomicity across nodes"        *)
(* (txn.go:17), whichever calls fail and whenever the coordinators die,    *)
(* until somebody resolves orphans.                                        *)
Atomic == \A x \in Transfers :
  Unresolved /\ (\E s \in Shards : leg[x][s] = "committed")
    => \A z \in Parts(x) : leg[x][z] \in {"prepared", "committed"}

(* A transfer that reports success committed on all its shards, even with  *)
(* `orphans -resolve` running beside it: the joined errors of phase 2      *)
(* (txn.go:99-110) leave nothing out.                                      *)
DoneMeansCommitted == \A x \in Transfers : pc[x] = "done" => Committed(x)

(* Two transfers out of one account never overdraw it, though each debit   *)
(* is checked when it works and counts only when it commits (main.go:563): *)
(* the prepared leg keeps its row lock in between.  Nothing refuses a      *)
(* negative amount (main.go:520), which passes the WHERE clause and takes  *)
(* from the target without a check: the property is about the others.      *)
NoOverdraft ==
  (\A x \in Transfers : Cents[x] >= 0) => \A t \in Tenants : balance[t] >= 0

(* Where no call is lost, no process dies and its deadline does not pass,  *)
(* a Do that returned leaves no promise behind, though PREPARE was refused *)
(* for lack of a slot: rollbackAll (txn.go:77-82, 113-119) undoes the rest.*)
EndedLeavesNothing == \A x \in Transfers :
  pc[x] \in {"done", "failed"} /\ faults = 0 /\ ~expired[x]
    => \A s \in Shards : leg[x][s] \notin {"begun", "active", "prepared"}

(* Every Do returns in the end, though two transfers can wait for each     *)
(* other's locks on two shards where no server sees the cycle: the         *)
(* deadline of main's context (main.go:44) is what breaks it.              *)
EveryTransferEnds == \A x \in Transfers : <>(pc[x] \notin Running)

(* Transfer x took its amount from its source, and gave it to its target.  *)
Moved(x) == took[x] /\ \E s \in Shards : Credits(x, s) /\ leg[x][s] = "committed"

(* When every transfer has said "committed atomically across shards."      *)
(* (main.go:590), each has moved its money.                                *)
DoneMeansMoved ==
  (\A x \in Transfers : pc[x] = "done") => \A x \in Transfers : Moved(x)
=============================================================================
