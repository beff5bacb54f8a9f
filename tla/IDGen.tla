-------------------------------- MODULE IDGen --------------------------------
(***************************************************************************)
(* Snowflake ids: src/internal/shard/id.go.  A generator packs the         *)
(* millisecond, its shard and a sequence number into one bigint.  The      *)
(* goroutines of a process share it under its mutex, and there is one      *)
(* generator for each shard.  The clock is the machine's: it may be        *)
(* stepped back.                                                           *)
(*                                                                         *)
(* Next holds the mutex from its first look at the clock to its return.    *)
(* It is one step, except when it spins, mutex in hand, until the clock    *)
(* moves on.                                                               *)
(***************************************************************************)
EXTENDS Integers, Sequences, FiniteSetsExt

CONSTANTS
  Gens,         \* the generators
  ShardOf,      \* ShardOf[g]: the shard g was created for
  Callers,      \* the goroutines
  GenOf,        \* GenOf[c]: the generator goroutine c uses
  ShardBits,    \* the width of the shard field
  MaxSeq,       \* the largest sequence number of a millisecond
  MaxMs,        \* bound: the last millisecond
  MaxIds,       \* bound: the calls of Next
  MaxBack,      \* bound: how often the clock is stepped back
  MaxRestarts   \* bound: how often a process comes back with a new generator

MaxShardID == 2^ShardBits - 1

ASSUME IDGenAssumption ==
  /\ ShardOf \in [Gens -> 0..MaxShardID]
  /\ IsFiniteSet(Callers) /\ GenOf \in [Callers -> Gens]
  /\ ShardBits \in Nat /\ MaxSeq \in Nat
  /\ MaxMs \in Nat \ {0} /\ MaxIds \in Nat /\ MaxBack \in Nat /\ MaxRestarts \in Nat

VARIABLES
  now,       \* the clock, in milliseconds since the epoch of the ids
  gen,       \* gen[g]: lastMs and seq of generator g
  pc,        \* pc[c]: goroutine c is outside Next, has called it, or spins
  issued,    \* the ids handed out, each with its generator, in order
  back,      \* how often the clock went back
  restarts,  \* how often a generator was replaced
  carried    \* history: a sequence number outgrew its field and was used

vars == <<now, gen, pc, issued, back, restarts, carried>>

-----------------------------------------------------------------------------
Bit(n, i) == (n \div 2^i) % 2 = 1

(* The two numbers or-ed into one field: nothing carries, and a bit that   *)
(* both have is there once.                                                *)
BitOr(m, n) ==
  IF n = 0 THEN m
  ELSE MapThenSumSet(LAMBDA i : 2^i, {i \in 0..(ShardBits - 1) : Bit(m, i) \/ Bit(n, i)})

(* ms<<timeShift | shard<<shardShift | seq, as DecodeID takes it apart: of *)
(* a sequence number too wide for its field, the rest is or-ed into the    *)
(* shard.  (MaxIds keeps it from reaching the milliseconds.)               *)
Encode(ms, shard, seq) ==
  [ms |-> ms, shard |-> BitOr(shard, seq \div (MaxSeq + 1)), seq |-> seq % (MaxSeq + 1)]

(* The order of the bigints. *)
Before(i, j) ==
  \/ i.ms < j.ms
  \/ i.ms = j.ms /\ i.shard < j.shard
  \/ i.ms = j.ms /\ i.shard = j.shard /\ i.seq < j.seq

NewIDGen == [lastMs |-> 0, seq |-> 0]

ID == [ms : 0..MaxMs, shard : 0..MaxShardID, seq : 0..MaxSeq]

TypeOK ==
  /\ now \in 1..MaxMs
  /\ gen \in [Gens -> [lastMs : 0..MaxMs, seq : Nat]]
  /\ pc \in [Callers -> {"outside", "called", "spins"}]
  /\ issued \in Seq([gen : Gens, id : ID])
  /\ Len(issued) <= MaxIds
  /\ back \in 0..MaxBack
  /\ restarts \in 0..MaxRestarts
  /\ carried \in BOOLEAN

Init ==
  /\ now = 1
  /\ gen = [g \in Gens |-> NewIDGen]
  /\ pc = [c \in Callers |-> "outside"]
  /\ issued = << >>
  /\ back = 0
  /\ restarts = 0
  /\ carried = FALSE

-----------------------------------------------------------------------------
(* The mutex of g is taken: whoever spins has it. *)
Locked(g) == \E c \in Callers : GenOf[c] = g /\ pc[c] = "spins"

Call(c) ==
  /\ pc[c] = "outside"
  /\ Len(issued) + Cardinality({d \in Callers : pc[d] # "outside"}) < MaxIds
  /\ pc' = [pc EXCEPT ![c] = "called"]
  /\ UNCHANGED <<now, gen, issued, back, restarts, carried>>

(* The end of Next: remember ms and seq, return the id, unlock. *)
Return(c, ms, seq) ==
  LET g == GenOf[c] IN
  /\ gen' = [gen EXCEPT ![g] = [lastMs |-> ms, seq |-> seq]]
  /\ issued' = Append(issued, [gen |-> g, id |-> Encode(ms, ShardOf[g], seq)])
  /\ pc' = [pc EXCEPT ![c] = "outside"]
  /\ UNCHANGED <<now, back, restarts>>

(* Mistake: the ceiling is not the width of the field. *)
RoomForOneMore(seq) == seq <= MaxSeq + 1

(* The sequence number fits its field. *)
Fits(seq) == seq <= MaxSeq

(* ms == lastMs, and a sequence number is left. *)
SameMs(c) ==
  LET g == gen[GenOf[c]] IN
  /\ pc[c] = "called" /\ ~Locked(GenOf[c])
  /\ now = g.lastMs
  /\ Fits(g.seq + 1)
  /\ Return(c, now, g.seq + 1)
  /\ carried' = carried

(* ms == lastMs and the millisecond is used up: seq is past the ceiling    *)
(* while Next spins.                                                       *)
UsedUp(c) ==
  LET g == GenOf[c] IN
  /\ pc[c] = "called" /\ ~Locked(g)
  /\ now = gen[g].lastMs
  /\ ~Fits(gen[g].seq + 1)
  /\ gen' = [gen EXCEPT ![g].seq = @ + 1]
  /\ pc' = [pc EXCEPT ![c] = "spins"]
  /\ UNCHANGED <<now, issued, back, restarts, carried>>

(* Mistake: the loop waits and does not look at the clock again. *)
NeverSeen(g) == FALSE

(* Mistake: the clock need only not have gone back. *)
NotBehind(g) == now >= gen[g].lastMs

(* for ms <= lastMs is over. *)
ClockMovedOn(g) == now > gen[g].lastMs

(* Mistake: it goes on in a millisecond that has not come yet. *)
BorrowedMs == now + 1

(* The millisecond that ends the spinning. *)
SpunMs == now

Spun(c) ==
  /\ pc[c] = "spins"
  /\ ClockMovedOn(GenOf[c])
  /\ Return(c, SpunMs, 0)
  /\ carried' = carried

(* ms > lastMs *)
NewMs(c) ==
  /\ pc[c] = "called" /\ ~Locked(GenOf[c])
  /\ now > gen[GenOf[c]].lastMs
  /\ Return(c, now, 0)
  /\ carried' = carried

(* Mistake: the clock is followed wherever it goes. *)
FollowClock(g) == now

(* lastMs is not given up for an earlier time. *)
PinnedMs(g) == gen[g].lastMs

(* ms < lastMs: the sequence number grows, and nothing checks it. *)
Behind(c) ==
  LET g == GenOf[c] IN
  /\ pc[c] = "called" /\ ~Locked(g)
  /\ now < gen[g].lastMs
  /\ Return(c, PinnedMs(g), gen[g].seq + 1)
  /\ carried' = (carried \/ gen[g].seq + 1 > MaxSeq)

-----------------------------------------------------------------------------
(* Time goes on.  That a generator does not use a millisecond makes no     *)
(* difference to anything, so only milliseconds in use pass.               *)
Tick ==
  /\ now < MaxMs
  /\ \E g \in Gens : gen[g].lastMs >= now
  /\ now' = now + 1
  /\ UNCHANGED <<gen, pc, issued, back, restarts, carried>>

(* An NTP step or a migration of the machine. *)
StepBack(ms) ==
  /\ back < MaxBack
  /\ ms \in 1..(now - 1)
  /\ now' = ms
  /\ back' = back + 1
  /\ UNCHANGED <<gen, pc, issued, restarts, carried>>

(* Its process is gone, and its calls with it; another one takes over, but *)
(* not in the millisecond of the last id: starting takes longer.           *)
Restart(g) ==
  /\ restarts < MaxRestarts
  /\ gen[g].lastMs \notin {0, now}
  /\ gen' = [gen EXCEPT ![g] = NewIDGen]
  /\ pc' = [c \in Callers |-> IF GenOf[c] = g THEN "outside" ELSE pc[c]]
  /\ restarts' = restarts + 1
  /\ UNCHANGED <<now, issued, back, carried>>

Step(c) == SameMs(c) \/ UsedUp(c) \/ Spun(c) \/ NewMs(c) \/ Behind(c)

Next ==
  \/ \E c \in Callers : Call(c) \/ Step(c)
  \/ Tick
  \/ \E ms \in 1..MaxMs : StepBack(ms)
  \/ \E g \in Gens : Restart(g)

Spec == Init /\ [][Next]_vars

(* Time passes, and sync.Mutex lets every waiting goroutine in.            *)
FairSpec == Spec /\ WF_vars(Tick) /\ \A c \in Callers : SF_vars(Step(c))

-----------------------------------------------------------------------------
Indices == 1..Len(issued)

(* What the order of the ids depends on: the clock is not behind for more  *)
(* calls than a millisecond has sequence numbers, and where it stepped     *)
(* back, lastMs was not forgotten in a restart.                            *)
Orderly == ~carried /\ (back = 0 \/ restarts = 0)

(* No id is handed out twice, by one generator or by two: an id is the     *)
(* primary key of orders on every shard (schema.sql:9), and shards must    *)
(* not hand out the same ones (id.go:12-14).                               *)
Distinct == \A i, j \in Indices : i # j => issued[i].id # issued[j].id
Unique == Orderly => Distinct

(* The ids of one generator grow, for the locality of the B-tree           *)
(* (id.go:14-16), also when two goroutines call it, when one of them had   *)
(* to spin and when the clock steps back; a generator that takes over goes *)
(* on where the last ended.                                                *)
Grow == \A i, j \in Indices :
  i < j /\ issued[i].gen = issued[j].gen => Before(issued[i].id, issued[j].id)
Increasing == Orderly => Grow

(* An id tells the shard it was created on (id.go:18-22).                  *)
Named == \A i \in Indices : issued[i].id.shard = ShardOf[issued[i].gen]
OwnShard == ~carried => Named

(* "Going backwards would mint duplicate ids; stalling merely makes ids    *)
(* briefly non-monotonic against wall time" (labs/04 README:364-365): the  *)
(* same without a word on sequence numbers, and with no restart.           *)
NeverTwice == restarts = 0 => Distinct

(* Every call of Next returns: a goroutine that spins with the mutex gets  *)
(* its next millisecond, and those behind it get their turn.               *)
EveryCallReturns == \A c \in Callers : pc[c] = "called" ~> pc[c] = "outside"
=============================================================================
