----------------------------- MODULE IDGenProofs -----------------------------
(***************************************************************************)
(* Proofs about IDGen, for any number of generators, goroutines, restarts  *)
(* and steps back of the clock: as long as no sequence number outgrows its *)
(* field, an id carries the shard of its generator; and as long as the     *)
(* clock is not stepped back and a generator restarted as well, the ids of *)
(* a generator grow and no two generators hand out the same one.           *)
(***************************************************************************)
EXTENDS IDGen, FiniteSetTheorems, TLAPS

(* An id and its generator, when the sequence number fits. *)
Entry == [gen : Gens, id : [ms : Nat, shard : 0..MaxShardID, seq : 0..MaxSeq]]

(* The shape of the state.  The bounds of TypeOK play no part. *)
Shaped ==
  /\ now \in Nat
  /\ gen \in [Gens -> [lastMs : Nat, seq : Nat]]
  /\ pc \in [Callers -> {"outside", "called", "spins"}]
  /\ back \in Nat /\ restarts \in Nat /\ carried \in BOOLEAN

(* Before the clock steps back, no generator is ahead of it. *)
Clocked == back = 0 => \A g \in Gens : gen[g].lastMs <= now

(* seq is within its field, except while somebody spins because it is not. *)
Guarded == ~carried => \A g \in Gens : gen[g].seq > MaxSeq => Locked(g)

Entered == ~carried => issued \in Seq(Entry)

(* The id is not beyond the last one of its generator. *)
AtMostLast(e) ==
  \/ e.id.ms < gen[e.gen].lastMs
  \/ e.id.ms = gen[e.gen].lastMs /\ e.id.seq <= gen[e.gen].seq

(* Or its generator is gone, and it is of an earlier millisecond. *)
Past(e) == AtMostLast(e) \/ (restarts > 0 /\ e.id.ms < now)

History == Orderly => \A i \in Indices : Past(issued[i])

IInv == Shaped /\ Clocked /\ Guarded /\ Entered /\ History /\ OwnShard /\ Increasing

-----------------------------------------------------------------------------
(* A sequence number that fits leaves the shard alone. *)
LEMMA EncodeFits ==
  ASSUME NEW ms, NEW shard, NEW seq \in 0..MaxSeq, MaxSeq \in Nat
  PROVE  Encode(ms, shard, seq) = [ms |-> ms, shard |-> shard, seq |-> seq]
<1>1. seq \div (MaxSeq + 1) = 0 /\ seq % (MaxSeq + 1) = seq
  OBVIOUS
<1>2. BitOr(shard, seq \div (MaxSeq + 1)) = shard
  BY <1>1 DEF BitOr
<1> QED BY <1>1, <1>2 DEF Encode

(* What an entry is made of. *)
LEMMA EntryParts ==
  ASSUME NEW f \in Entry
  PROVE  f.gen \in Gens /\ f.id.ms \in Nat /\ f.id.seq \in Nat /\ f.id.shard \in Int
<1> DEFINE I == 0..MaxShardID
           J == 0..MaxSeq
<1>1. (\A n \in I : n \in Int) /\ (\A n \in J : n \in Nat)
  OBVIOUS
<1>2. f \in [gen : Gens, id : [ms : Nat, shard : I, seq : J]]
  BY DEF Entry
<1> HIDE DEF I, J
<1> QED BY <1>1, <1>2

LEMMA EntryTyped ==
  ASSUME issued \in Seq(Entry), NEW i \in Indices
  PROVE  i \in Int /\ issued[i] \in Entry
BY DEF Indices

LEMMA Initially == Init => IInv
<1> SUFFICES ASSUME Init PROVE IInv
  OBVIOUS
<1> USE IDGenAssumption
<1>1. Shaped
  BY DEF Init, Shaped, NewIDGen
<1>2. Clocked /\ Guarded /\ Entered
  BY DEF Init, Clocked, Guarded, Entered, NewIDGen
<1>3. Indices = {}
  BY DEF Init, Indices
<1>4. History /\ OwnShard /\ Increasing
  BY <1>3 DEF History, OwnShard, Named, Increasing, Grow
<1> QED BY <1>1, <1>2, <1>4 DEF IInv

(* One more id, later than all of its generator. *)
LEMMA IssueStep ==
  ASSUME IInv, ~carried, NEW g \in Gens, NEW ms \in Nat, NEW seq \in 0..MaxSeq,
         issued' = Append(issued, [gen |-> g, id |-> Encode(ms, ShardOf[g], seq)]),
         gen[g].lastMs < ms \/ (gen[g].lastMs = ms /\ gen[g].seq < seq),
         restarts > 0 /\ Orderly => now <= ms,
         UNCHANGED <<now, back, restarts, carried>>,
         gen' = [gen EXCEPT ![g] = [lastMs |-> ms, seq |-> seq]]
  PROVE  Entered' /\ History' /\ OwnShard' /\ Increasing'
<1> USE IDGenAssumption
<1> DEFINE e == [gen |-> g, id |-> [ms |-> ms, shard |-> ShardOf[g], seq |-> seq]]
           n == Len(issued)
<1>s. Shaped /\ Entered /\ History /\ OwnShard /\ Increasing
  BY DEF IInv
<1>0. issued \in Seq(Entry) /\ now \in Nat /\ restarts \in Nat /\ (Orderly' <=> Orderly)
  BY <1>s DEF Shaped, Entered, Orderly
<1>e. e \in Entry /\ issued' = Append(issued, e)
  BY EncodeFits DEF Entry
<1>g. /\ gen[g].lastMs \in Nat /\ gen[g].seq \in Nat
      /\ gen'[g].lastMs = ms /\ gen'[g].seq = seq
      /\ \A h \in Gens \ {g} : gen'[h] = gen[h]
  BY <1>s DEF Shaped
<1>f. e.gen = g /\ e.id.ms = ms /\ e.id.shard = ShardOf[g] /\ e.id.seq = seq
  OBVIOUS
<1> HIDE DEF e
<1>1. Entered'
  BY <1>0, <1>e DEF Entered
<1>2. /\ n \in Nat /\ Indices = 1..n /\ Indices' = 1..(n + 1)
      /\ \A i \in 1..n : issued'[i] = issued[i] /\ issued[i] \in Entry
      /\ issued'[n + 1] = e
  BY <1>0, <1>e DEF Indices
<1> HIDE DEF n
<1>3. \A i \in Indices' : i \in Indices \/ i = n + 1
  BY <1>2
(* An id of g so far is before the new one. *)
<1>4. ASSUME Orderly, NEW f \in Entry, f.gen = g, Past(f)
      PROVE  f.id.ms < ms \/ (f.id.ms = ms /\ f.id.seq < seq)
  <2>1. f.id.ms \in Nat /\ f.id.seq \in Nat
    BY EntryParts
  <2>2. CASE AtMostLast(f)
    <3>1. \/ f.id.ms < gen[g].lastMs
          \/ f.id.ms = gen[g].lastMs /\ f.id.seq <= gen[g].seq
      BY <1>4, <2>2 DEF AtMostLast
    <3> QED BY <1>g, <2>1, <3>1
  <2>3. CASE restarts > 0 /\ f.id.ms < now
    BY <1>4, <1>0, <2>1, <2>3
  <2> QED BY <1>4, <2>2, <2>3 DEF Past
<1>5. History'
  <2> SUFFICES ASSUME Orderly, NEW i \in Indices' PROVE Past(issued[i])'
    BY <1>0 DEF History
  <2>p. ASSUME NEW f \in Entry, issued'[i] = f,
               \/ f.id.ms < gen'[f.gen].lastMs
               \/ f.id.ms = gen'[f.gen].lastMs /\ f.id.seq <= gen'[f.gen].seq
               \/ restarts' > 0 /\ f.id.ms < now'
        PROVE  Past(issued[i])'
    BY <2>p DEF Past, AtMostLast
  <2>1. CASE i = n + 1
    <3>1. e \in Entry /\ issued'[i] = e
      BY <1>2, <1>e, <2>1
    <3>2. e.id.ms = gen'[e.gen].lastMs /\ e.id.seq <= gen'[e.gen].seq
      BY <1>g, <1>f
    <3> QED BY <2>p, <3>1, <3>2
  <2>2. CASE i \in 1..n
    <3> DEFINE f == issued[i]
    <3>1. f \in Entry /\ issued'[i] = f /\ Past(f)
      BY <1>s, <1>2, <2>2 DEF History
    <3>3. f.gen \in Gens /\ f.id.ms \in Nat /\ f.id.seq \in Nat
      BY <3>1, EntryParts
    <3> HIDE DEF f
    <3>4. CASE f.gen # g
      <4>1. gen'[f.gen] = gen[f.gen]
        BY <1>g, <3>3, <3>4
      <4>2. \/ f.id.ms < gen'[f.gen].lastMs
            \/ f.id.ms = gen'[f.gen].lastMs /\ f.id.seq <= gen'[f.gen].seq
            \/ restarts' > 0 /\ f.id.ms < now'
        BY <3>1, <4>1 DEF Past, AtMostLast
      <4> QED BY <2>p, <3>1, <4>2
    <3>5. CASE f.gen = g
      <4>1. f.id.ms < ms \/ (f.id.ms = ms /\ f.id.seq < seq)
        BY <1>4, <3>1, <3>5
      <4>2. f.id.ms < ms \/ (f.id.ms = ms /\ f.id.seq <= seq)
        BY <3>3, <4>1
      <4>3. gen'[f.gen].lastMs = ms /\ gen'[f.gen].seq = seq
        BY <1>g, <3>5
      <4> QED BY <2>p, <3>1, <4>2, <4>3
    <3> QED BY <3>4, <3>5
  <2> QED BY <1>2, <1>3, <2>1, <2>2
<1>n. Named
  BY <1>s DEF OwnShard
<1>6. OwnShard'
  <2> SUFFICES ASSUME NEW i \in Indices' PROVE issued'[i].id.shard = ShardOf[issued'[i].gen]
    BY DEF OwnShard, Named
  <2> QED BY <1>2, <1>3, <1>f, <1>n DEF Named
<1>7. Increasing'
  <2> SUFFICES ASSUME Orderly, NEW i \in Indices', NEW j \in Indices', i < j,
                      issued'[i].gen = issued'[j].gen
               PROVE  Before(issued'[i].id, issued'[j].id)
    BY <1>0 DEF Increasing, Grow, Before
  <2>1. i \in 1..n
    BY <1>2
  <2>2. CASE j \in 1..n
    BY <1>s, <1>2, <2>1, <2>2 DEF Increasing, Grow
  <2>3. CASE j = n + 1
    <3>1. Past(issued[i]) /\ issued[i].id.shard = ShardOf[issued[i].gen] /\ issued[i] \in Entry
      BY <1>s, <1>n, <1>2, <2>1 DEF History, Named
    <3>2. issued[i].gen = g
      BY <1>2, <1>f, <2>1, <2>3
    <3>3. issued[i].id.ms < ms \/ (issued[i].id.ms = ms /\ issued[i].id.seq < seq)
      BY <1>4, <3>1, <3>2
    <3>4. issued[i].id.shard = ShardOf[g]
      BY <3>1, <3>2
    <3> QED BY <1>2, <1>f, <2>1, <2>3, <3>3, <3>4 DEF Before
  <2> QED BY <1>2, <1>3, <2>2, <2>3
<1> QED BY <1>1, <1>5, <1>6, <1>7

(* Nothing is issued, and each generator stays, uses up a number, or is    *)
(* replaced after its last millisecond. *)
LEMMA QuietStep ==
  ASSUME IInv, Shaped', Clocked', Guarded', issued' = issued, carried' = carried,
         Orderly' => /\ Orderly
                     /\ restarts' >= restarts
                     /\ restarts > 0 => now' >= now,
         \A g \in Gens :
           \/ gen'[g].lastMs = gen[g].lastMs /\ gen'[g].seq >= gen[g].seq
           \/ Orderly' => restarts' > 0 /\ gen[g].lastMs < now'
  PROVE  IInv'
<1>s. Shaped /\ Entered /\ History /\ OwnShard /\ Increasing
  BY DEF IInv
<1>1. Entered' /\ OwnShard' /\ Increasing'
  BY <1>s DEF Entered, OwnShard, Named, Increasing, Grow, Indices, Before
<1>2. History'
  <2> SUFFICES ASSUME Orderly', NEW i \in Indices PROVE Past(issued[i])'
    BY DEF History, Indices
  <2> DEFINE f == issued[i]
  <2>0. /\ Orderly /\ restarts' >= restarts /\ (restarts > 0 => now' >= now)
        /\ now \in Nat /\ now' \in Nat /\ restarts \in Nat /\ restarts' \in Nat
    BY <1>s DEF Shaped
  <2>1. issued \in Seq(Entry) /\ issued'[i] = f
    BY <1>s, <2>0 DEF Entered, Orderly
  <2>2. f \in Entry /\ Past(f)
    BY <1>s, <2>0, <2>1, EntryTyped DEF History
  <2>3. f.gen \in Gens /\ f.id.ms \in Nat /\ f.id.seq \in Nat
    BY <2>2, EntryParts
  <2> HIDE DEF f
  <2>4. /\ gen[f.gen].lastMs \in Nat /\ gen[f.gen].seq \in Nat
        /\ gen'[f.gen].lastMs \in Nat /\ gen'[f.gen].seq \in Nat
    BY <1>s, <2>3 DEF Shaped
  <2>5. \/ f.id.ms < gen'[f.gen].lastMs
        \/ f.id.ms = gen'[f.gen].lastMs /\ f.id.seq <= gen'[f.gen].seq
        \/ restarts' > 0 /\ f.id.ms < now'
    <3>1. CASE AtMostLast(f)
      <4>1. \/ f.id.ms < gen[f.gen].lastMs
            \/ f.id.ms = gen[f.gen].lastMs /\ f.id.seq <= gen[f.gen].seq
        BY <3>1 DEF AtMostLast
      <4>2. \/ gen'[f.gen].lastMs = gen[f.gen].lastMs /\ gen'[f.gen].seq >= gen[f.gen].seq
            \/ restarts' > 0 /\ gen[f.gen].lastMs < now'
        BY <2>3
      <4> QED BY <2>0, <2>3, <2>4, <4>1, <4>2
    <3>2. CASE restarts > 0 /\ f.id.ms < now
      BY <2>0, <2>3, <3>2
    <3> QED BY <2>2, <3>1, <3>2 DEF Past
  <2> QED BY <2>1, <2>5 DEF Past, AtMostLast
<1> QED BY <1>1, <1>2 DEF IInv

LEMMA Inductive == IInv /\ [Next]_vars => IInv'
<1> SUFFICES ASSUME IInv, [Next]_vars PROVE IInv'
  OBVIOUS
<1> USE IDGenAssumption
<1>i. Shaped /\ Clocked /\ Guarded
  BY DEF IInv
<1>t. /\ now \in Nat /\ back \in Nat /\ restarts \in Nat /\ carried \in BOOLEAN
      /\ gen \in [Gens -> [lastMs : Nat, seq : Nat]]
      /\ pc \in [Callers -> {"outside", "called", "spins"}]
  BY <1>i DEF Shaped
<1>g. \A g \in Gens : gen[g].lastMs \in Nat /\ gen[g].seq \in Nat
  BY <1>t
(* A goroutine gets its id. *)
<1>1. ASSUME NEW c \in Callers, NEW ms \in Nat, NEW seq \in Nat, Return(c, ms, seq),
             carried' = (carried \/ seq > MaxSeq),
             back = 0 => ms <= now,
             restarts > 0 /\ Orderly => now <= ms,
             \/ gen[GenOf[c]].lastMs < ms
             \/ gen[GenOf[c]].lastMs = ms /\ gen[GenOf[c]].seq < seq
      PROVE  IInv'
  <2> DEFINE g == GenOf[c]
  <2>0. g \in Gens
    OBVIOUS
  <2>1. /\ gen' = [gen EXCEPT ![g] = [lastMs |-> ms, seq |-> seq]]
        /\ issued' = Append(issued, [gen |-> g, id |-> Encode(ms, ShardOf[g], seq)])
        /\ pc' = [pc EXCEPT ![c] = "outside"]
        /\ UNCHANGED <<now, back, restarts>>
    BY <1>1 DEF Return
  <2>2. /\ gen' \in [Gens -> [lastMs : Nat, seq : Nat]]
        /\ pc' \in [Callers -> {"outside", "called", "spins"}]
        /\ gen'[g].lastMs = ms /\ gen'[g].seq = seq
        /\ \A h \in Gens \ {g} : gen'[h] = gen[h]
    BY <1>t, <2>0, <2>1
  <2>3. carried' \in BOOLEAN
    BY <1>1
  <2>4. Shaped'
    BY <1>t, <2>1, <2>2, <2>3 DEF Shaped
  <2>5. Clocked'
    BY <1>1, <1>i, <2>1, <2>2 DEF Clocked
  <2>6. CASE carried'
    BY <2>4, <2>5, <2>6 DEF IInv, Guarded, Entered, History, OwnShard, Increasing, Orderly
  <2>7. CASE ~carried'
    <3>a. ~carried /\ ~(seq > MaxSeq)
      BY <1>1, <2>7, Zenon
    <3>b. carried' = carried
      BY <1>t, <2>3, <2>7, <3>a, Zenon
    <3>c. seq \in 0..MaxSeq
      BY <3>a
    <3>1. ~carried /\ carried' = carried /\ seq \in 0..MaxSeq
      BY <3>a, <3>b, <3>c
    <3>2. Entered' /\ History' /\ OwnShard' /\ Increasing'
      BY <1>1, <2>0, <2>1, <3>1, IssueStep
    <3>3. Guarded'
      <4> SUFFICES ASSUME NEW h \in Gens PROVE gen'[h].seq > MaxSeq => Locked(h)'
        BY DEF Guarded
      <4>1. CASE h = g
        BY <2>2, <3>1, <4>1
      <4>2. CASE h # g
        <5>1. gen'[h] = gen[h]
          BY <2>2, <4>2
        <5>2. Locked(h) => Locked(h)'
          BY <1>t, <2>1, <4>2 DEF Locked
        <5> QED BY <1>i, <3>1, <5>1, <5>2 DEF Guarded
      <4> QED BY <4>1, <4>2
    <3> QED BY <2>4, <2>5, <3>2, <3>3 DEF IInv
  <2> QED BY <2>6, <2>7
<1>3. ASSUME NEW c \in Callers, Step(c) PROVE IInv'
  <2> DEFINE g == GenOf[c]
  <2>0. g \in Gens /\ gen[g].lastMs \in Nat /\ gen[g].seq \in Nat
    BY <1>g
  <2>1. CASE SameMs(c)
    <3>1. Return(c, now, gen[g].seq + 1) /\ now = gen[g].lastMs /\ carried' = carried
          /\ gen[g].seq + 1 <= MaxSeq
      BY <2>1 DEF SameMs, Fits
    <3>2. gen[g].seq + 1 \in Nat /\ ~(gen[g].seq + 1 > MaxSeq) /\ gen[g].seq < gen[g].seq + 1
      BY <2>0, <3>1
    <3>3. carried' = (carried \/ gen[g].seq + 1 > MaxSeq) /\ now <= now
      BY <1>t, <3>1, <3>2
    <3> QED BY <1>1, <1>t, <3>1, <3>2, <3>3
  <2>2. CASE UsedUp(c)
    <3>1. /\ gen' = [gen EXCEPT ![g].seq = @ + 1]
          /\ pc' = [pc EXCEPT ![c] = "spins"]
          /\ UNCHANGED <<now, issued, back, restarts, carried>>
      BY <2>2 DEF UsedUp
    <3>2. Shaped'
      BY <1>t, <3>1 DEF Shaped
    <3>3. \A h \in Gens : Locked(h) => Locked(h)'
      BY <1>t, <3>1 DEF Locked
    <3>4. Locked(g)'
      BY <1>t, <3>1 DEF Locked
    <3>5. \A h \in Gens \ {g} : gen'[h] = gen[h]
      BY <1>t, <3>1
    <3>6. gen'[g].lastMs = gen[g].lastMs /\ gen'[g].seq = gen[g].seq + 1
      BY <1>t, <2>0, <3>1
    <3>7. \A h \in Gens : gen'[h].lastMs = gen[h].lastMs /\ gen'[h].seq >= gen[h].seq
      BY <1>g, <2>0, <3>5, <3>6
    <3>8. Guarded'
      BY <1>i, <3>1, <3>3, <3>4, <3>5 DEF Guarded
    <3>9. Clocked'
      BY <1>i, <3>1, <3>7 DEF Clocked
    <3>10. (Orderly' => Orderly) /\ restarts' >= restarts /\ now' >= now
      BY <1>t, <3>1 DEF Orderly
    <3> QED BY <3>1, <3>2, <3>7, <3>8, <3>9, <3>10, QuietStep
  <2>3. ASSUME Return(c, now, 0), now > gen[g].lastMs, carried' = carried PROVE IInv'
    <3>1. carried' = (carried \/ 0 > MaxSeq) /\ now <= now
      BY <1>t, <2>3
    <3>2. gen[g].lastMs < now
      BY <1>t, <2>0, <2>3
    <3> QED BY <1>1, <1>t, <2>3, <3>1, <3>2
  <2>4. CASE Spun(c) \/ NewMs(c)
    BY <2>3, <2>4 DEF Spun, ClockMovedOn, SpunMs, NewMs
  <2>5. CASE Behind(c)
    <3>1. /\ Return(c, gen[g].lastMs, gen[g].seq + 1) /\ now < gen[g].lastMs
          /\ carried' = (carried \/ gen[g].seq + 1 > MaxSeq)
      BY <2>5 DEF Behind, PinnedMs
    <3>2. back # 0
      BY <1>i, <1>t, <2>0, <3>1 DEF Clocked
    <3>3. ~(restarts > 0 /\ Orderly)
      BY <1>t, <3>2 DEF Orderly
    <3>4. gen[g].seq + 1 \in Nat /\ gen[g].seq < gen[g].seq + 1
      BY <2>0
    <3> QED BY <1>1, <2>0, <3>1, <3>2, <3>3, <3>4
  <2> QED BY <1>3, <2>1, <2>2, <2>4, <2>5 DEF Step
(* What remains leaves gen alone, or replaces a generator. *)
<1>4. ASSUME now' \in Nat, UNCHANGED <<issued, gen, restarts, carried>>, back' \in Nat,
             \/ back' = back /\ now' >= now
             \/ back' > 0,
             back' = 0 => back = 0,
             pc' \in [Callers -> {"outside", "called", "spins"}],
             \A h \in Gens : Locked(h) => Locked(h)'
      PROVE  IInv'
  <2>1. Shaped'
    BY <1>t, <1>4 DEF Shaped
  <2>2. Clocked'
    BY <1>i, <1>t, <1>g, <1>4 DEF Clocked
  <2>3. Guarded'
    BY <1>i, <1>4 DEF Guarded
  <2>4. Orderly' => /\ Orderly
                    /\ restarts' >= restarts
                    /\ restarts > 0 => now' >= now
    BY <1>t, <1>4 DEF Orderly
  <2>5. \A h \in Gens : gen'[h].lastMs = gen[h].lastMs /\ gen'[h].seq >= gen[h].seq
    BY <1>g, <1>4
  <2> QED BY <1>4, <2>1, <2>2, <2>3, <2>4, <2>5, QuietStep
<1>5. ASSUME NEW c \in Callers, Call(c) PROVE IInv'
  <2>1. /\ pc[c] = "outside" /\ pc' = [pc EXCEPT ![c] = "called"]
        /\ UNCHANGED <<now, gen, issued, back, restarts, carried>>
    BY <1>5 DEF Call
  <2>2. \A h \in Gens : Locked(h) => Locked(h)'
    BY <1>t, <2>1 DEF Locked
  <2>3. now' \in Nat /\ now' >= now /\ pc' \in [Callers -> {"outside", "called", "spins"}]
    BY <1>t, <2>1
  <2> QED BY <1>4, <1>t, <2>1, <2>2, <2>3
<1>6. CASE Tick
  <2>1. now' = now + 1 /\ UNCHANGED <<gen, pc, issued, back, restarts, carried>>
    BY <1>6 DEF Tick
  <2>2. \A h \in Gens : Locked(h) => Locked(h)'
    BY <2>1 DEF Locked
  <2>3. now' \in Nat /\ now' >= now /\ pc' \in [Callers -> {"outside", "called", "spins"}]
    BY <1>t, <2>1
  <2> QED BY <1>4, <1>t, <2>1, <2>2, <2>3
<1>7. ASSUME NEW ms \in 1..MaxMs, StepBack(ms) PROVE IInv'
  <2>1. now' = ms /\ back' = back + 1 /\ UNCHANGED <<gen, pc, issued, restarts, carried>>
    BY <1>7 DEF StepBack
  <2>2. \A h \in Gens : Locked(h) => Locked(h)'
    BY <2>1 DEF Locked
  <2>3. now' \in Nat /\ back' \in Nat /\ back' > 0
    BY <1>t, <2>1
  <2> QED BY <1>4, <1>t, <2>1, <2>2, <2>3
<1>8. ASSUME NEW g \in Gens, Restart(g) PROVE IInv'
  <2>1. /\ gen[g].lastMs # now
        /\ gen' = [gen EXCEPT ![g] = NewIDGen]
        /\ pc' = [c \in Callers |-> IF GenOf[c] = g THEN "outside" ELSE pc[c]]
        /\ restarts' = restarts + 1
        /\ UNCHANGED <<now, issued, back, carried>>
    BY <1>8 DEF Restart
  <2>2. /\ gen' \in [Gens -> [lastMs : Nat, seq : Nat]]
        /\ pc' \in [Callers -> {"outside", "called", "spins"}]
    BY <1>t, <2>1 DEF NewIDGen
  <2>3. gen'[g] = NewIDGen /\ \A h \in Gens \ {g} : gen'[h] = gen[h]
    BY <1>t, <2>1
  <2>4. \A h \in Gens \ {g} : Locked(h) => Locked(h)'
    BY <2>1 DEF Locked
  <2>5. Shaped'
    BY <1>t, <2>1, <2>2 DEF Shaped
  <2>6. Clocked' /\ Guarded'
    BY <1>i, <1>t, <2>1, <2>3, <2>4 DEF Clocked, Guarded, NewIDGen
  <2>7. restarts' > 0 /\ restarts' >= restarts /\ now' >= now
    BY <1>t, <2>1
  <2>8. Orderly' => Orderly /\ gen[g].lastMs < now'
    <3> SUFFICES ASSUME Orderly' PROVE Orderly /\ gen[g].lastMs < now'
      OBVIOUS
    <3>1. ~carried' /\ back' = 0
      BY <2>7 DEF Orderly
    <3>2. ~carried /\ back = 0
      BY <2>1, <3>1, Zenon
    <3>3. gen[g].lastMs <= now
      BY <1>i, <3>2 DEF Clocked
    <3>4. gen[g].lastMs # now /\ now' = now /\ gen[g].lastMs \in Nat /\ now \in Nat
      BY <1>t, <1>g, <2>1
    <3>5. gen[g].lastMs < now'
      BY <3>3, <3>4
    <3> QED BY <3>2, <3>5 DEF Orderly
  <2>9. \A h \in Gens :
          \/ gen'[h].lastMs = gen[h].lastMs /\ gen'[h].seq >= gen[h].seq
          \/ Orderly' => restarts' > 0 /\ gen[h].lastMs < now'
    BY <1>g, <2>3, <2>7, <2>8
  <2> QED BY <2>1, <2>5, <2>6, <2>7, <2>8, <2>9, QuietStep
<1>9. CASE UNCHANGED vars
  <2>1. UNCHANGED <<now, gen, pc, issued, back, restarts, carried>>
    BY <1>9 DEF vars
  <2>2. \A h \in Gens : Locked(h) => Locked(h)'
    BY <2>1 DEF Locked
  <2>3. now' \in Nat /\ now' >= now /\ pc' \in [Callers -> {"outside", "called", "spins"}]
    BY <1>t, <2>1
  <2> QED BY <1>4, <1>t, <2>1, <2>2, <2>3
<1> QED BY <1>3, <1>5, <1>6, <1>7, <1>8, <1>9 DEF Next

LEMMA Always == Spec => []IInv
<1>1. Init => IInv
  BY Initially
<1>2. IInv /\ [Next]_vars => IInv'
  BY Inductive
<1> QED BY <1>1, <1>2, PTL DEF Spec

(* The ids of a generator grow: seq is checked where lastMs stays, starts  *)
(* again only where it grows, and lastMs is kept when the clock is behind  *)
(* it (id.go:51-74); the generator after a restart starts later.           *)
THEOREM IdsIncrease == Spec => []Increasing
<1>1. IInv => Increasing
  BY DEF IInv
<1> QED BY <1>1, Always, PTL

(* The shard bits of an id are the shard of its generator (id.go:70, 76),  *)
(* whatever the clock does, until a sequence number carries into them.     *)
THEOREM IdsNameTheirShard == Spec => []OwnShard
<1>1. IInv => OwnShard
  BY DEF IInv
<1> QED BY <1>1, Always, PTL

(* With one generator for each shard, no id is handed out twice in the     *)
(* whole cluster (id.go:12-14).                                            *)
THEOREM NoIdTwice ==
  ASSUME \A g, h \in Gens : ShardOf[g] = ShardOf[h] => g = h
  PROVE  Spec => []Unique
<1>1. IInv => Unique
  <2> SUFFICES ASSUME IInv, Orderly,
                      NEW i \in Indices, NEW j \in Indices, i # j, issued[i].id = issued[j].id
               PROVE  FALSE
    BY DEF Unique, Distinct
  <2>1. issued \in Seq(Entry) /\ Named /\ Grow
    BY DEF IInv, Entered, OwnShard, Increasing, Orderly
  <2>2. i \in Int /\ j \in Int /\ issued[i] \in Entry /\ issued[j] \in Entry
    BY <2>1, EntryTyped
  <2>3. /\ issued[i].gen \in Gens /\ issued[j].gen \in Gens
        /\ issued[i].id.ms \in Nat /\ issued[i].id.seq \in Nat /\ issued[i].id.shard \in Int
    BY <2>2, EntryParts
  <2>4. issued[i].gen = issued[j].gen
    BY <2>1, <2>3 DEF Named
  <2>5. Before(issued[i].id, issued[j].id) \/ Before(issued[j].id, issued[i].id)
    BY <2>1, <2>2, <2>4 DEF Grow
  <2>6. issued[i].id.shard < issued[i].id.shard
    BY <2>3, <2>5 DEF Before
  <2> QED BY <2>3, <2>6
<1> QED BY <1>1, Always, PTL

-----------------------------------------------------------------------------
(* The calls that are under way. *)
Busy == {d \in Callers : pc[d] # "outside"}

(* The ids and the calls under way keep to MaxIds. *)
Fielded == ~carried => TypeOK /\ Len(issued) + Cardinality(Busy) <= MaxIds

LEMMA BusyIsFinite ==
  /\ IsFiniteSet(Busy) /\ Cardinality(Busy) \in Nat
  /\ IsFiniteSet(Busy') /\ Cardinality(Busy') \in Nat
<1>1. IsFiniteSet(Callers) /\ Busy \subseteq Callers /\ Busy' \subseteq Callers
  BY IDGenAssumption DEF Busy
<1>2. IsFiniteSet(Busy) /\ IsFiniteSet(Busy')
  BY <1>1, FS_Subset
<1> QED BY <1>2, FS_CardinalityType

LEMMA BusyOut ==
  ASSUME NEW c \in Busy, Busy' = Busy \ {c}
  PROVE  Cardinality(Busy') = Cardinality(Busy) - 1
BY BusyIsFinite, FS_RemoveElement

LEMMA BusySame ==
  ASSUME \A d \in Callers : pc'[d] # "outside" => pc[d] # "outside"
  PROVE  Cardinality(Busy') <= Cardinality(Busy)
<1>1. Busy' \subseteq Busy
  BY DEF Busy
<1> QED BY <1>1, BusyIsFinite, FS_Subset

LEMMA FieldedInit == Init => Fielded
<1> SUFFICES ASSUME Init PROVE TypeOK /\ Len(issued) + Cardinality(Busy) <= MaxIds
  BY DEF Fielded
<1> USE IDGenAssumption
<1>1. Busy = {}
  BY DEF Init, Busy
<1>2. Cardinality(Busy) = 0 /\ Len(issued) = 0
  BY <1>1, FS_EmptySet DEF Init
<1>3. gen \in [Gens -> [lastMs : 0..MaxMs, seq : Nat]]
  BY DEF Init, NewIDGen
<1>4. issued \in Seq([gen : Gens, id : ID])
  BY DEF Init
<1>5. TypeOK
  <2>1. now \in 1..MaxMs /\ back \in 0..MaxBack /\ restarts \in 0..MaxRestarts
    BY DEF Init
  <2>2. pc \in [Callers -> {"outside", "called", "spins"}] /\ carried \in BOOLEAN
    BY DEF Init
  <2>3. Len(issued) <= MaxIds
    BY <1>2
  <2> QED BY <1>3, <1>4, <2>1, <2>2, <2>3 DEF TypeOK
<1> QED BY <1>2, <1>5

LEMMA GenUpdate ==
  ASSUME NEW S, NEW V, NEW f \in [S -> V], NEW s, NEW v \in V
  PROVE  [f EXCEPT ![s] = v] \in [S -> V]
OBVIOUS

LEMMA FieldedStep == Fielded /\ [Next]_vars => Fielded'
<1> SUFFICES ASSUME Fielded, [Next]_vars, ~carried'
             PROVE  TypeOK' /\ Len(issued') + Cardinality(Busy') <= MaxIds
  BY DEF Fielded
<1> USE IDGenAssumption
<1>c. ~carried
  BY DEF Next, Step, Call, SameMs, UsedUp, Spun, NewMs, Behind, Tick, StepBack, Restart, vars
<1>t. /\ now \in 1..MaxMs
      /\ gen \in [Gens -> [lastMs : 0..MaxMs, seq : Nat]]
      /\ pc \in [Callers -> {"outside", "called", "spins"}]
      /\ issued \in Seq([gen : Gens, id : ID])
      /\ back \in 0..MaxBack /\ restarts \in 0..MaxRestarts
      /\ Len(issued) \in Nat
      /\ Len(issued) + Cardinality(Busy) <= MaxIds
  BY <1>c DEF Fielded, TypeOK
<1>d. carried \in BOOLEAN
  BY <1>c DEF Fielded, TypeOK
<1>b. Cardinality(Busy) \in Nat /\ Cardinality(Busy') \in Nat
  BY BusyIsFinite
<1>0. ASSUME now' \in 1..MaxMs,
             gen' \in [Gens -> [lastMs : 0..MaxMs, seq : Nat]],
             pc' \in [Callers -> {"outside", "called", "spins"}],
             UNCHANGED <<issued, carried>>,
             back' \in 0..MaxBack, restarts' \in 0..MaxRestarts,
             Len(issued) + Cardinality(Busy') <= MaxIds
      PROVE  TypeOK' /\ Len(issued') + Cardinality(Busy') <= MaxIds
  <2>1. Len(issued) <= MaxIds
    BY <1>0, <1>b, <1>t
  <2>2. carried' \in BOOLEAN
    BY <1>0, <1>c DEF Fielded, TypeOK
  <2> QED BY <1>0, <1>t, <2>1, <2>2 DEF TypeOK
<1>s. ASSUME \A d \in Callers : pc'[d] # "outside" => pc[d] # "outside"
      PROVE  Len(issued) + Cardinality(Busy') <= MaxIds
  BY <1>b, <1>s, <1>t, BusySame
(* A goroutine gets its id. *)
<1>1. ASSUME NEW c \in Callers, pc[c] # "outside", NEW ms \in 0..MaxMs, NEW seq \in 0..MaxSeq,
             Return(c, ms, seq), carried' \in BOOLEAN
      PROVE  TypeOK' /\ Len(issued') + Cardinality(Busy') <= MaxIds
  <2> DEFINE g == GenOf[c]
             e == [gen |-> g, id |-> Encode(ms, ShardOf[g], seq)]
  <2>1. /\ gen' = [gen EXCEPT ![g] = [lastMs |-> ms, seq |-> seq]]
        /\ issued' = Append(issued, e)
        /\ pc' = [pc EXCEPT ![c] = "outside"]
        /\ UNCHANGED <<now, back, restarts>>
    BY <1>1 DEF Return
  <2>2. g \in Gens /\ ShardOf[g] \in 0..MaxShardID
    OBVIOUS
  <2>3. Encode(ms, ShardOf[g], seq) \in ID
    <3>1. Encode(ms, ShardOf[g], seq) = [ms |-> ms, shard |-> ShardOf[g], seq |-> seq]
      BY EncodeFits
    <3> QED BY <2>2, <3>1 DEF ID
  <2>4. e \in [gen : Gens, id : ID]
    BY <2>2, <2>3
  <2> HIDE DEF e
  <2>5. issued' \in Seq([gen : Gens, id : ID]) /\ Len(issued') = Len(issued) + 1
    BY <1>t, <2>1, <2>4
  <2>6. gen' \in [Gens -> [lastMs : 0..MaxMs, seq : Nat]]
    BY <1>t, <2>1
  <2>7. pc' \in [Callers -> {"outside", "called", "spins"}] /\ c \in Busy /\ Busy' = Busy \ {c}
    BY <1>1, <1>t, <2>1 DEF Busy
  <2>8. Cardinality(Busy') = Cardinality(Busy) - 1
    BY <2>7, BusyOut
  <2>9. Len(issued') + Cardinality(Busy') <= MaxIds /\ Len(issued') <= MaxIds
    BY <1>b, <1>t, <2>5, <2>8
  <2> QED BY <1>1, <1>t, <2>1, <2>5, <2>6, <2>7, <2>9 DEF TypeOK
<1>g. \A g \in Gens : gen[g].lastMs \in 0..MaxMs /\ gen[g].seq \in Nat
  BY <1>t
<1>2. ASSUME NEW c \in Callers, Step(c) PROVE TypeOK' /\ Len(issued') + Cardinality(Busy') <= MaxIds
  <2> DEFINE g == GenOf[c]
  <2>0. g \in Gens /\ gen[g].lastMs \in 0..MaxMs /\ gen[g].seq \in Nat
        /\ 0 \in 0..MaxSeq /\ now \in 0..MaxMs
    BY <1>g, <1>t
  <2>1. CASE SameMs(c)
    <3>1. Return(c, now, gen[g].seq + 1) /\ pc[c] # "outside" /\ gen[g].seq + 1 <= MaxSeq
      BY <2>1 DEF SameMs, Fits
    <3>2. gen[g].seq + 1 \in 0..MaxSeq
      BY <2>0, <3>1
    <3>3. carried' \in BOOLEAN
      BY <1>d, <2>1 DEF SameMs
    <3> QED BY <1>1, <2>0, <3>1, <3>2, <3>3
  <2>2. CASE UsedUp(c)
    <3>1. /\ pc[c] = "called"
          /\ gen' = [gen EXCEPT ![g].seq = @ + 1]
          /\ pc' = [pc EXCEPT ![c] = "spins"]
          /\ UNCHANGED <<now, issued, back, restarts, carried>>
      BY <2>2 DEF UsedUp
    <3>2. gen' \in [Gens -> [lastMs : 0..MaxMs, seq : Nat]]
      <4> DEFINE I == 0..MaxMs
      <4>1. gen \in [Gens -> [lastMs : I, seq : Nat]]
        BY <1>t
      <4>2. gen[g].lastMs \in I /\ gen[g].seq + 1 \in Nat
        BY <2>0
      <4> HIDE DEF I
      <4>3. gen[g] = [lastMs |-> gen[g].lastMs, seq |-> gen[g].seq]
        BY <2>0, <4>1
      <4>4. [gen[g] EXCEPT !.seq = @ + 1] = [lastMs |-> gen[g].lastMs, seq |-> gen[g].seq + 1]
        BY <4>3
      <4>5. [gen[g] EXCEPT !.seq = @ + 1] \in [lastMs : I, seq : Nat]
        BY <4>2, <4>4
      <4>6. gen' = [gen EXCEPT ![g] = [gen[g] EXCEPT !.seq = @ + 1]]
        BY <3>1
      <4> DEFINE v == [gen[g] EXCEPT !.seq = @ + 1]
      <4>7. v \in [lastMs : I, seq : Nat] /\ gen' = [gen EXCEPT ![g] = v]
        BY <4>5, <4>6
      <4> HIDE DEF v
      <4>8. gen' \in [Gens -> [lastMs : I, seq : Nat]]
        BY <4>1, <4>7, GenUpdate
      <4> QED BY <4>8 DEF I
    <3>3. pc' \in [Callers -> {"outside", "called", "spins"}]
          /\ \A d \in Callers : pc'[d] # "outside" => pc[d] # "outside"
      BY <1>t, <3>1
    <3> QED BY <1>0, <1>s, <1>t, <3>1, <3>2, <3>3
  <2>3. CASE Spun(c) \/ NewMs(c)
    <3>1. Return(c, now, 0) /\ pc[c] # "outside"
      BY <2>3 DEF Spun, SpunMs, NewMs
    <3>2. carried' \in BOOLEAN
      BY <1>d, <2>3 DEF Spun, NewMs
    <3> QED BY <1>1, <2>0, <3>1, <3>2
  <2>4. CASE Behind(c)
    <3>1. /\ Return(c, gen[g].lastMs, gen[g].seq + 1) /\ pc[c] # "outside"
          /\ carried' = (carried \/ gen[g].seq + 1 > MaxSeq)
      BY <2>4 DEF Behind, PinnedMs
    <3>2. ~(gen[g].seq + 1 > MaxSeq)
      BY <3>1, Zenon
    <3>3. gen[g].seq + 1 \in 0..MaxSeq
      BY <2>0, <3>2
    <3>4. carried' \in BOOLEAN
      BY <3>1
    <3> QED BY <1>1, <2>0, <3>1, <3>3, <3>4
  <2> QED BY <1>2, <2>1, <2>2, <2>3, <2>4 DEF Step
<1>3. ASSUME NEW c \in Callers, Call(c) PROVE TypeOK' /\ Len(issued') + Cardinality(Busy') <= MaxIds
  <2>1. /\ pc[c] = "outside" /\ pc' = [pc EXCEPT ![c] = "called"]
        /\ Len(issued) + Cardinality(Busy) < MaxIds
        /\ UNCHANGED <<now, gen, issued, back, restarts, carried>>
    BY <1>3 DEF Call, Busy
  <2>2. pc' \in [Callers -> {"outside", "called", "spins"}] /\ c \notin Busy /\ Busy' = Busy \cup {c}
    BY <1>t, <2>1 DEF Busy
  <2>3. Cardinality(Busy') = Cardinality(Busy) + 1
    BY <2>2, BusyIsFinite, FS_AddElement
  <2>4. Len(issued) + Cardinality(Busy') <= MaxIds
    BY <1>b, <1>t, <2>1, <2>3
  <2> QED BY <1>0, <1>t, <2>1, <2>2, <2>4
<1>4. CASE Tick
  <2>1. now' = now + 1 /\ now < MaxMs /\ UNCHANGED <<gen, pc, issued, back, restarts, carried>>
    BY <1>4 DEF Tick
  <2>2. now' \in 1..MaxMs
    BY <1>t, <2>1
  <2> QED BY <1>0, <1>s, <1>t, <2>1, <2>2
<1>5. ASSUME NEW ms \in 1..MaxMs, StepBack(ms)
      PROVE  TypeOK' /\ Len(issued') + Cardinality(Busy') <= MaxIds
  <2>1. now' = ms /\ back' = back + 1 /\ back < MaxBack
        /\ UNCHANGED <<gen, pc, issued, restarts, carried>>
    BY <1>5 DEF StepBack
  <2>2. back' \in 0..MaxBack
    BY <1>t, <2>1
  <2> QED BY <1>0, <1>s, <1>t, <2>1, <2>2
<1>6. ASSUME NEW g \in Gens, Restart(g)
      PROVE  TypeOK' /\ Len(issued') + Cardinality(Busy') <= MaxIds
  <2>1. /\ gen' = [gen EXCEPT ![g] = NewIDGen]
        /\ pc' = [c \in Callers |-> IF GenOf[c] = g THEN "outside" ELSE pc[c]]
        /\ restarts' = restarts + 1 /\ restarts < MaxRestarts
        /\ UNCHANGED <<now, issued, back, carried>>
    BY <1>6 DEF Restart
  <2>2. gen' \in [Gens -> [lastMs : 0..MaxMs, seq : Nat]]
    BY <1>t, <2>1 DEF NewIDGen
  <2>3. pc' \in [Callers -> {"outside", "called", "spins"}]
        /\ \A d \in Callers : pc'[d] # "outside" => pc[d] # "outside"
    BY <1>t, <2>1
  <2>4. restarts' \in 0..MaxRestarts
    BY <1>t, <2>1
  <2> QED BY <1>0, <1>s, <1>t, <2>1, <2>2, <2>3, <2>4
<1>7. CASE UNCHANGED vars
  BY <1>0, <1>7, <1>s, <1>t DEF vars
<1> QED BY <1>2, <1>3, <1>4, <1>5, <1>6, <1>7 DEF Next

(* Each field of an id keeps to its width until a sequence number outgrows *)
(* its own (id.go:51-76).                                                  *)
THEOREM FieldsFit == Spec => [](~carried => TypeOK)
<1>1. Fielded => (~carried => TypeOK)
  BY DEF Fielded
<1> QED BY <1>1, FieldedInit, FieldedStep, PTL DEF Spec
=============================================================================
