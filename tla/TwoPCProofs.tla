----------------------------- MODULE TwoPCProofs -----------------------------
(***************************************************************************)
(* Proofs about TwoPC, for every set of shards, tenants and transfers and  *)
(* whatever goes wrong.                                                    *)
(***************************************************************************)
EXTENDS TwoPC, TLAPS

LegsTyped == leg \in [Transfers -> [Shards -> LegState]]

LoopTyped ==
  /\ pc \in [Transfers -> Running \cup {"done", "failed", "crashed"}]
  /\ legs \in [Transfers -> Seq(Shards)]
  /\ at \in [Transfers -> Nat]

(* at points at a leg while a loop over legs runs. *)
LoopInBounds == \A x \in Transfers :
  /\ at[x] \in 1..(Len(legs[x]) + 1)
  /\ pc[x] \in {"rollback", "phase2"} => at[x] <= Len(legs[x])

(* The loops start at the first leg. *)
LoopFresh == \A x \in Transfers : pc[x] = "phase1" => at[x] = 1

(* `orphans` starts only while its bound allows. *)
ResolverFresh == scanned # {} => resolves < MaxResolves

Rest ==
  /\ balance \in [Tenants -> Int]
  /\ took \in [Transfers -> BOOLEAN]
  /\ errs \in [Transfers -> BOOLEAN]
  /\ expired \in [Transfers -> BOOLEAN]
  /\ faults \in 0..MaxFaults
  /\ scanned \subseteq Shards
  /\ found \subseteq Transfers \X Shards
  /\ resolves \in 0..MaxResolves

Typed == TypeOK /\ LoopFresh /\ ResolverFresh

LEMMA TypedParts == Typed <=> LegsTyped /\ LoopTyped /\ LoopInBounds /\ LoopFresh /\ ResolverFresh /\ Rest
BY DEF Typed, TypeOK, LegsTyped, LoopTyped, LoopInBounds, LoopFresh, Rest

LEMMA TypedInit == Init => Typed
<1> SUFFICES ASSUME Init PROVE Typed
  OBVIOUS
<1> USE TwoPCAssumption DEF Init
<1>1. LegsTyped
  BY DEF LegsTyped, LegState
<1>2. LoopTyped
  BY DEF LoopTyped, Running
<1>3. LoopInBounds /\ LoopFresh /\ ResolverFresh
  BY DEF LoopInBounds, LoopFresh, ResolverFresh
<1>4. Rest
  BY DEF Rest
<1> QED BY <1>1, <1>2, <1>3, <1>4, TypedParts

(* The legs stay legs. *)
LEMMA LegsStep == Typed /\ [Next]_vars => LegsTyped'
<1> SUFFICES ASSUME Typed, [Next]_vars PROVE LegsTyped'
  OBVIOUS
<1>t. LegsTyped /\ LoopTyped /\ LoopInBounds
  BY TypedParts
<1>1. ASSUME NEW x \in Transfers, NEW s, NEW v \in LegState, leg' = [leg EXCEPT ![x][s] = v]
      PROVE  LegsTyped'
  BY <1>1, <1>t DEF LegsTyped
<1>2. ASSUME NEW x \in Transfers, DropActive(x) PROVE LegsTyped'
  BY <1>2, <1>t DEF LegsTyped, DropActive, LegState
<1>3. ASSUME UNCHANGED leg PROVE LegsTyped'
  BY <1>3, <1>t DEF LegsTyped
<1>4. ASSUME NEW x \in Transfers, NEW s,
             leg' = [leg EXCEPT ![x][s] = RolledBack(@)], s \in Shards
      PROVE  LegsTyped'
  <2>1. RolledBack(leg[x][s]) \in LegState
    BY <1>4, <1>t DEF LegsTyped, RolledBack, LegState
  <2> QED BY <1>1, <1>4, <2>1
<1>5. ASSUME NEW x \in Transfers, NEW s, CommitPrepared(x, s) PROVE LegsTyped'
  BY <1>1, <1>3, <1>5 DEF CommitPrepared, LegState
<1>6. ASSUME NEW x \in Transfers, NEW s \in Shards,
             Begin(x, s) \/ Work(x, s) \/ Prepare(x, s)
      PROVE  LegsTyped'
  BY <1>1, <1>6 DEF Begin, Work, Prepare, LegState
<1>7. ASSUME NEW x \in Transfers, Rollback(x) PROVE LegsTyped'
  <2>1. legs[x][at[x]] \in Shards
    BY <1>7, <1>t DEF Rollback, LoopTyped, LoopInBounds
  <2> QED BY <1>3, <1>4, <1>7, <2>1 DEF Rollback
<1>8. ASSUME NEW x \in Transfers,
             Commit(x) \/ Phase1Fails(x) \/ Expire(x) \/ Crash(x)
      PROVE  LegsTyped'
  BY <1>2, <1>3, <1>5, <1>8 DEF Commit, Phase1Fails, Expire, Crash
<1>9. ASSUME NEW o \in found, Resolve(o) PROVE LegsTyped'
  <2>1. o[1] \in Transfers /\ o[2] \in Shards
    BY TypedParts DEF Rest
  <2> QED BY <1>4, <1>9, <2>1 DEF Resolve
<1>10. ASSUME (\E s \in Shards : ListShard(s)) \/ ResolverStops \/ UNCHANGED vars
       PROVE  LegsTyped'
  BY <1>3, <1>10 DEF ListShard, ResolverStops, vars
<1> QED BY <1>6, <1>7, <1>8, <1>9, <1>10 DEF Next, CoordinatorStep

(* One coordinator moves: what the proofs need of pc, legs and at.         *)
GivesUp(x) == /\ pc[x] = "phase1"
              /\ pc' = [pc EXCEPT ![x] = GiveUp(x)]
              /\ UNCHANGED <<legs, at>>

Dies(x) == /\ pc[x] \in Running
           /\ pc' = [pc EXCEPT ![x] = "crashed"]
           /\ UNCHANGED <<legs, at>>

Advances(x) == /\ pc[x] \in {"rollback", "phase2"}
               /\ NextLeg(x, "failed") \/ (pc[x] = "phase2" /\ NextLeg(x, "done"))

Promises(x, s) == /\ pc[x] = "phase1"
                  /\ legs' = [legs EXCEPT ![x] = Append(@, s)]
                  /\ pc' = [pc EXCEPT ![x] = AfterPrepare(x, s)]
                  /\ UNCHANGED at

(* Every step moves at most one coordinator, in one of these ways.         *)
LEMMA LoopMoves ==
  [Next]_vars => \/ UNCHANGED <<pc, legs, at>>
                 \/ \E x \in Transfers :
                      \/ GivesUp(x) \/ Dies(x) \/ Advances(x)
                      \/ \E s \in Shards : Promises(x, s)
<1> SUFFICES ASSUME [Next]_vars
             PROVE  \/ UNCHANGED <<pc, legs, at>>
                    \/ \E x \in Transfers :
                         \/ GivesUp(x) \/ Dies(x) \/ Advances(x)
                         \/ \E s \in Shards : Promises(x, s)
  OBVIOUS
<1>1. ASSUME NEW x \in Transfers, Phase1Fails(x) PROVE GivesUp(x)
  BY <1>1 DEF Phase1Fails, GivesUp
<1>2. ASSUME NEW x \in Transfers, Crash(x) PROVE Dies(x)
  BY <1>2 DEF Crash, Dies
<1>3. ASSUME NEW x \in Transfers, Rollback(x) PROVE Advances(x)
  BY <1>3 DEF Rollback, Advances
<1>4. ASSUME NEW x \in Transfers, NEW error, Phase2Step(x, error), pc[x] = "phase2"
      PROVE  Advances(x)
  BY <1>4 DEF Phase2Step, Advances, Outcome
<1>5. ASSUME NEW x \in Transfers, Commit(x) PROVE Advances(x)
  BY <1>4, <1>5 DEF Commit
<1>6. ASSUME NEW x \in Transfers, NEW s \in Shards, Prepare(x, s)
      PROVE  Promises(x, s) \/ GivesUp(x)
  BY <1>6 DEF Prepare, Promises, GivesUp
<1>7. ASSUME NEW x \in Transfers, NEW s \in Shards, Begin(x, s) \/ Work(x, s)
      PROVE  UNCHANGED <<pc, legs, at>>
  BY <1>7 DEF Begin, Work, coordinator
<1>7a. ASSUME NEW x \in Transfers, Expire(x) PROVE UNCHANGED <<pc, legs, at>>
  BY <1>7a DEF Expire
<1>8. ASSUME \/ \E s \in Shards : ListShard(s)
             \/ \E o \in found : Resolve(o)
             \/ ResolverStops
             \/ UNCHANGED vars
      PROVE  UNCHANGED <<pc, legs, at>>
  BY <1>8 DEF ListShard, Resolve, ResolverStops, vars, coordinator
<1> QED
  BY <1>1, <1>2, <1>3, <1>5, <1>6, <1>7, <1>7a, <1>8 DEF Next, CoordinatorStep

LEMMA LoopStep == Typed /\ [Next]_vars => LoopTyped' /\ LoopInBounds' /\ LoopFresh'
<1> SUFFICES ASSUME Typed, [Next]_vars PROVE LoopTyped' /\ LoopInBounds' /\ LoopFresh'
  OBVIOUS
<1>t. LoopTyped /\ LoopInBounds /\ LoopFresh
  BY TypedParts
<1> USE DEF LoopTyped, LoopInBounds, LoopFresh, Running
<1>1. CASE UNCHANGED <<pc, legs, at>>
  BY <1>1, <1>t
<1>2. ASSUME NEW x \in Transfers, GivesUp(x) PROVE LoopTyped' /\ LoopInBounds' /\ LoopFresh'
  <2>1. legs[x] \in Seq(Shards) /\ at[x] = 1
    BY <1>2, <1>t DEF GivesUp
  <2>2. GiveUp(x) = "failed" \/ (GiveUp(x) = "rollback" /\ Len(legs[x]) >= 1)
    BY <2>1 DEF GiveUp
  <2> QED BY <1>2, <1>t, <2>1, <2>2 DEF GivesUp
<1>3. ASSUME NEW x \in Transfers, Dies(x) PROVE LoopTyped' /\ LoopInBounds' /\ LoopFresh'
  BY <1>3, <1>t DEF Dies
<1>4. ASSUME NEW x \in Transfers, Advances(x) PROVE LoopTyped' /\ LoopInBounds' /\ LoopFresh'
  <2>1. /\ at' = [at EXCEPT ![x] = at[x] + 1]
        /\ \/ pc' = pc /\ at[x] # Len(legs[x])
           \/ pc' = [pc EXCEPT ![x] = "failed"]
           \/ pc' = [pc EXCEPT ![x] = "done"]
        /\ legs' = legs
    BY <1>4 DEF Advances, NextLeg
  <2>2. at[x] \in Nat /\ at[x] <= Len(legs[x]) /\ Len(legs[x]) \in Nat /\ at[x] >= 1
    BY <1>4, <1>t DEF Advances
  <2>3. pc[x] # "phase1"
    BY <1>4 DEF Advances
  <2>4. LoopTyped'
    BY <1>t, <2>1, <2>2
  <2>5. ASSUME NEW y \in Transfers
        PROVE  /\ at'[y] \in 1..(Len(legs'[y]) + 1)
               /\ pc'[y] \in {"rollback", "phase2"} => at'[y] <= Len(legs'[y])
               /\ pc'[y] = "phase1" => at'[y] = 1
    <3>1. CASE y = x
      <4>1. at'[y] = at[x] + 1 /\ legs'[y] = legs[x]
        BY <1>t, <2>1, <3>1
      <4>2. \/ pc'[y] = pc[x] /\ at[x] # Len(legs[x])
            \/ pc'[y] \in {"failed", "done"}
        BY <1>t, <2>1, <3>1
      <4> QED BY <2>2, <2>3, <4>1, <4>2
    <3>2. CASE y # x
      <4>1. legs'[y] = legs[y] /\ at'[y] = at[y] /\ pc'[y] = pc[y]
        BY <1>t, <2>1, <3>2
      <4> QED BY <1>t, <4>1
    <3> QED BY <3>1, <3>2
  <2> QED BY <2>4, <2>5
<1>5. ASSUME NEW x \in Transfers, NEW s \in Shards, Promises(x, s)
      PROVE  LoopTyped' /\ LoopInBounds' /\ LoopFresh'
  <2>1. legs[x] \in Seq(Shards) /\ at[x] = 1
    BY <1>5, <1>t DEF Promises
  <2>2. Append(legs[x], s) \in Seq(Shards) /\ Len(Append(legs[x], s)) = Len(legs[x]) + 1
        /\ Len(legs[x]) \in Nat
    BY <2>1
  <2>3. AfterPrepare(x, s) \in {"phase1", "phase2"}
    BY DEF AfterPrepare
  <2> DEFINE longer == Append(legs[x], s)
             next == AfterPrepare(x, s)
  <2>4. legs' = [legs EXCEPT ![x] = longer] /\ pc' = [pc EXCEPT ![x] = next] /\ at' = at
    BY <1>5 DEF Promises
  <2> HIDE DEF longer, next
  <2>5. longer \in Seq(Shards) /\ Len(longer) = Len(legs[x]) + 1
    BY <2>2 DEF longer
  <2>6. next \in {"phase1", "phase2"}
    BY <2>3 DEF next
  <2>7. LoopTyped'
    BY <1>t, <2>4, <2>5, <2>6
  <2>8. ASSUME NEW y \in Transfers
        PROVE  /\ at'[y] \in 1..(Len(legs'[y]) + 1)
               /\ pc'[y] \in {"rollback", "phase2"} => at'[y] <= Len(legs'[y])
               /\ pc'[y] = "phase1" => at'[y] = 1
    <3>1. CASE y = x
      <4>1. legs'[y] = longer /\ at'[y] = 1
        BY <1>t, <2>1, <2>4, <3>1
      <4> QED BY <2>2, <2>5, <4>1
    <3>2. CASE y # x
      <4>1. legs'[y] = legs[y] /\ at'[y] = at[y] /\ pc'[y] = pc[y]
        BY <1>t, <2>4, <3>2
      <4> QED BY <1>t, <4>1
    <3> QED BY <3>1, <3>2
  <2> QED BY <2>7, <2>8
<1> QED BY <1>1, <1>2, <1>3, <1>4, <1>5, LoopMoves

(* Tables the loops do not touch. *)
LEMMA RestStep == Typed /\ [Next]_vars => Rest' /\ ResolverFresh'
<1> SUFFICES ASSUME Typed, [Next]_vars PROVE Rest' /\ ResolverFresh'
  OBVIOUS
<1> USE TwoPCAssumption
<1>t. Rest /\ ResolverFresh /\ LegsTyped /\ LoopTyped
  BY TypedParts
<1>1. balance' \in [Tenants -> Int]
  <2>1. ASSUME NEW x \in Transfers, NEW s PROVE Effect(x, s) \in [Tenants -> Int]
    <3>1. Cents[x] \in Int /\ balance \in [Tenants -> Int]
      BY <1>t DEF Rest
    <3>2. ASSUME NEW t \in Tenants, NEW a \in {0, Cents[x]}, NEW b \in {0, Cents[x]}
          PROVE  balance[t] - a + b \in Int
      BY <3>1
    <3> QED BY <3>2 DEF Effect
  <2>2. ASSUME NEW x \in Transfers, Commit(x)
        PROVE  balance' \in [Tenants -> Int]
    <3>1. PICK s : CommitPrepared(x, s) \/ UNCHANGED balance
      BY <2>2 DEF Commit
    <3>2. balance' = Effect(x, s) \/ balance' = balance
      BY <3>1 DEF CommitPrepared
    <3> QED BY <1>t, <2>1, <3>2 DEF Rest
  <2>3. CASE UNCHANGED balance
    BY <1>t, <2>3 DEF Rest
  <2> QED
    BY <2>2, <2>3 DEF Next, CoordinatorStep, Begin, Work, Prepare,
       Rollback, Phase1Fails, Expire, Crash, ListShard,
       Resolve, ResolverStops, vars
<1>2. took' \in [Transfers -> BOOLEAN]
  <2>1. ASSUME NEW x \in Transfers, NEW s \in Shards, Work(x, s)
        PROVE  took' \in [Transfers -> BOOLEAN]
    BY <1>t, <2>1 DEF Work, Matches, Rest
  <2>2. CASE UNCHANGED took
    BY <1>t, <2>2 DEF Rest
  <2> QED
    BY <2>1, <2>2 DEF Next, CoordinatorStep, Begin, Prepare,
       Rollback, Commit, Phase1Fails, Expire,
       Crash, ListShard, Resolve, ResolverStops, vars
<1>3. errs' \in [Transfers -> BOOLEAN]
  <2>1. ASSUME NEW x \in Transfers, NEW error \in BOOLEAN, Phase2Step(x, error)
        PROVE  errs' \in [Transfers -> BOOLEAN]
    BY <1>t, <2>1 DEF Phase2Step, Rest
  <2>2. ASSUME NEW x \in Transfers, Commit(x)
        PROVE  errs' \in [Transfers -> BOOLEAN]
    BY <2>1, <2>2 DEF Commit
  <2>3. CASE UNCHANGED errs
    BY <1>t, <2>3 DEF Rest
  <2> QED
    BY <2>2, <2>3 DEF Next, CoordinatorStep, Begin, Work, Prepare,
       Rollback, Phase1Fails, Expire, Crash, ListShard, Resolve,
       ResolverStops, vars, coordinator
<1>4. expired' \in [Transfers -> BOOLEAN]
  <2>1. ASSUME NEW x \in Transfers, Expire(x) PROVE expired' \in [Transfers -> BOOLEAN]
    BY <1>t, <2>1 DEF Expire, Rest
  <2>2. CASE UNCHANGED expired
    BY <1>t, <2>2 DEF Rest
  <2> QED
    BY <2>1, <2>2 DEF Next, CoordinatorStep, Begin, Work, Prepare,
       Rollback, Commit, Phase1Fails, Phase2Step,
       NextLeg, Crash, ListShard, Resolve, ResolverStops, vars, coordinator
<1>5. faults' \in 0..MaxFaults
  <2> DEFINE Counted == faults' = faults \/ (faults < MaxFaults /\ faults' = faults + 1)
  <2>1. ASSUME NEW kind, Fault(kind) PROVE Counted
    BY <2>1 DEF Fault
  <2>2. ASSUME NEW x, CallFails(x) \/ Answered(x) \/ Unanswered(x) PROVE Counted
    BY <2>1, <2>2 DEF CallFails, Answered, Unanswered
  <2> HIDE DEF Counted
  <2>3. ASSUME faults' = faults PROVE Counted
    BY <2>3 DEF Counted
  <2>4. ASSUME NEW x, Rollback(x) \/ Commit(x) \/ Phase1Fails(x) PROVE Counted
    BY <2>2, <2>4 DEF Rollback, Commit, Phase1Fails
  <2>5. ASSUME NEW x, NEW s, Begin(x, s) \/ Work(x, s) \/ Prepare(x, s) PROVE Counted
    BY <2>2, <2>3, <2>5 DEF Begin, Work, Prepare
  <2>6. ASSUME NEW x, Expire(x) \/ Crash(x) PROVE Counted
    BY <2>1, <2>3, <2>6 DEF Expire, Crash
  <2>7. ASSUME NEW s, ListShard(s) PROVE Counted
    BY <2>3, <2>7 DEF ListShard
  <2>8. ASSUME NEW o, Resolve(o) PROVE Counted
    BY <2>3, <2>8 DEF Resolve
  <2>9. ASSUME ResolverStops PROVE Counted
    BY <2>1, <2>3, <2>9 DEF ResolverStops
  <2>10. ASSUME UNCHANGED vars PROVE Counted
    BY <2>3, <2>10 DEF vars
  <2>11. Counted
    BY <2>4, <2>5, <2>6, <2>7, <2>8, <2>9, <2>10 DEF Next, CoordinatorStep
  <2> QED BY <1>t, <2>11 DEF Rest, Counted
<1> DEFINE ResolverTyped == /\ scanned \subseteq Shards /\ found \subseteq Transfers \X Shards
                            /\ resolves \in 0..MaxResolves /\ ResolverFresh
<1>6. ResolverTyped'
  <2>0. ResolverTyped
    BY <1>t DEF Rest
  <2>1. CASE UNCHANGED resolver
    BY <2>0, <2>1 DEF resolver, ResolverFresh
  <2>2. ASSUME NEW s \in Shards, ListShard(s) PROVE ResolverTyped'
    <3>1. PreparedOn(s) \X {s} \subseteq Transfers \X Shards
      BY DEF PreparedOn
    <3> QED BY <2>0, <2>2, <3>1 DEF ListShard, ResolverFresh
  <2>3. ASSUME scanned # {}, ResolverEnds PROVE ResolverTyped'
    BY <2>0, <2>3 DEF ResolverEnds, ResolverFresh
  <2>4. ASSUME NEW o \in found, Resolve(o) PROVE ResolverTyped'
    <3>1. scanned # {}
      BY <2>0, <2>4 DEF Resolve
    <3>2. CASE ResolverEnds
      BY <2>3, <3>1, <3>2
    <3>3. CASE found' = found \ {o} /\ UNCHANGED <<scanned, resolves>>
      BY <2>0, <3>3 DEF ResolverFresh
    <3> QED BY <2>4, <3>2, <3>3 DEF Resolve
  <2>5. CASE ResolverStops
    BY <2>3, <2>5 DEF ResolverStops
  <2> QED
    BY <2>1, <2>2, <2>4, <2>5 DEF Next, CoordinatorStep, Begin, Work, Prepare, Rollback, Commit, Phase1Fails, Expire, Crash, vars
<1> QED BY <1>1, <1>2, <1>3, <1>4, <1>5, <1>6 DEF Rest

LEMMA TypedStep == Typed /\ [Next]_vars => Typed'
<1>1. Typed' <=> LegsTyped' /\ LoopTyped' /\ LoopInBounds' /\ LoopFresh' /\ ResolverFresh' /\ Rest'
  BY TypedParts, PTL
<1> QED BY <1>1, LegsStep, LoopStep, RestStep

(* Every step keeps the types, and the loops over legs never run past the  *)
(* last one (txn.go:99-119).                                               *)
THEOREM TypeCorrect == Spec => []TypeOK
<1>1. Spec => []Typed
  BY TypedInit, TypedStep, PTL DEF Spec
<1>2. Typed => TypeOK
  BY DEF Typed
<1> QED BY <1>1, <1>2, PTL

-----------------------------------------------------------------------------
(* What holds of each transfer while no `orphans -resolve` interferes: the *)
(* decision to commit is that all parts are in legs; legs never change     *)
(* after phase 1, and what they name was prepared.                         *)
Promised == {"prepared", "committed", "aborted"}

Decided(x) ==
  /\ pc[x] \in {"phase2", "done"} => AllLegs(x)
  /\ pc[x] \in {"phase1", "rollback"} => ~AllLegs(x)
  /\ \A s \in Shards : leg[x][s] = "committed" => AllLegs(x)
  /\ \A s \in Shards : leg[x][s] = "aborted" => ~AllLegs(x)
  /\ pc[x] = "phase1" => \A s \in Shards : leg[x][s] # "aborted"
  /\ pc[x] # "phase1" => Open(x) = {}
  /\ \A s, z \in Open(x) : s = z
  /\ \A s \in Shards : HasLeg(x, s) => leg[x][s] \in Promised

DecidedInv == \A x \in Transfers : Decided(x)

LEMMA DecidedInit == Init => DecidedInv
<1> SUFFICES ASSUME Init, NEW x \in Transfers PROVE Decided(x)
  BY DEF DecidedInv
<1>1. pc[x] = "phase1" /\ legs[x] = << >> /\ \A s \in Shards : leg[x][s] = "none"
  BY DEF Init
<1>2. ~AllLegs(x)
  BY <1>1 DEF AllLegs, HasLeg, Parts
<1> QED BY <1>1, <1>2 DEF Decided, Open, HasLeg

(* A transfer that does not move stays as it was. *)
LEMMA DecidedFrame ==
  ASSUME NEW y \in Transfers, Decided(y), leg'[y] = leg[y], pc'[y] = pc[y], legs'[y] = legs[y]
  PROVE  Decided(y)'
<1>1. AllLegs(y)' = AllLegs(y) /\ Open(y)' = Open(y)
  BY DEF AllLegs, HasLeg, Open
<1>2. \A s : HasLeg(y, s)' = HasLeg(y, s)
  BY DEF HasLeg
<1> QED BY <1>1, <1>2 DEF Decided

(* A coordinator whose transactions are closed and whose legs stay.        *)
LEMMA DecidedClosed ==
  ASSUME NEW x \in Transfers, Decided(x), legs'[x] = legs[x], Open(x)' = {},
         pc'[x] # "phase1",
         AllLegs(x) => pc'[x] # "rollback",
         ~AllLegs(x) => pc'[x] \notin {"phase2", "done"},
         \A s \in Shards : \/ leg'[x][s] = leg[x][s]
                           \/ leg'[x][s] = "prepared"
                           \/ leg'[x][s] = "committed" /\ AllLegs(x)
                           \/ leg'[x][s] = "aborted" /\ ~AllLegs(x)
  PROVE  Decided(x)'
<1>1. AllLegs(x)' = AllLegs(x) /\ \A s : HasLeg(x, s)' = HasLeg(x, s)
  BY DEF AllLegs, HasLeg
<1>2. \A s \in Shards : (leg'[x][s] = "committed" => AllLegs(x)) /\ (leg'[x][s] = "aborted" => ~AllLegs(x))
  BY DEF Decided
<1>3. \A s \in Shards : leg'[x][s] = leg[x][s] \/ leg'[x][s] \in Promised
  BY DEF Promised
<1> QED BY <1>1, <1>2, <1>3 DEF Decided

(* Only the transfers of a step move. *)
LEMMA DecidedOne ==
  ASSUME TypeOK, DecidedInv, NEW x \in Transfers, Decided(x)',
         \A y \in Transfers \ {x} : leg'[y] = leg[y] /\ pc'[y] = pc[y] /\ legs'[y] = legs[y]
  PROVE  DecidedInv'
BY DecidedFrame DEF DecidedInv

(* Dropping the open transaction closes it and commits nothing. *)
LEMMA DropCloses ==
  ASSUME TypeOK, NEW x \in Transfers, DropActive(x)
  PROVE  /\ Open(x)' = {}
         /\ \A s \in Shards : \/ leg'[x][s] = leg[x][s] /\ s \notin Open(x)
                              \/ leg'[x][s] = "aborted" /\ s \in Open(x)
         /\ \A y \in Transfers \ {x} : leg'[y] = leg[y]
<1>1. leg'[x] = [s \in Shards |-> IF s \in Open(x) THEN "aborted" ELSE leg[x][s]]
  BY DEF DropActive, TypeOK
<1>2. \A y \in Transfers \ {x} : leg'[y] = leg[y]
  BY DEF DropActive, TypeOK
<1> QED BY <1>1, <1>2 DEF Open

(* legs after one more leg. *)
LEMMA HasLegAppend ==
  ASSUME TypeOK, NEW x \in Transfers, NEW s \in Shards,
         legs' = [legs EXCEPT ![x] = Append(@, s)]
  PROVE  \A z : HasLeg(x, z)' <=> (HasLeg(x, z) \/ z = s)
<1>1. legs'[x] = Append(legs[x], s) /\ legs[x] \in Seq(Shards)
  BY DEF TypeOK
<1>2. /\ Len(legs'[x]) = Len(legs[x]) + 1
      /\ Len(legs[x]) \in Nat
      /\ \A i \in 1..Len(legs[x]) : legs'[x][i] = legs[x][i]
      /\ legs'[x][Len(legs[x]) + 1] = s
  BY <1>1
<1> SUFFICES ASSUME NEW z PROVE HasLeg(x, z)' <=> (HasLeg(x, z) \/ z = s)
  OBVIOUS
<1>3. HasLeg(x, z) => HasLeg(x, z)'
  BY <1>2 DEF HasLeg
<1>4. z = s => HasLeg(x, z)'
  BY <1>2 DEF HasLeg
<1>5. HasLeg(x, z)' => HasLeg(x, z) \/ z = s
  <2> SUFFICES ASSUME NEW i \in 1..Len(legs'[x]), legs'[x][i] = z PROVE HasLeg(x, z) \/ z = s
    BY DEF HasLeg
  <2>1. i \in 1..Len(legs[x]) \/ i = Len(legs[x]) + 1
    BY <1>2
  <2> QED BY <1>2, <2>1 DEF HasLeg
<1> QED BY <1>3, <1>4, <1>5

LEMMA DecidedStep ==
  ASSUME Unresolved, Typed, DecidedInv, [Next]_vars
  PROVE  DecidedInv'
<1> USE TwoPCAssumption
<1>t. TypeOK /\ LegsTyped /\ LoopTyped /\ LoopInBounds
  BY TypedParts DEF Typed
<1>d. \A x \in Transfers : Decided(x)
  BY DEF DecidedInv
(* Only pc of x moves, or nothing does. *)
<1>s. ASSUME UNCHANGED <<leg, pc, legs>> PROVE DecidedInv'
  BY <1>s, <1>d, DecidedFrame DEF DecidedInv
(* One leg of x is written. *)
<1>w. ASSUME NEW x \in Transfers, NEW s \in Shards, NEW v, leg' = [leg EXCEPT ![x][s] = v]
      PROVE  /\ leg'[x][s] = v
             /\ \A z \in Shards \ {s} : leg'[x][z] = leg[x][z]
             /\ \A y \in Transfers \ {x} : leg'[y] = leg[y]
  BY <1>w, <1>t DEF LegsTyped
<1>1. ASSUME NEW x \in Transfers, NEW s \in Shards, Begin(x, s) \/ Work(x, s)
      PROVE  DecidedInv'
  <2>1. PICK v \in {"begun", "active"} : leg' = [leg EXCEPT ![x][s] = v]
    BY <1>1 DEF Begin, Work
  <2>2. pc[x] = "phase1" /\ UNCHANGED <<pc, legs>> /\ (Open(x) = {} \/ s \in Open(x))
    BY <1>1 DEF Begin, Work, Open, coordinator
  <2>3. AllLegs(x)' = AllLegs(x) /\ \A z : HasLeg(x, z)' = HasLeg(x, z)
    BY <2>2 DEF AllLegs, HasLeg
  <2>l. leg[x][s] \notin Promised
    BY <1>1 DEF Begin, Work, Promised
  <2>4. Open(x)' = Open(x) \cup {s}
    <3>1. /\ leg'[x][s] = v
          /\ \A z \in Shards \ {s} : leg'[x][z] = leg[x][z]
          /\ \A y \in Transfers \ {x} : leg'[y] = leg[y]
      BY <2>1, <1>w
    <3> QED BY <3>1 DEF Open
  <2>5. Decided(x)'
    <3>1. /\ leg'[x][s] = v
          /\ \A z \in Shards \ {s} : leg'[x][z] = leg[x][z]
          /\ \A y \in Transfers \ {x} : leg'[y] = leg[y]
      BY <2>1, <1>w
    <3>2. \A z \in Shards : HasLeg(x, z)' => leg'[x][z] \in Promised
      BY <1>d, <2>3, <2>l, <3>1 DEF Decided
    <3> QED BY <1>d, <2>1, <2>2, <2>3, <2>4, <3>1, <3>2 DEF Decided
  <2> QED BY <1>t, <2>1, <2>2, <2>5, <1>w, DecidedOne
<1>2. ASSUME NEW x \in Transfers, NEW s \in Shards, Prepare(x, s), legs' # legs
      PROVE  DecidedInv'
  <2>1. /\ pc[x] = "phase1" /\ s \in Open(x)
        /\ leg' = [leg EXCEPT ![x][s] = "prepared"]
        /\ legs' = [legs EXCEPT ![x] = Append(@, s)]
        /\ pc' = [pc EXCEPT ![x] = AfterPrepare(x, s)]
    BY <1>2 DEF Prepare, Open
  <2>2. \A y \in Transfers \ {x} : leg'[y] = leg[y] /\ pc'[y] = pc[y] /\ legs'[y] = legs[y]
    BY <1>t, <1>w, <2>1 DEF LoopTyped
  <2>3. pc'[x] = AfterPrepare(x, s)
    BY <1>t, <2>1 DEF LoopTyped
  <2>4. AllLegs(x)' <=> \A z \in Parts(x) \ {s} : HasLeg(x, z)
    BY <1>t, <2>1, HasLegAppend DEF AllLegs, Parts, Source, Target
  <2>5. pc'[x] = IF AllLegs(x)' THEN "phase2" ELSE "phase1"
    BY <2>3, <2>4 DEF AfterPrepare
  <2>6. Open(x)' = {}
    <3>1. Open(x) = {s}
      BY <1>d, <2>1 DEF Decided
    <3>2. /\ leg'[x][s] = "prepared"
          /\ \A z \in Shards \ {s} : leg'[x][z] = leg[x][z]
          /\ \A y \in Transfers \ {x} : leg'[y] = leg[y]
      BY <2>1, <1>w
    <3> QED BY <3>1, <3>2 DEF Open
  <2>7. \A z \in Shards : leg'[x][z] # "committed" /\ leg'[x][z] # "aborted"
    <3>1. \A z \in Shards : leg[x][z] # "committed" /\ leg[x][z] # "aborted"
      BY <1>d, <2>1 DEF Decided
    <3> QED BY <2>1, <3>1, <1>w
  <2>8. \A z \in Shards : HasLeg(x, z)' => leg'[x][z] \in Promised
    <3>1. /\ leg'[x][s] = "prepared"
          /\ \A z \in Shards \ {s} : leg'[x][z] = leg[x][z]
          /\ \A y \in Transfers \ {x} : leg'[y] = leg[y]
      BY <2>1, <1>w
    <3>2. \A z \in Shards : HasLeg(x, z)' <=> (HasLeg(x, z) \/ z = s)
      BY <1>t, <2>1, HasLegAppend
    <3> QED BY <1>d, <3>1, <3>2 DEF Decided, Promised
  <2>9. Decided(x)'
    BY <2>5, <2>6, <2>7, <2>8 DEF Decided
  <2> QED BY <1>t, <2>2, <2>9, DecidedOne
(* Phase 1 ends in an error: what was open is closed. *)
<1>3. ASSUME NEW x \in Transfers, pc[x] = "phase1", Open(x)' = {},
             pc' = [pc EXCEPT ![x] = GiveUp(x)], legs' = legs,
             \A s \in Shards : leg'[x][s] = leg[x][s] \/ leg'[x][s] \in {"prepared", "aborted"},
             \A y \in Transfers \ {x} : leg'[y] = leg[y]
      PROVE  DecidedInv'
  <2>1. ~AllLegs(x) /\ \A s \in Shards : leg[x][s] # "committed" /\ leg[x][s] # "aborted"
    BY <1>3, <1>d DEF Decided
  <2>2. pc'[x] \in {"failed", "rollback"}
    BY <1>3, <1>t DEF LoopTyped, GiveUp
  <2>3. Decided(x)'
    <3>1. AllLegs(x)' = AllLegs(x) /\ \A s : HasLeg(x, s)' = HasLeg(x, s)
      BY <1>3 DEF AllLegs, HasLeg
    <3>2. \A s \in Shards : HasLeg(x, s)' => leg'[x][s] \in Promised
      BY <1>3, <1>d, <3>1 DEF Decided, Promised
    <3> QED BY <1>3, <2>1, <2>2, <3>1, <3>2 DEF Decided
  <2>4. \A y \in Transfers \ {x} : pc'[y] = pc[y]
    BY <1>3, <1>t DEF LoopTyped
  <2> QED BY <1>3, <1>t, <2>3, <2>4, DecidedOne
<1>4. ASSUME NEW x \in Transfers, NEW s \in Shards, Prepare(x, s), legs' = legs
      PROVE  DecidedInv'
  <2>0. pc[x] = "phase1" /\ s \in Open(x)
    BY <1>4 DEF Prepare, Open
  <2>1. PICK v \in {"prepared", "aborted"} : leg' = [leg EXCEPT ![x][s] = v]
    BY <1>4 DEF Prepare
  <2>2. pc[x] = "phase1" /\ s \in Open(x) /\ pc' = [pc EXCEPT ![x] = GiveUp(x)] /\ legs' = legs
    <3>1. legs' # [legs EXCEPT ![x] = Append(@, s)]
      <4>1. legs[x] \in Seq(Shards) /\ Len(Append(legs[x], s)) # Len(legs[x])
        BY <1>t DEF LoopTyped
      <4> QED BY <1>4, <1>t, <4>1 DEF LoopTyped
    <3> QED BY <1>4, <2>0, <3>1 DEF Prepare
  <2>3. Open(x) = {s}
    BY <1>d, <2>2 DEF Decided
  <2>4. /\ leg'[x][s] = v
        /\ \A z \in Shards \ {s} : leg'[x][z] = leg[x][z]
        /\ \A y \in Transfers \ {x} : leg'[y] = leg[y]
    BY <2>1, <1>w
  <2>5. Open(x)' = {}
    BY <2>3, <2>4 DEF Open
  <2> QED BY <1>3, <2>2, <2>4, <2>5
<1>5. ASSUME NEW x \in Transfers, Phase1Fails(x) PROVE DecidedInv'
  <2>1. DropActive(x) /\ pc[x] = "phase1" /\ pc' = [pc EXCEPT ![x] = GiveUp(x)] /\ legs' = legs
    BY <1>5 DEF Phase1Fails
  <2> QED BY <1>3, <1>t, <2>1, DropCloses
<1>6. ASSUME NEW x \in Transfers, Crash(x) PROVE DecidedInv'
  <2>1. DropActive(x) /\ pc' = [pc EXCEPT ![x] = "crashed"] /\ legs' = legs
    BY <1>6 DEF Crash
  <2>2. \A s \in Shards : leg'[x][s] = leg[x][s] \/ (leg'[x][s] = "aborted" /\ ~AllLegs(x))
    <3>1. CASE pc[x] = "phase1"
      BY <1>t, <1>d, <2>1, <3>1, DropCloses DEF Decided
    <3>2. CASE pc[x] # "phase1"
      <4>1. Open(x) = {}
        BY <1>d, <3>2 DEF Decided
      <4> QED BY <1>t, <2>1, <4>1, DropCloses
    <3> QED BY <3>1, <3>2
  <2>3. Open(x)' = {} /\ \A y \in Transfers \ {x} : leg'[y] = leg[y]
    BY <1>t, <2>1, DropCloses
  <2>4. pc'[x] = "crashed" /\ \A y \in Transfers \ {x} : pc'[y] = pc[y]
    BY <1>t, <2>1 DEF LoopTyped
  <2>5. Decided(x)'
    BY <1>d, <2>1, <2>2, <2>3, <2>4, DecidedClosed
  <2> QED BY <1>t, <2>1, <2>3, <2>4, <2>5, DecidedOne
(* A loop over legs takes one step. *)
<1>7. ASSUME NEW x \in Transfers, NEW s \in Shards, NEW e \in {"failed", "done"}, NextLeg(x, e),
             \/ UNCHANGED leg
             \/ pc[x] = "rollback" /\ leg' = [leg EXCEPT ![x][s] = RolledBack(@)]
             \/ pc[x] = "phase2" /\ leg' = [leg EXCEPT ![x][s] = "committed"],
             \/ pc[x] = "rollback" /\ e = "failed"
             \/ pc[x] = "phase2"
      PROVE  DecidedInv'
  <2>1. legs' = legs /\ (pc' = pc \/ pc' = [pc EXCEPT ![x] = e])
    BY <1>7 DEF NextLeg
  <2>2. /\ pc'[x] \in {pc[x], e}
        /\ \A y \in Transfers \ {x} : pc'[y] = pc[y]
    BY <1>t, <2>1 DEF LoopTyped
  <2>3. /\ \A y \in Transfers \ {x} : leg'[y] = leg[y]
        /\ \A z \in Shards : \/ leg'[x][z] = leg[x][z]
                             \/ pc[x] = "rollback" /\ leg'[x][z] = "aborted"
                             \/ pc[x] = "phase2" /\ leg'[x][z] = "committed"
    <3>1. CASE UNCHANGED leg
      BY <3>1
    <3>2. CASE pc[x] = "rollback" /\ leg' = [leg EXCEPT ![x][s] = RolledBack(@)]
      BY <3>2, <1>w DEF RolledBack
    <3>3. CASE pc[x] = "phase2" /\ leg' = [leg EXCEPT ![x][s] = "committed"]
      BY <3>3, <1>w
    <3> QED BY <1>7, <3>1, <3>2, <3>3
  <2>4. /\ Open(x) = {}
        /\ pc[x] = "rollback" => ~AllLegs(x)
        /\ pc[x] = "phase2" => AllLegs(x)
    BY <1>7, <1>d DEF Decided
  <2>5. Open(x)' = {}
    BY <2>3, <2>4 DEF Open
  <2>6. Decided(x)'
    BY <1>7, <1>d, <2>1, <2>2, <2>3, <2>4, <2>5, DecidedClosed
  <2> QED BY <1>t, <2>1, <2>2, <2>3, <2>6, DecidedOne
<1>l. ASSUME NEW x \in Transfers, pc[x] \in {"rollback", "phase2"} PROVE legs[x][at[x]] \in Shards
  BY <1>l, <1>t DEF LoopTyped, LoopInBounds
<1>8. ASSUME NEW x \in Transfers, Rollback(x) PROVE DecidedInv'
  <2>1. pc[x] = "rollback" /\ NextLeg(x, "failed")
    BY <1>8 DEF Rollback
  <2>2. UNCHANGED leg \/ leg' = [leg EXCEPT ![x][legs[x][at[x]]] = RolledBack(@)]
    BY <1>8 DEF Rollback
  <2> QED BY <1>7, <1>l, <2>1, <2>2
<1>9. ASSUME NEW x \in Transfers, Commit(x)
      PROVE  DecidedInv'
  <2>1. pc[x] = "phase2"
    BY <1>9 DEF Commit
  <2>2. PICK e \in {"failed", "done"} : NextLeg(x, e)
    BY <1>9 DEF Commit, Phase2Step, Outcome
  <2>3. UNCHANGED leg \/ leg' = [leg EXCEPT ![x][legs[x][at[x]]] = "committed"]
    BY <1>9 DEF Commit, CommitPrepared
  <2> QED BY <1>7, <1>l, <2>1, <2>2, <2>3
<1>10. ASSUME NEW o \in found, Resolve(o) PROVE DecidedInv'
  <2>1. scanned = Shards /\ o[2] \in Shards
    BY <1>10, TypedParts DEF Resolve, Rest
  <2>2. scanned = {}
    BY DEF Unresolved
  <2> QED BY <2>1, <2>2
<1>11. ASSUME \/ \E x \in Transfers : Expire(x)
              \/ \E s \in Shards : ListShard(s)
              \/ ResolverStops
              \/ UNCHANGED vars
       PROVE  DecidedInv'
  BY <1>s, <1>11 DEF Expire, ListShard, ResolverStops, vars, coordinator
<1> QED
  BY <1>1, <1>2, <1>4, <1>5, <1>6, <1>8, <1>9, <1>10, <1>11 DEF Next, CoordinatorStep

(* A run of `orphans -resolve` that has begun is counted or under way.     *)
LEMMA UnresolvedBefore ==
  ASSUME Typed, [Next]_vars, Unresolved'
  PROVE  Unresolved
<1>t. Rest
  BY TypedParts
<1>1. ASSUME UNCHANGED resolver PROVE Unresolved
  BY <1>1 DEF resolver, Unresolved
<1>2. ASSUME NEW s \in Shards, ListShard(s) PROVE Unresolved
  BY <1>2 DEF ListShard, Unresolved
<1>3. ~ResolverEnds
  BY <1>t DEF ResolverEnds, Unresolved, Rest
<1>4. ASSUME NEW o \in found, Resolve(o) PROVE Unresolved
  <2>1. UNCHANGED <<scanned, resolves>>
    BY <1>3, <1>4 DEF Resolve
  <2> QED BY <2>1 DEF Unresolved
<1>5. ~ResolverStops
  BY <1>3 DEF ResolverStops
<1>6. ASSUME NEW x \in Transfers, CoordinatorStep(x) \/ Expire(x) \/ Crash(x)
      PROVE  UNCHANGED resolver
  BY <1>6 DEF CoordinatorStep, Expire, Crash, Begin, Work, Prepare, Rollback, Commit, Phase1Fails, resolver
<1>7. ASSUME UNCHANGED vars PROVE UNCHANGED resolver
  BY <1>7 DEF vars, resolver
<1> QED
  BY <1>1, <1>2, <1>4, <1>5, <1>6, <1>7 DEF Next

(* "atomicity across nodes" (txn.go:17): until somebody runs `orphans      *)
(* -resolve`, no interleaving of transfers, lost calls, crashes and        *)
(* deadlines commits a transfer on one shard and not on another, or leaves *)
(* the other without a promise to commit.                                  *)
THEOREM AtomicUntilResolved == Spec => []Atomic
<1> DEFINE Inv == Typed /\ (Unresolved => DecidedInv)
<1>1. Init => Inv
  BY TypedInit, DecidedInit
<1>2. Inv /\ [Next]_vars => Inv'
  BY TypedStep, DecidedStep, UnresolvedBefore
<1>3. Inv => Atomic
  <2> SUFFICES ASSUME DecidedInv, NEW x \in Transfers, NEW s \in Shards,
                      leg[x][s] = "committed", NEW z \in Parts(x)
               PROVE  leg[x][z] \in {"prepared", "committed"}
    BY DEF Atomic
  <2>1. Decided(x) /\ z \in Shards
    BY TwoPCAssumption DEF DecidedInv, Parts, Source, Target
  <2>2. AllLegs(x) /\ HasLeg(x, z)
    BY <2>1 DEF Decided, AllLegs
  <2> QED BY <2>1, <2>2 DEF Decided, Promised
<1> QED BY <1>1, <1>2, <1>3, PTL DEF Spec
-----------------------------------------------------------------------------
(* What a step does to the rows that are locked: it locks none and leaves  *)
(* the balances; or a statement works; or a prepared leg is committed.     *)
Releases ==
  /\ \A y \in Transfers, z \in Shards :
       leg'[y][z] \in UntilResolved => leg[y][z] \in UntilResolved
  /\ UNCHANGED <<balance, took>>

Commits(x, s) ==
  /\ leg[x][s] = "prepared"
  /\ leg' = [leg EXCEPT ![x][s] = "committed"]
  /\ balance' = Effect(x, s)
  /\ UNCHANGED took

LEMMA LockMoves ==
  ASSUME Typed, [Next]_vars
  PROVE  Releases \/ \E x \in Transfers, s \in Shards : Work(x, s) \/ Commits(x, s)
<1>t. LegsTyped /\ LoopTyped /\ LoopInBounds /\ Rest
  BY TypedParts
<1>w. ASSUME NEW x \in Transfers, NEW s \in Shards, NEW v, leg' = [leg EXCEPT ![x][s] = v],
             v \notin UntilResolved \/ leg[x][s] \in UntilResolved, UNCHANGED <<balance, took>>
      PROVE  Releases
  BY <1>w, <1>t DEF LegsTyped, Releases
<1>u. ASSUME UNCHANGED <<leg, balance, took>> PROVE Releases
  BY <1>u DEF Releases
<1>d. ASSUME NEW x \in Transfers, DropActive(x), UNCHANGED <<balance, took>> PROVE Releases
  <2>1. \A z \in Shards : leg'[x][z] = leg[x][z] \/ leg'[x][z] = "aborted"
    BY <1>d, DropCloses DEF Typed
  <2>2. \A y \in Transfers \ {x} : leg'[y] = leg[y]
    BY <1>d, DropCloses DEF Typed
  <2> QED BY <1>d, <2>1, <2>2 DEF Releases, UntilResolved
<1>l. ASSUME NEW x \in Transfers, pc[x] \in {"rollback", "phase2"} PROVE legs[x][at[x]] \in Shards
  BY <1>l, <1>t DEF LoopTyped, LoopInBounds
<1>r. ASSUME NEW x \in Transfers, NEW s \in Shards, leg' = [leg EXCEPT ![x][s] = RolledBack(@)],
             UNCHANGED <<balance, took>>
      PROVE  Releases
  BY <1>r, <1>w DEF RolledBack, UntilResolved
<1>1. ASSUME NEW x \in Transfers, NEW s \in Shards, Begin(x, s) \/ Prepare(x, s) PROVE Releases
  <2>1. CASE Begin(x, s)
    BY <2>1, <1>w DEF Begin, UntilResolved
  <2>2. CASE Prepare(x, s)
    BY <2>2, <1>w DEF Prepare, UntilResolved
  <2> QED BY <1>1, <2>1, <2>2
<1>2. ASSUME NEW x \in Transfers, Rollback(x) PROVE Releases
  <2>1. UNCHANGED leg \/ leg' = [leg EXCEPT ![x][legs[x][at[x]]] = RolledBack(@)]
    BY <1>2 DEF Rollback
  <2>2. legs[x][at[x]] \in Shards /\ UNCHANGED <<balance, took>>
    BY <1>2, <1>l DEF Rollback
  <2> QED BY <1>r, <1>u, <2>1, <2>2
<1>3. ASSUME NEW x \in Transfers, Phase1Fails(x) \/ Crash(x) PROVE Releases
  BY <1>3, <1>d DEF Phase1Fails, Crash
<1>4. ASSUME NEW x \in Transfers, Expire(x) PROVE Releases
  BY <1>4, <1>u DEF Expire
<1>5. ASSUME NEW x \in Transfers, Commit(x)
      PROVE  Releases \/ \E s \in Shards : Commits(x, s)
  <2> DEFINE s == legs[x][at[x]]
  <2>1. s \in Shards
    BY <1>5, <1>l DEF Commit
  <2>2. CommitPrepared(x, s) \/ UNCHANGED <<balance, leg>>
    BY <1>5 DEF Commit
  <2>3. UNCHANGED took
    BY <1>5 DEF Commit
  <2> QED BY <1>u, <2>1, <2>2, <2>3 DEF CommitPrepared, Commits
<1>6. ASSUME NEW o \in found, Resolve(o) PROVE Releases
  <2>1. o[1] \in Transfers /\ o[2] \in Shards
    BY <1>t DEF Rest
  <2> QED BY <1>6, <1>r, <2>1 DEF Resolve
<1>7. ASSUME (\E s \in Shards : ListShard(s)) \/ ResolverStops \/ UNCHANGED vars PROVE Releases
  BY <1>7, <1>u DEF ListShard, ResolverStops, vars
<1> QED
  BY <1>1, <1>2, <1>3, <1>4, <1>5, <1>6, <1>7 DEF Next, CoordinatorStep

(* Why no balance goes below 0: a row is locked by one transfer, and while *)
(* it is locked for a debit it has the money.                              *)
DebitHeld(x) == took[x] /\ leg[x][Source(x)] \in UntilResolved

Funded == \A x \in Transfers : DebitHeld(x) => balance[From[x]] >= Cents[x]

OneLocker == \A x, y \in Transfers : \A t \in Tenants : x # y => ~(Locks(x, t) /\ Locks(y, t))

NobodyOwes == \A t \in Tenants : balance[t] >= 0

AmountsCount == \A x \in Transfers : Cents[x] >= 0

LockInv == NobodyOwes /\ Funded /\ OneLocker

LEMMA HomesAreShards ==
  \A x \in Transfers : Source(x) \in Shards /\ Target(x) \in Shards
BY TwoPCAssumption DEF Source, Target

LEMMA LockStep ==
  ASSUME AmountsCount, Typed, LockInv, [Next]_vars
  PROVE  LockInv'
<1> USE TwoPCAssumption, HomesAreShards
<1>t. LegsTyped /\ Rest
  BY TypedParts
<1>i. NobodyOwes /\ Funded /\ OneLocker
  BY DEF LockInv
<1>c. \A x \in Transfers : Cents[x] \in Nat /\ From[x] \in Tenants /\ To[x] \in Tenants
  BY DEF AmountsCount
(* Whoever locks a row after a step that releases locked it before. *)
<1>r. ASSUME NEW y \in Transfers, \A z \in Shards : leg'[y][z] \in UntilResolved => leg[y][z] \in UntilResolved,
             took'[y] = took[y]
      PROVE  /\ \A t \in Tenants : Locks(y, t)' => Locks(y, t)
             /\ DebitHeld(y)' => DebitHeld(y)
  BY <1>r DEF Locks, DebitHeld, Credits, Source, Target
<1>1. CASE Releases
  <2>1. \A y \in Transfers : /\ \A t \in Tenants : Locks(y, t)' => Locks(y, t)
                             /\ DebitHeld(y)' => DebitHeld(y)
    BY <1>1, <1>r DEF Releases
  <2>2. balance' = balance
    BY <1>1 DEF Releases
  <2> QED BY <1>i, <2>1, <2>2 DEF LockInv, NobodyOwes, Funded, OneLocker
<1>2. ASSUME NEW x \in Transfers, NEW s \in Shards, Work(x, s) PROVE LockInv'
  <2>1. /\ leg'[x][s] = "active"
        /\ \A z \in Shards \ {s} : leg'[x][z] = leg[x][z]
        /\ \A y \in Transfers \ {x} : leg'[y] = leg[y] /\ took'[y] = took[y]
        /\ balance' = balance
        /\ s # Source(x) => took'[x] = took[x]
        /\ s = Source(x) => took'[x] = Matches(x)
    BY <1>2, <1>t DEF Work, LegsTyped, Rest
  <2>2. \A y \in Transfers \ {x} : /\ \A t \in Tenants : Locks(y, t)' => Locks(y, t)
                                   /\ DebitHeld(y)' => DebitHeld(y)
    BY <1>r, <2>1
  <2>3. DebitHeld(x)' => balance[From[x]] >= Cents[x]
    <3>1. CASE s = Source(x)
      BY <2>1, <3>1 DEF DebitHeld, Matches
    <3>2. CASE s # Source(x)
      <4>1. Source(x)' = Source(x)
        BY DEF Source
      <4>2. DebitHeld(x)' => DebitHeld(x)
        BY <2>1, <3>2, <4>1 DEF DebitHeld
      <4> QED BY <1>i, <4>2 DEF Funded
    <3> QED BY <3>1, <3>2
  <2>4. ASSUME NEW t \in Tenants, Locks(x, t)' PROVE Locks(x, t) \/ LockFree(x, t)
    <3>1. CASE t = From[x] /\ took'[x] /\ leg'[x][Source(x)] \in UntilResolved
      <4>1. CASE s = Source(x)
        BY <1>2, <2>1, <3>1, <4>1 DEF Work
      <4>2. CASE s # Source(x)
        BY <2>1, <3>1, <4>2 DEF Locks
      <4> QED BY <4>1, <4>2
    <3>2. CASE t = To[x] /\ Credits(x, Target(x)) /\ leg'[x][Target(x)] \in UntilResolved
      <4>1. CASE s = Target(x)
        BY <1>2, <3>2, <4>1 DEF Work
      <4>2. CASE s # Target(x)
        BY <2>1, <3>2, <4>2 DEF Locks
      <4> QED BY <4>1, <4>2
    <3> QED BY <2>4, <3>1, <3>2 DEF Locks, Credits, Source, Target
  <2>5. NobodyOwes'
    BY <1>i, <2>1 DEF NobodyOwes
  <2>6. Funded'
    BY <1>i, <2>1, <2>2, <2>3 DEF Funded
  <2>7. OneLocker'
    <3>1. \A y \in Transfers \ {x} : \A t \in Tenants : ~(Locks(x, t)' /\ Locks(y, t)')
      BY <1>i, <2>2, <2>4 DEF OneLocker, LockFree
    <3> QED BY <1>i, <2>2, <3>1 DEF OneLocker
  <2> QED BY <2>5, <2>6, <2>7 DEF LockInv
<1>3. ASSUME NEW x \in Transfers, NEW s \in Shards, Commits(x, s) PROVE LockInv'
  <2>1. /\ leg'[x][s] = "committed"
        /\ \A z \in Shards \ {s} : leg'[x][z] = leg[x][z]
        /\ \A y \in Transfers \ {x} : leg'[y] = leg[y]
    BY <1>3, <1>t DEF Commits, LegsTyped
  <2>2. took' = took /\ balance' = Effect(x, s) /\ leg[x][s] = "prepared"
    BY <1>3 DEF Commits
  <2>3. \A y \in Transfers : /\ \A t \in Tenants : Locks(y, t)' => Locks(y, t)
                             /\ DebitHeld(y)' => DebitHeld(y)
    BY <1>r, <2>1, <2>2 DEF UntilResolved
  <2> DEFINE Debited(t) == s = Source(x) /\ took[x] /\ t = From[x]
  <2>4. ASSUME NEW t \in Tenants
        PROVE  /\ balance[t] \in Int /\ balance'[t] \in Int
               /\ ~Debited(t) => balance'[t] >= balance[t]
               /\ balance'[t] >= balance[t] - Cents[x]
    <3>1. balance[t] \in Int
      BY <1>t DEF Rest
    <3>2. PICK a \in {0, Cents[x]}, b \in {0, Cents[x]} :
            balance'[t] = balance[t] - a + b /\ (~Debited(t) => a = 0)
      BY <2>2 DEF Effect
    <3> QED BY <1>c, <3>1, <3>2
  <2>5. ASSUME NEW t \in Tenants, Debited(t)
        PROVE  /\ balance[t] >= Cents[x]
               /\ Locks(x, t)
    BY <1>i, <2>2, <2>5 DEF Funded, DebitHeld, UntilResolved, Locks
  <2>6. NobodyOwes'
    <3> SUFFICES ASSUME NEW t \in Tenants PROVE balance'[t] >= 0
      BY DEF NobodyOwes
    <3>1. CASE Debited(t)
      BY <1>c, <2>4, <2>5, <3>1
    <3>2. CASE ~Debited(t)
      BY <1>i, <2>4, <3>2 DEF NobodyOwes
    <3> QED BY <3>1, <3>2
  <2>7. Funded'
    <3> SUFFICES ASSUME NEW y \in Transfers, DebitHeld(y)' PROVE balance'[From[y]] >= Cents[y]
      BY DEF Funded
    <3>1. DebitHeld(y) /\ balance[From[y]] >= Cents[y]
      BY <1>i, <2>3 DEF Funded
    <3>2. ~Debited(From[y])
      <4>1. Locks(y, From[y])
        BY <3>1 DEF DebitHeld, Locks
      <4>2. y = x => s # Source(x)
        BY <2>1 DEF DebitHeld, UntilResolved, Source
      <4> QED BY <1>c, <1>i, <2>5, <4>1, <4>2 DEF OneLocker
    <3> QED BY <1>c, <2>4, <3>1, <3>2
  <2>8. OneLocker'
    BY <1>i, <2>3 DEF OneLocker
  <2> QED BY <2>6, <2>7, <2>8 DEF LockInv
<1> QED BY <1>1, <1>2, <1>3, LockMoves

(* However transfers out of one account interleave, whichever calls fail   *)
(* and whatever `orphans -resolve` undoes, no balance goes below 0 when no *)
(* amount is negative: the debit is checked when it works (main.go:563)    *)
(* and counts when it commits, and its row stays locked in between.        *)
THEOREM NeverOverdrawn == Spec => []NoOverdraft
<1>1. Init => LockInv
  <2> SUFFICES ASSUME Init PROVE LockInv
    OBVIOUS
  <2>1. \A x \in Transfers, s \in Shards : leg[x][s] \notin UntilResolved
    BY DEF Init, UntilResolved
  <2>2. Funded /\ OneLocker
    BY <2>1, HomesAreShards DEF Funded, DebitHeld, OneLocker, Locks
  <2>3. NobodyOwes
    BY TwoPCAssumption DEF Init, NobodyOwes
  <2> QED BY <2>2, <2>3 DEF LockInv
(* Kept as one formula: constants do not change, so it holds all the time. *)
<1> DEFINE Conditional == AmountsCount => LockInv
<1>2. Init => Conditional
  BY <1>1
<1>3. Typed /\ Conditional /\ [Next]_vars => Conditional'
  BY LockStep DEF AmountsCount
<1>4. Conditional => NoOverdraft
  BY DEF LockInv, NobodyOwes, AmountsCount, NoOverdraft
<1> HIDE DEF Conditional
<1> QED BY <1>2, <1>3, <1>4, TypedInit, TypedStep, PTL DEF Spec

-----------------------------------------------------------------------------
(* A leg that is committed stays so: only prepared ones are resolved.      *)
LEMMA CommittedStays ==
  ASSUME Typed, [Next]_vars, NEW y \in Transfers, NEW z \in Shards, leg[y][z] = "committed"
  PROVE  leg'[y][z] = "committed"
<1>t. LegsTyped /\ LoopTyped /\ LoopInBounds /\ Rest
  BY TypedParts
<1>w. ASSUME NEW x \in Transfers, NEW s \in Shards, NEW v, leg' = [leg EXCEPT ![x][s] = v],
             leg[x][s] # "committed" \/ v = "committed"
      PROVE  leg'[y][z] = "committed"
  BY <1>w, <1>t DEF LegsTyped
<1>d. ASSUME NEW x \in Transfers, DropActive(x) PROVE leg'[y][z] = "committed"
  <2>1. CASE y = x
    BY <1>d, <2>1, DropCloses DEF Typed, Open
  <2>2. CASE y # x
    BY <1>d, <2>2, DropCloses DEF Typed
  <2> QED BY <2>1, <2>2
<1>l. ASSUME NEW x \in Transfers, pc[x] \in {"rollback", "phase2"} PROVE legs[x][at[x]] \in Shards
  BY <1>l, <1>t DEF LoopTyped, LoopInBounds
<1>r. ASSUME NEW x \in Transfers, NEW s \in Shards, leg' = [leg EXCEPT ![x][s] = RolledBack(@)]
      PROVE  leg'[y][z] = "committed"
  BY <1>r, <1>w DEF RolledBack
<1>1. ASSUME NEW x \in Transfers, NEW s \in Shards, Begin(x, s) \/ Work(x, s) \/ Prepare(x, s)
      PROVE  leg'[y][z] = "committed"
  BY <1>1, <1>w DEF Begin, Work, Prepare
<1>2. ASSUME NEW x \in Transfers, Rollback(x) PROVE leg'[y][z] = "committed"
  <2>1. UNCHANGED leg \/ leg' = [leg EXCEPT ![x][legs[x][at[x]]] = RolledBack(@)]
    BY <1>2 DEF Rollback
  <2> QED BY <1>2, <1>l, <1>r, <2>1 DEF Rollback
<1>3. ASSUME NEW x \in Transfers, Phase1Fails(x) \/ Crash(x) PROVE leg'[y][z] = "committed"
  BY <1>3, <1>d DEF Phase1Fails, Crash
<1>4. ASSUME NEW x \in Transfers, Commit(x) PROVE leg'[y][z] = "committed"
  <2>1. UNCHANGED leg \/ leg' = [leg EXCEPT ![x][legs[x][at[x]]] = "committed"]
    BY <1>4 DEF Commit, CommitPrepared
  <2> QED BY <1>4, <1>l, <1>w, <2>1 DEF Commit
<1>5. ASSUME NEW o \in found, Resolve(o) PROVE leg'[y][z] = "committed"
  <2>1. o[1] \in Transfers /\ o[2] \in Shards
    BY <1>t DEF Rest
  <2> QED BY <1>5, <1>r, <2>1 DEF Resolve
<1>6. ASSUME \/ \E x \in Transfers : Expire(x)
             \/ \E s \in Shards : ListShard(s)
             \/ ResolverStops
             \/ UNCHANGED vars
      PROVE  leg'[y][z] = "committed"
  BY <1>6 DEF Expire, ListShard, ResolverStops, vars
<1> QED
  BY <1>1, <1>2, <1>3, <1>4, <1>5, <1>6 DEF Next, CoordinatorStep

(* What phase 2 knows: all parts are in legs; while no error was returned, *)
(* the legs behind it are committed; success is the end of legs without an *)
(* error.                                                                  *)
Walked(x) ==
  /\ pc[x] \in {"phase2", "done"} => AllLegs(x)
  /\ pc[x] \in {"phase2", "done"} /\ ~errs[x]
       => \A i \in 1..(at[x] - 1) : leg[x][legs[x][i]] = "committed"
  /\ pc[x] = "done" => ~errs[x] /\ at[x] = Len(legs[x]) + 1

(* A coordinator that does not move. *)
LEMMA WalkedFrame ==
  ASSUME Typed, [Next]_vars, NEW y \in Transfers, Walked(y), pc'[y] = pc[y], legs'[y] = legs[y],
         at'[y] = at[y], errs'[y] = errs[y]
  PROVE  Walked(y)'
<1>1. AllLegs(y)' = AllLegs(y)
  BY DEF AllLegs, HasLeg
<1>2. \A i \in 1..(at[y] - 1) : legs[y][i] \in Shards
  BY TypedParts DEF LoopTyped, LoopInBounds
<1>3. \A i \in 1..(at[y] - 1) : leg[y][legs[y][i]] = "committed" => leg'[y][legs[y][i]] = "committed"
  BY <1>2, CommittedStays
<1> QED BY <1>1, <1>3 DEF Walked

LEMMA WalkedStep ==
  ASSUME Typed, [Next]_vars, \A x \in Transfers : Walked(x)
  PROVE  \A x \in Transfers : Walked(x)'
<1>t. LegsTyped /\ LoopTyped /\ LoopInBounds /\ LoopFresh /\ Rest
  BY TypedParts
<1>o. ASSUME NEW x \in Transfers, Walked(x)',
             \A y \in Transfers \ {x} : pc'[y] = pc[y] /\ legs'[y] = legs[y] /\ at'[y] = at[y] /\ errs'[y] = errs[y]
      PROVE  \A y \in Transfers : Walked(y)'
  BY <1>o, WalkedFrame
<1>1. ASSUME UNCHANGED <<pc, legs, at, errs>> PROVE \A y \in Transfers : Walked(y)'
  BY <1>1, WalkedFrame
(* Phase 1 or a rollback ends without success, or the process dies.        *)
<1>2. ASSUME NEW x \in Transfers, NEW v \in {"rollback", "failed", "crashed"},
             pc' = [pc EXCEPT ![x] = v], UNCHANGED <<legs, errs>>,
             at' = at \/ at' = [at EXCEPT ![x] = @ + 1]
      PROVE  \A y \in Transfers : Walked(y)'
  BY <1>o, <1>2, <1>t DEF Walked, LoopTyped
<1>3. ASSUME NEW x \in Transfers, Phase1Fails(x) \/ Crash(x) PROVE \A y \in Transfers : Walked(y)'
  BY <1>2, <1>3 DEF Phase1Fails, Crash, GiveUp
<1>4. ASSUME NEW x \in Transfers, Rollback(x) PROVE \A y \in Transfers : Walked(y)'
  <2>1. pc[x] = "rollback" /\ at' = [at EXCEPT ![x] = @ + 1] /\ UNCHANGED <<legs, errs>>
        /\ (pc' = pc \/ pc' = [pc EXCEPT ![x] = "failed"])
    BY <1>4 DEF Rollback, NextLeg
  <2>2. CASE pc' = pc
    <3>1. pc'[x] = "rollback"
      BY <2>1, <2>2
    <3>2. Walked(x)'
      BY <3>1 DEF Walked
    <3>3. \A y \in Transfers \ {x} : pc'[y] = pc[y] /\ legs'[y] = legs[y] /\ at'[y] = at[y] /\ errs'[y] = errs[y]
      BY <1>t, <2>1, <2>2 DEF LoopTyped
    <3> QED BY <1>o, <3>2, <3>3
  <2> QED BY <1>2, <2>1, <2>2
<1>5. ASSUME NEW x \in Transfers, NEW s \in Shards, Prepare(x, s) PROVE \A y \in Transfers : Walked(y)'
  <2>0. pc[x] = "phase1" /\ UNCHANGED <<at, errs>>
    BY <1>5 DEF Prepare
  <2>1. CASE pc' = [pc EXCEPT ![x] = GiveUp(x)] /\ UNCHANGED legs
    BY <1>2, <2>0, <2>1 DEF GiveUp
  <2>2. CASE legs' = [legs EXCEPT ![x] = Append(@, s)] /\ pc' = [pc EXCEPT ![x] = AfterPrepare(x, s)]
    <3>1. pc'[x] = AfterPrepare(x, s) /\ at'[x] = 1
      BY <1>t, <2>0, <2>2 DEF LoopTyped, LoopFresh
    <3>0. TypeOK
      BY DEF Typed
    <3>h. \A z : HasLeg(x, z)' <=> (HasLeg(x, z) \/ z = s)
      BY <2>2, <3>0, HasLegAppend
    <3>2. AllLegs(x)' <=> \A z \in Parts(x) \ {s} : HasLeg(x, z)
      BY <3>h DEF AllLegs, Parts, Source, Target
    <3>3. Walked(x)'
      BY <3>1, <3>2 DEF Walked, AfterPrepare
    <3>4. \A y \in Transfers \ {x} : pc'[y] = pc[y] /\ legs'[y] = legs[y]
      BY <1>t, <2>2 DEF LoopTyped
    <3> QED BY <1>o, <2>0, <3>3, <3>4
  <2> QED BY <1>5, <2>1, <2>2 DEF Prepare
<1>6. ASSUME NEW x \in Transfers, Commit(x) PROVE \A y \in Transfers : Walked(y)'
  <2> DEFINE s == legs[x][at[x]]
  <2>0. /\ pc[x] = "phase2" /\ AllLegs(x)
        /\ at[x] \in 1..Len(legs[x]) /\ Len(legs[x]) \in Nat
        /\ \A i \in 1..Len(legs[x]) : legs[x][i] \in Shards
    BY <1>6, <1>t DEF Commit, Walked, LoopTyped, LoopInBounds
  <2>1. PICK error \in BOOLEAN : Phase2Step(x, error) /\ (~error => CommitPrepared(x, s) /\ leg[x][s] = "prepared")
    BY <1>6 DEF Commit
  <2>2. /\ errs' = [errs EXCEPT ![x] = @ \/ error]
        /\ at' = [at EXCEPT ![x] = @ + 1]
        /\ pc' = IF at[x] = Len(legs[x]) THEN [pc EXCEPT ![x] = Outcome(errs[x] \/ error)] ELSE pc
        /\ legs' = legs
    BY <2>1 DEF Phase2Step, NextLeg
  <2>3. /\ at'[x] = at[x] + 1 /\ (errs'[x] <=> errs[x] \/ error)
        /\ at[x] # Len(legs[x]) => pc'[x] = "phase2"
        /\ at[x] = Len(legs[x]) => pc'[x] = Outcome(errs[x] \/ error)
        /\ \A y \in Transfers \ {x} : pc'[y] = pc[y] /\ legs'[y] = legs[y] /\ at'[y] = at[y] /\ errs'[y] = errs[y]
    BY <1>t, <2>0, <2>2 DEF LoopTyped, Rest
  <2>4. AllLegs(x)'
    BY <2>0, <2>2 DEF AllLegs, HasLeg
  <2>5. ASSUME ~errs'[x], NEW i \in 1..(at'[x] - 1) PROVE leg'[x][legs[x][i]] = "committed"
    <3>1. i \in 1..(at[x] - 1) \/ i = at[x]
      BY <2>0, <2>3
    <3>2. CASE i = at[x]
      <4>1. leg' = [leg EXCEPT ![x][s] = "committed"] /\ s \in Shards
        BY <2>0, <2>1, <2>3, <2>5 DEF CommitPrepared
      <4> QED BY <1>t, <3>2, <4>1 DEF LegsTyped
    <3>3. CASE i \in 1..(at[x] - 1)
      <4>1. ~errs[x] /\ legs[x][i] \in Shards
        BY <2>0, <2>3, <2>5, <3>3
      <4>2. leg[x][legs[x][i]] = "committed"
        BY <2>0, <3>3, <4>1 DEF Walked
      <4> QED BY <4>1, <4>2, CommittedStays
    <3> QED BY <3>1, <3>2, <3>3
  <2>6. pc'[x] = "done" => ~errs'[x] /\ at'[x] = Len(legs'[x]) + 1
    BY <2>2, <2>3 DEF Outcome
  <2>7. Walked(x)'
    BY <2>2, <2>4, <2>5, <2>6 DEF Walked
  <2> QED BY <1>o, <2>3, <2>7
<1>7. ASSUME \/ \E x \in Transfers : Expire(x) \/ \E s \in Shards : Begin(x, s) \/ Work(x, s)
             \/ \E s \in Shards : ListShard(s)
             \/ \E o \in found : Resolve(o)
             \/ ResolverStops
             \/ UNCHANGED vars
      PROVE  \A y \in Transfers : Walked(y)'
  <2>1. UNCHANGED <<pc, legs, at, errs>>
    BY <1>7 DEF Expire, Begin, Work, ListShard, Resolve, ResolverStops, vars, coordinator
  <2> QED BY <1>1, <2>1
<1> QED
  BY <1>3, <1>4, <1>5, <1>6, <1>7 DEF Next, CoordinatorStep

(* A transfer that reports success committed everywhere, even with         *)
(* `orphans -resolve` beside it: phase 2 goes through all the legs, a leg  *)
(* that is gone is an error, and the errors are joined (txn.go:99-110).    *)
THEOREM SuccessMeansCommitted == Spec => []DoneMeansCommitted
<1> DEFINE Inv == \A x \in Transfers : Walked(x)
<1>1. Init => Inv
  BY DEF Init, Walked
<1>2. Typed /\ Inv /\ [Next]_vars => Inv'
  BY WalkedStep
<1>3. Typed /\ Inv => DoneMeansCommitted
  <2> SUFFICES ASSUME Typed, NEW x \in Transfers, Walked(x), pc[x] = "done", NEW s \in Parts(x)
               PROVE  leg[x][s] = "committed"
    BY DEF DoneMeansCommitted, Committed
  <2>1. PICK i \in 1..Len(legs[x]) : legs[x][i] = s
    BY DEF Walked, AllLegs, HasLeg
  <2>2. i \in 1..(at[x] - 1)
    BY TypedParts DEF Walked, LoopTyped
  <2> QED BY <2>1, <2>2 DEF Walked
<1> QED BY <1>1, <1>2, <1>3, TypedInit, TypedStep, PTL DEF Spec

-----------------------------------------------------------------------------
(* What Do still has to undo or to commit: while nothing went wrong, what  *)
(* is prepared is among the legs from at on, which at the end are none.    *)
Quiet(x) == faults = 0 /\ ~expired[x]

StillOwed(x, s) == \E i \in at[x]..Len(legs[x]) : legs[x][i] = s

Owes(x) ==
  /\ pc[x] # "phase1" => Open(x) = {}
  /\ \A s, z \in Open(x) : s = z
  /\ pc[x] \in {"done", "failed"} => at[x] = Len(legs[x]) + 1
  /\ Quiet(x) /\ pc[x] # "crashed"
       => \A s \in Shards : leg[x][s] = "prepared" => StillOwed(x, s)

LEMMA FaultsStay ==
  ASSUME Typed, [Next]_vars
  PROVE  faults' = 0 => faults = 0
<1>t. faults \in Nat
  BY TypedParts, TwoPCAssumption DEF Rest
<1> DEFINE P == faults' = 0 => faults = 0
<1>1. ASSUME NEW kind, Fault(kind) PROVE P
  BY <1>1, <1>t DEF Fault
<1>2. ASSUME NEW x, CallFails(x) \/ Answered(x) \/ Unanswered(x) PROVE P
  BY <1>1, <1>2 DEF CallFails, Answered, Unanswered
<1>3. ASSUME faults' = faults PROVE P
  BY <1>3
<1> HIDE DEF P
<1>4. ASSUME NEW x, Rollback(x) \/ Commit(x) \/ Phase1Fails(x) PROVE P
  BY <1>2, <1>4 DEF Rollback, Commit, Phase1Fails
<1>5. ASSUME NEW x, NEW s, Begin(x, s) \/ Work(x, s) \/ Prepare(x, s) PROVE P
  BY <1>2, <1>3, <1>5 DEF Begin, Work, Prepare
<1>6. ASSUME NEW x, Expire(x) \/ Crash(x) PROVE P
  BY <1>1, <1>3, <1>6 DEF Expire, Crash
<1>7. ASSUME (\E s \in Shards : ListShard(s)) \/ (\E o \in found : Resolve(o)) \/ UNCHANGED vars PROVE P
  BY <1>3, <1>7 DEF ListShard, Resolve, vars
<1>8. ASSUME ResolverStops PROVE P
  BY <1>1, <1>3, <1>8 DEF ResolverStops
<1>9. P
  BY <1>4, <1>5, <1>6, <1>7, <1>8 DEF Next, CoordinatorStep
<1> QED BY <1>9 DEF P

(* A coordinator that does not move, whose legs may be rolled back.        *)
LEMMA OwesFrame ==
  ASSUME NEW y \in Transfers, Owes(y), pc'[y] = pc[y], legs'[y] = legs[y], at'[y] = at[y],
         Quiet(y)' => Quiet(y),
         \A s \in Shards : leg'[y][s] = leg[y][s] \/ leg'[y][s] = "aborted"
  PROVE  Owes(y)'
<1>1. \A s \in Shards : s \in Open(y)' => s \in Open(y)
  BY DEF Open
<1>2. \A s : StillOwed(y, s)' = StillOwed(y, s)
  BY DEF StillOwed
<1>3. Open(y)' \subseteq Shards
  BY DEF Open
<1>4. \A s \in Shards : leg'[y][s] = "prepared" => leg[y][s] = "prepared"
  OBVIOUS
<1>5. /\ pc'[y] # "phase1" => Open(y)' = {}
      /\ \A s, z \in Open(y)' : s = z
      /\ pc'[y] \in {"done", "failed"} => at'[y] = Len(legs'[y]) + 1
  BY <1>1, <1>3 DEF Owes
<1>6. Quiet(y)' /\ pc'[y] # "crashed" => \A s \in Shards : leg'[y][s] = "prepared" => StillOwed(y, s)'
  BY <1>2, <1>4 DEF Owes
<1> QED BY <1>5, <1>6 DEF Owes

LEMMA OwesStep ==
  ASSUME Typed, [Next]_vars, \A x \in Transfers : Owes(x)
  PROVE  \A x \in Transfers : Owes(x)'
<1>t. TypeOK /\ LegsTyped /\ LoopTyped /\ LoopInBounds /\ LoopFresh /\ Rest
  BY TypedParts DEF Typed
<1>f. faults' = 0 => faults = 0
  BY FaultsStay
<1>w. ASSUME NEW x \in Transfers, NEW s \in Shards, NEW v, leg' = [leg EXCEPT ![x][s] = v]
      PROVE  /\ leg'[x][s] = v
             /\ \A z \in Shards \ {s} : leg'[x][z] = leg[x][z]
             /\ \A y \in Transfers \ {x} : leg'[y] = leg[y]
  BY <1>w, <1>t DEF LegsTyped
<1>o. ASSUME NEW x \in Transfers, Owes(x)',
             \A y \in Transfers \ {x} :
               pc'[y] = pc[y] /\ legs'[y] = legs[y] /\ at'[y] = at[y] /\ leg'[y] = leg[y] /\ expired'[y] = expired[y]
      PROVE  \A y \in Transfers : Owes(y)'
  <2>1. ASSUME NEW y \in Transfers \ {x} PROVE Owes(y)'
    <3>1. Quiet(y)' => Quiet(y)
      BY <1>f, <1>o DEF Quiet
    <3> QED BY <1>o, <3>1, OwesFrame
  <2> QED BY <1>o, <2>1
(* Only legs may move, and only to be rolled back; or a deadline passes.   *)
<1>s. ASSUME UNCHANGED <<pc, legs, at>>, \A y \in Transfers : expired'[y] = FALSE => expired[y] = FALSE,
             \A y \in Transfers, s \in Shards : leg'[y][s] = leg[y][s] \/ leg'[y][s] = "aborted"
      PROVE  \A y \in Transfers : Owes(y)'
  <2> SUFFICES ASSUME NEW y \in Transfers PROVE Owes(y)'
    OBVIOUS
  <2>0. expired[y] \in BOOLEAN
    BY <1>t DEF Rest
  <2>1. Quiet(y)' => Quiet(y)
    BY <1>f, <1>s, <2>0 DEF Quiet
  <2> QED BY <1>s, <2>1, OwesFrame
<1>1. ASSUME NEW x \in Transfers, NEW s \in Shards, Begin(x, s) \/ Work(x, s)
      PROVE  \A y \in Transfers : Owes(y)'
  <2>1. PICK v \in {"begun", "active"} : leg' = [leg EXCEPT ![x][s] = v]
    BY <1>1 DEF Begin, Work
  <2>2. pc[x] = "phase1" /\ UNCHANGED <<pc, legs, at, expired, faults>> /\ (Open(x) = {} \/ s \in Open(x))
    BY <1>1 DEF Begin, Work, Open, coordinator
  <2>3. /\ leg'[x][s] = v
        /\ \A z \in Shards \ {s} : leg'[x][z] = leg[x][z]
        /\ \A y \in Transfers \ {x} : leg'[y] = leg[y]
    BY <2>1, <1>w
  <2>4. Open(x)' = Open(x) \cup {s}
    BY <2>3 DEF Open
  <2>5. \A z \in Shards : leg'[x][z] = "prepared" => leg[x][z] = "prepared"
    BY <2>3
  <2>6. \A z : StillOwed(x, z)' = StillOwed(x, z)
    BY <2>2 DEF StillOwed
  <2>7. Quiet(x)' = Quiet(x)
    BY <2>2 DEF Quiet
  <2>8. Quiet(x)' /\ pc'[x] # "crashed" => \A z \in Shards : leg'[x][z] = "prepared" => StillOwed(x, z)'
    BY <2>2, <2>5, <2>6, <2>7 DEF Owes
  <2>9. Owes(x)'
    BY <2>2, <2>4, <2>8 DEF Owes
  <2> QED BY <1>o, <2>2, <2>3, <2>9
(* Phase 1 is given up: what was open is closed, what was promised is owed. *)
<1>2. ASSUME NEW x \in Transfers, pc[x] = "phase1", pc' = [pc EXCEPT ![x] = GiveUp(x)],
             UNCHANGED <<legs, at, expired>>, Open(x)' = {},
             Quiet(x)' => \A s \in Shards : leg'[x][s] = "prepared" => leg[x][s] = "prepared",
             \A y \in Transfers \ {x} : leg'[y] = leg[y]
      PROVE  \A y \in Transfers : Owes(y)'
  <2>1. \A s : StillOwed(x, s)' = StillOwed(x, s)
    BY <1>2 DEF StillOwed
  <2>2. pc'[x] = GiveUp(x) /\ \A y \in Transfers \ {x} : pc'[y] = pc[y]
    BY <1>2, <1>t DEF LoopTyped
  <2>3. pc'[x] \in {"done", "failed"} => at'[x] = Len(legs'[x]) + 1
    BY <1>2, <1>t, <2>2 DEF GiveUp, LoopFresh
  <2>4. Quiet(x)' => \A s \in Shards : leg'[x][s] = "prepared" => StillOwed(x, s)'
    BY <1>f, <1>2, <2>1 DEF Owes, Quiet
  <2>5. Owes(x)'
    BY <1>2, <2>3, <2>4 DEF Owes
  <2> QED BY <1>o, <1>2, <2>2, <2>5
<1>3. ASSUME NEW x \in Transfers, Phase1Fails(x) PROVE \A y \in Transfers : Owes(y)'
  <2>1. DropActive(x) /\ pc[x] = "phase1" /\ pc' = [pc EXCEPT ![x] = GiveUp(x)] /\ UNCHANGED <<legs, at, expired>>
    BY <1>3 DEF Phase1Fails
  <2>2. /\ Open(x)' = {}
        /\ \A s \in Shards : leg'[x][s] = leg[x][s] \/ leg'[x][s] = "aborted"
        /\ \A y \in Transfers \ {x} : leg'[y] = leg[y]
    BY <1>t, <2>1, DropCloses
  <2>3. \A s \in Shards : leg'[x][s] = "prepared" => leg[x][s] = "prepared"
    BY <2>2
  <2> QED BY <1>2, <2>1, <2>2, <2>3
<1>4. ASSUME NEW x \in Transfers, NEW s \in Shards, Prepare(x, s) PROVE \A y \in Transfers : Owes(y)'
  <2>0. pc[x] = "phase1" /\ s \in Open(x) /\ UNCHANGED <<at, expired>>
    BY <1>4 DEF Prepare, Open
  <2>1. PICK v \in {"prepared", "aborted"} : leg' = [leg EXCEPT ![x][s] = v]
    BY <1>4 DEF Prepare
  <2>2. /\ leg'[x][s] = v
        /\ \A z \in Shards \ {s} : leg'[x][z] = leg[x][z]
        /\ \A y \in Transfers \ {x} : leg'[y] = leg[y]
    BY <2>1, <1>w
  <2>3. Open(x)' = {}
    <3>1. Open(x) = {s}
      BY <2>0 DEF Owes
    <3> QED BY <2>2, <3>1 DEF Open
  <2>4. CASE legs' = [legs EXCEPT ![x] = Append(@, s)] /\ pc' = [pc EXCEPT ![x] = AfterPrepare(x, s)]
             /\ UNCHANGED faults
    <3>1. /\ pc'[x] \in {"phase1", "phase2"}
          /\ at'[x] = 1 /\ at[x] = 1
          /\ \A y \in Transfers \ {x} : pc'[y] = pc[y] /\ legs'[y] = legs[y]
      BY <1>t, <2>0, <2>4 DEF LoopTyped, LoopFresh, AfterPrepare
    <3>2. \A z : HasLeg(x, z)' <=> (HasLeg(x, z) \/ z = s)
      BY <1>t, <2>4, HasLegAppend
    <3>3. \A z : (StillOwed(x, z) <=> HasLeg(x, z)) /\ (StillOwed(x, z)' <=> HasLeg(x, z)')
      BY <3>1 DEF StillOwed, HasLeg
    <3>4. Quiet(x)' = Quiet(x)
      BY <2>0, <2>4 DEF Quiet
    <3>5. Quiet(x)' => \A z \in Shards : leg'[x][z] = "prepared" => StillOwed(x, z)'
      BY <2>0, <2>2, <3>2, <3>3, <3>4 DEF Owes
    <3>6. Owes(x)'
      BY <2>3, <3>1, <3>5 DEF Owes
    <3> QED BY <1>o, <2>0, <2>2, <3>1, <3>6
  <2>5. CASE /\ UNCHANGED legs /\ pc' = [pc EXCEPT ![x] = GiveUp(x)]
             /\ Fault("call") \/ leg' = [leg EXCEPT ![x][s] = "aborted"]
    <3>1. Quiet(x)' => leg'[x][s] # "prepared"
      <4>1. ASSUME Fault("call") PROVE faults' # 0
        BY <4>1, <1>t, TwoPCAssumption DEF Fault, Rest
      <4>2. ASSUME leg' = [leg EXCEPT ![x][s] = "aborted"] PROVE leg'[x][s] # "prepared"
        <5>1. leg'[x][s] = "aborted"
          BY <4>2, <1>t DEF LegsTyped
        <5> QED BY <5>1
      <4> QED BY <2>5, <4>1, <4>2 DEF Quiet
    <3>2. Quiet(x)' => \A z \in Shards : leg'[x][z] = "prepared" => leg[x][z] = "prepared"
      BY <2>2, <3>1
    <3> QED BY <1>2, <2>0, <2>2, <2>3, <2>5, <3>2
  <2> QED BY <1>4, <2>4, <2>5 DEF Prepare, Answered, Unanswered
(* The loop over legs takes one step: the leg at at is no longer prepared. *)
<1>5. ASSUME NEW x \in Transfers, pc[x] \in {"rollback", "phase2"},
             NEW e \in {"failed", "done"}, NextLeg(x, e),
             \A s \in Shards : leg'[x][s] = leg[x][s] \/ leg'[x][s] \in {"aborted", "committed"},
             Quiet(x)' => leg'[x][legs[x][at[x]]] # "prepared",
             \A y \in Transfers \ {x} : leg'[y] = leg[y]
      PROVE  \A y \in Transfers : Owes(y)'
  <2>1. /\ at' = [at EXCEPT ![x] = @ + 1] /\ UNCHANGED <<legs, expired>>
        /\ pc' = IF at[x] = Len(legs[x]) THEN [pc EXCEPT ![x] = e] ELSE pc
    BY <1>5 DEF NextLeg
  <2>2. /\ at'[x] = at[x] + 1 /\ at[x] \in Nat /\ Len(legs[x]) \in Nat
        /\ at[x] # Len(legs[x]) => pc'[x] = pc[x]
        /\ at[x] = Len(legs[x]) => pc'[x] = e
        /\ \A y \in Transfers \ {x} : pc'[y] = pc[y] /\ at'[y] = at[y]
    BY <1>t, <2>1 DEF LoopTyped
  <2>3. Open(x)' = {}
    <3>1. Open(x) = {}
      BY <1>5 DEF Owes
    <3> QED BY <1>5, <3>1 DEF Open
  <2>4. pc'[x] \in {"done", "failed"} => at'[x] = Len(legs'[x]) + 1
    BY <1>5, <2>1, <2>2
  <2>5. ASSUME Quiet(x)', NEW s \in Shards, leg'[x][s] = "prepared" PROVE StillOwed(x, s)'
    <3>1. Quiet(x) /\ leg[x][s] = "prepared" /\ s # legs[x][at[x]]
      BY <1>5, <1>f, <2>1, <2>5 DEF Quiet
    <3>2. PICK i \in at[x]..Len(legs[x]) : legs[x][i] = s
      BY <1>5, <3>1 DEF Owes, StillOwed
    <3>3. i \in at'[x]..Len(legs'[x])
      BY <2>1, <2>2, <3>1, <3>2
    <3> QED BY <2>1, <3>2, <3>3 DEF StillOwed
  <2>6. pc'[x] # "phase1"
    BY <1>5, <2>2
  <2>7. Owes(x)'
    BY <2>3, <2>4, <2>5, <2>6 DEF Owes
  <2> QED BY <1>o, <1>5, <2>1, <2>2, <2>7
<1>l. ASSUME NEW x \in Transfers, pc[x] \in {"rollback", "phase2"} PROVE legs[x][at[x]] \in Shards
  BY <1>l, <1>t DEF LoopTyped, LoopInBounds
<1>c. ASSUME NEW x \in Transfers, CallFails(x), UNCHANGED expired PROVE ~Quiet(x)'
  BY <1>c, <1>t, TwoPCAssumption DEF CallFails, Fault, Quiet, Rest
<1>6. ASSUME NEW x \in Transfers, Rollback(x) PROVE \A y \in Transfers : Owes(y)'
  <2> DEFINE s == legs[x][at[x]]
  <2>1. pc[x] = "rollback" /\ NextLeg(x, "failed") /\ UNCHANGED expired /\ s \in Shards
    BY <1>6, <1>l DEF Rollback, NextLeg
  <2>2. CASE leg' = [leg EXCEPT ![x][s] = RolledBack(@)]
    <3> HIDE DEF s
    <3>1. /\ leg'[x][s] = RolledBack(leg[x][s])
          /\ \A z \in Shards \ {s} : leg'[x][z] = leg[x][z]
          /\ \A y \in Transfers \ {x} : leg'[y] = leg[y]
      BY <1>w, <2>1, <2>2
    <3>2. leg'[x][s] # "prepared" /\ (leg'[x][s] = leg[x][s] \/ leg'[x][s] = "aborted")
      BY <3>1 DEF RolledBack
    <3> QED BY <1>5, <2>1, <3>1, <3>2 DEF s
  <2>3. CASE CallFails(x) /\ UNCHANGED leg
    BY <1>5, <1>c, <2>1, <2>3
  <2> QED BY <1>6, <2>2, <2>3 DEF Rollback
<1>7. ASSUME NEW x \in Transfers, Commit(x) PROVE \A y \in Transfers : Owes(y)'
  <2> DEFINE s == legs[x][at[x]]
  <2>1. pc[x] = "phase2" /\ s \in Shards
    BY <1>7, <1>l DEF Commit
  <2>2. PICK e \in {"failed", "done"} : NextLeg(x, e)
    BY <1>7 DEF Commit, Phase2Step, Outcome
  <2>3. CASE CommitPrepared(x, s)
    <3> HIDE DEF s
    <3>1. CASE leg[x][s] = "prepared"
      <4>1. leg' = [leg EXCEPT ![x][s] = "committed"]
        BY <2>3, <3>1 DEF CommitPrepared
      <4>2. /\ leg'[x][s] = "committed"
            /\ \A z \in Shards \ {s} : leg'[x][z] = leg[x][z]
            /\ \A y \in Transfers \ {x} : leg'[y] = leg[y]
        BY <1>w, <2>1, <4>1
      <4> QED BY <1>5, <2>1, <2>2, <4>2 DEF s
    <3>2. CASE leg[x][s] # "prepared"
      <4>1. leg' = leg
        BY <2>3, <3>2 DEF CommitPrepared
      <4> QED BY <1>5, <2>1, <2>2, <3>2, <4>1 DEF s
    <3> QED BY <3>1, <3>2
  <2>4. CASE CallFails(x) /\ UNCHANGED leg
    <3>1. UNCHANGED expired
      BY <2>2 DEF NextLeg
    <3> QED BY <1>5, <1>c, <2>1, <2>2, <2>4, <3>1
  <2> QED BY <1>7, <2>3, <2>4 DEF Commit
<1>8. ASSUME NEW x \in Transfers, Crash(x) PROVE \A y \in Transfers : Owes(y)'
  <2>1. DropActive(x) /\ pc' = [pc EXCEPT ![x] = "crashed"] /\ UNCHANGED <<legs, at, expired>>
    BY <1>8 DEF Crash
  <2>2. Open(x)' = {} /\ \A y \in Transfers \ {x} : leg'[y] = leg[y]
    BY <1>t, <2>1, DropCloses
  <2>3. pc'[x] = "crashed" /\ \A y \in Transfers \ {x} : pc'[y] = pc[y]
    BY <1>t, <2>1 DEF LoopTyped
  <2>4. Owes(x)'
    BY <2>2, <2>3 DEF Owes
  <2> QED BY <1>o, <2>1, <2>2, <2>3, <2>4
<1>9. ASSUME NEW o \in found, Resolve(o) PROVE \A y \in Transfers : Owes(y)'
  <2>1. o[1] \in Transfers /\ o[2] \in Shards
    BY <1>t DEF Rest
  <2>2. leg' = [leg EXCEPT ![o[1]][o[2]] = RolledBack(@)] /\ UNCHANGED <<pc, legs, at, expired>>
    BY <1>9 DEF Resolve, coordinator
  <2>3. \A y \in Transfers, s \in Shards : leg'[y][s] = leg[y][s] \/ leg'[y][s] = "aborted"
    BY <1>t, <2>1, <2>2 DEF LegsTyped, RolledBack
  <2> QED BY <1>s, <2>2, <2>3
<1>10. ASSUME NEW x \in Transfers, Expire(x) PROVE \A y \in Transfers : Owes(y)'
  <2>1. UNCHANGED <<leg, pc, legs, at>> /\ expired' = [expired EXCEPT ![x] = TRUE]
    BY <1>10 DEF Expire
  <2>2. \A y \in Transfers : expired'[y] = FALSE => expired[y] = FALSE
    BY <1>t, <2>1 DEF Rest
  <2> QED BY <1>s, <2>1, <2>2
<1>11. ASSUME (\E s \in Shards : ListShard(s)) \/ ResolverStops \/ UNCHANGED vars
       PROVE  \A y \in Transfers : Owes(y)'
  <2>1. UNCHANGED <<leg, pc, legs, at, expired>>
    BY <1>11 DEF ListShard, ResolverStops, vars, coordinator
  <2> QED BY <1>s, <2>1
<1> QED
  BY <1>1, <1>3, <1>4, <1>6, <1>7, <1>8, <1>9, <1>10, <1>11 DEF Next, CoordinatorStep

(* A Do that returned, while no call was lost, no process died and its own *)
(* deadline did not pass, has left no transaction on any shard, whether it *)
(* succeeded or a shard had no slot for its promise: rollbackAll (txn.go:  *)
(* 77-82, 113-119) undoes what the others promised.                        *)
THEOREM NothingIsLeft == Spec => []EndedLeavesNothing
<1> DEFINE Inv == \A x \in Transfers : Owes(x)
<1>1. Init => Inv
  <2> SUFFICES ASSUME Init, NEW x \in Transfers PROVE Owes(x)
    OBVIOUS
  <2>1. pc[x] = "phase1" /\ \A s \in Shards : leg[x][s] = "none"
    BY DEF Init
  <2> QED BY <2>1 DEF Owes, Open
<1>2. Typed /\ Inv /\ [Next]_vars => Inv'
  BY OwesStep
<1>3. Typed /\ Inv => EndedLeavesNothing
  <2> SUFFICES ASSUME Typed, NEW x \in Transfers, Owes(x), pc[x] \in {"done", "failed"}, Quiet(x),
                      NEW s \in Shards
               PROVE  leg[x][s] \notin {"begun", "active", "prepared"}
    BY DEF EndedLeavesNothing, Quiet
  <2>1. Open(x) = {} /\ at[x] = Len(legs[x]) + 1 /\ Len(legs[x]) \in Nat
    BY TypedParts DEF Owes, LoopTyped
  <2>2. ~StillOwed(x, s)
    BY <2>1 DEF StillOwed
  <2> QED BY <2>1, <2>2 DEF Owes, Open
<1> QED BY <1>1, <1>2, <1>3, TypedInit, TypedStep, PTL DEF Spec
=============================================================================
