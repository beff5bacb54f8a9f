---------------------------- MODULE OutboxProofs ----------------------------
(***************************************************************************)
(* Proofs about Outbox, for every set of shards, tenants, event ids,       *)
(* amounts and relays: the tables keep their types, what is marked         *)
(* delivered was applied, no balance goes below zero, the outbox           *)
(* implements the promise of Transfers, and money is neither made nor lost.*)
(***************************************************************************)
EXTENDS Outbox, FiniteSetTheorems, NaturalsInduction, TLAPS

(* Writing one cell of a table keeps the table's type. *)
LEMMA CellUpdate ==
  ASSUME NEW S, NEW T1, NEW V, NEW f \in [S -> [T1 -> V]], NEW s, NEW t, NEW v \in V
  PROVE  [f EXCEPT ![s][t] = v] \in [S -> [T1 -> V]]
OBVIOUS

(* What a relay holds after another state was written for relay r. *)
LEMMA RelayAt ==
  ASSUME TypeOK, NEW r \in Relays, NEW pc, NEW evs,
         relay' = [relay EXCEPT ![r] = [pc |-> pc, evs |-> evs]]
  PROVE  \A x \in Relays :
           /\ x = r => relay'[x].pc = pc /\ relay'[x].evs = evs
           /\ x # r => relay'[x] = relay[x]
BY DEF TypeOK

(* Moving a relay keeps the relays' type, when the new state is idle       *)
(* exactly if its batch is empty.                                          *)
LEMMA RelayUpdate ==
  ASSUME TypeOK, NEW r \in Relays, NEW pc \in {"idle", "apply", "mark"},
         NEW evs \in SUBSET EventIDs, pc = "idle" <=> evs = {},
         relay' = [relay EXCEPT ![r] = [pc |-> pc, evs |-> evs]]
  PROVE  /\ relay' \in [Relays -> RelayState]
         /\ \A x \in Relays : relay'[x].pc = "idle" <=> relay'[x].evs = {}
<1>1. [pc |-> pc, evs |-> evs] \in RelayState
  BY DEF RelayState
<1>2. relay' \in [Relays -> RelayState]
  BY <1>1 DEF TypeOK
<1>3. ASSUME NEW x \in Relays PROVE relay'[x].pc = "idle" <=> relay'[x].evs = {}
  <2>1. CASE x = r
    BY <2>1 DEF TypeOK
  <2>2. CASE x # r
    BY <2>2 DEF TypeOK
  <2> QED BY <2>1, <2>2
<1> QED BY <1>2, <1>3

(* What a row of an outbox is, field by field. *)
LEMMA RowFields ==
  ASSUME TypeOK, NEW s \in Shards, NEW e \in EventIDs, outbox[s][e] # NoRow
  PROVE  /\ outbox[s][e] \in Row
         /\ outbox[s][e].to \in Tenants
         /\ outbox[s][e].target \in Shards
         /\ outbox[s][e].cents \in Amounts
         /\ outbox[s][e].delivered \in BOOLEAN
<1>1. outbox[s][e] \in Row
  BY DEF TypeOK
<1> QED BY <1>1 DEF Row

(* Setting delivered_at leaves a row a row. *)
LEMMA RowUpdate ==
  ASSUME TypeOK, NEW s \in Shards, NEW e \in EventIDs, NEW b \in BOOLEAN,
         outbox[s][e] # NoRow
  PROVE  /\ [outbox[s][e] EXCEPT !.delivered = b] \in Row
         /\ [outbox[s][e] EXCEPT !.delivered = b] # NoRow
<1>1. outbox[s][e] \in Row
  BY RowFields
<1>2. [outbox[s][e] EXCEPT !.delivered = b] \in Row
  BY <1>1 DEF Row
<1> QED BY <1>2, OutboxAssumption

(* Setting delivered_at keeps the outboxes' type. *)
LEMMA DeliveredUpdate ==
  ASSUME TypeOK, NEW s \in Shards, NEW e \in EventIDs, NEW b \in BOOLEAN,
         outbox[s][e] # NoRow,
         outbox' = [outbox EXCEPT ![s][e].delivered = b]
  PROVE  outbox' \in [Shards -> [EventIDs -> Row \cup {NoRow}]]
<1>1. [outbox[s][e] EXCEPT !.delivered = b] \in Row
  BY RowUpdate
<1>2. outbox' = [outbox EXCEPT ![s][e] = [outbox[s][e] EXCEPT !.delivered = b]]
  OBVIOUS
<1> QED BY <1>1, <1>2, CellUpdate DEF TypeOK

-----------------------------------------------------------------------------
(* A relay only holds events of the outbox it drains. *)
BatchHasRows == \A r \in Relays : \A e \in relay[r].evs : outbox[Source[r]][e] # NoRow

(* What every step preserves on its own. *)
Typed == TypeOK /\ BatchHasRows

LEMMA TypedInit == Init => Typed
<1> SUFFICES ASSUME Init PROVE Typed
  OBVIOUS
<1> USE OutboxAssumption DEF Init
<1>1. ledger \in [Shards -> [Tenants -> Int \cup {NoRow}]]
  OBVIOUS
<1>2. relay \in [Relays -> RelayState] /\ \A r \in Relays : relay[r] = Idle
  BY DEF RelayState, Idle
<1> QED BY <1>1, <1>2 DEF Typed, TypeOK, BatchHasRows, Idle

LEMMA TypedStep == Typed /\ [Next]_vars => Typed'
<1> SUFFICES ASSUME Typed, [Next]_vars PROVE Typed'
  OBVIOUS
<1> USE OutboxAssumption
<1>t. TypeOK /\ BatchHasRows
  BY DEF Typed
<1>1. ASSUME NEW e \in EventIDs, NEW from \in Tenants, NEW to \in Tenants,
             NEW cents \in Amounts, Transfer(e, from, to, cents)
      PROVE  Typed'
  <2> DEFINE row == [to |-> to, target |-> Home[to], cents |-> cents, delivered |-> FALSE]
  <2>0. Home[from] \in Shards /\ cents \in Int /\ ledger[Home[from]][from] # NoRow
    BY <1>1 DEF Transfer, CanDebit
  <2>1. ledger[Home[from]][from] - cents \in Int \cup {NoRow}
    <3>1. ledger[Home[from]][from] \in Int
      BY <1>t, <2>0 DEF TypeOK
    <3> QED BY <2>0, <3>1
  <2>2. row \in Row \cup {NoRow}
    BY DEF Row
  <2>3. ledger' \in [Shards -> [Tenants -> Int \cup {NoRow}]]
    BY <1>1, <1>t, <2>1, CellUpdate DEF Transfer, TypeOK
  <2>4. outbox' \in [Shards -> [EventIDs -> Row \cup {NoRow}]]
    BY <1>1, <1>t, <2>2, CellUpdate DEF Transfer, TypeOK
  <2>5. BatchHasRows'
    <3> SUFFICES ASSUME NEW r \in Relays, NEW f \in relay[r].evs
                 PROVE  outbox'[Source[r]][f] # NoRow
      BY <1>1 DEF Transfer, BatchHasRows
    <3>1. outbox[Source[r]][f] # NoRow /\ f \in EventIDs
      BY <1>t DEF BatchHasRows, TypeOK, RelayState
    <3>2. row # NoRow
      <4>1. row \in Row
        BY DEF Row
      <4> QED BY <4>1
    <3> QED BY <1>1, <1>t, <3>1, <3>2 DEF Transfer, TypeOK
  <2> QED BY <1>1, <1>t, <2>3, <2>4, <2>5 DEF Transfer, Typed, TypeOK
<1>2. ASSUME NEW r \in Relays, Poll(r) PROVE Typed'
  <2>1. Polled(Source[r]) \in SUBSET EventIDs
    BY DEF Polled, Undelivered, Rows
  <2>2. /\ relay' \in [Relays -> RelayState]
        /\ \A x \in Relays : relay'[x].pc = "idle" <=> relay'[x].evs = {}
    BY <1>2, <1>t, <2>1, RelayUpdate DEF Poll, FirstStep
  <2>3. BatchHasRows'
    BY <1>2, <1>t DEF Poll, BatchHasRows, Polled, Undelivered, Rows, TypeOK
  <2> QED BY <1>2, <1>t, <2>2, <2>3 DEF Poll, Typed, TypeOK
<1>3. ASSUME NEW r \in Relays, Apply(r) PROVE Typed'
  <2> PICK e \in EventIDs :
        /\ relay[r].pc = "apply"
        /\ Current(r, e)
        /\ applied' = [applied EXCEPT ![outbox[Source[r]][e].target] = @ \cup {e}]
        /\ \/ UNCHANGED ledger
           \/ ledger' = [ledger EXCEPT ![outbox[Source[r]][e].target][outbox[Source[r]][e].to]
                           = CreditRow(@, outbox[Source[r]][e].cents)]
        /\ relay' = [relay EXCEPT ![r].pc = "mark"]
        /\ UNCHANGED <<outbox, replays>>
    BY <1>3 DEF Apply
  <2> DEFINE row == outbox[Source[r]][e]
  <2>0. row # NoRow /\ Source[r] \in Shards
    BY <1>t DEF Current, BatchHasRows
  <2>1. row.target \in Shards /\ row.to \in Tenants /\ row.cents \in Int
    BY <1>t, <2>0, RowFields
  <2>2. CreditRow(ledger[row.target][row.to], row.cents) \in Int \cup {NoRow}
    BY <1>t, <2>1 DEF CreditRow, TypeOK
  <2>3. ledger' \in [Shards -> [Tenants -> Int \cup {NoRow}]]
    <3>1. CASE UNCHANGED ledger
      BY <1>t, <3>1 DEF TypeOK
    <3>2. CASE ledger' = [ledger EXCEPT ![row.target][row.to] = CreditRow(@, row.cents)]
      <4> DEFINE v == CreditRow(ledger[row.target][row.to], row.cents)
      <4>1. ledger' = [ledger EXCEPT ![row.target][row.to] = v]
        BY <3>2
      <4>2. v \in Int \cup {NoRow}
        BY <2>2
      <4>3. ledger \in [Shards -> [Tenants -> Int \cup {NoRow}]]
        BY <1>t DEF TypeOK
      <4> HIDE DEF v, row
      <4> QED BY <4>1, <4>2, <4>3, CellUpdate
    <3> QED BY <3>1, <3>2
  <2>4. applied' \in [Shards -> SUBSET EventIDs]
    BY <1>t DEF TypeOK
  <2>5. relay' = [relay EXCEPT ![r] = [pc |-> "mark", evs |-> relay[r].evs]]
    <3>1. relay[r] \in RelayState
      BY <1>t DEF TypeOK
    <3>2. [relay[r] EXCEPT !.pc = "mark"] = [pc |-> "mark", evs |-> relay[r].evs]
      BY <3>1 DEF RelayState
    <3> QED BY <3>2
  <2>6. relay[r].evs \in SUBSET EventIDs /\ relay[r].evs # {}
    BY <1>t DEF TypeOK, RelayState, Current
  <2>7. /\ relay' \in [Relays -> RelayState]
        /\ \A x \in Relays : relay'[x].pc = "idle" <=> relay'[x].evs = {}
    BY <1>t, <2>5, <2>6, RelayUpdate
  <2>8. BatchHasRows'
    <3>1. \A x \in Relays : relay'[x].evs = relay[x].evs
      BY <1>t, <2>5, RelayAt
    <3> QED BY <1>t, <3>1 DEF BatchHasRows
  <2> QED BY <1>t, <2>3, <2>4, <2>7, <2>8 DEF Typed, TypeOK
<1>4. ASSUME NEW r \in Relays, Mark(r) PROVE Typed'
  <2> PICK e \in EventIDs :
        /\ Current(r, e)
        /\ outbox' = [outbox EXCEPT ![Source[r]][e].delivered = TRUE]
        /\ relay' = [relay EXCEPT ![r] = AfterMark(relay[r].evs \ {e})]
        /\ UNCHANGED <<ledger, applied, replays>>
    BY <1>4 DEF Mark
  <2> DEFINE rest == relay[r].evs \ {e}
             pc == IF rest = {} THEN "idle" ELSE "apply"
  <2>1. outbox[Source[r]][e] # NoRow /\ Source[r] \in Shards
    BY <1>t DEF Current, BatchHasRows
  <2>2. outbox' \in [Shards -> [EventIDs -> Row \cup {NoRow}]]
    BY <1>t, <2>1, DeliveredUpdate
  <2>3. rest \in SUBSET EventIDs /\ pc \in {"idle", "apply", "mark"} /\ (pc = "idle" <=> rest = {})
    BY <1>t DEF TypeOK, RelayState
  <2>4. relay' = [relay EXCEPT ![r] = [pc |-> pc, evs |-> rest]]
    BY DEF AfterMark, Idle
  <2>5. /\ relay' \in [Relays -> RelayState]
        /\ \A x \in Relays : relay'[x].pc = "idle" <=> relay'[x].evs = {}
    BY <1>t, <2>3, <2>4, RelayUpdate
  <2>6. BatchHasRows'
    <3> SUFFICES ASSUME NEW x \in Relays, NEW f \in relay'[x].evs
                 PROVE  outbox'[Source[x]][f] # NoRow
      BY DEF BatchHasRows
    <3>1. f \in relay[x].evs
      <4>1. rest \subseteq relay[r].evs
        OBVIOUS
      <4>2. (x = r => relay'[x].evs = rest) /\ (x # r => relay'[x] = relay[x])
        <5>1. DOMAIN relay = Relays
          BY <1>t DEF TypeOK
        <5> HIDE DEF rest, pc
        <5>2. relay' = [y \in Relays |-> IF y = r THEN [pc |-> pc, evs |-> rest] ELSE relay[y]]
          BY <2>4, <5>1
        <5> QED BY <5>2
      <4>3. f \in relay'[x].evs
        OBVIOUS
      <4>4. CASE x = r
        BY <4>1, <4>2, <4>3, <4>4, Zenon
      <4>5. CASE x # r
        BY <4>2, <4>3, <4>5, Zenon
      <4> QED BY <4>4, <4>5
    <3>2. outbox[Source[x]][f] # NoRow /\ f \in EventIDs /\ Source[x] \in Shards
      BY <1>t, <3>1 DEF BatchHasRows, TypeOK, RelayState
    <3>3. [outbox[Source[r]][e] EXCEPT !.delivered = TRUE] # NoRow
      BY <1>t, <2>1, RowUpdate
    <3> QED BY <1>t, <3>2, <3>3 DEF TypeOK
  <2> QED BY <1>t, <2>2, <2>5, <2>6 DEF Typed, TypeOK
<1>5. ASSUME NEW r \in Relays, TargetDown(r) \/ Abandon(r) PROVE Typed'
  <2>1. relay' = [relay EXCEPT ![r] = [pc |-> "idle", evs |-> {}]]
        /\ UNCHANGED <<ledger, outbox, applied, replays>>
    BY <1>5 DEF TargetDown, Abandon, Idle
  <2>2. /\ relay' \in [Relays -> RelayState]
        /\ \A x \in Relays : relay'[x].pc = "idle" <=> relay'[x].evs = {}
    <3>1. {} \in SUBSET EventIDs /\ ("idle" = "idle" <=> {} = {})
          /\ "idle" \in {"idle", "apply", "mark"}
      OBVIOUS
    <3> QED BY <1>t, <2>1, <3>1, RelayUpdate
  <2>3. BatchHasRows'
    BY <1>t, <2>1 DEF BatchHasRows, TypeOK
  <2> QED BY <1>t, <2>1, <2>2, <2>3 DEF Typed, TypeOK
<1>6. ASSUME NEW s \in Shards, NEW e \in EventIDs, Replay(s, e) PROVE Typed'
  <2>1. /\ outbox[s][e] # NoRow
        /\ outbox' = [outbox EXCEPT ![s][e].delivered = FALSE]
        /\ UNCHANGED <<ledger, applied, relay>>
    BY <1>6 DEF Replay, Rows
  <2>2. outbox' \in [Shards -> [EventIDs -> Row \cup {NoRow}]]
    BY <1>t, <2>1, DeliveredUpdate
  <2>3. replays' \in 0..MaxReplays
    BY <1>6, <1>t DEF Replay, TypeOK
  <2>4. BatchHasRows'
    <3> SUFFICES ASSUME NEW x \in Relays, NEW f \in relay[x].evs
                 PROVE  outbox'[Source[x]][f] # NoRow
      BY <2>1 DEF BatchHasRows
    <3>1. outbox[Source[x]][f] # NoRow /\ f \in EventIDs /\ Source[x] \in Shards
      BY <1>t DEF BatchHasRows, TypeOK, RelayState
    <3>2. [outbox[s][e] EXCEPT !.delivered = FALSE] # NoRow
      BY <1>t, <2>1, RowUpdate
    <3> QED BY <1>t, <2>1, <3>1, <3>2 DEF TypeOK
  <2> QED BY <1>t, <2>1, <2>2, <2>3, <2>4 DEF Typed, TypeOK
<1>7. CASE UNCHANGED vars
  BY <1>t, <1>7 DEF vars, Typed, TypeOK, BatchHasRows
<1> QED BY <1>1, <1>2, <1>3, <1>4, <1>5, <1>6, <1>7 DEF Next, RelayNext

(* Every step keeps the shape of the tables and of the relays' batches     *)
(* (schema.sql:35-60, outbox.go:32-134).                                   *)
THEOREM TypeCorrect == Spec => []TypeOK
<1>1. Spec => []Typed
  BY TypedInit, TypedStep, PTL DEF Spec
<1>2. Typed => TypeOK
  BY DEF Typed
<1> QED BY <1>1, <1>2, PTL

-----------------------------------------------------------------------------
(* An outbox row is never deleted and never rewritten but for delivered_at,*)
(* and an applied id is never forgotten.                                   *)
Kept ==
  /\ \A s \in Shards, e \in EventIDs : outbox[s][e] # NoRow =>
       /\ outbox'[s][e] # NoRow
       /\ outbox'[s][e].to = outbox[s][e].to
       /\ outbox'[s][e].target = outbox[s][e].target
       /\ outbox'[s][e].cents = outbox[s][e].cents
  /\ \A d \in Shards : applied[d] \subseteq applied'[d]

LEMMA RowsKept == Typed /\ [Next]_vars => Kept
<1> SUFFICES ASSUME Typed, [Next]_vars PROVE Kept
  OBVIOUS
<1>t. TypeOK /\ BatchHasRows
  BY DEF Typed
<1>1. ASSUME NEW s \in Shards, NEW e \in EventIDs, NEW b \in BOOLEAN, outbox[s][e] # NoRow,
             outbox' = [outbox EXCEPT ![s][e].delivered = b], UNCHANGED applied
      PROVE  Kept
  <2> DEFINE new == [outbox[s][e] EXCEPT !.delivered = b]
  <2>1. /\ new # NoRow
        /\ new.to = outbox[s][e].to
        /\ new.target = outbox[s][e].target
        /\ new.cents = outbox[s][e].cents
    <3>1. outbox[s][e] \in Row
      BY <1>1, <1>t, RowFields
    <3>2. new # NoRow
      BY <1>1, <1>t, RowUpdate
    <3> QED BY <3>1, <3>2 DEF Row
  <2>2. outbox' = [outbox EXCEPT ![s][e] = new]
    BY <1>1
  <2>3. outbox \in [Shards -> [EventIDs -> Row \cup {NoRow}]]
    BY <1>t DEF TypeOK
  <2> HIDE DEF new
  <2> QED BY <1>1, <2>1, <2>2, <2>3 DEF Kept
<1>2. ASSUME NEW e \in EventIDs, NEW from \in Tenants, NEW to \in Tenants,
             NEW cents \in Amounts, Transfer(e, from, to, cents)
      PROVE  Kept
  <2>1. outbox[Home[from]][e] = NoRow /\ Home[from] \in Shards
    BY <1>2, OutboxAssumption DEF Transfer, KeyFree
  <2>2. \A s \in Shards, f \in EventIDs :
          outbox[s][f] # NoRow => outbox'[s][f] = outbox[s][f]
    BY <1>2, <1>t, <2>1 DEF Transfer, TypeOK
  <2> QED BY <1>2, <2>2 DEF Transfer, Kept
<1>3. ASSUME NEW r \in Relays, Apply(r) PROVE Kept
  BY <1>3, <1>t DEF Apply, Kept, TypeOK
<1>4. ASSUME NEW r \in Relays, Mark(r) PROVE Kept
  <2>1. PICK e \in EventIDs :
          /\ Current(r, e)
          /\ outbox' = [outbox EXCEPT ![Source[r]][e].delivered = TRUE]
          /\ UNCHANGED applied
    BY <1>4 DEF Mark
  <2>2. outbox[Source[r]][e] # NoRow /\ Source[r] \in Shards
    BY <1>t, <2>1, OutboxAssumption DEF Current, BatchHasRows
  <2> QED BY <1>1, <2>1, <2>2
<1>5. ASSUME NEW s \in Shards, NEW e \in EventIDs, Replay(s, e) PROVE Kept
  BY <1>1, <1>5 DEF Replay, Rows
<1>6. ASSUME UNCHANGED <<outbox, applied>> PROVE Kept
  BY <1>6 DEF Kept
<1> QED
  BY <1>2, <1>3, <1>4, <1>5, <1>6 DEF Next, RelayNext, Poll, TargetDown, Abandon, vars

-----------------------------------------------------------------------------
(* A row is routed by the topology: to the home of the tenant it credits.  *)
RowsRouted == \A s \in Shards, e \in EventIDs :
  outbox[s][e] # NoRow => outbox[s][e].target = Home[outbox[s][e].to]

(* Nothing is applied that no outbox asked this shard for. *)
AppliedHaveRows == \A d \in Shards : \A e \in applied[d] :
  \E s \in Shards : outbox[s][e] # NoRow /\ outbox[s][e].target = d

(* A relay about to mark an event has seen it applied. *)
MarkApplied == \A r \in Relays, e \in EventIDs :
  relay[r].pc = "mark" /\ Current(r, e) => e \in applied[outbox[Source[r]][e].target]

IInv == /\ Typed
        /\ RowsRouted /\ AppliedHaveRows
        /\ MarkApplied /\ DeliveredImpliesApplied

LEMMA IInvInit == Init => IInv
<1> SUFFICES ASSUME Init PROVE IInv
  OBVIOUS
<1>1. /\ \A s \in Shards, e \in EventIDs : outbox[s][e] = NoRow
      /\ \A d \in Shards : applied[d] = {}
      /\ \A r \in Relays : relay[r].pc = "idle"
  BY DEF Init, Idle
<1>2. RowsRouted /\ AppliedHaveRows /\ MarkApplied
  BY <1>1 DEF RowsRouted, AppliedHaveRows, MarkApplied
<1>3. DeliveredImpliesApplied
  BY <1>1 DEF DeliveredImpliesApplied, Rows
<1> QED BY <1>2, <1>3, TypedInit DEF IInv

(* The step of each action that the invariant turns on. *)
LEMMA RoutingStep ==
  IInv /\ [Next]_vars => RowsRouted' /\ AppliedHaveRows'
<1> SUFFICES ASSUME IInv, [Next]_vars PROVE RowsRouted' /\ AppliedHaveRows'
  OBVIOUS
<1> USE OutboxAssumption
<1>t. TypeOK /\ BatchHasRows /\ RowsRouted /\ AppliedHaveRows
  BY DEF IInv, Typed
<1>k. Kept
  BY RowsKept DEF IInv
<1>0. ASSUME \A s \in Shards, e \in EventIDs : outbox'[s][e] # NoRow => outbox[s][e] # NoRow
      PROVE  RowsRouted'
  BY <1>0, <1>k, <1>t DEF RowsRouted, Kept
<1>a. ASSUME applied' = applied PROVE AppliedHaveRows'
  <2> SUFFICES ASSUME NEW d \in Shards, NEW e \in applied[d]
               PROVE  \E s \in Shards : outbox'[s][e] # NoRow /\ outbox'[s][e].target = d
    BY <1>a DEF AppliedHaveRows
  <2>1. e \in EventIDs
    BY <1>t DEF TypeOK
  <2>2. PICK s \in Shards : outbox[s][e] # NoRow /\ outbox[s][e].target = d
    BY <1>t DEF AppliedHaveRows
  <2> QED BY <1>k, <2>1, <2>2 DEF Kept
<1>1. ASSUME NEW e \in EventIDs, NEW from \in Tenants, NEW to \in Tenants,
             NEW cents \in Amounts, Transfer(e, from, to, cents)
      PROVE  RowsRouted' /\ AppliedHaveRows'
  <2> DEFINE row == [to |-> to, target |-> Home[to], cents |-> cents, delivered |-> FALSE]
  <2>1. \A s \in Shards, f \in EventIDs :
          outbox'[s][f] = IF s = Home[from] /\ f = e THEN row ELSE outbox[s][f]
    BY <1>1, <1>t DEF Transfer, TypeOK
  <2>2. RowsRouted'
    BY <1>t, <2>1 DEF RowsRouted
  <2>3. AppliedHaveRows'
    BY <1>1, <1>a DEF Transfer
  <2> QED BY <2>2, <2>3
<1>2. ASSUME NEW r \in Relays, Apply(r)
      PROVE  RowsRouted' /\ AppliedHaveRows'
  <2>1. PICK e \in EventIDs :
          /\ Current(r, e)
          /\ applied' = [applied EXCEPT ![outbox[Source[r]][e].target] = @ \cup {e}]
          /\ outbox' = outbox
    BY <1>2 DEF Apply
  <2>2. outbox[Source[r]][e] # NoRow /\ Source[r] \in Shards
    BY <1>t, <2>1 DEF Current, BatchHasRows
  <2>3. AppliedHaveRows'
    <3> SUFFICES ASSUME NEW d \in Shards, NEW f \in applied'[d]
                 PROVE  \E s \in Shards : outbox[s][f] # NoRow /\ outbox[s][f].target = d
      BY <2>1 DEF AppliedHaveRows
    <3>1. CASE f \in applied[d]
      BY <1>t, <3>1 DEF AppliedHaveRows
    <3>2. CASE f \notin applied[d]
      <4>1. f = e /\ d = outbox[Source[r]][e].target
        BY <1>t, <2>1, <3>2 DEF TypeOK
      <4> QED BY <2>2, <4>1
    <3> QED BY <3>1, <3>2
  <2> QED BY <1>0, <2>1, <2>3
<1>3. ASSUME NEW s \in Shards, NEW e \in EventIDs, NEW b \in BOOLEAN, outbox[s][e] # NoRow,
             outbox' = [outbox EXCEPT ![s][e].delivered = b], applied' = applied
      PROVE  RowsRouted' /\ AppliedHaveRows'
  <2>1. \A x \in Shards, f \in EventIDs : outbox'[x][f] # NoRow => outbox[x][f] # NoRow
    <3>1. \A x \in Shards, f \in EventIDs : x # s \/ f # e => outbox'[x][f] = outbox[x][f]
      BY <1>3, <1>t DEF TypeOK
    <3> QED BY <1>3, <3>1
  <2> QED BY <1>0, <1>3, <1>a, <2>1
<1>4. ASSUME NEW r \in Relays, Mark(r)
      PROVE  RowsRouted' /\ AppliedHaveRows'
  <2>1. PICK e \in EventIDs :
          /\ Current(r, e)
          /\ outbox' = [outbox EXCEPT ![Source[r]][e].delivered = TRUE]
          /\ applied' = applied
    BY <1>4 DEF Mark
  <2>2. outbox[Source[r]][e] # NoRow /\ Source[r] \in Shards
    BY <1>t, <2>1 DEF Current, BatchHasRows
  <2> QED BY <1>3, <2>1, <2>2
<1>5. ASSUME NEW s \in Shards, NEW e \in EventIDs, Replay(s, e)
      PROVE  RowsRouted' /\ AppliedHaveRows'
  BY <1>3, <1>5 DEF Replay, Rows
<1>6. ASSUME UNCHANGED <<outbox, applied>>
      PROVE  RowsRouted' /\ AppliedHaveRows'
  BY <1>0, <1>6, <1>a
<1> QED
  BY <1>1, <1>2, <1>4, <1>5, <1>6 DEF Next, RelayNext, Poll, TargetDown, Abandon, vars

LEMMA AppliedFirstStep ==
  IInv /\ [Next]_vars => MarkApplied' /\ DeliveredImpliesApplied'
<1> SUFFICES ASSUME IInv, [Next]_vars PROVE MarkApplied' /\ DeliveredImpliesApplied'
  OBVIOUS
<1> USE OutboxAssumption
<1>t. TypeOK /\ BatchHasRows /\ MarkApplied /\ DeliveredImpliesApplied
  BY DEF IInv, Typed
<1>k. Kept
  BY RowsKept DEF IInv
(* A relay that was already at mark with e, or moved elsewhere. *)
<1>m. ASSUME \A r \in Relays, e \in EventIDs :
               relay'[r].pc = "mark" /\ Current(r, e)' => relay[r].pc = "mark" /\ Current(r, e)
      PROVE  MarkApplied'
  <2> SUFFICES ASSUME NEW r \in Relays, NEW e \in EventIDs, relay'[r].pc = "mark", Current(r, e)'
               PROVE  e \in applied'[outbox'[Source[r]][e].target]
    BY DEF MarkApplied
  <2>1. relay[r].pc = "mark" /\ Current(r, e)
    BY <1>m
  <2>2. outbox[Source[r]][e] # NoRow /\ Source[r] \in Shards
    BY <1>t, <2>1 DEF Current, BatchHasRows
  <2>3. e \in applied[outbox[Source[r]][e].target] /\ outbox[Source[r]][e].target \in Shards
    BY <1>t, <2>1, <2>2, RowFields DEF MarkApplied
  <2> QED BY <1>k, <2>2, <2>3 DEF Kept
<1>n. ASSUME relay' = relay PROVE MarkApplied'
  BY <1>m, <1>n DEF Current
(* A row delivered now was delivered before, or has been applied. *)
<1>d. ASSUME \A s \in Shards, e \in EventIDs :
               outbox'[s][e] # NoRow /\ outbox'[s][e].delivered
                 => /\ outbox[s][e] # NoRow
                    /\ \/ outbox[s][e].delivered
                       \/ e \in applied[outbox[s][e].target]
      PROVE  DeliveredImpliesApplied'
  <2> SUFFICES ASSUME NEW s \in Shards, NEW e \in EventIDs,
                      outbox'[s][e] # NoRow, outbox'[s][e].delivered
               PROVE  e \in applied'[outbox'[s][e].target]
    BY DEF DeliveredImpliesApplied, Rows
  <2>1. outbox[s][e] # NoRow /\ e \in applied[outbox[s][e].target]
    BY <1>d, <1>t DEF DeliveredImpliesApplied, Rows
  <2>2. outbox[s][e].target \in Shards
    BY <1>t, <2>1, RowFields
  <2> QED BY <1>k, <2>1, <2>2 DEF Kept
<1>o. ASSUME outbox' = outbox PROVE DeliveredImpliesApplied'
  BY <1>d, <1>o
<1>1. ASSUME NEW e \in EventIDs, NEW from \in Tenants, NEW to \in Tenants,
             NEW cents \in Amounts, Transfer(e, from, to, cents)
      PROVE  MarkApplied' /\ DeliveredImpliesApplied'
  <2> DEFINE row == [to |-> to, target |-> Home[to], cents |-> cents, delivered |-> FALSE]
  <2>1. \A s \in Shards, f \in EventIDs :
          outbox'[s][f] = IF s = Home[from] /\ f = e THEN row ELSE outbox[s][f]
    BY <1>1, <1>t DEF Transfer, TypeOK
  <2>2. ~row.delivered
    OBVIOUS
  <2> HIDE DEF row
  <2> QED BY <1>1, <1>n, <1>d, <2>1, <2>2 DEF Transfer
<1>2. ASSUME NEW r \in Relays, Poll(r) PROVE MarkApplied' /\ DeliveredImpliesApplied'
  <2>1. \A x \in Relays : x # r => relay'[x] = relay[x]
    BY <1>2, <1>t DEF Poll, TypeOK
  <2>2. relay'[r].pc = "apply"
    BY <1>2, <1>t DEF Poll, FirstStep, TypeOK
  <2> QED BY <1>2, <1>m, <1>o, <2>1, <2>2 DEF Poll, Current
<1>3. ASSUME NEW r \in Relays, Apply(r) PROVE MarkApplied' /\ DeliveredImpliesApplied'
  <2>1. PICK e \in EventIDs :
          /\ Current(r, e)
          /\ applied' = [applied EXCEPT ![outbox[Source[r]][e].target] = @ \cup {e}]
          /\ relay' = [relay EXCEPT ![r].pc = "mark"]
          /\ outbox' = outbox
    BY <1>3 DEF Apply
  <2>2. \A x \in Relays : x # r => relay'[x] = relay[x]
    BY <1>t, <2>1 DEF TypeOK
  <2>3. relay'[r].evs = relay[r].evs
    <3>1. relay[r] \in RelayState
      BY <1>t DEF TypeOK
    <3> QED BY <1>t, <2>1, <3>1 DEF TypeOK, RelayState
  <2>4. outbox[Source[r]][e] # NoRow /\ Source[r] \in Shards
    BY <1>t, <2>1 DEF Current, BatchHasRows
  <2>5. e \in applied'[outbox[Source[r]][e].target]
    BY <1>t, <2>1, <2>4, RowFields DEF TypeOK
  <2>6. MarkApplied'
    <3> SUFFICES ASSUME NEW x \in Relays, NEW f \in EventIDs, relay'[x].pc = "mark", Current(x, f)'
                 PROVE  f \in applied'[outbox[Source[x]][f].target]
      BY <2>1 DEF MarkApplied
    <3>1. CASE x = r
      <4>1. Current(r, f)
        BY <2>3, <3>1 DEF Current
      <4>2. f \in Int /\ e \in Int
        OBVIOUS
      <4>3. f = e
        BY <2>1, <4>1, <4>2 DEF Current
      <4> QED BY <2>5, <3>1, <4>3
    <3>2. CASE x # r
      <4>1. relay[x].pc = "mark" /\ Current(x, f)
        BY <2>2, <3>2 DEF Current
      <4>2. outbox[Source[x]][f] # NoRow /\ Source[x] \in Shards
        BY <1>t, <4>1 DEF Current, BatchHasRows
      <4>3. f \in applied[outbox[Source[x]][f].target] /\ outbox[Source[x]][f].target \in Shards
        BY <1>t, <4>1, <4>2, RowFields DEF MarkApplied
      <4> QED BY <1>k, <4>3 DEF Kept
    <3> QED BY <3>1, <3>2
  <2> QED BY <1>o, <2>1, <2>6
<1>4. ASSUME NEW r \in Relays, Mark(r) PROVE MarkApplied' /\ DeliveredImpliesApplied'
  <2>1. PICK e \in EventIDs :
          /\ relay[r].pc = "mark"
          /\ Current(r, e)
          /\ outbox' = [outbox EXCEPT ![Source[r]][e].delivered = TRUE]
          /\ relay' = [relay EXCEPT ![r] = AfterMark(relay[r].evs \ {e})]
    BY <1>4 DEF Mark
  <2>2. outbox[Source[r]][e] # NoRow /\ Source[r] \in Shards
    BY <1>t, <2>1 DEF Current, BatchHasRows
  <2>3. e \in applied[outbox[Source[r]][e].target]
    BY <1>t, <2>1 DEF MarkApplied
  <2>4. \A x \in Relays : x # r => relay'[x] = relay[x]
    BY <1>t, <2>1 DEF TypeOK
  <2>5. relay'[r].pc # "mark"
    <3>1. relay'[r] = AfterMark(relay[r].evs \ {e})
      BY <1>t, <2>1 DEF TypeOK
    <3> QED BY <3>1 DEF AfterMark, Idle
  <2>6. \A s \in Shards, f \in EventIDs :
          s # Source[r] \/ f # e => outbox'[s][f] = outbox[s][f]
    BY <1>t, <2>1 DEF TypeOK
  <2>7. MarkApplied'
    BY <1>m, <2>4, <2>5 DEF Current
  <2> QED BY <1>d, <2>2, <2>3, <2>6, <2>7
<1>5. ASSUME NEW r \in Relays, TargetDown(r) \/ Abandon(r)
      PROVE  MarkApplied' /\ DeliveredImpliesApplied'
  <2>1. outbox' = outbox /\ relay' = [relay EXCEPT ![r] = Idle]
    BY <1>5 DEF TargetDown, Abandon
  <2>2. relay'[r].pc = "idle" /\ \A x \in Relays : x # r => relay'[x] = relay[x]
    BY <1>t, <2>1 DEF TypeOK, Idle
  <2> QED BY <1>m, <1>o, <2>1, <2>2 DEF Current
<1>6. ASSUME NEW s \in Shards, NEW e \in EventIDs, Replay(s, e)
      PROVE  MarkApplied' /\ DeliveredImpliesApplied'
  <2>1. /\ outbox[s][e] # NoRow
        /\ outbox' = [outbox EXCEPT ![s][e].delivered = FALSE]
        /\ relay' = relay
    BY <1>6 DEF Replay, Rows
  <2>2. \A x \in Shards, f \in EventIDs : x # s \/ f # e => outbox'[x][f] = outbox[x][f]
    BY <1>t, <2>1 DEF TypeOK
  <2>3. ~outbox'[s][e].delivered
    <3>1. outbox[s][e] \in Row
      BY <1>t, <2>1, RowFields
    <3>2. outbox'[s][e] = [outbox[s][e] EXCEPT !.delivered = FALSE]
      BY <1>t, <2>1 DEF TypeOK
    <3> QED BY <3>1, <3>2 DEF Row
  <2> QED BY <1>n, <1>d, <2>1, <2>2, <2>3
<1>7. CASE UNCHANGED vars
  BY <1>7, <1>n, <1>o DEF vars
<1> QED BY <1>1, <1>2, <1>3, <1>4, <1>5, <1>6, <1>7 DEF Next, RelayNext

(* The invariant the theorems below rest on. *)
LEMMA IInvStep == IInv /\ [Next]_vars => IInv'
BY TypedStep, RoutingStep, AppliedFirstStep DEF IInv

LEMMA Invariance == Spec => []IInv
BY IInvInit, IInvStep, PTL DEF Spec

(* Rows are kept, so ids that are unique have always been.                 *)
LEMMA UniqueBefore ==
  ASSUME IInv, [Next]_vars, UniqueIDs'
  PROVE  UniqueIDs
<1>1. Kept
  BY RowsKept DEF IInv
<1> QED BY <1>1 DEF Kept, UniqueIDs

(* Where the ids stay unique, a transfer's id is new on every shard.       *)
LEMMA FreshEverywhere ==
  ASSUME IInv, IInv', UniqueIDs', NEW e \in EventIDs, NEW from \in Tenants,
         NEW to \in Tenants, NEW cents \in Amounts, Transfer(e, from, to, cents)
  PROVE  \A s \in Shards : outbox[s][e] = NoRow
<1> DEFINE row == [to |-> to, target |-> Home[to], cents |-> cents, delivered |-> FALSE]
<1> USE OutboxAssumption
<1>t. TypeOK
  BY DEF IInv, Typed
<1>1. row # NoRow
  <2>1. row \in Row
    BY DEF Row
  <2> QED BY <2>1
<1>2. outbox[Home[from]][e] = NoRow /\ Home[from] \in Shards
  BY DEF Transfer, KeyFree
<1>3. \A s \in Shards : outbox'[s][e] = IF s = Home[from] THEN row ELSE outbox[s][e]
  BY <1>t DEF Transfer, TypeOK
<1> HIDE DEF row
<1> QED BY <1>1, <1>2, <1>3 DEF UniqueIDs

(* What an outbox marks delivered its target has applied: RelayOnce marks  *)
(* after the apply committed (outbox.go:103-131), and neither a second     *)
(* relay, a stale batch nor a replay breaks it.                            *)
THEOREM DeliveredWasApplied == Spec => []DeliveredImpliesApplied
<1>1. IInv => DeliveredImpliesApplied
  BY DEF IInv
<1> QED BY <1>1, Invariance, PTL

-----------------------------------------------------------------------------
LEMMA NoOverdraftStep == Typed /\ NoOverdraft /\ [Next]_vars => NoOverdraft'
<1> SUFFICES ASSUME Typed, NoOverdraft, [Next]_vars, Amounts \subseteq Nat,
                    NEW s \in Shards, NEW t \in Tenants, ledger'[s][t] # NoRow
             PROVE  ledger'[s][t] >= 0
  BY DEF NoOverdraft
<1> USE OutboxAssumption
<1>t. TypeOK /\ BatchHasRows
  BY DEF Typed
<1>0. CASE ledger' = ledger
  BY <1>0 DEF NoOverdraft
<1>1. ASSUME NEW e \in EventIDs, NEW from \in Tenants, NEW to \in Tenants,
             NEW cents \in Amounts, Transfer(e, from, to, cents)
      PROVE  ledger'[s][t] >= 0
  <2>1. /\ ledger[Home[from]][from] # NoRow
        /\ ledger[Home[from]][from] >= cents
        /\ ledger' = [ledger EXCEPT ![Home[from]][from] = ledger[Home[from]][from] - cents]
    BY <1>1 DEF Transfer, CanDebit
  <2>2. ledger[Home[from]][from] \in Int /\ cents \in Int
    <3>1. Home[from] \in Shards /\ cents \in Int
      OBVIOUS
    <3>2. ledger \in [Shards -> [Tenants -> Int \cup {NoRow}]]
      BY <1>t DEF TypeOK
    <3>3. ledger[Home[from]] \in [Tenants -> Int \cup {NoRow}]
      BY <3>1, <3>2
    <3>4. ledger[Home[from]][from] \in Int \cup {NoRow}
      BY <3>3
    <3> QED BY <2>1, <3>1, <3>4
  <2>3. CASE s = Home[from] /\ t = from
    <3>1. ledger'[s][t] = ledger[Home[from]][from] - cents
      BY <1>t, <2>1, <2>3 DEF TypeOK
    <3> QED BY <2>1, <2>2, <3>1
  <2>4. CASE ~(s = Home[from] /\ t = from)
    <3>1. ledger'[s][t] = ledger[s][t]
      BY <1>t, <2>1, <2>4 DEF TypeOK
    <3> QED BY <3>1 DEF NoOverdraft
  <2> QED BY <2>3, <2>4
<1>2. ASSUME NEW r \in Relays, Apply(r) PROVE ledger'[s][t] >= 0
  <2> PICK e \in EventIDs :
        /\ Current(r, e)
        /\ \/ ledger' = ledger
           \/ ledger' = [ledger EXCEPT ![outbox[Source[r]][e].target][outbox[Source[r]][e].to]
                           = CreditRow(@, outbox[Source[r]][e].cents)]
    BY <1>2 DEF Apply
  <2> DEFINE row == outbox[Source[r]][e]
             v == CreditRow(ledger[row.target][row.to], row.cents)
  <2>1. row # NoRow /\ Source[r] \in Shards
    BY <1>t DEF Current, BatchHasRows
  <2>2. row.target \in Shards /\ row.to \in Tenants /\ row.cents \in Nat
    BY <1>t, <2>1, RowFields
  <2>3. CASE ledger' = [ledger EXCEPT ![row.target][row.to] = v]
    <3>1. v >= 0
      <4>1. CASE ledger[row.target][row.to] = NoRow
        BY <2>2, <4>1 DEF CreditRow
      <4>2. CASE ledger[row.target][row.to] # NoRow
        <5>1. ledger[row.target][row.to] \in Int /\ ledger[row.target][row.to] >= 0
          BY <1>t, <2>2, <4>2 DEF TypeOK, NoOverdraft
        <5> QED BY <2>2, <4>2, <5>1 DEF CreditRow
      <4> QED BY <4>1, <4>2
    <3>2. ledger'[s][t] = v \/ ledger'[s][t] = ledger[s][t]
      <4> HIDE DEF v
      <4> QED BY <1>t, <2>2, <2>3 DEF TypeOK
    <3> QED BY <3>1, <3>2 DEF NoOverdraft
  <2> QED BY <1>0, <2>3
<1> QED
  BY <1>0, <1>1, <1>2 DEF Next, RelayNext, Poll, Mark, TargetDown, Abandon, Replay, vars

(* No interleaving of debits and credits overdraws an account: the check   *)
(* and the debit are one statement (outbox.go:42-43).  The assumption that *)
(* amounts are not negative is the caller's: Transfer does not check it.   *)
THEOREM NeverOverdrawn == Spec => []NoOverdraft
<1>1. Init => NoOverdraft
  BY OutboxAssumption DEF Init, NoOverdraft
<1> QED BY <1>1, TypedInit, TypedStep, NoOverdraftStep, PTL DEF Spec

-----------------------------------------------------------------------------
(* Under UniqueIDs, TransferOf is what the one row with that id says.      *)
LEMMA TransferOfRow ==
  UniqueIDs =>
    \A s \in Shards, e \in EventIDs : outbox[s][e] # NoRow =>
      TransferOf[e] = [to |-> outbox[s][e].to, cents |-> outbox[s][e].cents,
                       credited |-> e \in applied[outbox[s][e].target]]
<1> SUFFICES ASSUME UniqueIDs, NEW s \in Shards, NEW e \in EventIDs, outbox[s][e] # NoRow
             PROVE  TransferOf[e] = [to |-> outbox[s][e].to, cents |-> outbox[s][e].cents,
                                     credited |-> e \in applied[outbox[s][e].target]]
  OBVIOUS
<1>1. (CHOOSE x \in Shards : outbox[x][e] # NoRow) = s
  BY DEF UniqueIDs
<1> QED BY <1>1 DEF TransferOf

LEMMA CreditedRecord ==
  ASSUME NEW to, NEW cents, NEW before, NEW after
  PROVE  [[to |-> to, cents |-> cents, credited |-> before] EXCEPT !.credited = after]
           = [to |-> to, cents |-> cents, credited |-> after]
OBVIOUS

LEMMA TransferOfNone ==
  \A e \in EventIDs : (\A s \in Shards : outbox[s][e] = NoRow) => TransferOf[e] = NoRow
BY DEF TransferOf

(* The same, in the state after a step. *)
LEMMA TransferOfNext ==
  UniqueIDs' =>
    \A s \in Shards, e \in EventIDs : outbox'[s][e] # NoRow =>
      TransferOf'[e] = [to |-> outbox'[s][e].to, cents |-> outbox'[s][e].cents,
                        credited |-> e \in applied'[outbox'[s][e].target]]
<1> SUFFICES ASSUME UniqueIDs', NEW s \in Shards, NEW e \in EventIDs, outbox'[s][e] # NoRow
             PROVE  TransferOf'[e] = [to |-> outbox'[s][e].to, cents |-> outbox'[s][e].cents,
                                      credited |-> e \in applied'[outbox'[s][e].target]]
  OBVIOUS
<1>1. (CHOOSE x \in Shards : outbox'[x][e] # NoRow) = s
  BY DEF UniqueIDs
<1> QED BY <1>1 DEF TransferOf

LEMMA TransferOfNoneNext ==
  \A e \in EventIDs : (\A s \in Shards : outbox'[s][e] = NoRow) => TransferOf'[e] = NoRow
BY DEF TransferOf

(* A step that leaves the ids, the contents and the applied ids of all     *)
(* rows alone leaves the promise's transfers alone.                        *)
LEMMA TransferOfSame ==
  ASSUME UniqueIDs, UniqueIDs', Kept, applied' = applied,
         \A s \in Shards, e \in EventIDs : outbox'[s][e] # NoRow => outbox[s][e] # NoRow
  PROVE  TransferOf' = TransferOf
<1>1. ASSUME NEW e \in EventIDs PROVE TransferOf'[e] = TransferOf[e]
  <2>1. CASE \A s \in Shards : outbox[s][e] = NoRow
    BY <2>1, TransferOfNone, TransferOfNoneNext
  <2>2. ASSUME NEW s \in Shards, outbox[s][e] # NoRow PROVE TransferOf'[e] = TransferOf[e]
    <3>1. TransferOf[e] = [to |-> outbox[s][e].to, cents |-> outbox[s][e].cents,
                           credited |-> e \in applied[outbox[s][e].target]]
      BY <2>2, TransferOfRow
    <3>2. /\ outbox'[s][e] # NoRow
          /\ outbox'[s][e].to = outbox[s][e].to
          /\ outbox'[s][e].target = outbox[s][e].target
          /\ outbox'[s][e].cents = outbox[s][e].cents
      BY <2>2 DEF Kept
    <3>3. TransferOf'[e] = [to |-> outbox'[s][e].to, cents |-> outbox'[s][e].cents,
                            credited |-> e \in applied'[outbox'[s][e].target]]
      BY <3>2, TransferOfNext
    <3> QED BY <3>1, <3>2, <3>3
  <2> QED BY <2>1, <2>2
<1> QED BY <1>1 DEF TransferOf

LEMMA RefinesInit == Init => T!Init
<1> SUFFICES ASSUME Init PROVE T!Init
  OBVIOUS
<1>1. BalanceOf = Opening
  BY OutboxAssumption DEF Init, BalanceOf
<1>2. TransferOf = [e \in EventIDs |-> NoRow]
  BY DEF Init, TransferOf
<1> QED BY <1>1, <1>2 DEF T!Init

LEMMA RefinesStep ==
  IInv /\ IInv' /\ [Next]_vars => (UniqueIDs' => T!Next \/ UNCHANGED T!vars)
<1> SUFFICES ASSUME IInv, IInv', [Next]_vars, UniqueIDs' PROVE T!Next \/ UNCHANGED T!vars
  OBVIOUS
<1> USE OutboxAssumption
<1>t. TypeOK /\ BatchHasRows /\ RowsRouted /\ UniqueIDs /\ UniqueIDs' /\ AppliedHaveRows /\ TypeOK'
  BY UniqueBefore DEF IInv, Typed
<1>k. Kept
  BY RowsKept DEF IInv
<1>0. ASSUME ledger' = ledger, applied' = applied,
             \A s \in Shards, e \in EventIDs : outbox'[s][e] # NoRow => outbox[s][e] # NoRow
      PROVE  UNCHANGED T!vars
  <2>1. TransferOf' = TransferOf
    BY <1>0, <1>t, <1>k, TransferOfSame
  <2> QED BY <1>0, <2>1 DEF T!vars, BalanceOf
<1>1. ASSUME NEW e \in EventIDs, NEW from \in Tenants, NEW to \in Tenants,
             NEW cents \in Amounts, Transfer(e, from, to, cents)
      PROVE  T!Send(e, from, to, cents)
  <2> DEFINE row == [to |-> to, target |-> Home[to], cents |-> cents, delivered |-> FALSE]
             sent == [to |-> to, cents |-> cents, credited |-> FALSE]
  <2>1. /\ \A s \in Shards : outbox[s][e] = NoRow
        /\ ledger[Home[from]][from] # NoRow
        /\ ledger[Home[from]][from] >= cents
        /\ ledger' = [ledger EXCEPT ![Home[from]][from] = @ - cents]
        /\ applied' = applied
    BY <1>1, FreshEverywhere DEF Transfer, CanDebit
  <2>2. \A s \in Shards, f \in EventIDs :
          outbox'[s][f] = IF s = Home[from] /\ f = e THEN row ELSE outbox[s][f]
    BY <1>1, <1>t DEF Transfer, TypeOK
  <2>3. row # NoRow
    <3>1. row \in Row
      BY DEF Row
    <3> QED BY <3>1
  <2>4. TransferOf[e] = NoRow
    BY <2>1, TransferOfNone
  <2>5. BalanceOf' = [BalanceOf EXCEPT ![from] = @ - cents]
    <3>1. \A t \in Tenants :
            ledger'[Home[t]][t] = IF t = from THEN ledger[Home[from]][from] - cents
                                              ELSE ledger[Home[t]][t]
      BY <1>t, <2>1 DEF TypeOK
    <3> QED BY <3>1 DEF BalanceOf
  <2>6. ~(e \in applied'[Home[to]])
    BY <1>t, <2>1 DEF AppliedHaveRows
  <2>7. TransferOf'[e] = sent
    <3>1. outbox'[Home[from]][e] = row
      BY <2>2
    <3>2. TransferOf'[e] = [to |-> row.to, cents |-> row.cents,
                            credited |-> e \in applied'[row.target]]
      <4> HIDE DEF row
      <4> QED BY <1>t, <2>3, <3>1, TransferOfNext
    <3>3. (e \in applied'[row.target]) = FALSE
      BY <2>6
    <3> QED BY <3>2, <3>3
  <2>8. \A f \in EventIDs : f # e => TransferOf'[f] = TransferOf[f]
    <3> SUFFICES ASSUME NEW f \in EventIDs, f # e PROVE TransferOf'[f] = TransferOf[f]
      OBVIOUS
    <3>1. \A s \in Shards : outbox'[s][f] = outbox[s][f]
      BY <2>2
    <3>2. CASE \A s \in Shards : outbox[s][f] = NoRow
      BY <3>1, <3>2, TransferOfNone, TransferOfNoneNext
    <3>3. ASSUME NEW s \in Shards, outbox[s][f] # NoRow PROVE TransferOf'[f] = TransferOf[f]
      <4>1. TransferOf[f] = [to |-> outbox[s][f].to, cents |-> outbox[s][f].cents,
                             credited |-> f \in applied[outbox[s][f].target]]
        BY <1>t, <3>3, TransferOfRow
      <4>2. TransferOf'[f] = [to |-> outbox'[s][f].to, cents |-> outbox'[s][f].cents,
                              credited |-> f \in applied'[outbox'[s][f].target]]
        BY <1>t, <3>1, <3>3, TransferOfNext
      <4> QED BY <2>1, <3>1, <4>1, <4>2
    <3> QED BY <3>2, <3>3
  <2>9. TransferOf' = [TransferOf EXCEPT ![e] = sent]
    <3>1. TransferOf = [f \in EventIDs |-> TransferOf[f]] /\ TransferOf' = [f \in EventIDs |-> TransferOf'[f]]
      BY DEF TransferOf
    <3> HIDE DEF sent
    <3> QED BY <2>7, <2>8, <3>1
  <2>10. BalanceOf[from] # NoRow /\ BalanceOf[from] >= cents
    BY <2>1 DEF BalanceOf
  <2> QED BY <2>4, <2>5, <2>9, <2>10 DEF T!Send
<1>2. ASSUME NEW r \in Relays, Apply(r)
      PROVE  UNCHANGED T!vars \/ \E e \in EventIDs : T!Credit(e)
  <2>1. PICK e \in EventIDs :
          /\ Current(r, e)
          /\ applied' = [applied EXCEPT ![outbox[Source[r]][e].target] = @ \cup {e}]
          /\ IF AlreadyApplied(outbox[Source[r]][e].target, e)
               THEN UNCHANGED ledger
               ELSE ledger' = [ledger EXCEPT ![outbox[Source[r]][e].target][outbox[Source[r]][e].to]
                                 = CreditRow(@, outbox[Source[r]][e].cents)]
          /\ outbox' = outbox
    BY <1>2 DEF Apply
  <2> DEFINE row == outbox[Source[r]][e]
  <2>2. row # NoRow /\ Source[r] \in Shards
    BY <1>t, <2>1 DEF Current, BatchHasRows
  <2>3. /\ row.target \in Shards /\ row.to \in Tenants
        /\ row.target = Home[row.to]
    BY <1>t, <2>2, RowFields DEF RowsRouted
  <2>4. CASE e \in applied[row.target]
    <3>1. applied' = applied
      BY <1>t, <2>1, <2>4 DEF TypeOK
    <3>2. ledger' = ledger
      BY <2>1, <2>4 DEF AlreadyApplied
    <3> QED BY <1>0, <2>1, <3>1, <3>2
  <2>5. CASE e \notin applied[row.target]
    <3> DEFINE old == [to |-> row.to, cents |-> row.cents, credited |-> FALSE]
               new == [to |-> row.to, cents |-> row.cents, credited |-> TRUE]
    <3>1. TransferOf[e] = old
      <4>1. TransferOf[e] = [to |-> row.to, cents |-> row.cents, credited |-> e \in applied[row.target]]
        BY <1>t, <2>2, TransferOfRow
      <4>2. (e \in applied[row.target]) = FALSE
        BY <2>5
      <4> HIDE DEF row
      <4> QED BY <4>1, <4>2
    <3>2. TransferOf'[e] = new
      <4>1. TransferOf'[e] = [to |-> row.to, cents |-> row.cents, credited |-> e \in applied'[row.target]]
        BY <1>t, <2>1, <2>2, TransferOfNext
      <4>2. e \in applied'[row.target]
        BY <1>t, <2>1, <2>3 DEF TypeOK
      <4> QED BY <4>1, <4>2
    <3>3. \A f \in EventIDs : f # e => TransferOf'[f] = TransferOf[f]
      <4> SUFFICES ASSUME NEW f \in EventIDs, f # e PROVE TransferOf'[f] = TransferOf[f]
        OBVIOUS
      <4>1. CASE \A s \in Shards : outbox[s][f] = NoRow
        BY <2>1, <4>1, TransferOfNone, TransferOfNoneNext
      <4>2. ASSUME NEW s \in Shards, outbox[s][f] # NoRow PROVE TransferOf'[f] = TransferOf[f]
        <5>1. TransferOf[f] = [to |-> outbox[s][f].to, cents |-> outbox[s][f].cents,
                               credited |-> f \in applied[outbox[s][f].target]]
          BY <1>t, <4>2, TransferOfRow
        <5>2. TransferOf'[f] = [to |-> outbox[s][f].to, cents |-> outbox[s][f].cents,
                                credited |-> f \in applied'[outbox[s][f].target]]
          BY <1>t, <2>1, <4>2, TransferOfNext
        <5>3. (f \in applied'[outbox[s][f].target]) = (f \in applied[outbox[s][f].target])
          <6>1. outbox[s][f].target \in Shards
            BY <1>t, <4>2, RowFields
          <6> QED BY <1>t, <2>1, <6>1 DEF TypeOK
        <5> QED BY <5>1, <5>2, <5>3
      <4> QED BY <4>1, <4>2
    <3>4. TransferOf' = [TransferOf EXCEPT ![e] = new]
      <4>1. TransferOf = [f \in EventIDs |-> TransferOf[f]] /\ TransferOf' = [f \in EventIDs |-> TransferOf'[f]]
        BY DEF TransferOf
      <4> HIDE DEF new, row
      <4> QED BY <3>2, <3>3, <4>1
    <3>5. new = [TransferOf[e] EXCEPT !.credited = TRUE]
      <4>1. [old EXCEPT !.credited = TRUE] = new
        BY CreditedRecord
      <4> QED BY <3>1, <4>1
    <3>6. BalanceOf' = [BalanceOf EXCEPT ![row.to] = CreditRow(@, row.cents)]
      <4> DEFINE v == CreditRow(ledger[row.target][row.to], row.cents)
      <4>1. ledger' = [ledger EXCEPT ![row.target][row.to] = v]
        BY <2>1, <2>5 DEF AlreadyApplied
      <4>2. \A t \in Tenants :
              ledger'[Home[t]][t] = IF t = row.to THEN v ELSE ledger[Home[t]][t]
        <5> HIDE DEF v
        <5> QED BY <1>t, <2>3, <4>1 DEF TypeOK
      <4>3. v = CreditRow(BalanceOf[row.to], row.cents)
        BY <2>3 DEF BalanceOf
      <4>4. BalanceOf' = [t \in Tenants |-> IF t = row.to THEN v ELSE BalanceOf[t]]
        <5> HIDE DEF v
        <5> QED BY <4>2 DEF BalanceOf
      <4>5. BalanceOf' = [BalanceOf EXCEPT ![row.to] = v]
        <5> HIDE DEF v
        <5> QED BY <2>3, <4>4 DEF BalanceOf
      <4> QED BY <4>3, <4>5
    <3>7. TransferOf[e].to = row.to /\ TransferOf[e].cents = row.cents /\ ~TransferOf[e].credited
      BY <3>1
    <3>8. TransferOf[e] # NoRow
      <4>1. old \in [to : Tenants, cents : Amounts, credited : BOOLEAN]
        BY <1>t, <2>2, RowFields
      <4> QED BY <3>1, <4>1
    <3>9. T!Credit(e)
      BY <3>4, <3>5, <3>6, <3>7, <3>8 DEF T!Credit, CreditRow
    <3> QED BY <3>9
  <2> QED BY <2>4, <2>5
<1>3. ASSUME NEW s \in Shards, NEW e \in EventIDs, NEW b \in BOOLEAN, outbox[s][e] # NoRow,
             outbox' = [outbox EXCEPT ![s][e].delivered = b], ledger' = ledger, applied' = applied
      PROVE  UNCHANGED T!vars
  <2>1. \A x \in Shards, f \in EventIDs : outbox'[x][f] # NoRow => outbox[x][f] # NoRow
    <3>1. \A x \in Shards, f \in EventIDs : x # s \/ f # e => outbox'[x][f] = outbox[x][f]
      BY <1>3, <1>t DEF TypeOK
    <3> QED BY <1>3, <3>1
  <2> QED BY <1>0, <1>3, <2>1
<1>4. ASSUME NEW r \in Relays, Mark(r) PROVE UNCHANGED T!vars
  <2>1. PICK e \in EventIDs :
          /\ Current(r, e)
          /\ outbox' = [outbox EXCEPT ![Source[r]][e].delivered = TRUE]
          /\ ledger' = ledger /\ applied' = applied
    BY <1>4 DEF Mark
  <2>2. outbox[Source[r]][e] # NoRow /\ Source[r] \in Shards
    BY <1>t, <2>1 DEF Current, BatchHasRows
  <2> QED BY <1>3, <2>1, <2>2
<1>5. ASSUME NEW s \in Shards, NEW e \in EventIDs, Replay(s, e) PROVE UNCHANGED T!vars
  BY <1>3, <1>5 DEF Replay, Rows
<1>6. ASSUME UNCHANGED <<ledger, outbox, applied>> PROVE UNCHANGED T!vars
  BY <1>0, <1>6
<1>7. (\E e \in EventIDs, from, to \in Tenants, cents \in Amounts : Transfer(e, from, to, cents))
        => T!Next
  BY <1>1 DEF T!Next
<1> QED
  BY <1>2, <1>4, <1>5, <1>6, <1>7 DEF Next, RelayNext, Poll, TargetDown, Abandon, vars, T!Next

(* While no id is used on two shards the outbox takes only steps of the    *)
(* promise of Transfers: each transfer is debited once and credited        *)
(* exactly once, whatever the relays, the crashes and the replays do       *)
(* (outbox.go:22-25).                                                      *)
THEOREM EffectivelyOnce == Spec => ImplementsTransfers
BY RefinesInit, RefinesStep, Invariance, PTL DEF Spec, ImplementsTransfers

-----------------------------------------------------------------------------
(* Sums.  SumFunction is a fold over the subsets of the domain, which the  *)
(* provers see as a CHOOSE: that there is such a function, and what it is  *)
(* worth, is shown along the subsets that the fold goes through.           *)

LEMMA LeastNumber ==
  ASSUME NEW S \in SUBSET Nat, S # {}
  PROVE  \E n \in S : \A m \in S : n <= m
<1> DEFINE less == OpToRel(<, Nat)
<1>1. \E n \in S : \A m \in S : <<m, n>> \notin less
  BY NatLessThanWellFounded, WFMin
<1>2. \A m, n \in Nat : m < n => <<m, n>> \in less
  BY Zenon DEF OpToRel
<1> HIDE DEF less
<1>3. PICK n \in S : \A m \in S : <<m, n>> \notin less
  BY <1>1
<1>4. \A m \in S : ~(m < n)
  BY <1>2, <1>3
<1> QED BY <1>3, <1>4, SMT

Some(s) == CHOOSE x \in s : TRUE

LEMMA SomeIsOne == \A s : s # {} => Some(s) \in s
BY Zenon DEF Some

(* One element at a time, the fold comes from each subset to none. *)
LEMMA AllSubsets ==
  ASSUME NEW S, IsFiniteSet(S), NEW G, {} \in G,
         \A s \in SUBSET S : s # {} /\ s \ {Some(s)} \in G => s \in G
  PROVE  SUBSET S \subseteq G
<1> SUFFICES ASSUME NEW b \in SUBSET S, b \notin G PROVE FALSE
  OBVIOUS
<1> DEFINE bad == {Cardinality(s) : s \in (SUBSET S) \ G}
<1>1. \A s \in SUBSET S : IsFiniteSet(s) /\ Cardinality(s) \in Nat
  BY FS_Subset, FS_CardinalityType
<1>2. bad \subseteq Nat /\ bad # {}
  BY <1>1
<1>3. PICK n \in bad : \A m \in bad : n <= m
  <2> HIDE DEF bad
  <2> QED BY <1>2, LeastNumber
<1>4. PICK s \in (SUBSET S) \ G : n = Cardinality(s)
  OBVIOUS
<1>5. s # {} /\ Some(s) \in s /\ s \ {Some(s)} \in SUBSET S
  BY <1>4, SomeIsOne
<1>6. s \ {Some(s)} \notin G
  BY <1>4, <1>5
<1>7. Cardinality(s \ {Some(s)}) = Cardinality(s) - 1
  BY <1>1, <1>5, FS_RemoveElement
<1>8. n <= Cardinality(s \ {Some(s)})
  BY <1>3, <1>5, <1>6
<1> QED BY <1>1, <1>4, <1>7, <1>8

SumStep(f, g, s) == IF s = {} THEN 0 ELSE f[Some(s)] + g[s \ {Some(s)}]

(* g[s] is the sum of f over s, for each subset of S. *)
Sums(f, S, g) == g = [s \in SUBSET S |-> SumStep(f, g, s)]

(* The function that the fold is the value of at S *)
Partial(f, S) == CHOOSE g : Sums(f, S, g)

LEMMA SumIsPartial ==
  ASSUME NEW S, NEW f, DOMAIN f = S
  PROVE  SumFunction(f) = Partial(f, S)[S]
BY DEF SumFunction, SumFunctionOnSet, FoldFunctionOnSet, MapThenFoldSet, Partial, Sums, SumStep, Some

HaveSums(f, S, n) == \E g \in [SUBSET S -> Int] :
  \A s \in SUBSET S : Cardinality(s) <= n => g[s] = SumStep(f, g, s)

(* There are sums over the subsets of up to n elements, for every n. *)
LEMMA SumsUpTo ==
  ASSUME NEW S, IsFiniteSet(S), NEW f \in [S -> Int], NEW n \in Nat
  PROVE  HaveSums(f, S, n)
<1> DEFINE Good(k, g) == \A s \in SUBSET S : Cardinality(s) <= k => g[s] = SumStep(f, g, s)
           bad == {k \in Nat : ~ \E g \in [SUBSET S -> Int] : Good(k, g)}
<1>0. \A s \in SUBSET S : IsFiniteSet(s) /\ Cardinality(s) \in Nat
  BY FS_Subset, FS_CardinalityType
<1>1. 0 \notin bad
  <2> DEFINE g == [s \in SUBSET S |-> 0]
  <2>1. \A s \in SUBSET S : Cardinality(s) <= 0 => s = {}
    BY <1>0, FS_EmptySet
  <2>2. Good(0, g) /\ g \in [SUBSET S -> Int]
    BY <2>1 DEF SumStep
  <2> HIDE DEF g, Good
  <2> QED BY <2>2
<1>2. ASSUME NEW k \in Nat, k \notin bad PROVE k + 1 \notin bad
  <2>1. PICK g \in [SUBSET S -> Int] : Good(k, g)
    BY <1>2
  <2> DEFINE h == [s \in SUBSET S |-> IF Cardinality(s) <= k THEN g[s] ELSE SumStep(f, g, s)]
  <2>2. \A s \in SUBSET S : s # {} => /\ Some(s) \in S /\ s \ {Some(s)} \in SUBSET S
                                       /\ Cardinality(s \ {Some(s)}) = Cardinality(s) - 1
    <3> TAKE s \in SUBSET S
    <3> HAVE s # {}
    <3>1. Some(s) \in s
      BY SomeIsOne
    <3> QED BY <1>0, <3>1, FS_RemoveElement
  <2>3. ASSUME NEW s \in SUBSET S PROVE SumStep(f, g, s) \in Int
    <3>1. CASE s = {}
      BY <3>1 DEF SumStep
    <3>2. CASE s # {}
      <4>1. f[Some(s)] \in Int /\ g[s \ {Some(s)}] \in Int
        BY <2>2, <3>2
      <4>2. SumStep(f, g, s) = f[Some(s)] + g[s \ {Some(s)}]
        BY <3>2, Zenon DEF SumStep
      <4> QED BY <4>1, <4>2
    <3> QED BY <3>1, <3>2
  <2>4. h \in [SUBSET S -> Int]
    BY <2>3
  <2>5. ASSUME NEW s \in SUBSET S PROVE h[s] = SumStep(f, g, s)
    BY <2>1
  <2>6. ASSUME NEW s \in SUBSET S, Cardinality(s) <= k + 1 PROVE SumStep(f, h, s) = SumStep(f, g, s)
    <3>1. CASE s = {}
      BY <3>1 DEF SumStep
    <3>2. CASE s # {}
      <4>1. Cardinality(s \ {Some(s)}) <= k
        BY <1>0, <2>2, <2>6, <3>2
      <4>2. h[s \ {Some(s)}] = g[s \ {Some(s)}]
        BY <2>2, <3>2, <4>1
      <4> QED BY <3>2, <4>2 DEF SumStep
    <3> QED BY <3>1, <3>2
  <2> HIDE DEF h
  <2>7. Good(k + 1, h)
    BY <2>5, <2>6
  <2> QED BY <2>4, <2>7
<1>3. CASE n \in bad
  <2>1. PICK m \in bad : \A k \in bad : m <= k
    <3>1. bad \subseteq Nat /\ bad # {}
      BY <1>3
    <3> HIDE DEF bad
    <3> QED BY <3>1, LeastNumber
  <2>2. m \in Nat /\ m # 0
    BY <1>1, <2>1
  <2> HIDE DEF bad
  <2>3. m - 1 \in Nat /\ m - 1 \notin bad
    BY <2>1, <2>2
  <2>4. (m - 1) + 1 \notin bad
    BY <1>2, <2>3
  <2> QED BY <2>1, <2>2, <2>4
<1> QED BY <1>3 DEF HaveSums

LEMMA SumsExist ==
  ASSUME NEW S, IsFiniteSet(S), NEW f \in [S -> Int]
  PROVE  Sums(f, S, Partial(f, S)) /\ \A s \in SUBSET S : Partial(f, S)[s] \in Int
<1>1. \A s \in SUBSET S : Cardinality(s) <= Cardinality(S)
  BY FS_Subset
<1>2. Cardinality(S) \in Nat
  BY FS_CardinalityType
<1>3. PICK g \in [SUBSET S -> Int] : \A s \in SUBSET S : g[s] = SumStep(f, g, s)
  <2>0. HaveSums(f, S, Cardinality(S))
    BY <1>2, SumsUpTo
  <2>1. PICK g \in [SUBSET S -> Int] :
          \A s \in SUBSET S : Cardinality(s) <= Cardinality(S) => g[s] = SumStep(f, g, s)
    BY <2>0 DEF HaveSums
  <2> QED BY <1>1, <2>1, Zenon
<1>4. Sums(f, S, g)
  BY <1>3 DEF Sums
<1>5. Sums(f, S, Partial(f, S))
  BY <1>4, Zenon DEF Partial
<1> DEFINE p == Partial(f, S)
           G == {s \in SUBSET S : p[s] \in Int}
<1>6. \A s \in SUBSET S : p[s] = SumStep(f, p, s)
  <2> HIDE DEF p
  <2>1. Sums(f, S, p)
    BY <1>5 DEF p
  <2> QED BY <2>1 DEF Sums
<1> HIDE DEF p
<1>7. {} \in G
  <2>1. p[{}] = 0
    BY <1>6 DEF SumStep
  <2> QED BY <2>1
<1>8. ASSUME NEW s \in SUBSET S, s # {}, s \ {Some(s)} \in G PROVE s \in G
  <2>1. Some(s) \in S
    BY <1>8, SomeIsOne
  <2>2. p[s] = f[Some(s)] + p[s \ {Some(s)}]
    BY <1>6, <1>8 DEF SumStep
  <2> QED BY <1>8, <2>1, <2>2
<1>9. SUBSET S \subseteq G
  <2> HIDE DEF G
  <2> QED BY <1>7, <1>8, AllSubsets
<1> QED BY <1>5, <1>9 DEF p

(* A sum of integers is one, and changes by as much as one of them. *)
LEMMA SumChanges ==
  ASSUME NEW S, IsFiniteSet(S), NEW f \in [S -> Int], NEW h \in [S -> Int], NEW x \in S,
         \A y \in S \ {x} : h[y] = f[y]
  PROVE  SumFunction(f) \in Int /\ SumFunction(h) = SumFunction(f) + (h[x] - f[x])
<1> DEFINE p == Partial(f, S)
           q == Partial(h, S)
           d == h[x] - f[x]
           G == {s \in SUBSET S : q[s] = p[s] + (IF x \in s THEN d ELSE 0)}
<1>1. /\ \A s \in SUBSET S : p[s] \in Int /\ p[s] = SumStep(f, p, s)
      /\ \A s \in SUBSET S : q[s] \in Int /\ q[s] = SumStep(h, q, s)
  <2>1. Sums(f, S, p) /\ Sums(h, S, q)
        /\ (\A s \in SUBSET S : p[s] \in Int) /\ (\A s \in SUBSET S : q[s] \in Int)
    BY SumsExist
  <2> HIDE DEF p, q
  <2> QED BY <2>1 DEF Sums
<1>2. SumFunction(f) = p[S] /\ SumFunction(h) = q[S]
  BY SumIsPartial
<1> HIDE DEF p, q
<1>3. {} \in G
  BY <1>1 DEF SumStep
<1>4. ASSUME NEW s \in SUBSET S, s # {}, s \ {Some(s)} \in G PROVE s \in G
  <2>1. Some(s) \in s /\ Some(s) \in S
    BY <1>4, SomeIsOne
  <2> DEFINE c == Some(s)
             t == s \ {c}
  <2>2. p[s] = f[c] + p[t] /\ q[s] = h[c] + q[t]
    BY <1>1, <1>4 DEF SumStep
  <2>3. q[t] = p[t] + (IF x \in t THEN d ELSE 0) /\ t \in SUBSET S
    BY <1>4
  <2>4. f[c] \in Int /\ h[c] \in Int /\ d \in Int /\ p[t] \in Int
    BY <1>1, <2>1, <2>3
  <2>5. c = x => h[c] = f[c] + d
    BY <2>1
  <2>6. c # x => h[c] = f[c] /\ (x \in t <=> x \in s)
    BY <2>1
  <2>7. c = x => x \notin t /\ x \in s
    BY <2>1
  <2> HIDE DEF c, t, d
  <2>8. q[s] = p[s] + (IF x \in s THEN d ELSE 0)
    BY <2>2, <2>3, <2>4, <2>5, <2>6, <2>7
  <2> QED BY <2>8
<1>5. SUBSET S \subseteq G
  <2> HIDE DEF G
  <2> QED BY <1>3, <1>4, AllSubsets
<1>6. q[S] = p[S] + d
  BY <1>5
<1> QED BY <1>1, <1>2, <1>6

LEMMA SumOfNone ==
  ASSUME NEW S, IsFiniteSet(S), NEW f \in [S -> Int], \A x \in S : f[x] = 0
  PROVE  SumFunction(f) = 0
<1> DEFINE p == Partial(f, S)
           G == {s \in SUBSET S : p[s] = 0}
<1>1. \A s \in SUBSET S : p[s] = SumStep(f, p, s)
  <2>1. Sums(f, S, p)
    BY SumsExist
  <2> HIDE DEF p
  <2> QED BY <2>1 DEF Sums
<1>2. SumFunction(f) = p[S]
  BY SumIsPartial
<1> HIDE DEF p
<1>3. {} \in G
  BY <1>1 DEF SumStep
<1>4. ASSUME NEW s \in SUBSET S, s # {}, s \ {Some(s)} \in G PROVE s \in G
  <2>1. Some(s) \in S
    BY <1>4, SomeIsOne
  <2> QED BY <1>1, <1>4, <2>1 DEF SumStep
<1>5. SUBSET S \subseteq G
  <2> HIDE DEF G
  <2> QED BY <1>3, <1>4, AllSubsets
<1> QED BY <1>2, <1>5

-----------------------------------------------------------------------------
(* Money is neither made nor lost                                          *)

(* Writing one cell of one shard's table changes the sum of them all by    *)
(* what the cell changes.                                                  *)
LEMMA TableChanges ==
  ASSUME IsFiniteSet(Shards), NEW Cols, IsFiniteSet(Cols),
         NEW f \in [Shards -> [Cols -> Int]], NEW h \in [Shards -> [Cols -> Int]],
         NEW s \in Shards, NEW t \in Cols,
         \A z \in Shards, y \in Cols : z # s \/ y # t => h[z][y] = f[z][y]
  PROVE  TableSum(f) \in Int /\ TableSum(h) = TableSum(f) + (h[s][t] - f[s][t])
<1> DEFINE F == [z \in Shards |-> SumFunction(f[z])]
           H == [z \in Shards |-> SumFunction(h[z])]
<1>1. ASSUME NEW z \in Shards PROVE SumFunction(f[z]) \in Int /\ SumFunction(h[z]) \in Int
  <2>1. f[z] \in [Cols -> Int] /\ h[z] \in [Cols -> Int]
    OBVIOUS
  <2>2. SumFunction(f[z]) \in Int
    BY <2>1, SumChanges
  <2>3. SumFunction(h[z]) \in Int
    BY <2>1, SumChanges
  <2> QED BY <2>2, <2>3
<1>2. SumFunction(h[s]) = SumFunction(f[s]) + (h[s][t] - f[s][t])
  <2>1. f[s] \in [Cols -> Int] /\ h[s] \in [Cols -> Int] /\ \A y \in Cols \ {t} : h[s][y] = f[s][y]
    OBVIOUS
  <2> QED BY <2>1, SumChanges
<1>3. ASSUME NEW z \in Shards \ {s} PROVE H[z] = F[z]
  <2>1. f[z] \in [Cols -> Int] /\ h[z] \in [Cols -> Int] /\ \A y \in Cols : h[z][y] = f[z][y]
    OBVIOUS
  <2>2. h[z] = f[z]
    BY <2>1
  <2> QED BY <2>2
<1>4. F \in [Shards -> Int] /\ H \in [Shards -> Int]
  BY <1>1
<1>5. F[s] = SumFunction(f[s]) /\ H[s] = SumFunction(h[s])
  OBVIOUS
<1>6. TableSum(f) = SumFunction(F) /\ TableSum(h) = SumFunction(H)
  BY DEF TableSum
<1> HIDE DEF F, H
<1>7. SumFunction(F) \in Int /\ SumFunction(H) = SumFunction(F) + (H[s] - F[s])
  BY <1>3, <1>4, SumChanges
<1>8. SumFunction(f[s]) \in Int /\ h[s][t] - f[s][t] \in Int
  BY <1>1
<1> QED BY <1>2, <1>5, <1>6, <1>7, <1>8

LEMMA TableOfNone ==
  ASSUME IsFiniteSet(Shards), NEW Cols, IsFiniteSet(Cols),
         NEW f \in [Shards -> [Cols -> Int]], \A z \in Shards, y \in Cols : f[z][y] = 0
  PROVE  TableSum(f) = 0
<1> DEFINE F == [z \in Shards |-> SumFunction(f[z])]
<1>1. ASSUME NEW z \in Shards PROVE SumFunction(f[z]) = 0
  <2>1. f[z] \in [Cols -> Int] /\ \A y \in Cols : f[z][y] = 0
    OBVIOUS
  <2> QED BY <2>1, SumOfNone
<1>2. F \in [Shards -> Int] /\ \A z \in Shards : F[z] = 0
  BY <1>1
<1>3. TableSum(f) = SumFunction(F)
  BY DEF TableSum
<1> HIDE DEF F
<1> QED BY <1>2, <1>3, SumOfNone

(* The two tables, and the two lists, differ in one cell only. *)
CellDiffers(Cols, old, new, s, t) ==
  /\ IsFiniteSet(Cols)
  /\ old \in [Shards -> [Cols -> Int]] /\ new \in [Shards -> [Cols -> Int]]
  /\ s \in Shards /\ t \in Cols
  /\ \A z \in Shards, y \in Cols : z # s \/ y # t => new[z][y] = old[z][y]

ItemDiffers(less, more, t) ==
  /\ less \in [Tenants -> Int] /\ more \in [Tenants -> Int]
  /\ \A y \in Tenants \ {t} : more[y] = less[y]

LEMMA CellChanges ==
  ASSUME NEW Cols, NEW old, NEW new, NEW s, NEW t, CellDiffers(Cols, old, new, s, t)
  PROVE  TableSum(old) \in Int /\ TableSum(new) = TableSum(old) + (new[s][t] - old[s][t])
<1>1. /\ IsFiniteSet(Shards) /\ IsFiniteSet(Cols)
      /\ old \in [Shards -> [Cols -> Int]] /\ new \in [Shards -> [Cols -> Int]]
      /\ s \in Shards /\ t \in Cols
      /\ \A z \in Shards, y \in Cols : z # s \/ y # t => new[z][y] = old[z][y]
  BY OutboxAssumption DEF CellDiffers
<1> QED BY <1>1, TableChanges

LEMMA BothChange ==
  ASSUME NEW old, NEW new, NEW less, NEW more, NEW s, NEW t,
         CellDiffers(Tenants, old, new, s, t), ItemDiffers(less, more, t),
         new[s][t] - old[s][t] = more[t] - less[t],
         TableSum(old) = SumFunction(less)
  PROVE  TableSum(new) = SumFunction(more)
<1>1. IsFiniteSet(Tenants)
  BY OutboxAssumption
<1>2. TableSum(new) = TableSum(old) + (new[s][t] - old[s][t])
  BY CellChanges
<1>3. SumFunction(more) = SumFunction(less) + (more[t] - less[t])
  BY <1>1, SumChanges DEF ItemDiffers, CellDiffers
<1> QED BY <1>2, <1>3

(* An amount for each tenant, spread over the homes of the tenants, is the *)
(* same money.                                                             *)
LEMMA SpreadOverHomes ==
  ASSUME NEW c \in [Tenants -> Int]
  PROVE  TableSum([s \in Shards |-> [t \in Tenants |-> IF Home[t] = s THEN c[t] ELSE 0]]) = SumFunction(c)
<1> DEFINE A(U) == [s \in Shards |-> [t \in Tenants |-> IF t \in U /\ Home[t] = s THEN c[t] ELSE 0]]
           B(U) == [t \in Tenants |-> IF t \in U THEN c[t] ELSE 0]
           G == {U \in SUBSET Tenants : TableSum(A(U)) = SumFunction(B(U))}
<1>1. IsFiniteSet(Shards) /\ IsFiniteSet(Tenants) /\ Home \in [Tenants -> Shards]
  BY OutboxAssumption
<1>2. ASSUME NEW U PROVE A(U) \in [Shards -> [Tenants -> Int]] /\ B(U) \in [Tenants -> Int]
  OBVIOUS
<1>3. {} \in G
  <2>1. /\ \A s \in Shards, t \in Tenants : A({})[s][t] = 0
        /\ \A t \in Tenants : B({})[t] = 0
    OBVIOUS
  <2>2. A({}) \in [Shards -> [Tenants -> Int]] /\ B({}) \in [Tenants -> Int]
    BY <1>2
  <2> HIDE DEF A, B
  <2>3. TableSum(A({})) = 0
    BY <1>1, <2>1, <2>2, TableOfNone
  <2>4. SumFunction(B({})) = 0
    BY <1>1, <2>1, <2>2, SumOfNone
  <2> QED BY <2>3, <2>4
<1>4. ASSUME NEW U \in SUBSET Tenants, U # {}, U \ {Some(U)} \in G PROVE U \in G
  <2> DEFINE x == Some(U)
             V == U \ {x}
             new == A(U)
             old == A(V)
             more == B(U)
             less == B(V)
  <2>1. x \in U /\ x \in Tenants /\ Home[x] \in Shards
    BY <1>1, <1>4, SomeIsOne
  <2>2. TableSum(old) = SumFunction(less)
    BY <1>4
  <2> HIDE DEF x
  <2>3. /\ \A s \in Shards, t \in Tenants : s # Home[x] \/ t # x => new[s][t] = old[s][t]
        /\ new[Home[x]][x] = c[x] /\ old[Home[x]][x] = 0
    BY <2>1
  <2>4. /\ \A t \in Tenants \ {x} : more[t] = less[t]
        /\ more[x] = c[x] /\ less[x] = 0
    BY <2>1
  <2>5. /\ new \in [Shards -> [Tenants -> Int]] /\ old \in [Shards -> [Tenants -> Int]]
        /\ more \in [Tenants -> Int] /\ less \in [Tenants -> Int]
    BY <1>2
  <2>6. new[Home[x]][x] - old[Home[x]][x] = more[x] - less[x]
    BY <2>3, <2>4
  <2>7. CellDiffers(Tenants, old, new, Home[x], x) /\ ItemDiffers(less, more, x)
    <3> HIDE DEF new, old, more, less
    <3> QED BY <1>1, <2>1, <2>3, <2>4, <2>5 DEF CellDiffers, ItemDiffers
  <2> HIDE DEF new, old, more, less
  <2>8. TableSum(new) = SumFunction(more)
    BY <2>2, <2>6, <2>7, BothChange
  <2> QED BY <2>8 DEF new, more
<1>5. Tenants \in G
  <2> HIDE DEF G
  <2>1. SUBSET Tenants \subseteq G
    BY <1>1, <1>3, <1>4, AllSubsets
  <2> QED BY <2>1
<1>6. A(Tenants) = [s \in Shards |-> [t \in Tenants |-> IF Home[t] = s THEN c[t] ELSE 0]]
      /\ B(Tenants) = c
  OBVIOUS
<1> QED BY <1>5, <1>6

(* What every ledger row holds, and what every outbox row has still to     *)
(* credit.                                                                 *)
HeldCells == [s \in Shards |-> [t \in Tenants |-> Cents(ledger[s][t])]]
OwedCells == [s \in Shards |-> [e \in EventIDs |-> Owed(s, e)]]

CellsTyped == HeldCells \in [Shards -> [Tenants -> Int]] /\ OwedCells \in [Shards -> [EventIDs -> Int]]

LEMMA CellTypes == TypeOK => CellsTyped
<1> SUFFICES ASSUME TypeOK PROVE CellsTyped
  OBVIOUS
<1>1. \A s \in Shards, t \in Tenants : Cents(ledger[s][t]) \in Int
  BY OutboxAssumption DEF TypeOK, Cents
<1>2. \A s \in Shards, e \in EventIDs : Owed(s, e) \in Int
  <2> TAKE s \in Shards, e \in EventIDs
  <2>1. e \in Rows(s) => outbox[s][e].cents \in Int
    BY RowFields, OutboxAssumption DEF Rows
  <2> QED BY <2>1 DEF Owed
<1> QED BY <1>1, <1>2 DEF HeldCells, OwedCells, CellsTyped

LEMMA CellTypesNext == TypeOK' => CellsTyped'
BY CellTypes, PTL

LEMMA SumsOfCells ==
  /\ Held = TableSum(HeldCells) /\ InTransit = TableSum(OwedCells)
  /\ Held' = TableSum(HeldCells') /\ InTransit' = TableSum(OwedCells')
<1>1. Held = TableSum(HeldCells) /\ InTransit = TableSum(OwedCells)
  BY DEF Held, InTransit, HeldCells, OwedCells
<1>2. Held' = TableSum(HeldCells') /\ InTransit' = TableSum(OwedCells')
  BY DEF Held, InTransit, HeldCells, OwedCells, TableSum
<1> QED BY <1>1, <1>2

LEMMA HeldStays ==
  ASSUME \A s \in Shards, t \in Tenants : Cents(ledger'[s][t]) = Cents(ledger[s][t])
  PROVE  Held' = Held
<1>1. HeldCells' = HeldCells
  BY DEF HeldCells, Cents
<1> QED BY <1>1, SumsOfCells

LEMMA TransitStays ==
  ASSUME \A s \in Shards, e \in EventIDs : Owed(s, e)' = Owed(s, e)
  PROVE  InTransit' = InTransit
<1>1. OwedCells' = OwedCells
  BY DEF OwedCells
<1> QED BY <1>1, SumsOfCells

LEMMA HeldChanges ==
  ASSUME TypeOK, TypeOK', NEW s \in Shards, NEW t \in Tenants,
         \A z \in Shards, y \in Tenants : z # s \/ y # t => Cents(ledger'[z][y]) = Cents(ledger[z][y])
  PROVE  Held \in Int /\ Held' = Held + (Cents(ledger'[s][t]) - Cents(ledger[s][t]))
<1>1. HeldCells \in [Shards -> [Tenants -> Int]] /\ HeldCells' \in [Shards -> [Tenants -> Int]]
  BY CellTypes, CellTypesNext DEF CellsTyped
<1>2. \A z \in Shards, y \in Tenants :
        HeldCells[z][y] = Cents(ledger[z][y]) /\ HeldCells'[z][y] = Cents(ledger'[z][y])
  BY DEF HeldCells, Cents
<1>3. IsFiniteSet(Shards) /\ IsFiniteSet(Tenants)
  BY OutboxAssumption
<1>4. \A z \in Shards, y \in Tenants : z # s \/ y # t => HeldCells'[z][y] = HeldCells[z][y]
  BY <1>2
<1>5. CellDiffers(Tenants, HeldCells, HeldCells', s, t)
  BY <1>1, <1>3, <1>4 DEF CellDiffers
<1>6. TableSum(HeldCells) \in Int
      /\ TableSum(HeldCells') = TableSum(HeldCells) + (HeldCells'[s][t] - HeldCells[s][t])
  BY <1>5, CellChanges
<1> QED BY <1>2, <1>6, SumsOfCells

LEMMA TransitChanges ==
  ASSUME TypeOK, TypeOK', NEW s \in Shards, NEW e \in EventIDs,
         \A z \in Shards, f \in EventIDs : z # s \/ f # e => Owed(z, f)' = Owed(z, f)
  PROVE  InTransit \in Int /\ InTransit' = InTransit + (Owed(s, e)' - Owed(s, e))
<1>1. OwedCells \in [Shards -> [EventIDs -> Int]] /\ OwedCells' \in [Shards -> [EventIDs -> Int]]
  BY CellTypes, CellTypesNext DEF CellsTyped
<1>2. \A z \in Shards, f \in EventIDs : OwedCells[z][f] = Owed(z, f) /\ OwedCells'[z][f] = Owed(z, f)'
  BY DEF OwedCells
<1>3. IsFiniteSet(Shards) /\ IsFiniteSet(EventIDs)
  BY OutboxAssumption
<1>4. \A z \in Shards, f \in EventIDs : z # s \/ f # e => OwedCells'[z][f] = OwedCells[z][f]
  BY <1>2
<1>5. CellDiffers(EventIDs, OwedCells, OwedCells', s, e)
  BY <1>1, <1>3, <1>4 DEF CellDiffers
<1>6. TableSum(OwedCells) \in Int
      /\ TableSum(OwedCells') = TableSum(OwedCells) + (OwedCells'[s][e] - OwedCells[s][e])
  BY <1>5, CellChanges
<1> QED BY <1>2, <1>6, SumsOfCells

(* A row that credits the same, applied before exactly if it is now, owes  *)
(* the same.                                                               *)
LEMMA OwedSame ==
  ASSUME NEW s \in Shards, NEW e \in EventIDs,
         outbox'[s][e] # NoRow <=> outbox[s][e] # NoRow,
         outbox[s][e] # NoRow =>
           /\ outbox'[s][e].target = outbox[s][e].target
           /\ outbox'[s][e].cents = outbox[s][e].cents
           /\ e \in applied'[outbox[s][e].target] <=> e \in applied[outbox[s][e].target]
  PROVE  Owed(s, e)' = Owed(s, e)
<1>1. (e \in Rows(s))' <=> outbox'[s][e] # NoRow
  BY DEF Rows
<1>2. e \in Rows(s) <=> outbox[s][e] # NoRow
  BY DEF Rows
<1> QED BY <1>1, <1>2 DEF Owed

(* A transfer takes from its tenant what the row it writes owes. *)
LEMMA TransferMovesMoney ==
  ASSUME IInv, IInv', UniqueIDs', NEW e \in EventIDs, NEW from \in Tenants,
         NEW to \in Tenants, NEW cents \in Amounts, Transfer(e, from, to, cents)
  PROVE  Held' + InTransit' = Held + InTransit
<1> DEFINE s == Home[from]
           row == [to |-> to, target |-> Home[to], cents |-> cents, delivered |-> FALSE]
<1> USE OutboxAssumption
<1>t. TypeOK /\ TypeOK' /\ AppliedHaveRows
  BY DEF IInv, Typed
<1>1. s \in Shards /\ cents \in Int /\ NoRow \notin Int /\ row # NoRow /\ Home[to] \in Shards
  <2>1. row \in Row
    BY DEF Row
  <2> QED BY <2>1
<1>2. ledger[s][from] \in Int
  BY <1>t, <1>1 DEF Transfer, CanDebit, TypeOK
<1>3. \A z \in Shards, y \in Tenants :
        ledger'[z][y] = IF z = s /\ y = from THEN ledger[s][from] - cents ELSE ledger[z][y]
  BY <1>t DEF Transfer, TypeOK
<1>4. \A z \in Shards, f \in EventIDs :
        outbox'[z][f] = IF z = s /\ f = e THEN row ELSE outbox[z][f]
  BY <1>t DEF Transfer, TypeOK
<1>5. applied' = applied /\ \A z \in Shards : outbox[z][e] = NoRow
  BY FreshEverywhere DEF Transfer
<1>6. e \notin applied[Home[to]]
  BY <1>1, <1>5, <1>t DEF AppliedHaveRows
<1> HIDE DEF s
<1>7. Held \in Int /\ Held' = Held - cents
  <2>1. \A z \in Shards, y \in Tenants : z # s \/ y # from => Cents(ledger'[z][y]) = Cents(ledger[z][y])
    BY <1>3
  <2>2. Held \in Int /\ Held' = Held + (Cents(ledger'[s][from]) - Cents(ledger[s][from]))
    BY <1>1, <1>t, <2>1, HeldChanges
  <2>3. Cents(ledger[s][from]) = ledger[s][from] /\ Cents(ledger'[s][from]) = ledger[s][from] - cents
    BY <1>1, <1>2, <1>3 DEF Cents
  <2> QED BY <1>1, <1>2, <2>2, <2>3
<1>8. InTransit \in Int /\ InTransit' = InTransit + cents
  <2>1. ASSUME NEW z \in Shards, NEW f \in EventIDs, z # s \/ f # e PROVE Owed(z, f)' = Owed(z, f)
    <3>1. outbox'[z][f] = outbox[z][f]
      BY <1>4, <2>1
    <3> QED BY <1>5, <3>1, OwedSame
  <2>2. Owed(s, e) = 0
    BY <1>1, <1>5 DEF Owed, Rows
  <2>3. Owed(s, e)' = cents
    <3>1. outbox'[s][e] = row
      BY <1>1, <1>4
    <3>2. row.cents = cents /\ row.target = Home[to]
      OBVIOUS
    <3> HIDE DEF row
    <3>3. (e \in Rows(s))'
      BY <1>1, <3>1 DEF Rows
    <3> QED BY <1>5, <1>6, <3>1, <3>2, <3>3 DEF Owed
  <2>4. InTransit \in Int /\ InTransit' = InTransit + (Owed(s, e)' - Owed(s, e))
    BY <1>1, <1>t, <2>1, TransitChanges
  <2> QED BY <1>1, <2>2, <2>3, <2>4
<1> QED BY <1>1, <1>7, <1>8

(* The dedupe insert and the credit are one transaction: what the credit   *)
(* adds is no longer owed.                                                 *)
LEMMA ApplyMovesMoney ==
  ASSUME IInv, IInv', UniqueIDs, NEW r \in Relays, Apply(r)
  PROVE  Held' + InTransit' = Held + InTransit
<1> USE OutboxAssumption
<1>t. TypeOK /\ TypeOK' /\ BatchHasRows /\ UniqueIDs
  BY DEF IInv, Typed
<1> DEFINE s == Source[r]
<1>p. PICK e \in EventIDs :
        /\ Current(r, e)
        /\ applied' = [applied EXCEPT ![outbox[s][e].target] = @ \cup {e}]
        /\ IF AlreadyApplied(outbox[s][e].target, e)
             THEN UNCHANGED ledger
             ELSE ledger' = [ledger EXCEPT ![outbox[s][e].target][outbox[s][e].to]
                                = CreditRow(@, outbox[s][e].cents)]
        /\ outbox' = outbox
  BY DEF Apply
<1> DEFINE d == outbox[s][e].target
           t == outbox[s][e].to
           c == outbox[s][e].cents
<1>1. s \in Shards /\ outbox[s][e] # NoRow
  BY <1>t, <1>p DEF Current, BatchHasRows
<1>2. d \in Shards /\ t \in Tenants /\ c \in Int
  BY <1>t, <1>1, RowFields
<1>3. \A z \in Shards, f \in EventIDs : f \in applied'[z] <=> f \in applied[z] \/ (z = d /\ f = e)
  BY <1>t, <1>p DEF TypeOK
<1>4. ASSUME NEW z \in Shards, NEW f \in EventIDs, z # s \/ f # e PROVE Owed(z, f)' = Owed(z, f)
  <2>1. CASE outbox[z][f] = NoRow
    BY <1>p, <2>1, OwedSame
  <2>2. CASE outbox[z][f] # NoRow
    <3>1. f # e
      BY <1>1, <1>4, <1>t, <2>2 DEF UniqueIDs
    <3>2. outbox[z][f].target \in Shards
      BY <1>t, <2>2, RowFields
    <3>3. f \in applied'[outbox[z][f].target] <=> f \in applied[outbox[z][f].target]
      BY <1>3, <3>1, <3>2
    <3> QED BY <1>p, <3>3, OwedSame
  <2> QED BY <2>1, <2>2
<1>5. CASE AlreadyApplied(d, e)
  <2>1. ledger' = ledger
    BY <1>p, <1>5
  <2>2. e \in applied[d] /\ e \in applied'[d]
    BY <1>2, <1>3, <1>5 DEF AlreadyApplied
  <2>3. Owed(s, e)' = Owed(s, e)
    BY <1>1, <1>p, <2>2, OwedSame
  <2>4. \A z \in Shards, f \in EventIDs : Owed(z, f)' = Owed(z, f)
    BY <1>4, <2>3
  <2>5. Held' = Held
    BY <2>1, HeldStays
  <2>6. InTransit' = InTransit
    BY <2>4, TransitStays
  <2> QED BY <2>5, <2>6
<1>6. CASE ~AlreadyApplied(d, e)
  <2>1. ledger' = [ledger EXCEPT ![d][t] = CreditRow(ledger[d][t], c)]
    BY <1>p, <1>6
  <2> HIDE DEF s
  <2>2. /\ ledger[d][t] \in Int \cup {NoRow}
        /\ \A z \in Shards, y \in Tenants :
             ledger'[z][y] = IF z = d /\ y = t THEN CreditRow(ledger[d][t], c) ELSE ledger[z][y]
    <3> HIDE DEF d, t, c
    <3> QED BY <1>2, <1>t, <2>1 DEF TypeOK
  <2>3. e \notin applied[d] /\ e \in applied'[d]
    BY <1>2, <1>3, <1>6 DEF AlreadyApplied
  <2>4. Held \in Int /\ Held' = Held + c
    <3> HIDE DEF d, t, c
    <3>1. \A z \in Shards, y \in Tenants : z # d \/ y # t => Cents(ledger'[z][y]) = Cents(ledger[z][y])
      BY <2>2
    <3>2. Held \in Int /\ Held' = Held + (Cents(ledger'[d][t]) - Cents(ledger[d][t]))
      BY <1>2, <1>t, <3>1, HeldChanges
    <3>3. Cents(ledger[d][t]) \in Int /\ Cents(ledger'[d][t]) = Cents(ledger[d][t]) + c
      <4>1. ledger'[d][t] = CreditRow(ledger[d][t], c)
        BY <1>2, <2>2
      <4>2. CASE ledger[d][t] = NoRow
        BY <1>2, <4>1, <4>2 DEF CreditRow, Cents
      <4>3. CASE ledger[d][t] # NoRow
        BY <1>2, <2>2, <4>1, <4>3 DEF CreditRow, Cents
      <4> QED BY <4>2, <4>3
    <3> QED BY <1>2, <3>2, <3>3
  <2>5. InTransit \in Int /\ InTransit' = InTransit - c
    <3>1. InTransit \in Int /\ InTransit' = InTransit + (Owed(s, e)' - Owed(s, e))
      <4> HIDE DEF d, t, c
      <4> QED BY <1>1, <1>t, <1>4, TransitChanges
    <3>2. Owed(s, e) = c
      BY <1>1, <2>3 DEF Owed, Rows
    <3>3. Owed(s, e)' = 0
      BY <1>p, <2>3 DEF Owed
    <3> HIDE DEF d, t, c
    <3> QED BY <1>2, <3>1, <3>2, <3>3
  <2> HIDE DEF d, t, c
  <2> QED BY <1>2, <2>4, <2>5
<1> QED BY <1>5, <1>6

LEMMA MoneyStep ==
  IInv /\ IInv' /\ UniqueIDs' /\ [Next]_vars => Held' + InTransit' = Held + InTransit
<1> SUFFICES ASSUME IInv, IInv', UniqueIDs', [Next]_vars PROVE Held' + InTransit' = Held + InTransit
  OBVIOUS
<1>t. TypeOK /\ BatchHasRows
  BY DEF IInv, Typed
<1>0. ASSUME UNCHANGED <<ledger, applied>>,
             \A s \in Shards, e \in EventIDs :
               /\ outbox'[s][e] # NoRow <=> outbox[s][e] # NoRow
               /\ outbox[s][e] # NoRow => /\ outbox'[s][e].target = outbox[s][e].target
                                          /\ outbox'[s][e].cents = outbox[s][e].cents
      PROVE  Held' + InTransit' = Held + InTransit
  <2>1. Held' = Held
    BY <1>0, HeldStays
  <2>2. \A s \in Shards, e \in EventIDs : Owed(s, e)' = Owed(s, e)
    BY <1>0, OwedSame
  <2>3. InTransit' = InTransit
    BY <2>2, TransitStays
  <2> QED BY <2>1, <2>3
<1>1. ASSUME UNCHANGED <<ledger, outbox, applied>> PROVE Held' + InTransit' = Held + InTransit
  BY <1>0, <1>1
<1>2. ASSUME NEW s \in Shards, NEW e \in EventIDs, NEW b \in BOOLEAN, outbox[s][e] # NoRow,
             outbox' = [outbox EXCEPT ![s][e].delivered = b], UNCHANGED <<ledger, applied>>
      PROVE  Held' + InTransit' = Held + InTransit
  <2>1. Kept
    BY RowsKept DEF IInv
  <2>2. \A z \in Shards, f \in EventIDs : outbox'[z][f] # NoRow => outbox[z][f] # NoRow
    <3>1. \A z \in Shards, f \in EventIDs : z # s \/ f # e => outbox'[z][f] = outbox[z][f]
      BY <1>2, <1>t DEF TypeOK
    <3> QED BY <1>2, <3>1
  <2> QED BY <1>0, <1>2, <2>1, <2>2 DEF Kept
<1>3. ASSUME NEW r \in Relays, Mark(r) PROVE Held' + InTransit' = Held + InTransit
  <2>1. PICK e \in EventIDs :
          /\ Current(r, e)
          /\ outbox' = [outbox EXCEPT ![Source[r]][e].delivered = TRUE]
          /\ UNCHANGED <<ledger, applied>>
    BY <1>3 DEF Mark
  <2>2. outbox[Source[r]][e] # NoRow /\ Source[r] \in Shards
    BY <1>t, <2>1, OutboxAssumption DEF Current, BatchHasRows
  <2> QED BY <1>2, <2>1, <2>2
<1>4. ASSUME NEW s \in Shards, NEW e \in EventIDs, Replay(s, e)
      PROVE  Held' + InTransit' = Held + InTransit
  BY <1>2, <1>4 DEF Replay, Rows
<1> QED
  BY <1>1, <1>3, <1>4, UniqueBefore, TransferMovesMoney, ApplyMovesMoney
  DEF Next, RelayNext, Poll, TargetDown, Abandon, vars

LEMMA MoneyInit == Init => MoneyAddsUp
<1> SUFFICES ASSUME Init PROVE MoneyAddsUp
  OBVIOUS
<1> DEFINE c == [t \in Tenants |-> Cents(Opening[t])]
<1>1. IsFiniteSet(Shards) /\ IsFiniteSet(EventIDs) /\ c \in [Tenants -> Int]
  BY OutboxAssumption DEF Cents
<1>2. HeldCells = [s \in Shards |-> [t \in Tenants |-> IF Home[t] = s THEN c[t] ELSE 0]]
  BY DEF HeldCells, Init, Cents
<1>3. Held = SumFunction(c)
  <2> HIDE DEF c
  <2> QED BY <1>1, <1>2, SpreadOverHomes, SumsOfCells
<1>4. \A s \in Shards, e \in EventIDs : OwedCells[s][e] = 0
  BY DEF OwedCells, Owed, Rows, Init
<1>5. OwedCells \in [Shards -> [EventIDs -> Int]]
  BY TypedInit, CellTypes DEF Typed, CellsTyped
<1>6. InTransit = 0
  BY <1>1, <1>4, <1>5, TableOfNone, SumsOfCells
<1>7. SumFunction(c) \in Int
  <2> HIDE DEF c
  <2>1. SumFunction(c) = Partial(c, Tenants)[Tenants]
    BY <1>1, SumIsPartial
  <2>2. Partial(c, Tenants)[Tenants] \in Int
    BY <1>1, SumsExist, OutboxAssumption
  <2> QED BY <2>1, <2>2
<1> HIDE DEF c
<1>8. Held + InTransit = SumFunction(c)
  BY <1>3, <1>6, <1>7
<1> QED BY <1>8 DEF MoneyAddsUp, c

(* While ids are unique money is neither made nor lost, whatever relays,   *)
(* crashes and replays do: the debit commits with the row that owes it     *)
(* (outbox.go:32-53), and the dedupe insert with the credit                *)
(* (outbox.go:103-121).                                                    *)
THEOREM MoneyIsConserved == Spec => []Conservation
<1>1. Init => Conservation
  BY MoneyInit DEF Conservation
<1>2. IInv /\ IInv' /\ Conservation /\ [Next]_vars => Conservation'
  BY MoneyStep, UniqueBefore DEF Conservation, MoneyAddsUp
<1> QED BY <1>1, <1>2, Invariance, PTL DEF Spec
=============================================================================
