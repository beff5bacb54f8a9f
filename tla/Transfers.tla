----------------------------- MODULE Transfers -----------------------------
(***************************************************************************)
(* What moving money through the outbox promises its callers, with no      *)
(* shards, relays or retries in sight (src/internal/shard/outbox.go:10-25).*)
(* A transfer is a debit now and exactly one credit later: "effectively    *)
(* once".  Between the two the money is in transit.                        *)
(***************************************************************************)
EXTENDS Integers

CONSTANTS
  Tenants,    \* ledger.tenant_id
  EventIDs,   \* the ids callers give their transfers
  Amounts,    \* the cents a transfer may move
  Opening,    \* each tenant's first balance, or NoRow
  NoRow       \* "the tenant has no ledger row", "the id names no transfer"

VARIABLES
  balance,    \* balance[t]: what tenant t has
  transfer    \* transfer[e]: the transfer named e and whether it was credited

vars == <<balance, transfer>>

Init == /\ balance = Opening
        /\ transfer = [e \in EventIDs |-> NoRow]

(* A caller debits `from` and names the transfer e. *)
Send(e, from, to, cents) ==
  /\ transfer[e] = NoRow
  /\ balance[from] # NoRow
  /\ balance[from] >= cents
  /\ balance' = [balance EXCEPT ![from] = @ - cents]
  /\ transfer' = [transfer EXCEPT ![e] = [to |-> to, cents |-> cents, credited |-> FALSE]]

(* The credit of e arrives: once, and never without its debit. *)
Credit(e) ==
  LET t == transfer[e].to IN
  /\ transfer[e] # NoRow
  /\ ~transfer[e].credited
  /\ balance' = [balance EXCEPT
       ![t] = IF @ = NoRow THEN transfer[e].cents ELSE @ + transfer[e].cents]
  /\ transfer' = [transfer EXCEPT ![e].credited = TRUE]

Next == \/ \E e \in EventIDs, from, to \in Tenants, cents \in Amounts :
             Send(e, from, to, cents)
        \/ \E e \in EventIDs : Credit(e)

Spec == Init /\ [][Next]_vars
=============================================================================
