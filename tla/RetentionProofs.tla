---------------------------- MODULE RetentionProofs ----------------------------
(***************************************************************************)
(* Whatever order the script, its deaths and the two functions take, the   *)
(* months that both tools keep stay partitions.                            *)
(***************************************************************************)
EXTENDS Retention, TLAPS

LEMMA Initially == Init => TypeOK
  <1> SUFFICES ASSUME Init PROVE TypeOK
    OBVIOUS
  <1>1. tables \in [Months -> {"none", "attached", "pending", "alone"}]
    BY DEF Init
  <1>2. \A m \in Months : tables[m] # "pending"
    BY DEF Init
  <1>3. (month - Keep)..(First + 1) \subseteq Attached
    <2> SUFFICES ASSUME NEW m \in (month - Keep)..(First + 1) PROVE m \in Attached
      OBVIOUS
    <2>1. m \in Months /\ m \in (First - Age)..(First + 1)
      BY RetentionAssumption DEF RetentionAssumption, Init, Months
    <2> QED BY <2>1 DEF Init, Attached, Is
  <1> QED BY <1>1, <1>2, <1>3, RetentionAssumption DEF RetentionAssumption, Init, TypeOK, Pending, Is

(* The script retires nothing that the functions keep.                     *)
LEMMA ScriptStep ==
  ASSUME TypeOK, Script
  PROVE  TypeOK'
  <1>1. CASE DetachDefault
    BY <1>1 DEF TypeOK, DetachDefault, Pending, Attached, Is
  <1>2. CASE DetachMonth
    <2>1. Due \notin (month - Keep)..(First + 1)
      BY RetentionAssumption DEF RetentionAssumption, TypeOK, Due
    <2>2. CASE tables' = tables
      BY <1>2, <2>2 DEF TypeOK, DetachMonth, Pending, Attached, Is
    <2>3. CASE Pending = {} /\ tables' = [tables EXCEPT ![Due] = "pending"]
      <3>1. \A m \in Months : m # Due => tables'[m] = tables[m]
        BY <2>3 DEF TypeOK
      <3>2. tables' \in [Months -> {"none", "attached", "pending", "alone"}]
        BY <2>3 DEF TypeOK
      <3>3. \A m, n \in Pending' : m = n
        BY <2>3, <3>1 DEF Pending, Is
      <3>4. (month - Keep)..(First + 1) \subseteq Attached'
        BY <2>1, <3>1 DEF TypeOK, Attached, Is
      <3> QED BY <1>2, <3>2, <3>3, <3>4 DEF TypeOK, DetachMonth
    <2> QED BY <1>2, <2>2, <2>3 DEF DetachMonth
  <1>3. CASE FinishDetach
    <2>1. \A m \in Months : ~Is(m, "pending")' /\ (Is(m, "attached") => Is(m, "attached")')
      BY <1>3 DEF FinishDetach, Pending, Is
    <2>2. tables' \in [Months -> {"none", "attached", "pending", "alone"}]
      BY <1>3 DEF TypeOK, FinishDetach
    <2> QED BY <1>3, <2>1, <2>2 DEF TypeOK, FinishDetach, Pending, Attached
  <1>4. CASE DropMonth
    <2>1. Due \notin (month - Keep)..(First + 1)
      BY RetentionAssumption DEF RetentionAssumption, TypeOK, Due
    <2>2. \A m \in Months : tables'[m] = tables[m] \/ (m = Due /\ tables'[m] = "none")
      BY <1>4 DEF TypeOK, DropMonth
    <2>3. tables' \in [Months -> {"none", "attached", "pending", "alone"}]
      BY <1>4 DEF TypeOK, DropMonth
    <2>4. Pending' \subseteq Pending /\ (month - Keep)..(First + 1) \subseteq Attached'
      BY <2>1, <2>2 DEF TypeOK, Pending, Attached, Is
    <2> QED BY <1>4, <2>3, <2>4 DEF TypeOK, DropMonth
  <1>5. CASE AttachDefault
    BY <1>5 DEF TypeOK, AttachDefault, Pending, Attached, Is
  <1> QED BY <1>1, <1>2, <1>3, <1>4, <1>5 DEF Script

(* Lab 02 retires what is older than Keep, and creates months to come.     *)
LEMMA FunctionStep ==
  ASSUME TypeOK, Ensure \/ Retire
  PROVE  TypeOK'
  <1>1. tables' \in [Months -> {"none", "attached", "pending", "alone"}]
    BY DEF TypeOK, Ensure, Retire
  <1>2. \A m \in Months : Is(m, "pending")' => Is(m, "pending")
    BY DEF Ensure, Retire, Is
  <1>3. \A m \in (month - Keep)..(First + 1) : m \in Attached'
    <2> SUFFICES ASSUME NEW m \in (month - Keep)..(First + 1) PROVE m \in Attached'
      OBVIOUS
    <2>1. m \in Months /\ Is(m, "attached")
      BY DEF TypeOK, Attached
    <2>2. ~Old(m) /\ m \notin Missing
      BY <2>1, RetentionAssumption DEF RetentionAssumption, TypeOK, Old, Missing, Is
    <2> QED BY <2>1, <2>2 DEF Ensure, Retire, Attached, Is
  <1> QED BY <1>1, <1>2, <1>3 DEF TypeOK, Ensure, Retire, Pending

(* Every step keeps the months that both tools keep (05-retention.sql:49,  *)
(* 02-rollover-manual.sql:61), has one partition pending at most, and      *)
(* leaves the default partition off only while the script runs or after it *)
(* failed.                                                                 *)
THEOREM KeptMonthsStay == Spec => []TypeOK
  <1>1. TypeOK /\ [Next]_vars => TypeOK'
    <2> SUFFICES ASSUME TypeOK, [Next]_vars PROVE TypeOK'
      OBVIOUS
    <2>1. CASE Script BY <2>1, ScriptStep
    <2>2. CASE Ensure \/ Retire BY <2>2, FunctionStep
    <2>3. CASE Stop
      BY <2>3, RetentionAssumption DEF RetentionAssumption, TypeOK, Stop, Pending, Attached, Is
    <2>4. CASE \E m \in Months : Misdated(m)
      BY <2>4 DEF TypeOK, Misdated, Pending, Attached, Is
    <2>5. CASE Rollover
      BY <2>5, RetentionAssumption DEF RetentionAssumption, TypeOK, Rollover, Pending, Attached, Is
    <2>6. CASE UNCHANGED vars
      BY <2>6 DEF TypeOK, vars, Pending, Attached, Is
    <2> QED BY <2>1, <2>2, <2>3, <2>4, <2>5, <2>6 DEF Next
  <1> QED BY <1>1, Initially, PTL DEF Spec
=============================================================================
