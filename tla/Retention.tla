------------------------------- MODULE Retention -------------------------------
(***************************************************************************)
(* The monthly partitions of events_p (src/labs/01-range-partitioning and  *)
(* src/labs/02-retention-rollover): the retention script of lab 01, one    *)
(* transaction after the other, which may die between any two and is then  *)
(* run again; and the two functions of lab 02, each in one transaction.    *)
(*                                                                         *)
(* Whether DETACH, ATTACH and CREATE succeed is PostgreSQL's to say.       *)
(***************************************************************************)
EXTENDS Integers

CONSTANTS
  First, Last,   \* the months that pass
  Age,           \* the age at which the script retires a month: 13
  Keep,          \* retire_month_partitions: keep_months
  Ahead,         \* ensure_month_partitions: months_ahead
  MaxStops       \* bound: how often the script dies

(* The functions keep less than the script; all ages are of whole months.  *)
ASSUME RetentionAssumption ==
  /\ First \in Int /\ Last \in Int /\ First <= Last
  /\ Keep \in Nat \ {0} /\ Age \in Nat /\ Keep < Age
  /\ Ahead \in Nat \ {0} /\ MaxStops \in Nat

VARIABLES
  month,       \* date_trunc('month', now())
  tables,      \* tables[m]: the table of month m
  default,     \* events_p_default is attached
  inDefault,   \* the months that it has rows of
  step,        \* the next statement of the script
  stops

vars == <<month, tables, default, inDefault, step, stops>>

Months == (First - Age - 1)..(Last + Ahead)

Is(m, kind) == tables[m] = kind
Attached == {m \in Months : Is(m, "attached")}

(* Between the two transactions of DETACH ... CONCURRENTLY. *)
Pending == {m \in Months : Is(m, "pending")}

(* "pg_inherits" has them. *)
Partitions == Attached \cup Pending

(* Lab 01, 01-schema.sql: 13 months back, this one, and one ahead. *)
Init ==
  /\ month = First
  /\ tables = [m \in Months |-> IF m \in (First - Age)..(First + 1) THEN "attached" ELSE "none"]
  /\ default = TRUE
  /\ inDefault = {}
  /\ step = "default"
  /\ stops = 0

(* now() is asked in each statement. *)
Due == month - Age

-----------------------------------------------------------------------------
(* Lab 01, 05-retention.sql.  It ends at an error, and is run again.       *)

DetachDefault ==
  /\ step = "default"
  /\ default' = FALSE
  /\ step' = "month"
  /\ UNCHANGED <<month, tables, inDefault, stops>>

(* Mistake: the statement has no WHERE EXISTS. *)
NeverDetached == FALSE

AlreadyDetached == Due \notin Partitions

(* The first transaction of DETACH CONCURRENTLY, if Due is a partition.    *)
(* PostgreSQL refuses it while a partition is pending, Due or another.     *)
DetachMonth ==
  /\ step = "month"
  /\ IF AlreadyDetached THEN step' = "drop" /\ UNCHANGED tables
     ELSE IF Due \in Attached /\ Pending = {}
       THEN step' = "finish" /\ tables' = [tables EXCEPT ![Due] = "pending"]
     ELSE step' = "default" /\ UNCHANGED tables
  /\ UNCHANGED <<month, default, inDefault, stops>>

(* The second, when the transactions that saw the partition have ended. *)
FinishDetach ==
  /\ step = "finish"
  /\ tables' = [m \in Months |-> IF m \in Pending THEN "alone" ELSE tables[m]]
  /\ step' = "drop"
  /\ UNCHANGED <<month, default, inDefault, stops>>

(* Mistake: it looks for a partition, not for a table. *)
DropsPartition == Due \in Partitions

DropsTable == ~Is(Due, "none")

DropMonth ==
  /\ step = "drop"
  /\ tables' = IF DropsTable THEN [tables EXCEPT ![Due] = "none"] ELSE tables
  /\ step' = "attach"
  /\ UNCHANGED <<month, default, inDefault, stops>>

(* PostgreSQL refuses it if a row belongs into a partition. *)
AttachDefault ==
  /\ step = "attach"
  /\ default' = (inDefault \cap Partitions = {})
  /\ step' = "default"
  /\ UNCHANGED <<month, tables, inDefault, stops>>

(* The script dies, or a statement fails, before its next transaction. *)
Stop ==
  /\ step # "default" /\ stops < MaxStops
  /\ step' = "default"
  /\ stops' = stops + 1
  /\ UNCHANGED <<month, tables, default, inDefault>>

-----------------------------------------------------------------------------
(* Lab 02, 02-rollover-manual.sql.                                         *)

Missing == {m \in month..(month + Ahead) : Is(m, "none")}

(* CREATE TABLE ... PARTITION OF fails if the default partition has a row  *)
(* for it, and what was created before it is rolled back.                  *)
Ensure ==
  /\ default => inDefault \cap Missing = {}
  /\ tables' = [m \in Months |-> IF m \in Missing THEN "attached" ELSE tables[m]]
  /\ UNCHANGED <<month, default, inDefault, step, stops>>

(* Mistake: the month of the cutoff goes too. *)
TooOld(m) == m <= month - Keep

(* lower < cutoff *)
Old(m) == m < month - Keep

(* Each is detached, then dropped or renamed.  A pending one makes DETACH  *)
(* fail, and nothing is retired.                                           *)
Retire ==
  LET old == {m \in Partitions : Old(m)} IN
  /\ old \cap Pending = {}
  /\ tables' = [m \in Months |-> IF m \in old THEN "none" ELSE tables[m]]
  /\ UNCHANGED <<month, default, inDefault, step, stops>>

-----------------------------------------------------------------------------
(* A row of a month without a partition.  Without a default partition,     *)
(* INSERT fails.                                                           *)
Misdated(m) ==
  /\ default /\ m \notin Partitions
  /\ inDefault' = inDefault \cup {m}
  /\ UNCHANGED <<month, tables, default, step, stops>>

Rollover ==
  /\ month < Last
  /\ month' = month + 1
  /\ UNCHANGED <<tables, default, inDefault, step, stops>>

Script == DetachDefault \/ DetachMonth \/ FinishDetach \/ DropMonth \/ AttachDefault

Next ==
  \/ Script \/ Stop
  \/ Ensure \/ Retire
  \/ \E m \in Months : Misdated(m)
  \/ Rollover

Spec == Init /\ [][Next]_vars

(* A run goes on, and the script is run again.  Lab 02 may never be run.   *)
FairSpec == Spec /\ WF_vars(Script)

-----------------------------------------------------------------------------
(* Also: one partition is pending at most, while the script runs the       *)
(* default partition is away, and a month that was there and is not older  *)
(* than what either tool keeps still is.                                   *)
TypeOK ==
  /\ month \in First..Last
  /\ tables \in [Months -> {"none", "attached", "pending", "alone"}]
  /\ \A m, n \in Pending : m = n
  /\ default \in BOOLEAN
  /\ inDefault \subseteq Months
  /\ step \in {"default", "month", "finish", "drop", "attach"}
  /\ step # "default" => ~default
  /\ stops \in 0..MaxStops
  /\ (month - Keep)..(First + 1) \subseteq Attached

(* Wherever the script dies, running it again brings the default partition *)
(* back ("Retention jobs get re-run after they fail. Write them so that is *)
(* safe.", 05-retention.sql:41) - but for two cases that it does not       *)
(* handle: it died within DETACH CONCURRENTLY, or the default partition    *)
(* has rows of a month that Ensure gave a partition in between.            *)
DefaultComesBack == []<>(default \/ Pending # {} \/ inDefault \cap Attached # {})

(* Wherever it dies, running it again in the same month drops the table it *)
(* has detached.  When the month is over, the script looks for another.    *)
DetachedIsDropped ==
  \A m \in Months : [](Is(m, "alone") => <>(Is(m, "none") \/ month # m + Age))
=============================================================================
