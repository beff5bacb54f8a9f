------------------------------ MODULE MCRetention ------------------------------
(* Three months pass; the script retires at 3 months, the functions keep 2. *)
EXTENDS Retention
=============================================================================
