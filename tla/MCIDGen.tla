------------------------------- MODULE MCIDGen -------------------------------
(***************************************************************************)
(* Small instances of IDGen: generators g0 and g1 for shards 0 and 1,      *)
(* goroutines 1 and 2 of g1, 3 of g0.                                      *)
(***************************************************************************)
EXTENDS IDGen

MCShardOf == [g \in Gens |-> IF g = "g1" THEN 1 ELSE 0]

MCGenOf == [c \in Callers |-> IF c = 3 THEN "g0" ELSE "g1"]
=============================================================================
