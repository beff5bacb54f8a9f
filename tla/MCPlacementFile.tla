--------------------------- MODULE MCPlacementFile ---------------------------
(***************************************************************************)
(* Processes are interchangeable where all of them edit.                   *)
(***************************************************************************)
EXTENDS PlacementFile, TLC

CONSTANTS p1, p2, p3

Symmetry == Permutations(Editors) \cup Permutations(Procs \ Editors)
=============================================================================
