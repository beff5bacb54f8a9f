---------------------------- MODULE PlacementFile ----------------------------
(***************************************************************************)
(* The placement file: Save, LoadDirectory and LoadOrInitDirectory of      *)
(* src/internal/shard (topology.go:257-295, store.go) by processes that    *)
(* share the file and, since its name is fixed, the .tmp file too.         *)
(*                                                                         *)
(* A directory is the set of edits (BeginMove, Commit, Pin) made to it.    *)
(* External: the program that loads, edits and saves (cmd/reshard is not   *)
(* in the repository), and the file system, where a process that has a     *)
(* file open keeps it when another renames it.                             *)
(***************************************************************************)
EXTENDS Naturals

CONSTANTS
  Procs,      \* the processes
  Editors,    \* those that edit the directory; the others only load it
  Edits,      \* the edits, each saved once
  MaxCrashes  \* bound: how many processes die

ASSUME PlacementAssumption ==
  /\ Editors \subseteq Procs
  /\ MaxCrashes \in Nat

VARIABLES
  file,     \* the placement file
  tmp,      \* the file its next version is written to
  proc,     \* proc[p]: where process p is in LoadOrInitDirectory and Save
  saved,    \* the edits whose Save returned nil
  overlap,  \* history: two processes were between load and rename at once
  crashes

vars == <<file, tmp, proc, saved, overlap, crashes>>

Directories == {[edits |-> E] : E \in SUBSET Edits}
NewDirectory == [edits |-> {}]
NoFile == [is |-> "no file"]
Empty == [is |-> "empty"]      \* opened with O_TRUNC and not written yet
Torn == [is |-> "torn"]        \* the tail of a longer directory behind a shorter one
Contents == Directories \cup {NoFile, Empty, Torn}

(* "opened": os.WriteFile has the file open; fd says what has become of it *)
(* since, as "gone" is a placement file that was replaced.                 *)
Idle == [at |-> "idle"]
Saving == [at : {"absent", "save", "opened", "written"}, d : Directories, new : SUBSET Edits,
           fd : {"none", "tmp", "file", "gone"}]

TypeOK ==
  /\ {file, tmp} \subseteq Contents
  /\ proc \in [Procs -> Saving \cup {Idle}]
  /\ \A p \in Procs : proc[p] # Idle => (proc[p].at = "opened" <=> proc[p].fd # "none")
  /\ saved \subseteq Edits
  /\ overlap \in BOOLEAN
  /\ crashes \in 0..MaxCrashes

Init ==
  /\ file = NoFile
  /\ tmp = NoFile
  /\ proc = [p \in Procs |-> Idle]
  /\ saved = {}
  /\ overlap = FALSE
  /\ crashes = 0

-----------------------------------------------------------------------------
At(p, place) == proc[p] # Idle /\ proc[p].at = place

(* Process p has loaded the directory d, with the edits "new" of its own.  *)
Loaded(p, d, new) ==
  /\ proc' = [proc EXCEPT ![p] = [at |-> "save", d |-> d, new |-> new, fd |-> "none"]]
  /\ overlap' = (overlap \/ \E q \in Procs : proc[q] # Idle)

InHand == UNION {proc[p].new : p \in {q \in Procs : proc[q] # Idle}}

(* LoadOrInitDirectory on first use. A load that finds half a file returns *)
(* an error, and one that finds a directory leaves everything as it is.    *)
LoadAbsent(p) ==
  /\ proc[p] = Idle
  /\ file = NoFile
  /\ Loaded(p, NewDirectory, {})
  /\ UNCHANGED <<file, tmp, saved, crashes>>

(* Mistake: the edit is made to a new directory. *)
EditNew(e) == [NewDirectory EXCEPT !.edits = {e}]

Edited(e) == [file EXCEPT !.edits = @ \cup {e}]

(* LoadDirectory and one edit. *)
LoadAndEdit(p) ==
  /\ p \in Editors /\ proc[p] = Idle
  /\ file \in Directories
  /\ \E e \in Edits \ (file.edits \cup saved \cup InHand) : Loaded(p, Edited(e), {e})
  /\ UNCHANGED <<file, tmp, saved, crashes>>

(* Mistake: the directory is written in place. *)
InPlace(p) ==
  /\ file' = Empty
  /\ tmp' = tmp
  /\ proc' = [proc EXCEPT ![p].at = "opened", ![p].fd = "file"]

(* Mistake: the directory is renamed before it is written. *)
Unwritten(p) ==
  /\ tmp' = Empty
  /\ file' = file
  /\ proc' = [proc EXCEPT ![p].at = "written", ![p].fd = "tmp"]

Truncate(p) ==
  /\ tmp' = Empty
  /\ file' = file
  /\ proc' = [proc EXCEPT ![p].at = "opened", ![p].fd = "tmp"]

OpenTmp(p) ==
  /\ At(p, "save")
  /\ Truncate(p)
  /\ UNCHANGED <<saved, overlap, crashes>>

(* What a file holds when p has written it: a longer directory that some   *)
(* other process wrote through the same name shows behind a shorter one.   *)
Written(p, before) == {proc[p].d} \cup (IF before = Empty THEN {} ELSE {Torn})

(* Mistake: the error of a write that wrote nothing is dropped. *)
WriteIgnored(p) ==
  /\ At(p, "opened")
  /\ proc' = [proc EXCEPT ![p].at = "written", ![p].fd = "none"]
  /\ UNCHANGED <<file, tmp, saved, overlap, crashes>>

WriteTmp(p) ==
  /\ At(p, "opened")
  /\ tmp' \in IF proc[p].fd = "tmp" THEN Written(p, tmp) ELSE {tmp}
  /\ file' \in IF proc[p].fd = "file" THEN Written(p, file) ELSE {file}
  /\ proc' = [proc EXCEPT ![p].at = "written", ![p].fd = "none"]
  /\ UNCHANGED <<saved, overlap, crashes>>

(* What p's rename does to a file that another process has open. *)
Renamed(fd) == CASE fd = "tmp" -> "file" [] fd = "file" -> "gone" [] OTHER -> fd

(* os.Rename, which fails when another process has taken the .tmp file. *)
Rename(p) ==
  /\ At(p, "written")
  /\ \/ /\ tmp # NoFile
        /\ file' = tmp /\ tmp' = NoFile
        /\ saved' = saved \cup proc[p].new
        /\ proc' = [q \in Procs |->
             CASE q = p           -> Idle
               [] proc[q] = Idle  -> Idle
               [] OTHER           -> [proc[q] EXCEPT !.fd = Renamed(@)]]
     \/ /\ tmp = NoFile
        /\ proc' = [proc EXCEPT ![p] = Idle]
        /\ UNCHANGED <<file, tmp, saved>>
  /\ UNCHANGED <<overlap, crashes>>

(* The process dies, or a call of Save fails and it returns the error: the *)
(* files stay as they are.                                                 *)
Crash(p) ==
  /\ proc[p] # Idle /\ crashes < MaxCrashes
  /\ crashes' = crashes + 1
  /\ proc' = [proc EXCEPT ![p] = Idle]
  /\ UNCHANGED <<file, tmp, saved, overlap>>

Next == \E p \in Procs :
  \/ LoadAbsent(p) \/ LoadAndEdit(p)
  \/ OpenTmp(p) \/ WriteTmp(p) \/ Rename(p)
  \/ Crash(p)

Spec == Init /\ [][Next]_vars

-----------------------------------------------------------------------------
(* A reader never finds half a placement, though writers die at any point, *)
(* while Saves do not overlap: "atomic-ish" (topology.go:272-276). Two     *)
(* that do share one .tmp file, and the rename of one publishes what the   *)
(* other has just emptied.                                                 *)
WholeFile == ~overlap => file \notin {Empty, Torn}

(* An edit whose Save returned nil stays in the placement file, the "only  *)
(* record of where the rows went" (main.go:189-190), while nobody loads    *)
(* the file that another process is about to replace: Save compares        *)
(* nothing (topology.go:276), nor does LoadOrInit (store.go:20-25).        *)
NoEditLost == ~overlap /\ file \in Directories => saved \subseteq file.edits

(* Two Saves may empty each other's file, but then one of them still has   *)
(* it open and fills it: with no process dead and none in Save, the        *)
(* placement file is not empty (topology.go:272-276).                      *)
QuietIsNotEmpty == (\A p \in Procs : proc[p] = Idle) /\ crashes = 0 => file # Empty
=============================================================================
