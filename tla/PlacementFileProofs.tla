-------------------------- MODULE PlacementFileProofs --------------------------
(***************************************************************************)
(* For any number of processes, edits and deaths: while Saves do not       *)
(* overlap the placement file is whole and keeps every saved edit, and     *)
(* however they overlap it is not empty once all are done and none died.   *)
(***************************************************************************)
EXTENDS PlacementFile, TLAPS

(* Records of different fields are different. *)
LEMMA Kinds ==
  /\ Idle \notin Saving
  /\ Directories \cap {NoFile, Empty, Torn} = {}
  /\ NoFile # Empty /\ NoFile # Torn /\ Empty # Torn
  <1>1. Idle \notin Saving
    <2> SUFFICES ASSUME NEW r \in Saving PROVE r # Idle
      OBVIOUS
    <2>1. "d" \in DOMAIN r
      BY DEF Saving
    <2>2. "d" \notin DOMAIN Idle
      BY DEF Idle
    <2> QED BY <2>1, <2>2
  <1>2. ASSUME NEW d \in Directories PROVE d \notin {NoFile, Empty, Torn}
    <2>1. "edits" \in DOMAIN d
      BY DEF Directories
    <2>2. "edits" \notin DOMAIN NoFile /\ "edits" \notin DOMAIN Empty /\ "edits" \notin DOMAIN Torn
      BY DEF NoFile, Empty, Torn
    <2> QED BY <2>1, <2>2
  <1>3. NoFile.is # Empty.is /\ NoFile.is # Torn.is /\ Empty.is # Torn.is
    BY DEF NoFile, Empty, Torn
  <1> QED BY <1>1, <1>2, <1>3

Places == {"absent", "save", "opened", "written"}
Opens == {"none", "tmp", "file", "gone"}

(* What a field update makes of a process in Save. *)
LEMMA Updated ==
  ASSUME NEW r \in Saving, NEW at \in Places, NEW fd \in Opens
  PROVE  /\ [r EXCEPT !.at = at, !.fd = fd] \in Saving
         /\ [r EXCEPT !.at = at, !.fd = fd].at = at
         /\ [r EXCEPT !.at = at, !.fd = fd].fd = fd
         /\ [r EXCEPT !.at = at, !.fd = fd].d = r.d
         /\ [r EXCEPT !.at = at, !.fd = fd].new = r.new
  BY DEF Saving, Places, Opens

LEMMA Replaced ==
  ASSUME NEW r \in Saving, NEW fd \in Opens
  PROVE  /\ [r EXCEPT !.fd = fd] \in Saving
         /\ [r EXCEPT !.fd = fd].at = r.at
         /\ [r EXCEPT !.fd = fd].fd = fd
         /\ [r EXCEPT !.fd = fd].d = r.d
         /\ [r EXCEPT !.fd = fd].new = r.new
  BY DEF Saving, Opens

-----------------------------------------------------------------------------
(* While Saves do not overlap: one process at most is in one, its .tmp     *)
(* file is its own, and it has all that was saved.                         *)
Alone == \A p, q \in Procs : proc[p] # Idle /\ proc[q] # Idle => p = q
OwnTmp == \A p \in Procs :
  /\ At(p, "opened") => proc[p].fd = "tmp" /\ tmp = Empty
  /\ At(p, "written") => tmp = proc[p].d
Current == \A p \in Procs : proc[p] # Idle => saved \cup proc[p].new \subseteq proc[p].d.edits
FirstUse == file = NoFile => saved = {}

InTurn == ~overlap => Alone /\ OwnTmp /\ Current /\ FirstUse /\ WholeFile /\ NoEditLost

(* Who empties a file has it open, whatever it is called by then. *)
Opener(p, fd) == At(p, "opened") /\ proc[p].fd = fd
EmptyIsOpen == crashes = 0 =>
  /\ file = Empty => \E p \in Procs : Opener(p, "file")
  /\ tmp = Empty => \E p \in Procs : Opener(p, "tmp")

IInv == TypeOK /\ InTurn /\ EmptyIsOpen

-----------------------------------------------------------------------------
LEMMA InitStep == Init => IInv
  <1> SUFFICES ASSUME Init PROVE IInv
    OBVIOUS
  <1>1. \A p \in Procs : proc[p] = Idle
    BY DEF Init
  <1>2. TypeOK
    <2>1. proc \in [Procs -> Saving \cup {Idle}]
      BY DEF Init
    <2>2. {file, tmp} \subseteq Contents
      BY DEF Init, Contents
    <2>3. crashes \in 0..MaxCrashes
      BY PlacementAssumption DEF PlacementAssumption, Init
    <2> QED BY <1>1, <2>1, <2>2, <2>3 DEF Init, TypeOK
  <1>3. InTurn
    BY <1>1, Kinds DEF Init, InTurn, Alone, OwnTmp, At, Current, FirstUse, WholeFile, NoEditLost
  <1>4. EmptyIsOpen
    BY Kinds DEF Init, EmptyIsOpen
  <1> QED BY <1>2, <1>3, <1>4 DEF IInv

(* What is loaded has all that was saved.                                  *)
LEMMA LoadStep ==
  ASSUME IInv, NEW p \in Procs, LoadAbsent(p) \/ LoadAndEdit(p)
  PROVE  IInv'
  <1>1. PICK d \in Directories, new \in SUBSET Edits :
          /\ proc[p] = Idle /\ file # Empty
          /\ Loaded(p, d, new) /\ UNCHANGED <<file, tmp, saved, crashes>>
          /\ ~overlap => saved \cup new \subseteq d.edits
    <2>1. CASE LoadAbsent(p)
      <3>1. NewDirectory \in Directories
        BY DEF NewDirectory, Directories
      <3>2. ~overlap => saved = {}
        BY <2>1 DEF LoadAbsent, IInv, InTurn, FirstUse
      <3> QED BY <2>1, <3>1, <3>2, Kinds DEF LoadAbsent
    <2>2. CASE LoadAndEdit(p)
      <3>1. PICK e \in Edits : Loaded(p, Edited(e), {e})
        BY <2>2 DEF LoadAndEdit
      <3>2. PICK E \in SUBSET Edits : file = [edits |-> E]
        BY <2>2 DEF LoadAndEdit, Directories
      <3>3. Edited(e) = [edits |-> E \cup {e}]
        BY <3>2 DEF Edited
      <3>4. Edited(e) \in Directories
        BY <3>3 DEF Directories
      <3>5. ~overlap => saved \subseteq E
        BY <2>2, <3>2 DEF LoadAndEdit, IInv, InTurn, NoEditLost
      <3> QED BY <2>2, <3>1, <3>3, <3>4, <3>5, Kinds DEF LoadAndEdit
    <2> QED BY <2>1, <2>2
  <1> DEFINE r == [at |-> "save", d |-> d, new |-> new, fd |-> "none"]
  <1>2. r \in Saving /\ r # Idle
    BY Kinds DEF Saving
  <1>3. r.at = "save" /\ r.d = d /\ r.new = new /\ r.fd = "none"
    OBVIOUS
  <1>4. proc' = [proc EXCEPT ![p] = r] /\ overlap' = (overlap \/ \E q \in Procs : proc[q] # Idle)
    BY <1>1 DEF Loaded
  <1> HIDE DEF r
  <1>5. proc'[p] = r /\ \A q \in Procs \ {p} : proc'[q] = proc[q]
    BY <1>4 DEF IInv, TypeOK
  <1>6. TypeOK'
    <2>1. proc' \in [Procs -> Saving \cup {Idle}]
      BY <1>2, <1>4 DEF IInv, TypeOK
    <2>2. \A q \in Procs : proc'[q] # Idle => (proc'[q].at = "opened" <=> proc'[q].fd # "none")
      BY <1>3, <1>5 DEF IInv, TypeOK
    <2> QED BY <1>1, <1>4, <2>1, <2>2 DEF IInv, TypeOK
  <1>7. InTurn'
    <2> SUFFICES ASSUME ~overlap' PROVE (Alone /\ OwnTmp /\ Current /\ FirstUse /\ WholeFile /\ NoEditLost)'
      BY DEF InTurn
    <2>1. ~overlap /\ \A q \in Procs : proc[q] = Idle
      BY <1>4
    <2>2. \A q \in Procs : proc'[q] # Idle => q = p
      BY <1>5, <2>1
    <2>3. Alone' /\ OwnTmp' /\ Current'
      BY <1>1, <1>3, <1>5, <2>1, <2>2 DEF Alone, OwnTmp, At, Current
    <2> QED BY <1>1, <2>1, <2>3 DEF IInv, InTurn, FirstUse, WholeFile, NoEditLost
  <1>8. EmptyIsOpen'
    BY <1>1, <1>5 DEF IInv, EmptyIsOpen, Opener, At
  <1> QED BY <1>6, <1>7, <1>8 DEF IInv

(* The .tmp file is p's from here on, and whoever had emptied the          *)
(* placement file still has it open.                                       *)
LEMMA OpenStep ==
  ASSUME IInv, NEW p \in Procs, OpenTmp(p)
  PROVE  IInv'
  <1> DEFINE r == [proc[p] EXCEPT !.at = "opened", !.fd = "tmp"]
  <1>1. proc[p] \in Saving /\ proc[p] # Idle /\ proc[p].at = "save"
    BY Kinds DEF OpenTmp, At, IInv, TypeOK
  <1>2. r \in Saving /\ r.at = "opened" /\ r.fd = "tmp" /\ r.d = proc[p].d /\ r.new = proc[p].new
    BY <1>1, Updated DEF Places, Opens
  <1>3. proc' = [proc EXCEPT ![p] = r]
    BY DEF OpenTmp, Truncate
  <1> HIDE DEF r
  <1>4. proc'[p] = r /\ r # Idle /\ \A q \in Procs \ {p} : proc'[q] = proc[q]
    BY <1>2, <1>3, Kinds DEF IInv, TypeOK
  <1>5. tmp' = Empty /\ file' = file /\ UNCHANGED <<saved, overlap, crashes>>
    BY DEF OpenTmp, Truncate
  <1>6. TypeOK'
    <2>1. proc' \in [Procs -> Saving \cup {Idle}]
      BY <1>2, <1>3 DEF IInv, TypeOK
    <2>2. \A q \in Procs : proc'[q] # Idle => (proc'[q].at = "opened" <=> proc'[q].fd # "none")
      BY <1>2, <1>4 DEF IInv, TypeOK
    <2> QED BY <1>5, <2>1, <2>2 DEF IInv, TypeOK, Contents
  <1>7. InTurn'
    <2> SUFFICES ASSUME ~overlap PROVE (Alone /\ OwnTmp /\ Current /\ FirstUse /\ WholeFile /\ NoEditLost)'
      BY <1>5 DEF InTurn
    <2>1. \A q \in Procs \ {p} : proc[q] = Idle
      BY <1>1 DEF IInv, InTurn, Alone
    <2>2. Alone' /\ OwnTmp' /\ Current'
      BY <1>1, <1>2, <1>4, <1>5, <2>1 DEF IInv, InTurn, Alone, OwnTmp, At, Current
    <2> QED BY <1>5, <2>2 DEF IInv, InTurn, FirstUse, WholeFile, NoEditLost
  <1>8. EmptyIsOpen'
    <2> SUFFICES ASSUME crashes = 0
                 PROVE  /\ file = Empty => \E q \in Procs : Opener(q, "file")'
                        /\ Opener(p, "tmp")'
      BY <1>5 DEF EmptyIsOpen
    <2>1. Opener(p, "tmp")'
      BY <1>2, <1>4 DEF Opener, At
    <2>2. \A q \in Procs : Opener(q, "file") => Opener(q, "file")'
      BY <1>1, <1>4 DEF Opener, At
    <2> QED BY <2>1, <2>2 DEF IInv, EmptyIsOpen
  <1> QED BY <1>6, <1>7, <1>8 DEF IInv

(* One that writes fills the file it has open, whichever it is.            *)
LEMMA WriteStep ==
  ASSUME IInv, NEW p \in Procs, WriteTmp(p)
  PROVE  IInv'
  <1> DEFINE r == [proc[p] EXCEPT !.at = "written", !.fd = "none"]
  <1>1. proc[p] \in Saving /\ proc[p] # Idle /\ proc[p].at = "opened"
    BY Kinds DEF WriteTmp, At, IInv, TypeOK
  <1>2. r \in Saving /\ r.at = "written" /\ r.fd = "none" /\ r.d = proc[p].d /\ r.new = proc[p].new
    BY <1>1, Updated DEF Places, Opens
  <1>3. proc' = [proc EXCEPT ![p] = r]
    BY DEF WriteTmp
  <1> HIDE DEF r
  <1>4. proc'[p] = r /\ r # Idle /\ \A q \in Procs \ {p} : proc'[q] = proc[q]
    BY <1>2, <1>3, Kinds DEF IInv, TypeOK
  <1>5. /\ tmp' \in IF proc[p].fd = "tmp" THEN Written(p, tmp) ELSE {tmp}
        /\ file' \in IF proc[p].fd = "file" THEN Written(p, file) ELSE {file}
        /\ UNCHANGED <<saved, overlap, crashes>>
    BY DEF WriteTmp
  <1>6. proc[p].d \in Directories
    BY <1>1 DEF Saving
  <1>7. \A before : Written(p, before) \subseteq Contents \ {Empty, NoFile}
    BY <1>6, Kinds DEF Written, Contents
  <1>8. TypeOK'
    <2>1. proc' \in [Procs -> Saving \cup {Idle}]
      BY <1>2, <1>3 DEF IInv, TypeOK
    <2>2. \A q \in Procs : proc'[q] # Idle => (proc'[q].at = "opened" <=> proc'[q].fd # "none")
      BY <1>2, <1>4 DEF IInv, TypeOK
    <2>3. file' \in Contents /\ tmp' \in Contents
      BY <1>5, <1>7 DEF IInv, TypeOK
    <2> QED BY <1>5, <2>1, <2>2, <2>3 DEF IInv, TypeOK
  <1>9. InTurn'
    <2> SUFFICES ASSUME ~overlap PROVE (Alone /\ OwnTmp /\ Current /\ FirstUse /\ WholeFile /\ NoEditLost)'
      BY <1>5 DEF InTurn
    <2>1. \A q \in Procs \ {p} : proc[q] = Idle
      BY <1>1 DEF IInv, InTurn, Alone
    <2>2. proc[p].fd = "tmp" /\ tmp = Empty
      BY <1>1 DEF IInv, InTurn, OwnTmp, At
    <2>3. file' = file /\ tmp' = proc[p].d
      BY <1>5, <2>2 DEF Written
    <2>4. Alone' /\ OwnTmp' /\ Current'
      BY <1>1, <1>2, <1>4, <1>5, <2>1, <2>3 DEF IInv, InTurn, Alone, OwnTmp, At, Current
    <2> QED BY <1>5, <2>3, <2>4 DEF IInv, InTurn, FirstUse, WholeFile, NoEditLost
  <1>10. EmptyIsOpen'
    <2> SUFFICES ASSUME crashes = 0
                 PROVE  /\ file' = Empty => \E q \in Procs : Opener(q, "file")'
                        /\ tmp' = Empty => \E q \in Procs : Opener(q, "tmp")'
      BY <1>5 DEF EmptyIsOpen
    <2>1. \A q \in Procs \ {p} : \A fd \in Opens : Opener(q, fd) => Opener(q, fd)'
      BY <1>4 DEF Opener, At
    <2>2. file' = Empty => file = Empty /\ ~Opener(p, "file")
      BY <1>5, <1>7 DEF Opener
    <2>3. tmp' = Empty => tmp = Empty /\ ~Opener(p, "tmp")
      BY <1>5, <1>7 DEF Opener
    <2> QED BY <2>1, <2>2, <2>3 DEF IInv, EmptyIsOpen, Opens
  <1> QED BY <1>8, <1>9, <1>10 DEF IInv

(* The rename publishes what p wrote, or what some other process has       *)
(* emptied and has open.                                                   *)
LEMMA RenameStep ==
  ASSUME IInv, NEW p \in Procs, Rename(p)
  PROVE  IInv'
  <1>1. proc[p] \in Saving /\ proc[p] # Idle /\ proc[p].at = "written" /\ proc[p].d \in Directories
    BY Kinds DEF Rename, At, IInv, TypeOK, Saving
  <1>2. UNCHANGED <<overlap, crashes>>
    BY DEF Rename
  <1>3. ASSUME ~overlap PROVE tmp = proc[p].d /\ tmp # NoFile /\ tmp \in Directories
    BY <1>1, <1>3, Kinds DEF IInv, InTurn, OwnTmp, At
  <1>4. CASE tmp # NoFile
    <2>1. /\ file' = tmp /\ tmp' = NoFile /\ saved' = saved \cup proc[p].new
          /\ proc' = [q \in Procs |-> CASE q = p -> Idle
                                       [] proc[q] = Idle -> Idle
                                       [] OTHER -> [proc[q] EXCEPT !.fd = Renamed(@)]]
      BY <1>4 DEF Rename
    <2>2. \A fd \in Opens : Renamed(fd) \in Opens /\ (Renamed(fd) = "none" <=> fd = "none")
      BY DEF Renamed, Opens
    <2>3. \A q \in Procs : q = p \/ proc[q] = Idle => proc'[q] = Idle
      BY <2>1
    <2>4. ASSUME NEW q \in Procs, q # p, proc[q] # Idle
          PROVE  /\ proc'[q] \in Saving /\ proc'[q].at = proc[q].at
                 /\ proc'[q].fd = Renamed(proc[q].fd)
      <3>1. proc[q] \in Saving /\ proc[q].fd \in Opens
        BY <2>4 DEF IInv, TypeOK, Saving, Opens
      <3>2. proc'[q] = [proc[q] EXCEPT !.fd = Renamed(proc[q].fd)]
        BY <2>1, <2>4
      <3>3. Renamed(proc[q].fd) \in Opens
        BY <2>2, <3>1
      <3> QED BY <3>1, <3>2, <3>3, Replaced
    <2>5. TypeOK'
      <3>1. proc' \in [Procs -> Saving \cup {Idle}]
        <4>1. \A q \in Procs : proc'[q] \in Saving \cup {Idle}
          BY <2>3, <2>4
        <4>2. DOMAIN proc' = Procs /\ proc' = [q \in Procs |-> proc'[q]]
          BY <2>1
        <4> QED BY <4>1, <4>2
      <3>2. \A q \in Procs : proc'[q] # Idle => (proc'[q].at = "opened" <=> proc'[q].fd # "none")
        <4> SUFFICES ASSUME NEW q \in Procs, proc'[q] # Idle
                     PROVE  proc'[q].at = "opened" <=> proc'[q].fd # "none"
          OBVIOUS
        <4>1. q # p /\ proc[q] # Idle
          BY <2>3
        <4>2. proc[q].fd \in Opens
          BY <4>1 DEF IInv, TypeOK, Saving, Opens
        <4> QED BY <2>2, <2>4, <4>1, <4>2 DEF IInv, TypeOK
      <3>3. saved' \subseteq Edits
        BY <1>1, <2>1 DEF IInv, TypeOK, Saving
      <3> QED BY <1>2, <2>1, <3>1, <3>2, <3>3 DEF IInv, TypeOK, Contents
    <2>6. InTurn'
      <3> SUFFICES ASSUME ~overlap PROVE (Alone /\ OwnTmp /\ Current /\ FirstUse /\ WholeFile /\ NoEditLost)'
        BY <1>2 DEF InTurn
      <3>1. \A q \in Procs : proc'[q] = Idle
        BY <1>1, <2>3 DEF IInv, InTurn, Alone
      <3>2. file' \in Directories /\ saved' \subseteq file'.edits
        BY <1>1, <1>3, <2>1 DEF IInv, InTurn, Current
      <3> QED BY <3>1, <3>2, Kinds DEF Alone, OwnTmp, At, Current, FirstUse, WholeFile, NoEditLost
    <2>7. EmptyIsOpen'
      <3> SUFFICES ASSUME crashes = 0, file' = Empty PROVE \E q \in Procs : Opener(q, "file")'
        BY <1>2, <2>1, Kinds DEF EmptyIsOpen
      <3>1. PICK q \in Procs : Opener(q, "tmp")
        BY <2>1 DEF IInv, EmptyIsOpen
      <3>2. q # p /\ proc[q] # Idle /\ proc[q].fd = "tmp"
        BY <1>1, <3>1 DEF Opener, At
      <3>3. proc'[q] \in Saving /\ proc'[q].at = "opened" /\ proc'[q].fd = "file"
        BY <2>4, <3>1, <3>2 DEF Opener, At, Renamed
      <3> QED BY <3>3, Kinds DEF Opener, At
    <2> QED BY <2>5, <2>6, <2>7 DEF IInv
  <1>5. CASE tmp = NoFile
    <2>1. proc' = [proc EXCEPT ![p] = Idle] /\ UNCHANGED <<file, tmp, saved>> /\ overlap
      BY <1>3, <1>5 DEF Rename
    <2>2. proc'[p] = Idle /\ \A q \in Procs \ {p} : proc'[q] = proc[q]
      BY <2>1 DEF IInv, TypeOK
    <2>3. TypeOK'
      BY <1>2, <2>1, <2>2 DEF IInv, TypeOK
    <2>4. \A q \in Procs : Opener(q, "file") => Opener(q, "file")'
      BY <1>1, <2>2 DEF Opener, At
    <2> QED BY <1>2, <1>5, <2>1, <2>3, <2>4, Kinds DEF IInv, InTurn, EmptyIsOpen
  <1> QED BY <1>4, <1>5

LEMMA CrashStep ==
  ASSUME IInv, NEW p \in Procs, Crash(p)
  PROVE  IInv'
  <1>1. proc'[p] = Idle /\ \A q \in Procs \ {p} : proc'[q] = proc[q]
    BY DEF Crash, IInv, TypeOK
  <1>2. TypeOK' /\ crashes' # 0
    <2>1. proc' \in [Procs -> Saving \cup {Idle}]
      BY DEF Crash, IInv, TypeOK
    <2> QED BY <1>1, <2>1, PlacementAssumption DEF PlacementAssumption, Crash, IInv, TypeOK
  <1>3. InTurn'
    <2> SUFFICES ASSUME ~overlap PROVE (Alone /\ OwnTmp /\ Current /\ FirstUse /\ WholeFile /\ NoEditLost)'
      BY DEF InTurn, Crash
    <2>1. \A q \in Procs : proc'[q] # Idle => proc'[q] = proc[q]
      BY <1>1
    <2>2. Alone' /\ OwnTmp' /\ Current'
      BY <2>1 DEF Crash, IInv, InTurn, Alone, OwnTmp, At, Current
    <2> QED BY <2>2 DEF Crash, IInv, InTurn, FirstUse, WholeFile, NoEditLost
  <1> QED BY <1>2, <1>3 DEF IInv, EmptyIsOpen

LEMMA Invariance == Spec => []IInv
  <1>1. IInv /\ [Next]_vars => IInv'
    <2> SUFFICES ASSUME IInv, [Next]_vars PROVE IInv'
      OBVIOUS
    <2>1. CASE Next
      BY <2>1, LoadStep, OpenStep, WriteStep, RenameStep, CrashStep DEF Next
    <2>2. CASE UNCHANGED vars
      <3>1. TypeOK'
        BY <2>2 DEF IInv, TypeOK, vars
      <3>2. InTurn'
        BY <2>2 DEF IInv, InTurn, Alone, OwnTmp, At, Current, FirstUse, WholeFile, NoEditLost, vars
      <3>3. EmptyIsOpen'
        BY <2>2 DEF IInv, EmptyIsOpen, Opener, At, vars
      <3> QED BY <3>1, <3>2, <3>3 DEF IInv
    <2> QED BY <2>1, <2>2
  <1> QED BY <1>1, InitStep, PTL DEF Spec

-----------------------------------------------------------------------------
(* A process in Save has one of the two files open, or none, and loads     *)
(* directories only (topology.go:264-295).                                 *)
THEOREM TypeCorrect == Spec => []TypeOK
  <1>1. IInv => TypeOK
    BY DEF IInv
  <1> QED BY <1>1, Invariance, PTL

(* While Saves do not overlap, readers find whole placements, whoever dies *)
(* in the middle of Save (topology.go:272-276).                            *)
THEOREM ReadersFindWholeFiles == Spec => []WholeFile
  <1>1. IInv => WholeFile
    BY DEF IInv, InTurn, WholeFile
  <1> QED BY <1>1, Invariance, PTL

(* While they do not overlap, the file has every edit whose Save returned  *)
(* nil (topology.go:276, store.go:20-25).                                  *)
THEOREM SavedEditsStay == Spec => []NoEditLost
  <1>1. IInv => NoEditLost
    BY DEF IInv, InTurn, NoEditLost
  <1> QED BY <1>1, Invariance, PTL

(* However they overlap, the file is not left empty by processes that all  *)
(* come to the end of Save (topology.go:272-276).                          *)
THEOREM NotLeftEmpty == Spec => []QuietIsNotEmpty
  <1>1. IInv => QuietIsNotEmpty
    BY DEF IInv, EmptyIsOpen, Opener, At, QuietIsNotEmpty
  <1> QED BY <1>1, Invariance, PTL
=============================================================================
