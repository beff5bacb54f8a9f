SPECIFICATION Spec
CONSTANTS
  p1 = p1
  p2 = p2
  p3 = p3
  Procs = {p1, p2, p3}
  Editors = {p1, p2}
  Edits = {e1, e2, e3}
  MaxCrashes = 2
SYMMETRY Symmetry
INVARIANTS TypeOK WholeFile NoEditLost QuietIsNotEmpty
CHECK_DEADLOCK FALSE
