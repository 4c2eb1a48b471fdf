CONSTANTS
  Files = {f1, f2}
  MaxVersion = 2
  Procs = {p1, p2}
  Sharded = TRUE
  TrackErrors = TRUE
  WritesMayFail = TRUE
  MaxFaults = 1
SPECIFICATION Spec
SYMMETRY Interchangeable
INVARIANTS MapsCoverSignatures
PROPERTIES NeverBackwards
