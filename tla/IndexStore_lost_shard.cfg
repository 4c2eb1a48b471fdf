CONSTANTS
  Files = {f1, f2}
  MaxVersion = 2
  Procs = {p1}
  Sharded = TRUE
  TrackErrors = TRUE
  WritesMayFail = TRUE
  MaxFaults = 1
SPECIFICATION Spec
INVARIANTS TrustedDataIsCurrent
