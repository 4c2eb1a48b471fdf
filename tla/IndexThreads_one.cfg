CONSTANTS
  a = a
  b = b
  w1 = w1
  r1 = r1
  r2 = r2
  Files = {a, b}
  Threads = {w1, r1, r2}
  Refreshers = {w1}
  MaxVersion = 3
SPECIFICATION Spec
INVARIANTS SigsDescribeMaps SettledMapsAgree
SYMMETRY Interchangeable
CHECK_DEADLOCK FALSE
