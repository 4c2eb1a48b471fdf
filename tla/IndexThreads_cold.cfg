CONSTANTS
  a = a
  w1 = w1
  w2 = w2
  Files = {a}
  Threads = {w1, w2}
  Refreshers = {w1, w2}
  MaxVersion = 3
SPECIFICATION Spec
INVARIANT SigsDescribeMaps
CHECK_DEADLOCK FALSE
