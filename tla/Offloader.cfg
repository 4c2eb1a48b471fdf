CONSTANTS
  v1 = v1
  v2 = v2
  p1 = p1
  p2 = p2
  Calls = {v1, v2, p1, p2}
  Serialized = {v1, v2}
  Workers = 1
  Capacity = 2
SPECIFICATION FairSpec
INVARIANTS SlotsConserved LockHasOneHolder
PROPERTY EveryCallEnds
CHECK_DEADLOCK FALSE
