SPECIFICATION Spec
CONSTANTS
  c1 = c1
  c2 = c2
  c3 = c3
  k1 = k1
  k2 = k2
  Conn = {c1, c2}
  Key = {k1}
  Requests <- MCSameKey
  Size = 2
  MaxDiffs = 1
  MaxRoom = 1
  Faults = {"leave"}
CHECK_DEADLOCK FALSE
INVARIANTS StillEvaluating QueryForever
