SPECIFICATION FairSpec
CONSTANTS
  c1 = c1
  c2 = c2
  c3 = c3
  k1 = k1
  k2 = k2
  Conn = {c1, c2, c3}
  Key = {k1, k2}
  Requests <- MCRequests
  Size = 2
  MaxDiffs = 1
  MaxRoom = 1
  Faults = {"fail", "leave", "malformed", "die"}
CHECK_DEADLOCK FALSE
INVARIANTS
  SuccessIsWhole
  EvalLeavesWarm
  SameConfiguration
PROPERTY
  RequestsEnd
