SPECIFICATION RemoteSpec
CONSTANTS
  a = a
  b = b
  Path = {a, b}
  MaxWork = 2
  MaxSpawns = 2
  Faults = {}
CHECK_DEADLOCK FALSE
INVARIANT
  RestartMeansRespawned
