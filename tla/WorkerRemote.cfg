SPECIFICATION RemoteFairSpec
CONSTANTS
  a = a
  b = b
  Path = {a, b}
  MaxWork = 3
  MaxSpawns = 3
  Faults = {"spawn", "init", "crash", "vanish", "connect", "lost"}
CHECK_DEADLOCK FALSE
INVARIANTS ServerNeverPanics
PROPERTIES RemoteImplementsService RemoteEnds
