SPECIFICATION LocalFairSpec
CONSTANTS
  a = a
  b = b
  Path = {a, b}
  MaxWork = 3
  MaxSpawns = 3
  Faults = {"spawn", "init", "crash", "vanish"}
CHECK_DEADLOCK FALSE
INVARIANTS OneProcess
PROPERTIES LocalImplementsService LocalEnds
