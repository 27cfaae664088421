SPECIFICATION LocalFairSpec
CONSTANTS
  a = a
  b = b
  Path = {a, b}
  MaxWork = 2
  MaxSpawns = 2
  Faults = {"unreadable"}
CHECK_DEADLOCK FALSE
PROPERTY
  LocalAnswers
