SPECIFICATION LocalSpec
CONSTANTS
  a = a
  b = b
  Path = {a, b}
  MaxWork = 2
  MaxSpawns = 2
  Faults = {"spawn"}
CHECK_DEADLOCK FALSE
PROPERTY
  AnswerDelivered
