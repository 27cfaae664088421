SPECIFICATION UnreadSpec
CONSTANTS
  s = s
  w = w
  d = d
  a = a
  b = b
  d1 = d1
  d2 = d2
  Path = {a, b}
  Drv = {d1, d2}
  Job = {s, w, d}
  Kind <- MCKind
  Content <- MCContent
  MaxVersion = 2
  Scenarios <- Unread
CHECK_DEADLOCK FALSE
PROPERTY
  CancelEnds
