SPECIFICATION SSpec
CONSTANTS
  d1 = d1  d2 = d2  d3 = d3
  eval = eval  query = query  guest = guest
  Starts = {d1, d2, d3, guest}
  Scenarios <- Race
  Commands = {eval, query, guest}
  Kind <- MCKind
  Denied = {guest}
  Nobody = Nobody
CHECK_DEADLOCK FALSE
INVARIANT PidServes
PROPERTY SocketKept
