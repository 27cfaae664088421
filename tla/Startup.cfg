SPECIFICATION SFairSpec
CONSTANTS
  d1 = d1  d2 = d2  d3 = d3
  eval = eval  query = query  guest = guest
  Starts = {d1, d2, d3, guest}
  Scenarios <- MCScenarios
  Commands = {eval, query, guest}
  Kind <- MCKind
  Denied = {guest}
  Nobody = Nobody
INVARIANTS ExitTellsTheTruth FailsForAReason
PROPERTIES OlderKept ReadyIsReached StartsEnd
CHECK_DEADLOCK FALSE
