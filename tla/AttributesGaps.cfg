SPECIFICATION ASpec
CONSTANTS
  w1 = w1  w2 = w2
  Values <- MCValues
  Type <- MCType
  Attr <- MCAttr
  Items <- MCItems
  Result <- MCResult
  Lacks <- MCLacks
  Text <- MCText
  Drv <- MCDrv
  InputDrvs <- MCInputDrvs
  Null = null
  null = null
  None = None
  Failed = Failed
  Scenarios <- Gaps
  Workers = {w1, w2}
  Depth = 3
  MaxLength = 3
CHECK_DEADLOCK FALSE
INVARIANTS ListedAreFound ErrorMeansUnlinked
