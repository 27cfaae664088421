SPECIFICATION QSpec
CONSTANTS
  a = a  b = b  x86 = x86  arm = arm  none = none  two = two
  Star = Star  Any = Any  Dot = Dot
  Equals = Equals  Separator = Separator  Comma = Comma
  None = None  Absent = Absent  Invalid = Invalid
  Char = {a, b, Star, Any, Dot}
  Patterns = {}
  Values = {}
  Questions <- MCQuestions
  Anything <- MCAnything
  CommandLines <- MCCommandLines
  Number <- MCNumber
  Pieces <- MCPieces
INVARIANTS FilterRight PlanIsMeant QueryIsMeant
CHECK_DEADLOCK FALSE
