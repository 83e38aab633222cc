SPECIFICATION Spec
CONSTANTS
  a = a
  b = b
  l = l
  m = m
  None = None
  Names = {a, b}
  Labels = {l, m}
  Languages <- CrossingLanguages
INVARIANT JumpsStayInFunction
CHECK_DEADLOCK FALSE
