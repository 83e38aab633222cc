SPECIFICATION Spec
CONSTANTS
  a = a
  b = b
  l = l
  m = m
  None = None
  Names = {a, b}
  Labels = {l, m}
  Languages <- ModelLanguages
INVARIANTS
  ResolvesInnermost LinksAgree EverythingAnalyzed RejectsOnlyWrong JumpsFindLoop ReturnsFindFunction
CHECK_DEADLOCK FALSE
