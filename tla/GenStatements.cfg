SPECIFICATION Spec
CONSTANTS
  Constructs = {"let", "declare", "define", "expression", "if", "while", "do", "block", "break", "continue", "return", "get", "set", "instanceof"}
  Units = {"top", "value"}
  MaxNodes = 4
  MaxParams = 1
  MaxArgs = 0
INVARIANTS TypeOK ScopeAgrees ArgumentsFit ContextIsPrefix OpenIsPending EveryBlockEnds
PROPERTY SealedStays
