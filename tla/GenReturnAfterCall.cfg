SPECIFICATION Spec
CONSTANTS
  Constructs = {"expression", "call", "return"}
  Units = {"value"}
  MaxNodes = 3
  MaxParams = 0
  MaxArgs = 0
INVARIANTS ReturnStructFirst

