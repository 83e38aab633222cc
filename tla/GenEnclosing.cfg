SPECIFICATION Spec
CONSTANTS
  Constructs = {"return", "get", "expression"}
  Units = {"top", "value"}
  MaxNodes = 3
  MaxParams = 1
  MaxArgs = 0
INVARIANTS NoneMissing
