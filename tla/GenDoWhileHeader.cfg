SPECIFICATION Spec
CONSTANTS
  Constructs = {"let", "do"}
  Units = {"top"}
  MaxNodes = 3
  MaxParams = 0
  MaxArgs = 0
INVARIANTS JoinsFit

