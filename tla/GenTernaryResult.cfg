SPECIFICATION Spec
CONSTANTS
  Constructs = {"let", "expression", "linear", "ternary"}
  Units = {"top"}
  MaxNodes = 4
  MaxParams = 0
  MaxArgs = 0
INVARIANTS StackPassedOn

