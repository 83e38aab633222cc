SPECIFICATION Spec
CONSTANTS
  Constructs = {"define", "expression", "get", "set", "compound", "postfix", "linear", "element", "update", "ternary", "call"}
  Units = {"top", "void"}
  MaxNodes = 4
  MaxParams = 1
  MaxArgs = 2
INVARIANTS ScopeAgrees OperandsEarlier StackEmptyBetween OpenIsPending

