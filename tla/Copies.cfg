SPECIFICATION Spec
CONSTANTS
  Operations <- ModelOperations
  Plain = {0}
  MaxNumbers = 4
  MaxArguments = 1
INVARIANTS SameMeaning EffectsKept UnreadStays
CHECK_DEADLOCK FALSE
