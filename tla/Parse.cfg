SPECIFICATION Spec
CONSTANTS
  MaxStatement = 8
  MaxExpression = 9
  MaxNew = 9
  MaxOperators = 8
  MaxForms = 7
  MaxControl = 10
INVARIANTS DetectionAgrees Grouped ReadsBack NothingLost
CHECK_DEADLOCK FALSE
