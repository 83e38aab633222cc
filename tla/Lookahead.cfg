SPECIFICATION Spec
CONSTANTS
  Kinds = {"TYPE", "IDENTIFIER", "OPEN_PAREN", "CLOSE_PAREN", "COMMA", "OPEN_BRACKET"}
  NoToken = "NULL"
  FirstCapacity = 2
  MaxTokens = 4
INVARIANTS TypeOK LooksInOrder WithinCapacity
PROPERTIES TakesInOrder DetectionEnds
CHECK_DEADLOCK FALSE
