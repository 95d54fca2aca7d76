SPECIFICATION LiveSpec
CONSTANTS
  c1 = c1
  c2 = c2
  Callers <- MCTwo
  Named <- MCFirst
  Background <- MCNone
  Collectors <- MCSecond
  MaxRetries = 1
  MaxSockets = 3
  MaxPolls = 1
PROPERTIES
  CallEnds
CHECK_DEADLOCK FALSE
