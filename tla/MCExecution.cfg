SPECIFICATION Spec
CONSTANTS
  c1 = c1
  c2 = c2
  Callers <- MCTwo
  Named <- MCFirst
  Background <- MCSecond
  Collectors <- MCNone
  MaxRetries = 1
  MaxSockets = 2
  MaxPolls = 1
INVARIANTS
  WaitsAreAnswered
  RunsBounded
PROPERTIES
  NoRerunWhileAnswerable
CHECK_DEADLOCK FALSE
