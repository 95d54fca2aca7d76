SPECIFICATION FairSpec
CONSTANTS
  c1 = c1
  c2 = c2
  c3 = c3
  Calls = {c1, c2}
  NoCall = NoCall
  Tools = {"use", "status", "activate", "delete"}
  Limit = 2
  WarnAt = 1
  MaxMonth = 1
  MaxStarts = 2
  Https = {TRUE, FALSE}
INVARIANTS
  BannersRationed
PROPERTIES
  VerdictKept
  QueueMoves
CHECK_DEADLOCK FALSE
