SPECIFICATION FairSpec
CONSTANTS
  Backends = {"silent", "answers"}
  NumIds = 1
  MaxRuns = 2
  MaxDrops = 1
  MaxQueue = 2
  MaxSize = 1
INVARIANTS
  SdkAlone
PROPERTIES
  SdkRowKeepsRun
  SdkDetected
CHECK_DEADLOCK FALSE
