SPECIFICATION WireSpec
CONSTANTS
  MaxLength = 2
  MaxFaults = 1
  MaxEvents = 1
  Times = {1}
  MaxEdits = 3
  MaxFires = 2
  MaxRuns = 1
  MaxDrops = 1
  Req = {1, 2}
  MaxRetries = 2
  MaxFlips = 1
  Device = {a, b}
  LogSize = 2
  MergedSize = 2
  MaxLogged = 3
  MaxEpoch = 2
  MaxLogReads = 1
  Caller = {1, 2}
  NativeSize = 1
  SeenSize = 2
  MaxWritten = 3
  MaxNativeReads = 2
  PerStamp = 2
  Host = {"h1", "h2"}
  App = "app"
  MaxEntries = 2
  MaxSteps = 4
INVARIANTS
  VerifiedHeld
  OnlyTheField
  SettledIsSame
  InterceptorTells
  LogsTell
  VaultNames
PROPERTY
  MocksAsPromised
CHECK_DEADLOCK FALSE
