SPECIFICATION FairSpec
CONSTANTS
  k1 = k1
  k2 = k2
  dev = dev
  Keys = {k1}
  Calls = {c1, c2}
  NoCall = NoCall
  NoKey = NoKey
  DeviceOf <- OneDevice
  Chromium = {k1}
  MaxAttempts = 2
  MaxStray = 2
PROPERTIES
  CallsReturn
  DeadEntryLeaves
