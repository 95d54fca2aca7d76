SPECIFICATION Spec
CONSTANTS
  k1 = k1
  k2 = k2
  dev = dev
  Keys = {k1, k2}
  Calls = {c1, c2}
  NoCall = NoCall
  NoKey = NoKey
  DeviceOf <- OneDevice
  Chromium = {}
  MaxAttempts = 1
  MaxStray = 1
SYMMETRY PairSymmetry
INVARIANTS
  NothingStranded
  RegisteredGapClosed
PROPERTIES
  CloseSparesReplacement
