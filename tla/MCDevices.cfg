SPECIFICATION DevicesSpec
CONSTANTS
  Elements <- MCElements
  Agents = {"a", "b"}
  JobsOf <- MCJobs
  Rank <- MCRank
  MaxDialogs = 1
  SimCallers = {"a", "b"}
  SimOps <- MCSimOps
  Points <- MCPoints
  Screens <- MCScreens
  MaxPolls = 1
  Devices <- MCDevs
  Holds <- MCHolds
  Choosers = {"a", "b"}
  HintsOf <- MCHints
  MaxUpsets = 2
  Serials = {"s1", "s2"}
  AdbCallers = {1, 2}
  AdbOps <- MCAdbOps
  Model <- MCModel
  Avd <- MCAvd
  Prefix <- MCPrefix
  Reported <- MCReported
  TextLength = 2
  MaxPlugs = 1
INVARIANTS
  ActsOnThePicked
  PageInputTold
  RightTarget
  DenialIsFresh
  AdbFreshAndOrdered
CHECK_DEADLOCK FALSE
