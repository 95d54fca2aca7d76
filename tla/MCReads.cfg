SPECIFICATION ReadsSpec
CONSTANTS
  Readers = {r1, r2}
  Scenes <- MCScenes
  Watched <- MCWatched
  Height = 4
  Far = 99
  Trees <- MCTrees
  MaxFibers = 4
  Devices = {d1, d2}
  Screens = {s1, s2}
  Calls = {c1, c2}
  MaxMoves = 1
  MaxClock = 4
  Cases <- MCCases
  Callers = {1, 2}
  Ups <- MCUps
  Down = 1
  Inset = 1
  Views <- MCViews
  Lookahead = 2
  Settings <- MCSettings
  Places <- MCPlaces
  MaxVisits = 2
  NavPolls = 2
  MaxRoutes = 2
  MaxRuns = 2
INVARIANTS
  ReachedOrSaid
  LookupTrue
  TrailTrue
  TakenOnce
  OwnMoveExcused
CHECK_DEADLOCK FALSE
SYMMETRY Alike
