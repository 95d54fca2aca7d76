SPECIFICATION FindSpec
CONSTANTS
    Ports = {1, 2, 3}
    Targets = {1, 2, 3, 4, 5}
    Pages = {5}
    DeviceOf <- Runs
    AppOf <- Apps
    Name <- Words
    Lists <- ListedBy
    Calls = {1, 2}
    MaxEvents = 2
    Casts <- Together
    Ids = {1, 2}
    Urls = {1, 2}
    Titles = {3}
    Lookups = {1, 2}
    MaxMoves = 1
    BuildCalls = {1, 2, 3}
    Socks = {1, 2, 3}
    BufferSize = 2
    MaxErrors = 1
    MaxAttempts = 2
    MaxBuilds = 2
    MaxOutages = 2
CHECK_DEADLOCK FALSE
INVARIANTS RestartsTold AnswersHold NamesHold BuildsKept
