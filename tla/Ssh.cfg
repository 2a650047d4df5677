SPECIFICATION Spec
CONSTANTS
    Conns = {c1, c2}
    Channels = {ch1, ch2}
    MaxSessions = 2
    Capacity = 2
    MatchCounts = {2}
    Brisk = TRUE
    NoSession = NoSession
    NoView = NoView
    MaxRequests = 3
    MaxFaults = 1
INVARIANTS TypeOK PermitsAccounted NothingOutlivesTheDrop OpenChannelsKeepTheirSession
PROPERTIES ScreensCatchUp QuitEnds
CHECK_DEADLOCK FALSE
