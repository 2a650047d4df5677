SPECIFICATION DashSpec
CONSTANTS
    Minute = 2
    MaxGap = 2
    Day = 4
    Days = 1
    Midnights = {0, 4}
    Lookback <- MCLookback
    Values = {4}
    NoValue = NoValue
    NoSample = NoSample
    MaxSamples = 3
    MaxTime = 5
    MaxOpenings = 1
    MaxWire = 2
INVARIANTS DashTypeOK OneDayOnTheGraph
PROPERTIES FollowsTheFeed KeepsWhatItDrew
CHECK_DEADLOCK FALSE
