SPECIFICATION Spec
CONSTANTS
    Minute = 3
    MaxGap = 3
    Day = 12
    Days = 1
    Midnights = {0, 12, 24}
    Lookback <- MCLookback
    Values = {0, 24}
    NoValue = NoValue
    NoSample = NoSample
    MaxSamples = 3
    MaxTime = 25
INVARIANTS NothingInvented RawRangesAgree ComparesWeekAndEve
PROPERTY PointsSettle
CHECK_DEADLOCK FALSE
