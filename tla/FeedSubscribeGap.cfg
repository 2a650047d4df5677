SPECIFICATION Spec
CONSTANTS
    Viewers = {v1}
    NoStatus = NoStatus
    Capacity = 2
    MaxVersion = 2
    MaxFaults = 0
INVARIANTS
    StreamsFollowBroadcasts
CHECK_DEADLOCK FALSE
