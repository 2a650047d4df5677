SPECIFICATION FairSpec
CONSTANTS
    Viewers = {v1}
    NoStatus = NoStatus
    Capacity = 1
    MaxVersion = 3
    MaxFaults = 2
INVARIANTS
    TypeOK
    EventsAreHonoured
PROPERTIES ShowsOnlyNewer AnnouncedIsShown
CHECK_DEADLOCK FALSE
