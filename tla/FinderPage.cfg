SPECIFICATION Spec
CONSTANTS
    Requests = {"page", "stream", "other"}
    Lists <- MCLists
    FirstLists <- MCLists
    NoList = NoList
    CacheTtl = 1
    Timeout = 1
    MaxTime = 2
    MaxChanges = 1
    Shops <- MCShops
    DistanceFrom <- MCDistanceFrom
    FarAway = 9
    NoPlace = NoPlace
    Uptown = Uptown
    Harbor = Harbor
    Airport = Airport
    Tea = Tea
    Coast = Coast
    Guesses = {Uptown, NoPlace}
    Positions = {Harbor, Airport}
    Terms = {Tea, Coast}
    NoTerm = NoTerm
    Matches <- MCMatches
    InitialLimit = 1
    BatchSize = 2
    MaxMoves = 2
    MaxSearches = 1
INVARIANTS ListIsWhatWasAskedFor OneListIsComplete FewestRowsMove ServedListsAreRecent
CHECK_DEADLOCK FALSE
