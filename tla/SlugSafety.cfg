SPECIFICATION Spec
CONSTANTS
    Shops = {4, 5, 6}
    East = East
    West = West
    Tea = Tea
    Regions = {East, West}
    RegionOf <- MCRegionOf
    Names <- AllNames
    NoName = NoName
    ShopWord = ShopWord
    Unlisted = Unlisted
    NoSlug = NoSlug
    Nothing = Nothing
    MaxListings = 5
    MaxCrashes = 1
INVARIANT TypeOK
PROPERTY SlugsStayPut
CHECK_DEADLOCK FALSE
