SPECIFICATION FairSpec
CONSTANTS
    Shops = {4, 5, 6}
    East = East
    West = West
    Tea = Tea
    Regions = {East, West}
    RegionOf <- MCRegionOf
    Names <- AllNames
    NoName = NoName
    ShopWord = ShopWord
    Unlisted = Unlisted
    NoSlug = NoSlug
    Nothing = Nothing
    MaxListings = 3
    MaxCrashes = 0
PROPERTY CatalogIsRediscovered
CHECK_DEADLOCK FALSE
