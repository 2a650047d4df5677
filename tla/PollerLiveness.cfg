\* One provider, two shops in two batches, one of them managed, requests one at
\* a time; faults run out.
SPECIFICATION FairSpec
CONSTANTS
  Shops = {1, 2, 4}
  Providers = {1}
  NoProvider = NoProvider
  All = All
  ProviderOf <- MCProviderOfSome
  BatchSize <- MCOnePerBatch
  NoticeProviders = {1}
  RegionShops = {1}
  Spacing = 2
  CatalogInterval = 8
  CatalogRetryInterval = 2
  NoticeInterval = 3
  Cooldown = 2
  Concurrency = 1
  MaxFaults = 1
  MaxUpstreamFaults = 1
  MaxDelay = 1
INVARIANT AnnouncedAtRest
PROPERTIES CooldownHonoured TrackedShopsArePolled ManagedShopsGetNotices CommitsAreAnnounced
