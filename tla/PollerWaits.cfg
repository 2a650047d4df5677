\* Two providers that share one place, two batches for the first, no managed
\* shops.
SPECIFICATION Spec
CONSTANTS
  Shops = {1, 2, 3}
  Providers = {1, 2}
  NoProvider = NoProvider
  All = All
  ProviderOf <- MCProviderOf
  BatchSize <- MCBatchSizes
  NoticeProviders = {1}
  RegionShops = {}
  Spacing = 3
  CatalogInterval = 4
  CatalogRetryInterval = 2
  NoticeInterval = 0
  Cooldown = 4
  Concurrency = 1
  MaxFaults = 2
  MaxUpstreamFaults = 1
  MaxDelay = 1
INVARIANTS TypeOK BatchIndexInRange BatchesPartitionSchedule StaleScheduleIsKnown
PROPERTIES WaitBackOff PacedBetweenLoads
