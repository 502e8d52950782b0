SPECIFICATION MCResolutionSpec
CONSTANTS
  a = a
  b = b
  h1 = h1
  h2 = h2
  r = r
  None = None
  Tenants = {a, b}
  Hosts = {h1, h2}
  Requests = {r}
  RESOLUTION_CACHE_TTL_MS = 1
  EVICTED_POOL_DRAIN_GRACE_MS = 1
  POOL_REGISTRY_MAX = 1
  MaxWrites = 2
INVARIANTS ResolutionTypeOK StaleOnlyUntilNotified PoolOutlivesEntry
PROPERTIES CachesConverge
