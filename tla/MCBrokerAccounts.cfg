SPECIFICATION BrokerSpec
CONSTANTS
  a = a
  b = b
  m = m
  Deploy = Deploy
  None = None
  Left = Left
  Slow = TRUE
  Tenants <- MCTenants
  Modules <- MCModules
  MaxKeys = 2
SYMMETRY TenantSymmetry
CONSTRAINT Undisturbed
INVARIANTS BrokerTypeOK NoKeyWithoutSeed EvictedStaysOut FileKeepsEveryTenant
