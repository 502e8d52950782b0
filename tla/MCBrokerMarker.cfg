SPECIFICATION BrokerSpec
CONSTANTS
  a = a
  b = b
  m = m
  Deploy = Deploy
  None = None
  Left = Left
  Slow = FALSE
  Tenants <- MCTenants
  Modules <- MCModules
  MaxKeys = 2
SYMMETRY TenantSymmetry
CONSTRAINT Undisturbed
INVARIANTS EnsuredIsServed
