SPECIFICATION ReplaySpec
CONSTANTS
  a1 = a1
  a2 = a2
  r1 = r1
  r2 = r2
  Events <- MCEvents
  Agg <- MCAgg
  Ver <- MCVer
  Relays <- MCRelays
  MaxAttempts = 1
  BatchSize = 2
  FailLimit = 1
  MaxStream = 3
  PageSize = 1
  MaxClock = 3
SYMMETRY RelaySymmetry
INVARIANTS RebuildComplete OnlyOverlapsReorder
CHECK_DEADLOCK FALSE
