SPECIFICATION OutboxLiveSpec
CONSTANTS
  a1 = a1
  a2 = a2
  r1 = r1
  r2 = r2
  Events <- MCEvents
  Agg <- MCAgg
  Ver <- MCVer
  Relays <- MCRelays
  MaxAttempts = 2
  BatchSize = 2
  FailLimit = 2
  MaxStream = 3
INVARIANTS OutboxTypeOK PublishedStored VersionsInOrder HoldsBack
PROPERTIES RowsSettle
