SPECIFICATION DeliverySpec
CONSTANTS
  a1 = a1
  r1 = r1
  w1 = w1
  Events <- MCEvents
  Agg <- MCAgg
  Ver <- MCVer
  Kinds <- MCKinds
  Relays = {r1}
  Workers = {w1}
  MaxAttempts = 1
  BatchSize = 2
  FailLimit = 1
  MaxDeliver = 2
  MaxStream = 3
  MaxDlq = 1
  MaxEpoch = 0
INVARIANTS PublishedNotLost
PROPERTIES EffectsInOrder
