SPECIFICATION RecoverySpec
CONSTANTS
  a1 = a1
  a2 = a2
  w1 = w1
  Events <- MCEvents
  Agg <- MCAgg
  Ver <- MCVer
  Kinds <- MCKinds
  Workers = {w1}
  MaxDeliver = 2
  MaxStream = 6
  MaxDlq = 4
  MaxEpoch = 0
  MaxArrivals = 2
PROPERTIES EventsSettle DeadLettersClear
CHECK_DEADLOCK FALSE
