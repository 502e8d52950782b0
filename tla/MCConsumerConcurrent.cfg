SPECIFICATION ConsumerSpec
CONSTANTS
  a1 = a1
  w1 = w1
  w2 = w2
  Events <- MCEvents
  Agg <- MCAgg
  Ver <- MCVer
  Kinds <- MCKinds
  Workers <- MCWorkers
  MaxDeliver = 2
  MaxStream = 2
  MaxDlq = 1
  MaxEpoch = 1
SYMMETRY WorkerSymmetry
INVARIANTS ConsumerTypeOK HandledOnce NothingLost ReplaysItsOwnEvent
PROPERTIES NeverOverwritten ImplementsContract
CHECK_DEADLOCK FALSE
