SPECIFICATION CustSpec
CONSTANTS
  w = w
  Writes <- MCWrites
  BreakGlass = TRUE
  MaxFaults = 2
INVARIANTS
  CustTypeOK ActiveIsServable LedgerTellsTruth HealthySends SuspendedIsLocked
  BrokerFollowsSwitch RowFindsDatabase OnlyRacingWritesLost
PROPERTIES
  InvitedNeverAgain RerunConverges
