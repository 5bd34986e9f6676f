SPECIFICATION Safe
CONSTANTS
  j1 = j1
  j2 = j2
  j3 = j3
  j4 = j4
  Jobs <- FourJobs
  NoJob = NoJob
  MaxPending = 2
  Reconnect = 1
  Closes = 3
  Encoding = 1
  MaxRestarts = 2
  MaxDbFailures = 1
SYMMETRY Symmetry
INVARIANTS
  TypeOK
  SlotsExact
  SlotsAreServed
  PendingIsBacked
  OrderHasItsRow
  ProposesOnOpenConnection
PROPERTIES
  ShownResultStands
  KeepsContract
