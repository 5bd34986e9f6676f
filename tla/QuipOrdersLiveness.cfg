SPECIFICATION Spec
CONSTANTS
  j1 = j1
  j2 = j2
  j3 = j3
  j4 = j4
  Jobs <- TwoJobs
  NoJob = NoJob
  MaxPending = 1
  Reconnect = 1
  Closes = 3
  Encoding = 1
  MaxRestarts = 2
  MaxDbFailures = 1
PROPERTIES
  PendingSettles
  SlotsReturn
