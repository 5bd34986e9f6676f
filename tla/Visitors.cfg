SPECIFICATION Spec
CONSTANTS
  i1 = i1
  i2 = i2
  i3 = i3
  None = None
  Ids <- MCIds
  People <- MCPeople
  Canonical <- MCCanonical
  Senders <- MCSenders
  PerIp = 1
  Window = 2
  PerHour = 2
  Hour = 3
  Horizon = 3
  MaxSignUps = 3
  MaxRestarts = 1
  MaxDbFailures = 1
  MaxMailFaults = 1
  MaxSendOffs = 2
SYMMETRY Symmetry
CHECK_DEADLOCK FALSE
INVARIANTS
  SignUpsCapped
  AccountsStand
  OncePerRecipient
