SPECIFICATION FairSpec
CONSTANTS
  a1 = a1
  a2 = a2
  Roster <- MCRoster
  OptedIn = {a2}
  Found <- MCFound
  Slots <- MCSlots
  Off = Off
  None = None
  Backoff = 1
  Window = 2
  Retunes = {r1}
  MaxClock = 3
  MaxEdits = 1
  MaxDbFailures = 1
INVARIANTS
  OffRunsOnce
  
PROPERTIES
  NoneForgotten
  AttemptsSpread
