SPECIFICATION Spec
CONSTANTS
  QueueSize = 2
  MaxJobs = 2
  MaxUpdates = 1
  MaxDrops = 1
  MaxErrors = 1
  None = None
INVARIANT
  ShownIsTrue
PROPERTIES
  NeverAnOlderRace
  PageSettles
