SPECIFICATION Safe
CONSTANTS
  m1 = m1
  m2 = m2
  s1 = s1
  x = x
  y = y
  Bankroll = Bankroll
  Manual <- MCManual
  Scheduled <- MCScheduled
  Tickers <- MCTickers
  Baskets <- MCBaskets
  Gate = 2
  MaxEdits = 1
  MaxDbFailures = 1
SYMMETRY Symmetry
INVARIANTS
  RefusedLeavesNoTrace
  ScheduledNeverOpens
  OpeningIsTold
PROPERTIES
  CarriesValueOver
