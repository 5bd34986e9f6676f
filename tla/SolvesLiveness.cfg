SPECIFICATION Spec
CONSTANTS
  m1 = m1
  m2 = m2
  s1 = s1
  x = x
  y = y
  Bankroll = Bankroll
  Manual <- MCManual
  Scheduled <- MCScheduled
  Tickers <- MCTickers
  Baskets <- MCBaskets
  Gate = 1
  MaxEdits = 0
  MaxDbFailures = 1
INVARIANT PermitsExact
PROPERTIES
  EveryRequestAnswered
  Converges
