SPECIFICATION SolveSpec
CONSTANTS
  Orders <- MCOrders
  Mu <- MCMu
  Sd <- MCSd
  Rho <- MCRho
  All <- MCAll
  HalfGamma = 1
  Tilts = {0, 1, 2, 3, 4, 6}
  Parts = 12
  Precision = 1000
  MaxVars = 12
CHECK_DEADLOCK FALSE
INVARIANTS
  AlwaysSolvable
  EncodingExact
  
