SPECIFICATION Spec
CONSTANTS
  a = a
  b = b
  a1 = a1
  a2 = a2
  a3 = a3
  a4 = a4
  b1 = b1
  Agents <- MCAgents
  Requests <- MCRequests
  AgentOf <- MCAgentOf
  Limit = 2
  Window = 3
  MaxDelay = 1
  MaxClock = 5
SYMMETRY Symmetry
INVARIANTS
  WindowCapAtAdmissions
  RetryAtIsFirstFree
