SPECIFICATION Spec
CONSTANTS
  Retunes = {r1}
  Passes = {p1}
  Patches = {e1}
  PatchBodies <- MCPatchBodies
  FlagEdits = {f1, f2}
  OffSliders = {e1}
  None = None
  Old = Old
  MaxDbFailures = 1
  MaxRestarts = 1
SYMMETRY Symmetry
INVARIANTS
  InStep
  FlagsStand
  DisabledIsHidden
  PortfolioIsDated
