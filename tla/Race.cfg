SPECIFICATION Spec
CONSTANTS
  Settings <- MCSettings
  Objectives <- MCObjectives
  Tempting <- MCTempting
  Times <- MCTimes
  QuipTime = 90
  None = None
INVARIANTS
  RowsExact
  WinnerUndominated
  LabelsAgree
PROPERTY
  Answered
