SPECIFICATION Spec
CONSTANTS
  Instances <- MCInstances
  Typed <- MCTyped
  Phases <- MCPhases
  Shells = {one, two}
  MaxCommands = 3
  Files <- MCFiles
  LastJson <- MCLastJson
  safeKey <- MCSafeKey
  None = None
SYMMETRY Interchangeable
INVARIANTS BareDiagnose RecordsRelevant DiagnoseFinds
CHECK_DEADLOCK FALSE
