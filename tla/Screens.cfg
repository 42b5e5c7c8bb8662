CONSTANTS
  Apps = {a1, a2}
  Versions = {v1}
  None = None
  Browsers = {"home"}
  Plain = {}
  HistoryLimit = 1
SPECIFICATION Spec
SYMMETRY Symmetry
CHECK_DEADLOCK FALSE
INVARIANTS
  TypeOK
  ActiveRowIsRunning
  CancelHitsItsRow
  BackChangesScreen
  DetailIsCurrent
  DetailWorksForItself
  NoGhostEntry
