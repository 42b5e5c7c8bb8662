CONSTANTS
  Apps = {a1, a2}
  Versions = {v1}
  None = None
  Browsers = {"home"}
  Plain = {}
  HistoryLimit = 1
SPECIFICATION Spec
CHECK_DEADLOCK FALSE
INVARIANT
  DownloadsShowInstall
