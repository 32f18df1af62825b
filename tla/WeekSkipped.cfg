SPECIFICATION PsiSpec
CONSTANTS
  Importers = {i1}
  LastWeek = 3
  Files = 1
  BundleKinds = {"good", "no_files"}
  NoRun = NoRun
  Orphan = Orphan
  MaxFaults = 0
INVARIANT WatermarkContiguous
CHECK_DEADLOCK FALSE
