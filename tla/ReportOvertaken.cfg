SPECIFICATION ReportSpec
CONSTANTS
  Reports = {g1, g2}
  Processes = {p1}
  None = None
  Other = Other
  Unpriced = {}
  MaxChanges = 1
  MaxAnalyses = 1
  MaxReportFaults = 0
INVARIANT SameFigure
CHECK_DEADLOCK FALSE
