SPECIFICATION Spec
CONSTANTS
  SaleCount = 3
  SaleKinds <- MCSaleKinds
  TARGET_COMPARABLES = 2
  MINIMUM_COMPARABLES = 1
  MAX_PERSISTED_COMPARABLES = 2
  MAX_ROUNDS = 2
  MaxPicks = 1
  MAX_CANDIDATE_SALES = 4
  Floors <- MCFloors
  VacantFloors <- MCVacantFloors
  Supply <- MCSupply
  Buckets = {1, 2}
  Interests = FALSE
  RowCount = 6
  RowKinds <- MCRowKinds
  MaxTaken = 5
  MIN_SAMPLE_FOR_IQR_TRIM = 4
  NoRate = NoRate
  Reports = {g1, g2}
  Processes = {p1, p2}
  None = None
  Other = Other
  Unpriced = {1}
  MaxChanges = 2
  MaxAnalyses = 2
  MaxReportFaults = 1
SYMMETRY Alike
INVARIANTS
  EvidenceTypeOK
  EachSaleOnce
  ShortOnlyWhenExhausted
  BestStored
  StoredIsSupport
  BudgetShared
  HeadlineInMiddleHalf
  ReportAgrees
  RegeneratesFromLatest
CHECK_DEADLOCK FALSE
