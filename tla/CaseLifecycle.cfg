SPECIFICATION Spec
CONSTANTS
  Null = Null
  References = {r1, r2}
  LandValues = {1}
  Outcomes = {"partially_upheld", "rejected", "withdrawn"}
  MinimumComparables = 1
  MaxFurtherSubmissions = 1
  ChecksMayFail = TRUE
  MaxChecks = 1
  MaxVgMail = 3
  MaxTime = 1
INVARIANTS
  TypeOK
  LodgementHolds
  LodgementStamped
  LodgementBacked
  RoundsCounted
  ImpliedWasHeld
  AuditAccounts
  ClientLetters
SYMMETRY ReferenceSymmetry
PROPERTIES
  OnlyLegalSteps
  ImplementsProtocol
CHECK_DEADLOCK FALSE
