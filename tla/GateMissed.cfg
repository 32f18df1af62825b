SPECIFICATION Spec
CONSTANTS
  Null = Null
  References = {r1}
  LandValues = {1}
  Outcomes = {"upheld", "rejected"}
  MinimumComparables = 1
  MaxFurtherSubmissions = 1
  ChecksMayFail = FALSE
  MaxChecks = 2
  MaxVgMail = 2
  MaxTime = 0
INVARIANT GateNotMissed
CHECK_DEADLOCK FALSE
