SPECIFICATION OverrideSpec
CONSTANTS
  Null = Null
  References = {r1, r2}
  LandValues = {}
  Outcomes = {"rejected"}
  MinimumComparables = 0
  MaxFurtherSubmissions = 1
  ChecksMayFail = TRUE
  MaxChecks = 0
  MaxVgMail = 2
  MaxTime = 0
  ForceTargets = {"created", "analysed", "objection_submitted", "vg_agreed"}
  MaxForces = 0
  MaxSaves = 1
INVARIANT LodgedOnce
CHECK_DEADLOCK FALSE
