SPECIFICATION OverrideSpec
CONSTANTS
  Null = Null
  References = {r1}
  LandValues = {}
  Outcomes = {"rejected"}
  MinimumComparables = 0
  MaxFurtherSubmissions = 1
  ChecksMayFail = TRUE
  MaxChecks = 0
  MaxVgMail = 2
  MaxTime = 0
  ForceTargets = {"created", "analysed", "objection_submitted", "vg_agreed"}
  MaxForces = 1
  MaxSaves = 1
INVARIANTS
  LetterPerLodgement
  RelodgedOnlyAfterRevert
PROPERTY StatusChangesExplained
CHECK_DEADLOCK FALSE
