SPECIFICATION FollowUpSpec
CONSTANTS
  Null = Null
  References = {r1}
  LandValues = {}
  Outcomes = {}
  MinimumComparables = 0
  MaxFurtherSubmissions = 1
  ChecksMayFail = TRUE
  MaxChecks = 0
  MaxVgMail = 2
  MaxTime = 3
  Runs = {cron, request}
  MAX_VG_FOLLOW_UPS = 2
  FollowUpInterval = 1
  JoinedLockWorks = TRUE
INVARIANTS
  ScheduleArmed
  CountedWasSent
  LimitHoldsPerRun
PROPERTY DueIsChased
CHECK_DEADLOCK FALSE
