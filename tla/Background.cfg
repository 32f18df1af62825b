SPECIFICATION Spec
CONSTANTS
  Importers = {i1, i2}
  LastWeek = 2
  Files = 2
  BundleKinds = {"good", "no_files", "mis_stamped", "repeated"}
  NoRun = NoRun
  Orphan = Orphan
  MaxFaults = 1
  Polls = {p1, p2}
  LastMessage = 2
  MessageKinds = {"reply", "other", "poison"}
  MAX_INBOX_MESSAGES_PER_POLL = 2
  MaxMailFaults = 1
  Requests = {r1, r2}
  Workers = {w1, w2}
  NoWorker = NoWorker
  Attempts = 2
  MaxStalls = 1
  MaxQueueFaults = 1
  MaxUpsets = 2
  Clients = {c1, c2}
  Intakes = {k1, k2}
  PropertyCount = 1
  Nobody = Nobody
  MaxRecordFaults = 1
INVARIANTS
  BackgroundTypeOK
  PrefixStored
  UnexpiredRunHoldsLock
  RecordedOncePerFault
  OneRunAtATime
  ReasonsOncePerJob
  OpenCaseHasClient
PROPERTIES
  BacklogImported
  RepliesDealtWith
  QueuedRequestRuns
  RemovedIsPurged
CHECK_DEADLOCK FALSE
