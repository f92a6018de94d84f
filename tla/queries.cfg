SPECIFICATION QueriesSpec
CONSTANTS
  Tasks = {t1}
  NoTask = NoTask
  Workers = {w1, w2}
  Scanners = {s1}
  Clients = {c1}
  MaxRetries = 1
  Lease = 1
  Faults = {"worker_crash"}
  MaxFaults = 1
  MaxTime = 4
  Requests = {}
  MaxRequests = 0
  Copies = {k1, k2}
  Nodes = {n1, n2}
  NoNode = NoNode
  MaxLosses = 1
  Ids = {1, 2, 3}
  Times = {0, 1}
  Limit = 2
  MaxLatency = 3
  Submissions = 3
INVARIANTS
  StaleIsRunning
  AttemptsAreShown
  MonitorInv
  NothingCountedTwice
  StillIsCounted
  TelemetryInv
  NothingIsMissed
  ListedOnce
  ListingInv
  PercentilesAreRight
SYMMETRY Symmetry
CHECK_DEADLOCK FALSE
