SPECIFICATION FairSpec
CONSTANTS
  Tasks = {t1}
  NoTask = NoTask
  Workers = {w1, w2}
  Scanners = {s1, s2}
  Clients = {c1}
  MaxRetries = 1
  Lease = 1
  Faults = {"worker_crash", "service_crash", "redelivery", "db_error", "publish_error"}
  MaxFaults = 2
  MaxTime = 8
  Requests = {"redispatch"}
  MaxRequests = 1
INVARIANTS
  ExclusiveExecution
  OwnsItsTask
  AttemptsClosed
  RetryCountIsExact
  RetryBudget
  IndInv
PROPERTIES
  AttemptHistoryKept
  KeepsLifecycle
  NoTaskStuckRunning
CHECK_DEADLOCK FALSE
