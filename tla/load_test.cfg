SPECIFICATION LoadSpec
CONSTANTS
  Tasks = {t1, t2}
  NoTask = NoTask
  HighTasks = {t1}
  LowTasks = {t2}
  Workers = {w1, w2}
  HighWorkers = {w1}
  LowWorkers = {w2}
  Scanners = {}
  Clients = {c1, c2}
  MaxRetries = 1
  Lease = 1
  Faults = {"service_crash", "redelivery"}
  MaxFaults = 2
  MaxTime = 1
  Requests = {}
  MaxRequests = 0
  Concurrency = 2
INVARIANTS
  SuccessIsPublished
  PublishedInv
PROPERTIES
  HighTasksEnd
CHECK_DEADLOCK FALSE
