SPECIFICATION UpgradeSpec
CONSTANTS
  Tasks = {t1}
  NoTask = NoTask
  Workers = {w1, w2}
  Scanners = {s1}
  Clients = {c1}
  MaxRetries = 1
  Lease = 1
  Faults = {}
  MaxFaults = 0
  MaxTime = 4
  Requests = {"redispatch"}
  MaxRequests = 1
PROPERTIES
  NoTaskStuckRunning
CHECK_DEADLOCK FALSE
