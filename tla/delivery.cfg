SPECIFICATION UpgradeSpec
CONSTANTS
  Tasks = {t1, t2}
  NoTask = NoTask
  Workers = {w1, w2}
  Scanners = {s1}
  Clients = {c1}
  MaxRetries = 1
  Lease = 1
  Faults = {"worker_crash"}
  MaxFaults = 1
  MaxTime = 6
  Requests = {}
  MaxRequests = 0
INVARIANTS
  NeverStranded
  CountersAgree
  UpgradeInv
PROPERTIES
  LeaselessStay
  EveryTaskEnds
CHECK_DEADLOCK FALSE
