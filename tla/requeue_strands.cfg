SPECIFICATION Spec
CONSTANTS
  Tasks = {t1}
  NoTask = NoTask
  Workers = {w1, w2}
  Scanners = {s1}
  Clients = {c1}
  MaxRetries = 1
  Lease = 1
  Faults = {}
  MaxFaults = 0
  MaxTime = 4
  Requests = {"requeue", "redispatch"}
  MaxRequests = 2
INVARIANTS
  NeverStranded
CHECK_DEADLOCK FALSE
