SPECIFICATION Spec
CONSTANTS
  Tasks = {t1}
  NoTask = NoTask
  Workers = {w1, w2}
  Scanners = {s1}
  Clients = {c1}
  MaxRetries = 1
  Lease = 1
  Faults = {"lease_overrun"}
  MaxFaults = 0
  MaxTime = 4
  Requests = {}
  MaxRequests = 0
INVARIANTS
  RetryBudget
CHECK_DEADLOCK FALSE
