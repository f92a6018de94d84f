SPECIFICATION Spec
CONSTANTS
  Tasks = {t1}
  NoTask = NoTask
  Workers = {w1, w2}
  Scanners = {s1}
  Clients = {c1}
  MaxRetries = 1
  Lease = 1
  Faults = {"worker_crash", "service_crash", "redelivery", "db_error", "publish_error", "lease_overrun"}
  MaxFaults = 1
  MaxTime = 4
  Requests = {"requeue", "redispatch"}
  MaxRequests = 1
INVARIANTS
  TypeOK
  RowsAgree
  SuccessIsFinal
  OneWorkerPerAttempt
PROPERTIES
  EndedStaysEnded
SYMMETRY Symmetry
CHECK_DEADLOCK FALSE
