SPECIFICATION Spec
CONSTANTS
  Tasks = {a, b}
  NoTask = NoTask
  Fetches = {f1, f2}
  MaxChanges = 0
  MaxFailures = 1
INVARIANTS
  ConfirmLock
  PollingGoesOn
  DashboardInv
PROPERTIES
  ConfirmsWhatWasAsked
SYMMETRY Symmetry
CHECK_DEADLOCK FALSE
