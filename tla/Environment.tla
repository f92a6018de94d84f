---------------------------- MODULE Environment -----------------------------
(****************************************************************************)
(* The clock every process reads and the faults that may strike.            *)
(****************************************************************************)
EXTENDS Integers

CONSTANTS
  Faults,     \* the kinds of fault that may happen
  MaxFaults,  \* bound: how many happen
  MaxTime     \* bound: where the clock stops

\* worker_crash:  a worker process dies.
\* service_crash: an API or recovery process dies between a commit and its
\*                dispatch (or anywhere else in a scan).
\* redelivery:    the visibility timeout ends while a worker holds a message.
\* db_error:      a worker's transaction fails and is rolled back.
\* publish_error: the broker refuses a message.
\* lease_overrun: a live worker still works on an attempt past its lease.
FaultKinds == {"worker_crash", "service_crash", "redelivery", "db_error",
               "publish_error", "lease_overrun"}

ASSUME EnvironmentAssumption == Faults \subseteq FaultKinds

VARIABLES
  now,     \* datetime.now(UTC), in ticks
  faults   \* how many faults have happened

EnvironmentTypeOK == now \in Nat /\ faults \in Nat

EnvironmentInit == now = 0 /\ faults = 0

Inject(kind) == /\ kind \in Faults
                /\ faults < MaxFaults
                /\ faults' = faults + 1

\* Every attempt of a live worker ends before its lease: what the deployment
\* is told to ensure ("well above the slowest expected job duration").
LeaseHonoured == "lease_overrun" \notin Faults
=============================================================================
