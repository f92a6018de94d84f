------------------------------- MODULE Upgrade -------------------------------
(****************************************************************************)
(* TaskMesh after migration 20260809_0002, which adds lease_expires_at as a *)
(* nullable column and writes no row: whatever the earlier release has left *)
(* has no lease.  That release's workers are gone, and it has no scans; it  *)
(* claimed, completed and failed as this one does, and no task of its       *)
(* database has been requeued.                                              *)
(****************************************************************************)
EXTENDS TaskMesh

\* What may be left of a task: its status, its retry_count, and a copy of the
\* message of its latest attempt, which a QUEUED task needs.
Left == {task \in [status      : Status \cup {"ABSENT"},
                   retry_count : 0..MaxRetries,
                   copies      : 0..1] :
           /\ task.status = "ABSENT"      => task.retry_count = 0 /\ task.copies = 0
           /\ task.status = "QUEUED"      => task.copies = 1
           /\ task.status = "DEAD_LETTER" => task.retry_count = MaxRetries}

Attempted(task) == task.status \notin {"ABSENT", "QUEUED"}

\* Its row, after op.add_column.
Migrated(task) ==
  [status      |-> task.status,
   retry_count |-> task.retry_count,
   lease       |-> NoLease,
   started     |-> Attempted(task) \/ task.retry_count > 0,
   completed   |-> task.status = "COMPLETED",
   error       |-> IF \/ task.status \in {"FAILED", "DEAD_LETTER"}
                      \/ task.status = "QUEUED" /\ task.retry_count > 0
                     THEN "job" ELSE "none"]

\* Its attempts: those that were repeated, and the one it ended with or is in.
History(task) ==
  [n \in 1..(task.retry_count + (IF Attempted(task) THEN 1 ELSE 0)) |->
     IF n <= task.retry_count      THEN "failed"
     ELSE IF task.status = "RUNNING"   THEN "open"
     ELSE IF task.status = "COMPLETED" THEN "ok" ELSE "failed"]

\* The state in which the new release starts.
UpgradeInit ==
  \E left \in [Tasks -> Left] :
    /\ row = [t \in Tasks |-> Migrated(left[t])]
    /\ attempts = [t \in Tasks |-> History(left[t])]
    /\ base = [t \in Tasks |-> 0]
    /\ queue = [m \in Message |->
                  IF m[2] = left[m[1]].retry_count THEN left[m[1]].copies ELSE 0]
    /\ unacked = [w \in Workers |-> NoDelivery]
    /\ EnvironmentInit /\ WorkerInit /\ RecoveryInit /\ ApiInit

UpgradeSpec == UpgradeInit /\ [][Next]_vars /\ Fairness

Leaseless(t) == Running(t) /\ row[t].lease = NoLease

-----------------------------------------------------------------------------
(* Properties *)

\* Whatever scans, messages and requests there are: a task without a lease is
\* not reclaimed (nobody can tell whether its worker lives), and none joins.
LeaselessStay ==
  [][{t \in Tasks : Leaseless(t)}' = {t \in Tasks : Leaseless(t)}]_vars

\* Every task ends that was submitted, or had been before the upgrade, except
\* the ones without a lease; and those keep no other from ending.
EveryTaskEnds ==
  \A t \in Tasks : row[t].status # "ABSENT" /\ ~Leaseless(t)
                     ~> row[t].status \in Terminal

\* The inductive invariant: the one of a release that started empty, but for
\* RowsAgree, and no worker of this release executes a task without a lease.
UpgradeInv == /\ ExecutionInv /\ DeliveryInv
              /\ \A w \in Workers : Executing(w) => ~Leaseless(TaskOf(w))
=============================================================================
