------------------------------ MODULE TaskMesh ------------------------------
(****************************************************************************)
(* TaskMesh as a whole: API requests, Celery workers and recovery scans     *)
(* that share the database (TaskStore), the broker (Broker) and a clock.    *)
(****************************************************************************)
EXTENDS Worker, Recovery, Api

vars == <<row, attempts, base, queue, unacked, now, faults,
          worker, scanner, pending, requests>>

Init == /\ StoreInit /\ BrokerInit /\ EnvironmentInit
        /\ WorkerInit /\ RecoveryInit /\ ApiInit

\* The lease a worker works against runs from the clock it read.
OnLease(w) == worker[w].pc \in {"claiming", "executing", "failing"}

\* Time only matters while a lease has yet to expire or a clock that was read
\* has yet to be used: the order of all other instants is settled.
TimeMatters == \/ \E t \in Tasks : Running(t) /\ row[t].lease >= now
               \/ \E w \in Workers : worker[w].pc = "claiming"

Tick == /\ now < MaxTime
        /\ TimeMatters
        /\ LeaseHonoured =>
             \A w \in Workers : OnLease(w) => now < worker[w].claimed_at + Lease
        /\ now' = now + 1
        /\ UNCHANGED <<storeVars, brokerVars, faults, worker,
                       scanner, pending, requests>>

Next == \/ WorkerNext /\ UNCHANGED <<scanner, pending, requests>>
        \/ RecoveryNext /\ UNCHANGED <<worker, pending, requests>>
        \/ ApiNext /\ UNCHANGED <<worker, scanner>>
        \/ Tick

Spec == Init /\ [][Next]_vars

\* A worker goes on with what it holds (or crashes), a waiting message is
\* delivered to an idle worker, Celery Beat keeps scanning, a request ends.
Fairness ==
  /\ \A w \in Workers :
       WF_vars(WorkerStep(w) /\ UNCHANGED <<scanner, pending, requests>>)
  /\ WF_vars(/\ \E w \in Workers, m \in Message : Receive(w, m[1], m[2])
             /\ UNCHANGED <<scanner, pending, requests>>)
  /\ \A s \in Scanners :
       WF_vars(ScannerStep(s) /\ UNCHANGED <<worker, pending, requests>>)
  /\ \A c \in Clients : WF_vars(ApiDispatch(c) /\ UNCHANGED <<worker, scanner>>)
  /\ WF_vars(Tick)

FairSpec == Spec /\ Fairness

-----------------------------------------------------------------------------
(* Properties that hold however slow the workers are *)

TypeOK == /\ StoreTypeOK /\ BrokerTypeOK /\ EnvironmentTypeOK
          /\ WorkerTypeOK /\ RecoveryTypeOK /\ ApiTypeOK

RowAgrees(r) ==
  /\ r.lease # NoLease <=> r.status = "RUNNING"
  /\ r.completed <=> r.status = "COMPLETED"
  /\ r.status \in {"RUNNING", "COMPLETED", "FAILED"} => r.started
  /\ r.status \in {"RUNNING", "COMPLETED"} => r.error = "none"
  /\ r.status \in {"FAILED", "DEAD_LETTER"} => r.error # "none"
  /\ r.status = "QUEUED" => (r.error = "none" <=> r.retry_count = 0)

\* The columns of a row agree with its status: only a RUNNING row has a lease,
\* only a COMPLETED one a completed_at, a row says why it is not (or not yet)
\* completed.  Every writer of the row has to keep this, also a requeue, which
\* leaves the lease alone, and a worker that comes late.
RowsAgree == \A t \in Tasks : RowAgrees(row[t])

\* A task is COMPLETED exactly when one of its attempts is recorded as a
\* success: a recorded success is never followed by another status, whatever
\* duplicate messages, retries, scans and late workers are still around.
SuccessIsFinal ==
  \A t \in Tasks : row[t].status = "COMPLETED"
                     <=> \E n \in DOMAIN attempts[t] : attempts[t][n] = "ok"

\* An attempt is executed by the worker that claimed it and by no other, and
\* never again after a crash.
OneWorkerPerAttempt ==
  \A v, w \in Workers :
    /\ Executing(w) => worker[w].attempt \in DOMAIN attempts[TaskOf(w)]
    /\ Executing(v) /\ Executing(w) /\ v # w =>
         <<TaskOf(v), worker[v].attempt>> # <<TaskOf(w), worker[w].attempt>>

\* A RUNNING task has its latest attempt still open, so recovery, which closes
\* the latest open attempt, closes the one the claim it undoes has opened.
RunningIsOpen ==
  \A t \in Tasks : Running(t) =>
    /\ attempts[t] # <<>>
    /\ attempts[t][Len(attempts[t])] = "open"

\* A task that has ended stays as it is, except that a DEAD_LETTER one may be
\* requeued; attempts are only added.
EndedStaysEnded ==
  [][\A t \in Tasks :
       /\ row[t].status \in {"COMPLETED", "FAILED"} => row'[t] = row[t]
       /\ row[t].status = "DEAD_LETTER" =>
            \/ row'[t] = row[t]
            \/ row'[t].status = "QUEUED" /\ row'[t].retry_count = 0
       /\ Len(attempts[t]) <= Len(attempts'[t])]_vars

-----------------------------------------------------------------------------
(* Properties that hold as long as no lease is overrun *)

\* No two workers execute the same task at the same time.
ExclusiveExecution ==
  \A v, w \in Workers :
    Executing(v) /\ Executing(w) /\ v # w => TaskOf(v) # TaskOf(w)

\* A worker that executes an attempt owns the task: it is RUNNING, the
\* attempt is its latest one and the lease is the one the worker took.  So a
\* live worker's outcome is never rejected.
OwnsItsTask ==
  \A w \in Workers : Executing(w) =>
    LET t == TaskOf(w) IN
    /\ Running(t)
    /\ worker[w].attempt = Len(attempts[t])
    /\ row[t].lease = worker[w].claimed_at + Lease

\* Exactly the latest attempt of a RUNNING task is open: an attempt that was
\* abandoned is closed before the next one starts, and no attempt stays open.
AttemptsClosed ==
  \A t \in Tasks : \A n \in DOMAIN attempts[t] :
    attempts[t][n] = "open" <=> Running(t) /\ n = Len(attempts[t])

\* retry_count counts the attempts of this budget: one less than there are,
\* or as many while the task waits for the next one.
RetryCountIsExact ==
  \A t \in Tasks : row[t].status # "ABSENT" =>
    Len(attempts[t]) - base[t] =
      row[t].retry_count + (IF Queued(t) THEN 0 ELSE 1)

\* Retry budget is respected: at most one attempt and MaxRetries retries.
RetryBudget ==
  \A t \in Tasks : Len(attempts[t]) - base[t] <= MaxRetries + 1

\* What recovery or a worker wrote about an attempt is never altered.
AttemptHistoryKept ==
  [][\A t \in Tasks : \A n \in DOMAIN attempts[t] :
       attempts[t][n] # "open" => attempts'[t][n] = attempts[t][n]]_vars

\* The whole system keeps the promises of TaskLifecycle.
Finished(t) == IF Running(t) THEN SubSeq(attempts[t], 1, Len(attempts[t]) - 1)
                             ELSE attempts[t]

Lifecycle == INSTANCE TaskLifecycle WITH
               status <- [t \in Tasks |-> row[t].status],
               log    <- [t \in Tasks |-> Finished(t)],
               mark   <- base

KeepsLifecycle == Lifecycle!Spec

\* The outcome of an attempt that recovery has closed changes nothing.
LateOutcomeRejected ==
  [][\A w \in Workers : LET t == TaskOf(w) IN
       Executing(w) /\ attempts[t][worker[w].attempt] = "stale" /\ worker'[w] # worker[w]
         => row'[t] = row[t]]_vars

-----------------------------------------------------------------------------
(* Delivery *)

\* Something will still bring a claim about: a message that waits, a worker
\* about to claim or to retry, a scan or a request about to dispatch.
Carried(t) ==
  \/ \E m \in Message : m[1] = t /\ queue[m] > 0
  \/ \E w \in Workers : TaskOf(w) = t /\ worker[w].pc \in {"claiming", "retrying"}
  \/ \E s \in Scanners : scanner[s].pc = "dispatching" /\ scanner[s].task = t
  \/ \E c \in Clients : pending[c] = t

\* A QUEUED task is never left without a message on its way to a worker.
NeverStranded == \A t \in Tasks : Queued(t) => Carried(t)

\* Celery's count of retries never runs ahead of the row's retry_count, so
\* self.retry never refuses a retry that the row has granted.
CountersAgree ==
  /\ \A m \in Message : queue[m] > 0 => m[2] <= row[m[1]].retry_count
  /\ \A w \in Workers : worker[w].pc = "retrying" => MayRetry(w)

\* What the two properties take: no request resets a retry_count; and nothing
\* goes wrong but worker processes that die.
CountersHonoured == LeaseHonoured /\ "requeue" \notin Requests
DeliveryHonoured == CountersHonoured /\ Faults \subseteq {"worker_crash"}

\* A task whose worker is gone does not stay RUNNING: its lease expires and
\* recovery goes on scanning, whatever fails at the same time.  (What
\* docs/architecture.md:192 says without reserve; Upgrade has the exception.)
NoTaskStuckRunning == \A t \in Tasks : Running(t) ~> ~Running(t)

-----------------------------------------------------------------------------
(* The inductive invariant behind the safety properties *)

\* Whoever works on a task works on one that exists.
HoldersHaveTasks ==
  /\ \A w \in Workers : worker[w].pc # "idle" => TaskOf(w) \in Tasks
  /\ \A s \in Scanners :
       scanner[s].pc \in {"updating", "dispatching"} => scanner[s].task \in Tasks

\* A scan's clock is one of the past.
ScansInThePast == \A s \in Scanners : scanner[s].at <= now

\* A task that was never submitted has no history.
NoHistoryYet ==
  \A t \in Tasks : row[t].status = "ABSENT" => attempts[t] = <<>> /\ base[t] = 0

\* No live worker has reached the end of its lease.
WithinLease ==
  \A w \in Workers : OnLease(w) => now <= worker[w].claimed_at + Lease

\* The retry_count a transaction has read is still the one its UPDATE, if it
\* finds the row, increments.
ReadsAreFresh ==
  /\ \A w \in Workers : worker[w].pc = "failing" =>
       worker[w].read = row[TaskOf(w)].retry_count
  /\ \A s \in Scanners :
       scanner[s].pc = "updating" /\ Stale(scanner[s].task, scanner[s].at) =>
         scanner[s].read = row[scanner[s].task].retry_count

\* No message has been retried more often than its row says, and one that is
\* about to be retried less often.
RetriesCovered ==
  /\ \A t \in Tasks : row[t].status = "ABSENT" => row[t].retry_count = 0
  /\ \A m \in Message : queue[m] > 0 => m[2] <= row[m[1]].retry_count
  /\ \A w \in Workers : LET retry_count == row[TaskOf(w)].retry_count IN
       /\ worker[w].pc # "idle"    => unacked[w].retries <= retry_count
       /\ worker[w].pc = "retrying" => unacked[w].retries < retry_count

\* Without a visibility timeout no held message has a copy in the queue.
NothingRestored == \A w \in Workers : ~unacked[w].restored

\* However slow the workers are, and whoever has claimed what is RUNNING.
CoreInv == /\ TypeOK /\ HoldersHaveTasks /\ ScansInThePast /\ NoHistoryYet
           /\ RunningIsOpen /\ OneWorkerPerAttempt /\ SuccessIsFinal

LeaseInv == /\ WithinLease /\ ReadsAreFresh
            /\ ExclusiveExecution /\ OwnsItsTask
            /\ AttemptsClosed /\ RetryCountIsExact

ExecutionInv == CoreInv /\ (LeaseHonoured => LeaseInv)

IndInv == ExecutionInv /\ RowsAgree

\* What delivery adds to ExecutionInv.
DeliveryInv == /\ CountersHonoured => RetriesCovered
               /\ DeliveryHonoured => NothingRestored /\ NeverStranded
=============================================================================
