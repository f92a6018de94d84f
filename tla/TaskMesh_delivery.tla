-------------------------- MODULE TaskMesh_delivery --------------------------
(****************************************************************************)
(* Delivery: Celery's count of retries and the row's stay in step, and a    *)
(* QUEUED task always has a message on its way.  Then the same for a        *)
(* database that was migrated with tasks RUNNING, and what becomes of those.*)
(****************************************************************************)
EXTENDS TaskMesh_safety, Upgrade

(* Where messages come from *)

Busy(w) == worker[w].pc # "idle"

\* Every message was in the queue before, is a fresh one, or is the one a busy
\* worker holds, or its retry.
QueueGrows ==
  \A m \in Message : queue'[m] > 0 =>
    \/ queue[m] > 0 \/ m[2] = 0
    \/ \E w \in Workers :
         /\ Busy(w) /\ m[1] = TaskOf(w)
         /\ \/ m[2] = unacked[w].retries
            \/ worker[w].pc = "retrying" /\ m[2] = unacked[w].retries + 1

\* A busy worker holds what it held, or a message it has just taken; it retries
\* what it was about to retry, or what its failure has put back.
WorkerHolds(w) ==
  /\ Busy(w)' =>
       \/ Busy(w) /\ TaskOf(w)' = TaskOf(w) /\ unacked'[w].retries = unacked[w].retries
       \/ /\ worker'[w].pc = "claiming"
          /\ \E m \in Message : /\ queue[m] > 0 /\ TaskOf(w)' = m[1]
                                /\ unacked'[w].retries = m[2]
  /\ worker'[w].pc = "retrying" =>
       \/ worker[w].pc = "retrying"
       \/ /\ worker[w].pc = "failing"
          /\ row'[TaskOf(w)].retry_count = worker[w].read + 1

\* Publishing adds one message and takes none away.
LEMMA Putting ==
  ASSUME BrokerTypeOK, NEW t \in Tasks, NEW retries \in 0..MaxRetries, Put(t, retries)
  PROVE  /\ \E m \in Message : m[1] = t /\ queue'[m] > 0
         /\ \A m \in Message : queue[m] > 0 => queue'[m] > 0
         /\ \A m \in Message : queue'[m] > 0 =>
              queue[m] > 0 \/ (m[1] = t /\ m[2] = retries)
<1> DEFINE n == <<t, retries>>
<1>1. n \in Message /\ n[1] = t /\ n[2] = retries
  BY DEF Message
<1> HIDE DEF n
<1>2. /\ queue'[n] > 0
      /\ \A m \in Message : m # n => queue'[m] = queue[m]
  BY <1>1 DEF BrokerTypeOK, Put, n
<1>3. ASSUME NEW m \in Message
      PROVE  /\ queue[m] > 0 => queue'[m] > 0
             /\ queue'[m] > 0 => queue[m] > 0 \/ (m[1] = t /\ m[2] = retries)
  <2>1. CASE m = n
    BY <1>1, <1>2, <2>1
  <2>2. CASE m # n
    BY <1>2, <1>3, <2>2
  <2> QED
    BY <2>1, <2>2
<1> QED
  BY <1>1, <1>2, <1>3

\* Messages do not move when the broker is left alone.
LEMMA NothingMoves ==
  ASSUME UNCHANGED brokerVars
  PROVE  /\ QueueGrows
         /\ \A w \in Workers : worker'[w] = worker[w] => WorkerHolds(w)
BY DEF QueueGrows, WorkerHolds, Busy, brokerVars, TaskOf

\* A dispatch adds a fresh message.
LEMMA Dispatching ==
  ASSUME BrokerTypeOK, NEW t \in Tasks, Dispatch(t)
  PROVE  /\ QueueGrows /\ unacked' = unacked
         /\ \E m \in Message : m[1] = t /\ queue'[m] > 0
         /\ \A m \in Message : queue[m] > 0 => queue'[m] > 0
<1>1. 0 \in 0..MaxRetries
  BY ModelAssumption
<1>2. Put(t, 0) /\ unacked' = unacked
  BY DEF Dispatch, Publish
<1> QED
  BY <1>1, <1>2, Putting DEF QueueGrows

LEMMA WorkerMessages ==
  ASSUME Typed, WorkerNext, UNCHANGED <<scanner, pending, requests>>
  PROVE  QueueGrows /\ \A w \in Workers : WorkerHolds(w)
<1> USE DEF Typed, TypeOK
\* A step of w that leaves the others and their messages alone.
<1>1. ASSUME NEW w \in Workers, WorkerHolds(w), QueueGrows,
             \A v \in Workers \ {w} : worker'[v] = worker[v] /\ unacked'[v] = unacked[v]
      PROVE  QueueGrows /\ \A v \in Workers : WorkerHolds(v)
  BY <1>1 DEF WorkerHolds, Busy, TaskOf
<1>2. ASSUME NEW w \in Workers, NEW pc \in {"idle", "retrying", "acking"}, Goto(w, pc)
      PROVE  worker'[w].pc = pc /\ \A v \in Workers \ {w} : worker'[v] = worker[v]
  BY <1>2 DEF Goto, At, WorkerTypeOK
<1>3. \A w \in Workers : Busy(w) =>
        /\ TaskOf(w) \in Tasks /\ unacked[w].retries \in 0..MaxRetries
        /\ unacked[w].task = TaskOf(w)
  BY DEF HoldersHaveTasks, BrokerTypeOK, Delivery, Busy, TaskOf
\* w works on with its message, or does nothing about it any more.
<1>4. ASSUME NEW w \in Workers, Busy(w), UNCHANGED brokerVars,
             worker'[w].pc # "retrying",
             \A v \in Workers \ {w} : worker'[v] = worker[v]
      PROVE  QueueGrows /\ \A v \in Workers : WorkerHolds(v)
  <2>1. QueueGrows /\ WorkerHolds(w)
    BY <1>4, NothingMoves DEF WorkerHolds, brokerVars, TaskOf, Busy
  <2> QED
    BY <1>1, <1>4, <2>1 DEF brokerVars
<1>5. ASSUME NEW w \in Workers, NEW m \in Message, Receive(w, m[1], m[2])
      PROVE  QueueGrows /\ \A v \in Workers : WorkerHolds(v)
  <2>1. m = <<m[1], m[2]>>
    BY DEF Message
  <2>2. /\ queue[m] > 0 /\ unacked'[w].task = m[1] /\ unacked'[w].retries = m[2]
        /\ worker'[w].pc = "claiming"
        /\ \A v \in Workers \ {w} : worker'[v] = worker[v] /\ unacked'[v] = unacked[v]
    BY <1>5, <2>1 DEF Receive, Deliver, BrokerTypeOK, WorkerTypeOK
  <2>3. WorkerHolds(w)
    BY <2>2 DEF WorkerHolds, TaskOf
  <2>4. QueueGrows
    BY <1>5, <2>1 DEF QueueGrows, Receive, Deliver, BrokerTypeOK
  <2> QED
    BY <1>1, <2>2, <2>3, <2>4
<1>6. ASSUME NEW w \in Workers, Claim(w) \/ Complete(w) \/ DbError(w)
                                \/ \E retryable \in BOOLEAN : Fail(w, retryable)
      PROVE  QueueGrows /\ \A v \in Workers : WorkerHolds(v)
  <2>1. Busy(w) /\ UNCHANGED brokerVars
    BY <1>6 DEF Claim, Complete, DbError, Fail, Busy
  <2>2. worker'[w].pc # "retrying" /\ \A v \in Workers \ {w} : worker'[v] = worker[v]
    BY <1>2, <1>6 DEF Claim, Complete, DbError, Fail, WorkerTypeOK
  <2> QED
    BY <1>4, <2>1, <2>2
<1>7. ASSUME NEW w \in Workers, Finalize(w)
      PROVE  QueueGrows /\ \A v \in Workers : WorkerHolds(v)
  <2> DEFINE next == AfterFailure(worker[w].retryable, worker[w].read)
  <2>1. Busy(w) /\ worker[w].pc = "failing" /\ UNCHANGED brokerVars
    BY <1>7 DEF Finalize, Busy
  <2>2. CASE worker'[w].pc # "retrying"
    BY <1>2, <1>4, <1>7, <2>1, <2>2 DEF Finalize
  <2>3. CASE worker'[w].pc = "retrying"
    <3>1. /\ FinalizeFailure(TaskOf(w), worker[w].attempt, worker[w].retryable,
                             worker[w].read)
          /\ next.status = "QUEUED"
          /\ \A v \in Workers \ {w} : worker'[v] = worker[v]
      BY <1>2, <1>7, <2>3 DEF Finalize
    <3>2. next.retry_count = worker[w].read + 1
      BY <3>1 DEF AfterFailure, AfterRetryable
    <3>3. row'[TaskOf(w)].retry_count = worker[w].read + 1
      BY <1>3, <2>1, <3>1, <3>2 DEF FinalizeFailure, StoreTypeOK
    <3>4. QueueGrows /\ WorkerHolds(w)
      BY <2>1, <3>3, NothingMoves DEF WorkerHolds, brokerVars, TaskOf, Busy
    <3> QED
      BY <1>1, <2>1, <3>1, <3>4 DEF brokerVars
  <2> QED
    BY <2>2, <2>3
<1>8. ASSUME NEW w \in Workers, Retry(w)
      PROVE  QueueGrows /\ \A v \in Workers : WorkerHolds(v)
  <2>1. /\ Busy(w) /\ worker[w].pc = "retrying" /\ worker'[w].pc = "acking"
        /\ \A v \in Workers \ {w} : worker'[v] = worker[v]
    BY <1>2, <1>8 DEF Retry, Busy
  <2>2. CASE UNCHANGED brokerVars
    BY <1>4, <2>1, <2>2
  <2>3. CASE MayRetry(w) /\ Publish(TaskOf(w), unacked[w].retries + 1)
    <3>1. unacked[w].retries + 1 \in 0..MaxRetries /\ TaskOf(w) \in Tasks
      BY <1>3, <2>1, <2>3, ModelAssumption DEF MayRetry
    <3>2. unacked' = unacked /\ Put(TaskOf(w), unacked[w].retries + 1)
      BY <2>3 DEF Publish
    <3>3. QueueGrows
      BY <2>1, <3>1, <3>2, Putting DEF QueueGrows
    <3> QED
      BY <1>1, <2>1, <3>2, <3>3 DEF WorkerHolds, TaskOf, Busy
  <2> QED
    BY <1>8, <2>2, <2>3 DEF Retry
<1>9. ASSUME NEW w \in Workers, Ack(w) \/ RetryPublishFails(w)
      PROVE  QueueGrows /\ \A v \in Workers : WorkerHolds(v)
  <2>1. /\ worker'[w].pc = "idle" /\ queue' = queue
        /\ \A v \in Workers \ {w} : worker'[v] = worker[v] /\ unacked'[v] = unacked[v]
    BY <1>2, <1>9 DEF Ack, RetryPublishFails, Acknowledge, BrokerTypeOK
  <2> QED
    BY <1>1, <2>1 DEF QueueGrows, WorkerHolds, Busy
<1>10. ASSUME NEW w \in Workers, Redeliver(w)
       PROVE  QueueGrows /\ \A v \in Workers : WorkerHolds(v)
  <2>1. /\ Busy(w) /\ worker' = worker
        /\ Put(unacked[w].task, unacked[w].retries)
        /\ \A v \in Workers \ {w} : unacked'[v] = unacked[v]
        /\ unacked'[w].task = unacked[w].task
        /\ unacked'[w].retries = unacked[w].retries
    BY <1>10 DEF Redeliver, Restore, Busy, BrokerTypeOK, Delivery
  <2>2. QueueGrows
    BY <1>3, <2>1, Putting DEF QueueGrows
  <2> QED
    BY <1>1, <2>1, <2>2 DEF WorkerHolds, TaskOf, Busy
<1>11. ASSUME NEW w \in Workers, Crash(w)
       PROVE  QueueGrows /\ \A v \in Workers : WorkerHolds(v)
  <2>1. /\ Busy(w) /\ worker'[w].pc = "idle"
        /\ queue' = queue \/ Put(unacked[w].task, unacked[w].retries)
        /\ \A v \in Workers \ {w} : worker'[v] = worker[v] /\ unacked'[v] = unacked[v]
    BY <1>2, <1>11 DEF Crash, RequeueHeld, Busy, BrokerTypeOK
  <2>2. QueueGrows
    BY <1>3, <2>1, Putting DEF QueueGrows
  <2> QED
    BY <1>1, <2>1, <2>2 DEF WorkerHolds, Busy
<1> QED
  BY <1>5, <1>6, <1>7, <1>8, <1>9, <1>10, <1>11 DEF WorkerNext, WorkerStep, WorkerFault

LEMMA OtherMessages ==
  ASSUME Typed, UNCHANGED worker,
         \/ RecoveryNext
         \/ ApiNext
         \/ UNCHANGED brokerVars
  PROVE  QueueGrows /\ unacked' = unacked
<1> USE DEF Typed, TypeOK
<1>1. CASE UNCHANGED brokerVars
  BY <1>1, NothingMoves DEF brokerVars
<1>2. ASSUME NEW t \in Tasks, Dispatch(t)
      PROVE  QueueGrows /\ unacked' = unacked
  BY <1>2, Dispatching
<1>3. CASE RecoveryNext
  <2>1. \A s \in Scanners : scanner[s].pc = "dispatching" => scanner[s].task \in Tasks
    BY DEF HoldersHaveTasks
  <2>2. UNCHANGED brokerVars \/ \E t \in Tasks : Dispatch(t)
    BY <1>3, <2>1 DEF RecoveryNext, ScannerStep, Scan, Select, Reclaim, RecoveryDispatch,
                      RecoveryDispatchFails, ScannerCrash
  <2> QED
    BY <1>1, <1>2, <2>2
<1>4. CASE ApiNext
  <2>1. \A c \in Clients : pending[c] # NoTask => pending[c] \in Tasks
    BY DEF ApiTypeOK
  <2>2. UNCHANGED brokerVars \/ \E t \in Tasks : Dispatch(t)
    BY <1>4, <2>1 DEF ApiNext, Submit, Requeue, Redispatch, ApiDispatch, ApiDispatchFails
  <2> QED
    BY <1>1, <1>2, <2>2
<1> QED
  BY <1>1, <1>3, <1>4

\* Where every message, and what every worker holds, comes from.
LEMMA MessageSources ==
  ASSUME Typed, [Next]_vars
  PROVE  QueueGrows /\ \A w \in Workers : WorkerHolds(w)
<1>1. CASE WorkerNext /\ UNCHANGED <<scanner, pending, requests>>
  BY <1>1, WorkerMessages
<1>2. CASE ~(WorkerNext /\ UNCHANGED <<scanner, pending, requests>>)
  <2>1. /\ worker' = worker
        /\ RecoveryNext \/ ApiNext \/ UNCHANGED brokerVars
    BY <1>2 DEF Next, Tick, vars, brokerVars
  <2>2. QueueGrows /\ unacked' = unacked
    BY <2>1, OtherMessages
  <2> QED
    BY <2>1, <2>2 DEF WorkerHolds, Busy, TaskOf
<1> QED
  BY <1>1, <1>2

-----------------------------------------------------------------------------
(* The two counts of retries *)

\* Only a requeue takes a task out of DEAD_LETTER.
LEMMA DeadLetterStays ==
  ASSUME Typed, [Next]_vars, "requeue" \notin Requests,
         NEW t \in Tasks, row[t].status = "DEAD_LETTER"
  PROVE  row'[t] = row[t]
<1> USE DEF Typed, TypeOK
\* The transaction of another step finds a task that is not DEAD_LETTER.
<1>1. ASSUME NEW u \in Tasks, row[u].status # "DEAD_LETTER", NEW r,
             row' = [row EXCEPT ![u] = r]
      PROVE  row'[t] = row[t]
  BY <1>1 DEF StoreTypeOK
<1>2. CASE UNCHANGED storeVars
  BY <1>2 DEF storeVars
<1>3. ASSUME NEW w \in Workers, WorkerStep(w)
      PROVE  row'[t] = row[t]
  <2>1. worker[w].pc # "idle" => TaskOf(w) \in Tasks
    BY DEF HoldersHaveTasks
  <2>2. CASE Claim(w)
    BY <1>1, <1>2, <2>1, <2>2 DEF Claim, ClaimTask, Queued
  <2>3. CASE Complete(w)
    BY <1>1, <1>2, <2>1, <2>3 DEF Complete, CompleteTask, Running
  <2>4. CASE Finalize(w)
    BY <1>1, <1>2, <2>1, <2>4 DEF Finalize, FinalizeFailure, Running
  <2> QED
    BY <1>2, <1>3, <2>2, <2>3, <2>4 DEF WorkerStep, Fail, Retry, Ack
<1>4. CASE WorkerNext
  BY <1>2, <1>3, <1>4 DEF WorkerNext, WorkerFault, Receive, DbError,
       RetryPublishFails, Redeliver, Crash
<1>5. CASE RecoveryNext
  <2>1. ASSUME NEW s \in Scanners, Reclaim(s)
        PROVE  row'[t] = row[t]
    <3>1. scanner[s].task \in Tasks
      BY <2>1 DEF HoldersHaveTasks, Reclaim
    <3> QED
      BY <1>1, <1>2, <2>1, <3>1 DEF Reclaim, ReclaimTask, Stale, Running
  <2> QED
    BY <1>2, <1>5, <2>1 DEF RecoveryNext, ScannerStep, Scan, Select,
         RecoveryDispatch, RecoveryDispatchFails, ScannerCrash
<1>6. CASE ApiNext
  <2>1. ASSUME NEW c \in Clients, NEW u \in Tasks, Submit(c, u)
        PROVE  row'[t] = row[t]
    BY <1>1, <2>1 DEF Submit, CreateTask
  <2>2. ASSUME NEW c \in Clients, NEW u \in Tasks
        PROVE  ~Requeue(c, u)
    BY DEF Requeue, Request
  <2> QED
    BY <1>2, <1>6, <2>1, <2>2 DEF ApiNext, Redispatch, ApiDispatch, ApiDispatchFails
<1> QED
  BY <1>2, <1>4, <1>5, <1>6 DEF Next, Tick, vars, storeVars

\* Without requeues a row's retry_count only grows.
LEMMA RetryCountGrows ==
  ASSUME ExecutionInv, CountersHonoured, RetriesCovered, [Next]_vars, NEW t \in Tasks
  PROVE  /\ row[t].retry_count \in Nat /\ row'[t].retry_count \in Nat
         /\ row[t].retry_count <= row'[t].retry_count
         /\ row'[t].status = "ABSENT" => row'[t].retry_count = 0
<1>1. /\ Typed /\ Typed' /\ SomeStep /\ LeaseInv
      /\ row[t].retry_count \in Nat /\ row'[t].retry_count \in Nat
  <2>1. Typed /\ LeaseInv
    BY DEF ExecutionInv, CoreInv, Typed, CountersHonoured
  <2>2. Typed' /\ SomeStep
    BY <2>1, NextType, StepCases
  <2> QED
    BY <2>1, <2>2, ModelAssumption DEF Typed, TypeOK, StoreTypeOK, Row
<1>2. row[t].status = "ABSENT" => row[t].retry_count = 0
  BY DEF RetriesCovered
<1>3. CASE row'[t] = row[t]
  BY <1>1, <1>2, <1>3
<1>4. CASE QuietStep
  BY <1>3, <1>4, QuietFacts
<1>5. ASSUME NEW u \in Tasks, ApiStep(u), row'[t] # row[t]
      PROVE  row[t].status = "ABSENT" /\ row'[t].status = "QUEUED"
  <2>1. u = t /\ row[u].status \in {"ABSENT", "DEAD_LETTER"} /\ row'[u].status = "QUEUED"
    BY <1>1, <1>5, ApiFacts
  <2> QED
    BY <1>1, <1>5, <2>1, DeadLetterStays DEF CountersHonoured
<1>6. ASSUME NEW w \in Workers, ClaimStep(w), row'[t] # row[t]
      PROVE  row'[t].status # "ABSENT" /\ row'[t].retry_count = row[t].retry_count
  BY <1>1, <1>6, ClaimFacts
<1>7. ASSUME NEW w \in Workers, OutcomeStep(w), row'[t] # row[t]
      PROVE  /\ row'[t].status # "ABSENT"
             /\ row'[t].retry_count \in {row[t].retry_count, row[t].retry_count + 1}
  <2>1. worker[w].pc = "failing" => worker[w].read = row[TaskOf(w)].retry_count
    BY <1>1 DEF LeaseInv, ReadsAreFresh
  <2> QED
    BY <1>1, <1>7, <2>1, OutcomeFacts
<1>8. ASSUME NEW s \in Scanners, ReclaimStep(s), row'[t] # row[t]
      PROVE  /\ row'[t].status # "ABSENT"
             /\ row'[t].retry_count \in {row[t].retry_count, row[t].retry_count + 1}
  <2>1. scanner[s].read = row[scanner[s].task].retry_count
    BY <1>1, <1>8, ReclaimFacts DEF LeaseInv, ReadsAreFresh, ReclaimStep
  <2> QED
    BY <1>1, <1>8, <2>1, ReclaimFacts
<1> QED
  BY <1>1, <1>2, <1>3, <1>4, <1>5, <1>6, <1>7, <1>8 DEF SomeStep

\* A message is never ahead of its row: it was not when it was published, and
\* the row only catches up.
LEMMA RetriesCoveredKept ==
  ASSUME ExecutionInv, CountersHonoured, RetriesCovered, [Next]_vars
  PROVE  RetriesCovered'
<1>1. Typed /\ Typed' /\ LeaseInv
  BY NextType DEF ExecutionInv, CoreInv, Typed, CountersHonoured
<1>2. \A t \in Tasks : /\ row[t].retry_count \in Nat /\ row'[t].retry_count \in Nat
                       /\ row[t].retry_count <= row'[t].retry_count
                       /\ row'[t].status = "ABSENT" => row'[t].retry_count = 0
  BY RetryCountGrows
<1>3. QueueGrows /\ \A w \in Workers : WorkerHolds(w)
  BY <1>1, MessageSources
<1>4. /\ \A w \in Workers : Busy(w) => TaskOf(w) \in Tasks
      /\ \A w \in Workers : Busy(w)' => TaskOf(w)' \in Tasks
      /\ \A w \in Workers : unacked[w].retries \in Nat /\ unacked'[w].retries \in Nat
      /\ \A m \in Message : m[1] \in Tasks /\ m[2] \in Nat
  BY <1>1, ModelAssumption
  DEF Typed, TypeOK, HoldersHaveTasks, BrokerTypeOK, Delivery, Busy, TaskOf, Message
<1>5. ASSUME NEW m \in Message, queue'[m] > 0
      PROVE  m[2] <= row'[m[1]].retry_count
  <2>1. m[2] <= row[m[1]].retry_count
    <3>1. CASE queue[m] > 0
      BY <3>1 DEF RetriesCovered
    <3>2. CASE m[2] = 0
      BY <1>2, <1>4, <3>2
    <3>3. ASSUME NEW w \in Workers, Busy(w), m[1] = TaskOf(w),
                 \/ m[2] = unacked[w].retries
                 \/ worker[w].pc = "retrying" /\ m[2] = unacked[w].retries + 1
          PROVE  m[2] <= row[m[1]].retry_count
      BY <1>2, <1>4, <3>3 DEF RetriesCovered, Busy
    <3> QED
      BY <1>3, <1>5, <3>1, <3>2, <3>3 DEF QueueGrows
  <2> QED
    BY <1>2, <1>4, <2>1
<1>6. ASSUME NEW w \in Workers, Busy(w)'
      PROVE  unacked'[w].retries <= row'[TaskOf(w)'].retry_count
  <2>1. unacked'[w].retries <= row[TaskOf(w)'].retry_count
    BY <1>3, <1>6 DEF WorkerHolds, RetriesCovered, Busy
  <2> QED
    BY <1>2, <1>4, <1>6, <2>1
<1>7. ASSUME NEW w \in Workers, worker'[w].pc = "retrying"
      PROVE  unacked'[w].retries < row'[TaskOf(w)'].retry_count
  <2>1. /\ Busy(w) /\ Busy(w)' /\ TaskOf(w)' = TaskOf(w)
        /\ unacked'[w].retries = unacked[w].retries
    BY <1>3, <1>7 DEF WorkerHolds, Busy
  <2>2. CASE worker[w].pc = "retrying"
    BY <1>2, <1>4, <2>1, <2>2 DEF RetriesCovered
  <2>3. CASE /\ worker[w].pc = "failing"
             /\ row'[TaskOf(w)].retry_count = worker[w].read + 1
    <3>1. worker[w].read = row[TaskOf(w)].retry_count
      BY <1>1, <2>3 DEF LeaseInv, ReadsAreFresh
    <3>2. unacked[w].retries <= row[TaskOf(w)].retry_count
      BY <2>1 DEF RetriesCovered, Busy
    <3> QED
      BY <1>2, <1>4, <2>1, <2>3, <3>1, <3>2
  <2> QED
    BY <1>3, <1>7, <2>2, <2>3 DEF WorkerHolds
<1> QED
  BY <1>2, <1>5, <1>6, <1>7 DEF RetriesCovered, Busy, TaskOf

-----------------------------------------------------------------------------
(* What carries a task *)

Waits(t) == \E m \in Message : m[1] = t /\ queue[m] > 0

Held(t) == \E w \in Workers : TaskOf(w) = t /\ worker[w].pc \in {"claiming", "retrying"}

Awaited(t) == \/ \E s \in Scanners : scanner[s].pc = "dispatching" /\ scanner[s].task = t
              \/ \E c \in Clients : pending[c] = t

\* Nothing is lost of what carries a task that stays QUEUED, and a task that
\* becomes QUEUED is carried.
KeepsCarrying ==
  \A t \in Tasks : Queued(t)' /\ (Queued(t) => Carried(t)) => Carried(t)'

LEMMA Carriers ==
  \A t \in Tasks : Carried(t) <=> Waits(t) \/ Held(t) \/ Awaited(t)
BY DEF Carried, Waits, Held, Awaited

\* A worker passes on what it was about to claim or to retry, unless it claims
\* it or finds it not QUEUED; a failure it is to retry it carries itself.
LEMMA WorkersCarry ==
  ASSUME Typed, Typed', NothingRestored, CountersAgree, Faults \subseteq {"worker_crash"},
         WorkerNext, UNCHANGED <<scanner, pending, requests>>
  PROVE  KeepsCarrying /\ NothingRestored'
<1> USE DEF Typed, TypeOK
<1>1. \A t \in Tasks : Awaited(t)' = Awaited(t)
  BY DEF Awaited
<1>2. \A w \in Workers : Busy(w) =>
        /\ TaskOf(w) \in Tasks /\ unacked[w].retries \in 0..MaxRetries
        /\ unacked[w].task = TaskOf(w)
  BY DEF HoldersHaveTasks, BrokerTypeOK, Delivery, Busy, TaskOf
<1>3. ASSUME NEW w \in Workers, NEW pc \in {"idle", "retrying", "acking"}, Goto(w, pc)
      PROVE  worker'[w].pc = pc /\ \A v \in Workers \ {w} : worker'[v] = worker[v]
  BY <1>3 DEF Goto, At, WorkerTypeOK
\* A step of w that leaves the queue and the messages of the others alone.
<1>4. ASSUME NEW w \in Workers,
             \A t \in Tasks : Waits(t) => Waits(t)' \/ Held(t)',
             \A v \in Workers \ {w} : worker'[v] = worker[v] /\ unacked'[v] = unacked[v],
             \A t \in Tasks :
               /\ Queued(t)' /\ worker[w].pc \in {"claiming", "retrying"} /\ TaskOf(w) = t
                    => Held(t)' \/ Waits(t)'
               /\ Queued(t)' /\ ~Queued(t) => Held(t)'
      PROVE  KeepsCarrying
  <2> SUFFICES ASSUME NEW t \in Tasks, Queued(t)', Queued(t) => Carried(t)
               PROVE  Waits(t)' \/ Held(t)' \/ Awaited(t)'
    BY DEF KeepsCarrying, Carried, Waits, Held, Awaited
  <2>1. CASE ~Queued(t)
    BY <1>4, <2>1
  <2>2. CASE Waits(t)
    BY <1>4, <2>2
  <2>3. ASSUME NEW v \in Workers, TaskOf(v) = t, worker[v].pc \in {"claiming", "retrying"}
        PROVE  Held(t)' \/ Waits(t)'
    BY <1>4, <2>3 DEF Held, TaskOf
  <2>4. CASE Awaited(t)
    BY <1>1, <2>4
  <2> QED
    BY <2>1, <2>2, <2>3, <2>4, Carriers DEF Held
<1>5. ASSUME NEW w \in Workers, NEW m \in Message, Receive(w, m[1], m[2])
      PROVE  KeepsCarrying /\ NothingRestored'
  <2>1. m = <<m[1], m[2]>>
    BY DEF Message
  <2>2. /\ unacked'[w].task = m[1] /\ unacked'[w].restored = FALSE
        /\ worker[w].pc = "idle" /\ worker'[w].pc = "claiming" /\ row' = row
        /\ \A v \in Workers \ {w} : worker'[v] = worker[v] /\ unacked'[v] = unacked[v]
        /\ \A n \in Message : n # m => queue'[n] = queue[n]
    BY <1>5, <2>1 DEF Receive, Deliver, BrokerTypeOK, WorkerTypeOK, storeVars
  <2>3. Held(m[1])'
    BY <2>2 DEF Held, TaskOf
  <2>4. ASSUME NEW t \in Tasks, Waits(t) PROVE Waits(t)' \/ Held(t)'
    BY <2>2, <2>3, <2>4 DEF Waits
  <2>5. KeepsCarrying
    BY <1>4, <2>2, <2>4 DEF Queued
  <2> QED
    BY <2>2, <2>5 DEF NothingRestored
\* A step of w that does not touch the broker.
<1>6. ASSUME UNCHANGED brokerVars
      PROVE  /\ \A t \in Tasks : Waits(t)' = Waits(t)
             /\ NothingRestored' /\ unacked' = unacked
             /\ \A v \in Workers : TaskOf(v)' = TaskOf(v)
  BY <1>6 DEF brokerVars, Waits, NothingRestored, TaskOf
<1>7. ASSUME NEW w \in Workers, Claim(w)
      PROVE  KeepsCarrying /\ NothingRestored'
  <2>1. UNCHANGED brokerVars /\ worker[w].pc = "claiming"
        /\ \A v \in Workers \ {w} : worker'[v] = worker[v]
    BY <1>3, <1>7 DEF Claim, WorkerTypeOK
  <2>2. ASSUME NEW t \in Tasks, Queued(t)'
        PROVE  Queued(t) /\ TaskOf(w) # t
    <3>1. CASE ClaimTask(TaskOf(w), worker[w].claimed_at)
      BY <1>2, <2>1, <2>2, <3>1 DEF ClaimTask, Queued, StoreTypeOK, Busy
    <3>2. CASE ~Queued(TaskOf(w)) /\ UNCHANGED storeVars
      BY <2>2, <3>2 DEF Queued, storeVars
    <3> QED
      BY <1>7, <3>1, <3>2 DEF Claim
  <2> QED
    BY <1>4, <1>6, <2>1, <2>2
<1>8. ASSUME NEW w \in Workers,
             Complete(w) \/ \E retryable \in BOOLEAN : Fail(w, retryable)
      PROVE  KeepsCarrying /\ NothingRestored'
  <2>1. UNCHANGED brokerVars /\ worker[w].pc = "executing"
        /\ \A v \in Workers \ {w} : worker'[v] = worker[v]
    BY <1>3, <1>8 DEF Complete, Fail, WorkerTypeOK
  <2>2. ASSUME NEW t \in Tasks, Queued(t)' PROVE Queued(t)
    <3>1. CASE UNCHANGED storeVars
      BY <2>2, <3>1 DEF Queued, storeVars
    <3>2. CASE CompleteTask(TaskOf(w), worker[w].attempt)
      BY <1>2, <2>1, <2>2, <3>2 DEF CompleteTask, Queued, StoreTypeOK, Busy
    <3> QED
      BY <1>8, <3>1, <3>2 DEF Complete, Fail
  <2> QED
    BY <1>4, <1>6, <2>1, <2>2
<1>9. ASSUME NEW w \in Workers, Finalize(w)
      PROVE  KeepsCarrying /\ NothingRestored'
  <2>1. UNCHANGED brokerVars /\ worker[w].pc = "failing"
        /\ \A v \in Workers \ {w} : worker'[v] = worker[v]
    BY <1>3, <1>9 DEF Finalize
  <2>2. ASSUME NEW t \in Tasks, Queued(t)', ~Queued(t) PROVE Held(t)'
    <3>1. FinalizeFailure(TaskOf(w), worker[w].attempt, worker[w].retryable,
                          worker[w].read)
      BY <1>9, <2>2 DEF Finalize, Queued, storeVars
    <3>2. /\ t = TaskOf(w)
          /\ AfterFailure(worker[w].retryable, worker[w].read).status = "QUEUED"
      BY <1>2, <2>1, <2>2, <3>1 DEF FinalizeFailure, Queued, StoreTypeOK, Busy
    <3>3. Goto(w, "retrying")
      <4>1. Running(TaskOf(w)) /\ row'[TaskOf(w)] # row[TaskOf(w)]
        BY <2>2, <3>1, <3>2 DEF FinalizeFailure, Queued
      <4> QED
        BY <1>9, <3>2, <4>1 DEF Finalize, storeVars
    <3> QED
      BY <1>3, <1>6, <2>1, <3>2, <3>3 DEF Held
  <2> QED
    BY <1>4, <1>6, <2>1, <2>2
<1>10. ASSUME NEW w \in Workers, Retry(w)
       PROVE  KeepsCarrying /\ NothingRestored'
  <2>1. /\ worker[w].pc = "retrying" /\ MayRetry(w) /\ row' = row
        /\ Put(TaskOf(w), unacked[w].retries + 1) /\ unacked' = unacked
        /\ \A v \in Workers \ {w} : worker'[v] = worker[v]
    BY <1>3, <1>10 DEF Retry, CountersAgree, Publish, storeVars
  <2>2. TaskOf(w) \in Tasks /\ unacked[w].retries + 1 \in 0..MaxRetries
    BY <1>2, <2>1, ModelAssumption DEF MayRetry, Busy
  <2>3. \A t \in Tasks : Waits(t) \/ t = TaskOf(w) => Waits(t)'
    BY <2>1, <2>2, Putting DEF Waits
  <2>4. KeepsCarrying
    BY <1>4, <2>1, <2>3 DEF Queued
  <2> QED
    BY <2>1, <2>4 DEF NothingRestored
<1>11. ASSUME NEW w \in Workers, Ack(w)
       PROVE  KeepsCarrying /\ NothingRestored'
  <2>1. /\ worker[w].pc = "acking" /\ queue' = queue /\ row' = row
        /\ unacked'[w] = NoDelivery
        /\ \A v \in Workers \ {w} : worker'[v] = worker[v] /\ unacked'[v] = unacked[v]
    BY <1>3, <1>11 DEF Ack, Acknowledge, BrokerTypeOK, storeVars
  <2>2. KeepsCarrying
    BY <1>4, <2>1 DEF Waits, Queued
  <2> QED
    BY <2>1, <2>2 DEF NothingRestored, NoDelivery
<1>12. ASSUME NEW w \in Workers, Crash(w)
       PROVE  KeepsCarrying /\ NothingRestored'
  <2>1. /\ Busy(w) /\ row' = row /\ unacked'[w] = NoDelivery
        /\ Put(TaskOf(w), unacked[w].retries)
        /\ \A v \in Workers \ {w} : worker'[v] = worker[v] /\ unacked'[v] = unacked[v]
    BY <1>3, <1>12 DEF Crash, RequeueHeld, NothingRestored, BrokerTypeOK, storeVars,
         Busy, TaskOf
  <2>2. \A t \in Tasks : Waits(t) \/ t = TaskOf(w) => Waits(t)'
    BY <1>2, <2>1, Putting DEF Waits
  <2>3. KeepsCarrying
    BY <1>4, <2>1, <2>2 DEF Queued
  <2> QED
    BY <2>1, <2>3 DEF NothingRestored, NoDelivery
<1>13. ASSUME NEW w \in Workers
       PROVE  ~DbError(w) /\ ~RetryPublishFails(w) /\ ~Redeliver(w)
  BY DEF DbError, RetryPublishFails, Redeliver, Inject
<1> QED
  BY <1>5, <1>7, <1>8, <1>9, <1>10, <1>11, <1>12, <1>13
  DEF WorkerNext, WorkerStep, WorkerFault

\* A scan carries what it has put back, until it has dispatched it.
LEMMA ScansCarry ==
  ASSUME Typed, NothingRestored, Faults \subseteq {"worker_crash"},
         RecoveryNext, UNCHANGED <<worker, pending, requests>>
  PROVE  KeepsCarrying /\ NothingRestored'
<1> USE DEF Typed, TypeOK
<1>1. unacked' = unacked
  BY OtherMessages
<1>2. /\ NothingRestored'
      /\ \A t \in Tasks : Held(t) => Held(t)'
  BY <1>1 DEF NothingRestored, Held, TaskOf
\* A step of s: what it was about to dispatch waits, what it has put back it is
\* about to dispatch.
<1>3. ASSUME NEW s \in Scanners,
             \A r \in Scanners \ {s} : scanner'[r] = scanner[r],
             \A t \in Tasks :
               /\ Waits(t) \/ (scanner[s].pc = "dispatching" /\ scanner[s].task = t)
                    => Waits(t)'
               /\ Queued(t)' /\ ~Queued(t) => Awaited(t)'
      PROVE  KeepsCarrying
  <2> SUFFICES ASSUME NEW t \in Tasks, Queued(t)', Queued(t) => Carried(t)
               PROVE  Waits(t)' \/ Held(t)' \/ Awaited(t)'
    BY DEF KeepsCarrying, Carried, Waits, Held, Awaited
  <2>1. CASE ~Queued(t)
    BY <1>3, <2>1
  <2>2. CASE Waits(t) \/ Held(t)
    BY <1>2, <1>3, <2>2
  <2>3. CASE Awaited(t)
    BY <1>3, <2>3 DEF Awaited
  <2> QED
    BY <2>1, <2>2, <2>3, Carriers
<1>4. ASSUME NEW s \in Scanners, NEW t \in Tasks, DoneWith(s, t)
      PROVE  \A r \in Scanners \ {s} : scanner'[r] = scanner[r]
  BY <1>4 DEF DoneWith, RecoveryTypeOK
<1>5. ASSUME NEW s \in Scanners, Scan(s) \/ \E t \in Tasks : Select(s, t)
      PROVE  KeepsCarrying
  <2>1. /\ scanner[s].pc # "dispatching" /\ row' = row /\ queue' = queue
        /\ \A r \in Scanners \ {s} : scanner'[r] = scanner[r]
    BY <1>4, <1>5 DEF Scan, Select, RecoveryTypeOK, storeVars, brokerVars
  <2> QED
    BY <1>3, <2>1 DEF Waits, Queued
<1>6. ASSUME NEW s \in Scanners, Reclaim(s)
      PROVE  KeepsCarrying
  <2> DEFINE u == scanner[s].task
  <2>1. /\ u \in Tasks /\ scanner[s].pc = "updating" /\ queue' = queue
        /\ \A r \in Scanners \ {s} : scanner'[r] = scanner[r]
    BY <1>4, <1>6 DEF Reclaim, HoldersHaveTasks, RecoveryTypeOK, brokerVars
  <2>2. ASSUME NEW t \in Tasks, Queued(t)', ~Queued(t)
        PROVE  Awaited(t)'
    <3>1. ReclaimTask(u, scanner[s].at, scanner[s].read)
      BY <1>6, <2>2 DEF Reclaim, Queued, storeVars
    <3>2. t = u /\ AfterRetryable(scanner[s].read).status = "QUEUED"
      BY <2>1, <2>2, <3>1 DEF ReclaimTask, Queued, StoreTypeOK
    <3>3. row' # row
      BY <2>2 DEF Queued
    <3>4. scanner'[s].pc = "dispatching" /\ scanner'[s].task = u
      BY <1>6, <3>2, <3>3 DEF Reclaim, RecoveryTypeOK, storeVars
    <3> QED
      BY <3>2, <3>4 DEF Awaited
  <2> QED
    BY <1>3, <2>1, <2>2 DEF Waits
<1>7. ASSUME NEW s \in Scanners, RecoveryDispatch(s)
      PROVE  KeepsCarrying
  <2>1. /\ scanner[s].task \in Tasks /\ Dispatch(scanner[s].task) /\ row' = row
        /\ \A r \in Scanners \ {s} : scanner'[r] = scanner[r]
    BY <1>4, <1>7 DEF RecoveryDispatch, HoldersHaveTasks, storeVars
  <2>2. \A t \in Tasks : Waits(t) \/ t = scanner[s].task => Waits(t)'
    BY <2>1, Dispatching DEF Waits
  <2> QED
    BY <1>3, <2>1, <2>2 DEF Queued
<1>8. ASSUME NEW s \in Scanners
      PROVE  ~RecoveryDispatchFails(s) /\ ~ScannerCrash(s)
  BY DEF RecoveryDispatchFails, ScannerCrash, Inject
<1> QED
  BY <1>2, <1>5, <1>6, <1>7, <1>8 DEF RecoveryNext, ScannerStep

\* A request carries what it has inserted or put back, until it has dispatched
\* it.
LEMMA RequestsCarry ==
  ASSUME Typed, NothingRestored, Faults \subseteq {"worker_crash"},
         ApiNext, UNCHANGED <<worker, scanner>>
  PROVE  KeepsCarrying /\ NothingRestored'
<1> USE DEF Typed, TypeOK
<1>1. unacked' = unacked
  BY OtherMessages
<1>2. /\ NothingRestored'
      /\ \A t \in Tasks : Held(t) => Held(t)'
  BY <1>1 DEF NothingRestored, Held, TaskOf
<1>3. ASSUME NEW c \in Clients,
             \A d \in Clients \ {c} : pending'[d] = pending[d],
             \A t \in Tasks : /\ Waits(t) \/ pending[c] = t => Waits(t)'
                              /\ Queued(t)' /\ ~Queued(t) => Awaited(t)'
      PROVE  KeepsCarrying
  <2> SUFFICES ASSUME NEW t \in Tasks, Queued(t)', Queued(t) => Carried(t)
               PROVE  Waits(t)' \/ Held(t)' \/ Awaited(t)'
    BY DEF KeepsCarrying, Carried, Waits, Held, Awaited
  <2>1. CASE ~Queued(t)
    BY <1>3, <2>1
  <2>2. CASE Waits(t) \/ Held(t)
    BY <1>2, <1>3, <2>2
  <2>3. CASE Awaited(t)
    BY <1>3, <2>3 DEF Awaited
  <2> QED
    BY <2>1, <2>2, <2>3, Carriers
<1>4. ASSUME NEW c \in Clients, NEW t \in Tasks,
             Submit(c, t) \/ Requeue(c, t) \/ Redispatch(c, t)
      PROVE  KeepsCarrying
  <2>1. /\ pending[c] = NoTask /\ pending'[c] = t /\ queue' = queue
        /\ \A d \in Clients \ {c} : pending'[d] = pending[d]
    BY <1>4 DEF Submit, Requeue, Redispatch, ToDispatch, ApiTypeOK, brokerVars
  <2>2. \A u \in Tasks \ {t} : row'[u] = row[u]
    BY <1>4 DEF Submit, CreateTask, Requeue, RequeueDeadLetterTask, Redispatch,
                StoreTypeOK, storeVars
  <2>3. Awaited(t)'
    BY <2>1 DEF Awaited
  <2>4. \A u \in Tasks : Queued(u)' /\ ~Queued(u) => Awaited(u)'
    BY <2>2, <2>3 DEF Queued
  <2> QED
    BY <1>3, <2>1, <2>4, ModelAssumption DEF Waits
<1>5. ASSUME NEW c \in Clients, ApiDispatch(c)
      PROVE  KeepsCarrying
  <2>1. /\ pending[c] \in Tasks /\ Dispatch(pending[c]) /\ row' = row
        /\ \A d \in Clients \ {c} : pending'[d] = pending[d]
    BY <1>5 DEF ApiDispatch, ApiTypeOK, storeVars
  <2>2. \A t \in Tasks : Waits(t) \/ t = pending[c] => Waits(t)'
    BY <2>1, Dispatching DEF Waits
  <2> QED
    BY <1>3, <2>1, <2>2 DEF Queued
<1>6. ASSUME NEW c \in Clients
      PROVE  ~ApiDispatchFails(c)
  BY DEF ApiDispatchFails, Inject
<1> QED
  BY <1>2, <1>4, <1>5, <1>6 DEF ApiNext

-----------------------------------------------------------------------------
(* The theorems *)

LEMMA CoveredCountersAgree == Typed /\ RetriesCovered => CountersAgree
<1> SUFFICES ASSUME Typed, RetriesCovered, NEW w \in Workers, worker[w].pc = "retrying"
             PROVE  MayRetry(w)
  BY DEF CountersAgree, RetriesCovered
<1>1. /\ row[TaskOf(w)].retry_count \in 0..MaxRetries
      /\ unacked[w].retries \in 0..MaxRetries
  BY DEF Typed, TypeOK, HoldersHaveTasks, StoreTypeOK, Row, BrokerTypeOK, Delivery
<1>2. unacked[w].retries < row[TaskOf(w)].retry_count
  BY DEF RetriesCovered
<1> QED
  BY <1>1, <1>2, ModelAssumption DEF MayRetry

\* Every step keeps it, in whatever state the program was started.
LEMMA DeliveryKept == ExecutionInv /\ DeliveryInv /\ [Next]_vars => DeliveryInv'
<1> SUFFICES ASSUME ExecutionInv, DeliveryInv, [Next]_vars
             PROVE  DeliveryInv'
  OBVIOUS
<1>1. /\ CountersHonoured' = CountersHonoured
      /\ DeliveryHonoured' = DeliveryHonoured
  BY DEF CountersHonoured, DeliveryHonoured, LeaseHonoured
<1>2. CountersHonoured => RetriesCovered'
  BY RetriesCoveredKept DEF DeliveryInv
<1>3. ASSUME DeliveryHonoured
      PROVE  NothingRestored' /\ NeverStranded'
  <2>1. /\ Typed /\ Typed' /\ Faults \subseteq {"worker_crash"}
        /\ RetriesCovered /\ NothingRestored /\ NeverStranded
    BY <1>3, NextType DEF DeliveryInv, ExecutionInv, CoreInv, Typed, DeliveryHonoured
  <2>2. CountersAgree
    BY <2>1, CoveredCountersAgree
  <2>3. KeepsCarrying /\ NothingRestored'
    <3>1. CASE WorkerNext /\ UNCHANGED <<scanner, pending, requests>>
      BY <2>1, <2>2, <3>1, WorkersCarry
    <3>2. CASE RecoveryNext /\ UNCHANGED <<worker, pending, requests>>
      BY <2>1, <3>2, ScansCarry
    <3>3. CASE ApiNext /\ UNCHANGED <<worker, scanner>>
      BY <2>1, <3>3, RequestsCarry
    <3>4. CASE Tick \/ UNCHANGED vars
      BY <2>1, <3>4 DEF Tick, vars, storeVars, brokerVars, KeepsCarrying, Queued,
           Carried, TaskOf, NothingRestored
    <3> QED
      BY <3>1, <3>2, <3>3, <3>4 DEF Next
  <2> QED
    BY <2>1, <2>3 DEF NeverStranded, KeepsCarrying
<1> QED
  BY <1>1, <1>2, <1>3 DEF DeliveryInv

\* The inductive invariant of delivery, for every number of tasks, workers,
\* scans and requests.
THEOREM DeliveryInductive == Spec => [](IndInv /\ DeliveryInv)
<1>1. Init /\ IndInv => DeliveryInv
  <2> SUFFICES ASSUME Init PROVE RetriesCovered /\ NothingRestored /\ NeverStranded
    BY DEF DeliveryInv
  <2> QED
    BY DEF Init, StoreInit, NewRow, BrokerInit, NoDelivery, WorkerInit, At,
           RetriesCovered, NothingRestored, NeverStranded, Queued
<1> QED
  BY <1>1, DeliveryKept, Inductive, PTL DEF Spec, IndInv

\* As long as no lease is overrun and nothing is requeued, Celery never refuses
\* a retry that the row has granted: whatever crashes, is delivered twice or
\* fails to be written or published.
THEOREM CountersStayInStep == CountersHonoured => (Spec => []CountersAgree)
<1> SUFFICES ASSUME CountersHonoured PROVE Spec => []CountersAgree
  OBVIOUS
<1>1. IndInv /\ DeliveryInv => CountersAgree
  BY CoveredCountersAgree DEF DeliveryInv, IndInv, ExecutionInv, CoreInv, Typed
<1> QED
  BY <1>1, DeliveryInductive, PTL

\* As long as, besides, nothing goes wrong but workers that die: every QUEUED
\* task has something on its way that will claim it.
THEOREM NoTaskIsStranded == DeliveryHonoured => (Spec => []NeverStranded)
<1> SUFFICES ASSUME DeliveryHonoured PROVE Spec => []NeverStranded
  OBVIOUS
<1>1. DeliveryInv => NeverStranded
  BY DEF DeliveryInv
<1> QED
  BY <1>1, DeliveryInductive, PTL
-----------------------------------------------------------------------------
(* After the upgrade *)

\* The row and the attempts of a task that is left, and how many those are.
Attempts(task) == task.retry_count + (IF Attempted(task) THEN 1 ELSE 0)

LEMMA Histories ==
  ASSUME NEW task \in Left
  PROVE  LET n == Attempts(task) IN
         /\ n \in Nat /\ (n = 0 <=> ~Attempted(task) /\ task.retry_count = 0)
         /\ History(task) \in Seq(Outcome)
         /\ Len(History(task)) = n /\ DOMAIN History(task) = 1..n
         /\ \A k \in 1..n :
              /\ History(task)[k] = "open" <=> task.status = "RUNNING" /\ k = n
              /\ History(task)[k] = "ok" <=> task.status = "COMPLETED" /\ k = n
<1> DEFINE n == Attempts(task)
           h == History(task)
<1>1. /\ task.retry_count \in Nat /\ n \in Nat
      /\ n = 0 <=> ~Attempted(task) /\ task.retry_count = 0
  BY ModelAssumption DEF Left, Attempts
<1>2. h = [k \in 1..n |->
             IF k <= task.retry_count THEN "failed"
             ELSE IF task.status = "RUNNING"   THEN "open"
             ELSE IF task.status = "COMPLETED" THEN "ok" ELSE "failed"]
  BY DEF History, Attempts
<1>3. ASSUME NEW k \in 1..n
      PROVE  k <= task.retry_count <=> ~(Attempted(task) /\ k = n)
  BY <1>1 DEF Attempts
<1>4. Attempted(task) <=> task.status \notin {"ABSENT", "QUEUED"}
  BY DEF Attempted
<1> HIDE DEF n, h
<1>5. h \in [1..n -> Outcome]
  BY <1>2 DEF Outcome
<1>6. h \in Seq(Outcome) /\ Len(h) = n /\ DOMAIN h = 1..n
  BY <1>1, <1>5
<1>7. ASSUME NEW k \in 1..n
      PROVE  /\ h[k] = "open" <=> task.status = "RUNNING" /\ k = n
             /\ h[k] = "ok" <=> task.status = "COMPLETED" /\ k = n
  BY <1>2, <1>3, <1>4
<1> QED
  BY <1>1, <1>6, <1>7 DEF n, h

\* The row of a task that is left.
LEMMA MigratedRow ==
  ASSUME NEW task \in Left
  PROVE  /\ Migrated(task) \in Row /\ Migrated(task).status = task.status
         /\ Migrated(task).retry_count = task.retry_count
         /\ task.retry_count \in 0..MaxRetries
BY DEF Left, Migrated, Attempted, Row

\* The new release starts with the invariant.
LEMMA UpgradeStarts == UpgradeInit => UpgradeInv
<1> SUFFICES ASSUME UpgradeInit PROVE UpgradeInv
  OBVIOUS
<1>1. PICK left \in [Tasks -> Left] :
        /\ row = [t \in Tasks |-> Migrated(left[t])]
        /\ attempts = [t \in Tasks |-> History(left[t])]
        /\ base = [t \in Tasks |-> 0]
        /\ queue = [m \in Message |->
                      IF m[2] = left[m[1]].retry_count THEN left[m[1]].copies ELSE 0]
        /\ unacked = [w \in Workers |-> NoDelivery]
        /\ EnvironmentInit /\ WorkerInit /\ RecoveryInit /\ ApiInit
  BY DEF UpgradeInit
<1>2. /\ \A w \in Workers : worker[w].pc = "idle" /\ ~unacked[w].restored
      /\ \A s \in Scanners : scanner[s].pc = "idle" /\ scanner[s].at = 0
      /\ now = 0
  BY <1>1 DEF WorkerInit, At, RecoveryInit, IdleScanner, NoDelivery, EnvironmentInit
<1>3. ASSUME NEW t \in Tasks
      PROVE  /\ left[t] \in Left /\ base[t] = 0
             /\ row[t].status = left[t].status
             /\ row[t].retry_count = left[t].retry_count
             /\ attempts[t] = History(left[t])
  BY <1>1, MigratedRow
<1>4. TypeOK
  <2>1. StoreTypeOK
    <3>1. row \in [Tasks -> Row]
      BY <1>1, MigratedRow
    <3>2. attempts \in [Tasks -> Seq(Outcome)]
      BY <1>1, Histories
    <3> QED
      BY <1>1, <3>1, <3>2 DEF StoreTypeOK
  <2>2. BrokerTypeOK
    <3>1. \A m \in Message : queue[m] \in Nat
      BY <1>1 DEF Left, Message
    <3> QED
      BY <1>1, <3>1, NoDeliveryType DEF BrokerTypeOK
  <2>3. WorkerTypeOK /\ EnvironmentTypeOK
    BY <1>1, AtType DEF WorkerInit, WorkerTypeOK, EnvironmentInit, EnvironmentTypeOK
  <2>4. RecoveryTypeOK
    BY <1>1, ModelAssumption DEF RecoveryInit, RecoveryTypeOK, IdleScanner, ScannerState
  <2>5. ApiTypeOK
    BY <1>1 DEF ApiInit, ApiTypeOK
  <2> QED
    BY <2>1, <2>2, <2>3, <2>4, <2>5 DEF TypeOK
<1>5. HoldersHaveTasks /\ ScansInThePast /\ OneWorkerPerAttempt
  BY <1>2 DEF HoldersHaveTasks, ScansInThePast, OneWorkerPerAttempt, Executing
<1>6. NoHistoryYet
  <2> SUFFICES ASSUME NEW t \in Tasks, row[t].status = "ABSENT"
               PROVE  attempts[t] = <<>> /\ base[t] = 0
    BY DEF NoHistoryYet
  <2>1. Attempts(left[t]) = 0
    BY <1>3, Histories DEF Left, Attempted
  <2> QED
    BY <1>3, <2>1, Histories
<1>7. ASSUME NEW t \in Tasks
      PROVE  LET n == Attempts(left[t]) IN
             /\ n \in Nat /\ Len(attempts[t]) = n /\ DOMAIN attempts[t] = 1..n
             /\ \A k \in 1..n :
                  /\ attempts[t][k] = "open" <=> row[t].status = "RUNNING" /\ k = n
                  /\ attempts[t][k] = "ok" <=> row[t].status = "COMPLETED" /\ k = n
             /\ row[t].status \notin {"ABSENT", "QUEUED"} => n \in 1..n
             /\ row[t].status # "ABSENT" =>
                  n = row[t].retry_count + (IF Queued(t) THEN 0 ELSE 1)
  <2>1. left[t] \in Left
    BY <1>3
  <2>2. left[t].retry_count \in Nat
    BY <2>1, MigratedRow, ModelAssumption
  <2> QED
    BY <1>3, <2>1, <2>2, Histories DEF Attempts, Attempted, Queued
<1>8. RunningIsOpen /\ SuccessIsFinal
  <2>1. RunningIsOpen
    BY <1>7 DEF RunningIsOpen, Running
  <2>2. SuccessIsFinal
    BY <1>7 DEF SuccessIsFinal
  <2> QED
    BY <2>1, <2>2
<1>9. LeaseInv
  <2>1. WithinLease /\ ReadsAreFresh /\ ExclusiveExecution /\ OwnsItsTask
    BY <1>2 DEF WithinLease, OnLease, ReadsAreFresh, ExclusiveExecution, OwnsItsTask, Executing
  <2>2. AttemptsClosed
    BY <1>7 DEF AttemptsClosed, Running
  <2>3. RetryCountIsExact
    BY <1>3, <1>7 DEF RetryCountIsExact
  <2> QED
    BY <2>1, <2>2, <2>3 DEF LeaseInv
<1>10. DeliveryInv
  <2>1. RetriesCovered
    <3>1. ASSUME NEW m \in Message, queue[m] > 0
          PROVE  m[2] <= row[m[1]].retry_count
      <4>1. m[1] \in Tasks /\ m[2] = left[m[1]].retry_count
        BY <1>1, <3>1 DEF Message
      <4>2. row[m[1]].retry_count = m[2] /\ m[2] \in Nat
        BY <1>3, <4>1, MigratedRow, ModelAssumption
      <4> QED
        BY <4>2
    <3>2. \A t \in Tasks : row[t].status = "ABSENT" => row[t].retry_count = 0
      BY <1>3 DEF Left
    <3> QED
      BY <1>2, <3>1, <3>2 DEF RetriesCovered
  <2>2. NothingRestored
    BY <1>2 DEF NothingRestored
  <2>3. NeverStranded
    <3> SUFFICES ASSUME NEW t \in Tasks, row[t].status = "QUEUED"
                 PROVE  \E m \in Message : m[1] = t /\ queue[m] > 0
      BY DEF NeverStranded, Carried, Queued
    <3> DEFINE m == <<t, left[t].retry_count>>
    <3>1. m \in Message
      BY <1>3, MigratedRow DEF Message
    <3>2. queue[m] = left[t].copies /\ left[t].copies = 1
      BY <1>1, <1>3, <3>1 DEF Left
    <3> QED
      BY <3>1, <3>2
  <2> QED
    BY <2>1, <2>2, <2>3 DEF DeliveryInv
<1> QED
  BY <1>2, <1>4, <1>5, <1>6, <1>8, <1>9, <1>10
  DEF UpgradeInv, ExecutionInv, CoreInv, Executing

\* No step gives a task without a lease one, or takes a lease away from a task
\* that stays RUNNING.
LEMMA LeaselessKept ==
  ASSUME Typed, SomeStep, \A w \in Workers : Executing(w) => ~Leaseless(TaskOf(w)),
         NEW t \in Tasks
  PROVE  Leaseless(t)' <=> Leaseless(t)
<1> USE DEF Leaseless, Running
<1>1. CASE QuietStep
  BY <1>1, QuietFacts
<1>2. ASSUME NEW u \in Tasks, ApiStep(u)
      PROVE  Leaseless(t)' <=> Leaseless(t)
  BY <1>2, ApiFacts
<1>3. ASSUME NEW w \in Workers, ClaimStep(w)
      PROVE  Leaseless(t)' <=> Leaseless(t)
  <2>1. worker[w].claimed_at + Lease # NoLease
    BY ModelAssumption DEF Typed, TypeOK, WorkerTypeOK, WorkerState, NoLease
  <2> QED
    BY <1>3, <2>1, ClaimFacts
<1>4. ASSUME NEW w \in Workers, OutcomeStep(w)
      PROVE  Leaseless(t)' <=> Leaseless(t)
  <2>1. ~Leaseless(TaskOf(w))
    BY <1>4 DEF OutcomeStep, Executing
  <2> QED
    BY <1>4, <2>1, OutcomeFacts
<1>5. ASSUME NEW s \in Scanners, ReclaimStep(s)
      PROVE  Leaseless(t)' <=> Leaseless(t)
  BY <1>5, ReclaimFacts DEF Stale
<1> QED
  BY <1>1, <1>2, <1>3, <1>4, <1>5 DEF SomeStep

\* A worker that executes did so before, or has just claimed.
LEMMA ExecutingBefore ==
  ASSUME Typed, SomeStep, NEW w \in Workers, Executing(w)'
  PROVE  \/ Executing(w) /\ TaskOf(w)' = TaskOf(w)
         \/ ClaimStep(w)
<1>1. CASE QuietStep
  BY <1>1, QuietFacts
<1>2. ASSUME NEW u \in Tasks, ApiStep(u)
      PROVE  Executing(w) /\ TaskOf(w)' = TaskOf(w)
  BY <1>2, ApiFacts DEF Executing
<1>3. ASSUME NEW v \in Workers, ClaimStep(v), v # w
      PROVE  Executing(w) /\ TaskOf(w)' = TaskOf(w)
  BY <1>3, ClaimFacts DEF Executing
<1>4. ASSUME NEW v \in Workers, OutcomeStep(v)
      PROVE  Executing(w) /\ TaskOf(w)' = TaskOf(w)
  BY <1>4, OutcomeFacts DEF Executing
<1>5. ASSUME NEW s \in Scanners, ReclaimStep(s)
      PROVE  Executing(w) /\ TaskOf(w)' = TaskOf(w)
  BY <1>5, ReclaimFacts DEF Executing
<1> QED
  BY <1>1, <1>2, <1>3, <1>4, <1>5 DEF SomeStep

LEMMA UpgradeKept == UpgradeInv /\ [Next]_vars => UpgradeInv'
<1> SUFFICES ASSUME UpgradeInv, [Next]_vars PROVE UpgradeInv'
  OBVIOUS
<1>1. ExecutionInv' /\ DeliveryInv'
  BY ExecutionKept, DeliveryKept DEF UpgradeInv
<1>2. Typed /\ Typed' /\ SomeStep
  BY NextType, StepCases DEF UpgradeInv, ExecutionInv, CoreInv, Typed
<1>3. ASSUME NEW w \in Workers, Executing(w)'
      PROVE  ~Leaseless(TaskOf(w))'
  <2>1. CASE Executing(w) /\ TaskOf(w)' = TaskOf(w)
    <3> DEFINE t == TaskOf(w)
    <3>1. t \in Tasks /\ ~Leaseless(t)
      BY <1>2, <2>1, HeldTasks DEF UpgradeInv, Executing
    <3>2. \A u \in Tasks : Leaseless(u)' <=> Leaseless(u)
      BY <1>2, LeaselessKept DEF UpgradeInv
    <3> QED
      BY <2>1, <3>1, <3>2 DEF Leaseless, Running
  <2>2. CASE ClaimStep(w)
    <3>1. worker[w].claimed_at + Lease # NoLease
      BY <1>2, ModelAssumption DEF Typed, TypeOK, WorkerTypeOK, WorkerState, NoLease
    <3> QED
      BY <1>2, <2>2, <3>1, ClaimFacts DEF Leaseless
  <2> QED
    BY <1>2, <1>3, <2>1, <2>2, ExecutingBefore
<1> QED
  BY <1>1, <1>3 DEF UpgradeInv

\* The inductive invariant of the new release on a migrated database.
THEOREM UpgradeInductive == UpgradeSpec => []UpgradeInv
<1> QED
  BY UpgradeStarts, UpgradeKept, PTL DEF UpgradeSpec

\* Whatever scans, messages, requests and faults there are: a task that is
\* RUNNING without a lease stays so, and no task becomes like it.
THEOREM LeaselessForEver == UpgradeSpec => LeaselessStay
<1>1. UpgradeInv /\ [Next]_vars =>
        [{t \in Tasks : Leaseless(t)}' = {t \in Tasks : Leaseless(t)}]_vars
  <2> SUFFICES ASSUME UpgradeInv, [Next]_vars
               PROVE  {t \in Tasks : Leaseless(t)}' = {t \in Tasks : Leaseless(t)}
    OBVIOUS
  <2>1. Typed /\ SomeStep
    BY StepCases DEF UpgradeInv, ExecutionInv, CoreInv, Typed
  <2>2. \A t \in Tasks : Leaseless(t)' <=> Leaseless(t)
    BY <2>1, LeaselessKept DEF UpgradeInv
  <2> QED
    BY <2>2
<1> QED
  BY <1>1, UpgradeInductive, PTL DEF UpgradeSpec, LeaselessStay

\* On a migrated database too, Celery's count of retries never runs ahead.
THEOREM CountersStayInStepAfterUpgrade == CountersHonoured => (UpgradeSpec => []CountersAgree)
<1> SUFFICES ASSUME CountersHonoured PROVE UpgradeSpec => []CountersAgree
  OBVIOUS
<1>1. UpgradeInv => CountersAgree
  BY CoveredCountersAgree DEF UpgradeInv, DeliveryInv, ExecutionInv, CoreInv, Typed
<1> QED
  BY <1>1, UpgradeInductive, PTL

\* On a migrated database too, a QUEUED task always has a message or a dispatch
\* on its way: the rows without a lease strand no other task.
THEOREM NoTaskIsStrandedAfterUpgrade == DeliveryHonoured => (UpgradeSpec => []NeverStranded)
<1> SUFFICES ASSUME DeliveryHonoured PROVE UpgradeSpec => []NeverStranded
  OBVIOUS
<1>1. UpgradeInv => NeverStranded
  BY DEF UpgradeInv, DeliveryInv
<1> QED
  BY <1>1, UpgradeInductive, PTL

\* And no two workers execute a task, each owning the one it executes.
THEOREM ExecutionIsExclusiveAfterUpgrade ==
  LeaseHonoured => (UpgradeSpec => [](ExclusiveExecution /\ OwnsItsTask))
<1> SUFFICES ASSUME LeaseHonoured
             PROVE  UpgradeSpec => [](ExclusiveExecution /\ OwnsItsTask)
  OBVIOUS
<1>1. UpgradeInv => ExclusiveExecution /\ OwnsItsTask
  BY DEF UpgradeInv, ExecutionInv, LeaseInv
<1> QED
  BY <1>1, UpgradeInductive, PTL
=============================================================================
