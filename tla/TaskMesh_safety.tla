--------------------------- MODULE TaskMesh_safety ---------------------------
(****************************************************************************)
(* The safety properties, for every set of tasks, workers, scans and requests*)
(* and every kind of fault: those that hold however slow the workers are, and*)
(* those that hold as long as no lease is overrun.                          *)
(****************************************************************************)
EXTENDS TaskMesh_steps

(* However slow the workers are *)

\* A scan's clock was read from one that only goes forward.
LEMMA ScansInThePastKept ==
  ASSUME Typed, ScansInThePast, SomeStep
  PROVE  ScansInThePast'
<1> USE DEF Typed, TypeOK, EnvironmentTypeOK
<1>1. now \in Nat /\ now' \in {now, now + 1}
  BY DEF SomeStep, QuietStep, ClockTicks, ApiStep, ClaimStep, OutcomeStep, ReclaimStep
<1>2. \A s \in Scanners : scanner'[s].at \in {scanner[s].at, now, 0}
  BY DEF SomeStep, QuietStep, ApiStep, ClaimStep, OutcomeStep, ReclaimStep, ScanGoesOn
<1>3. \A s \in Scanners : scanner[s].at \in Nat
  BY DEF RecoveryTypeOK, ScannerState
<1> QED
  BY <1>1, <1>2, <1>3 DEF ScansInThePast

\* Every transaction writes columns that agree with the status it writes.
LEMMA RowsAgreeKept ==
  ASSUME Typed, RowsAgree, SomeStep
  PROVE  RowsAgree'
<1> USE ModelAssumption DEF Typed, TypeOK
<1>1. \A t \in Tasks : row[t] \in Row /\ RowAgrees(row[t])
  BY DEF RowsAgree, StoreTypeOK
<1>2. CASE QuietStep
  BY <1>1, <1>2 DEF QuietStep, storeVars, RowsAgree
<1>3. ASSUME NEW t \in Tasks, ApiStep(t)
      PROVE  RowsAgree'
  <2>1. CASE CreateTask(t)
    BY <1>1, <2>1
    DEF CreateTask, NewRow, RowsAgree, RowAgrees, StoreTypeOK
  <2>2. CASE RequeueDeadLetterTask(t)
    BY <1>1, <2>2
    DEF RequeueDeadLetterTask, RowsAgree, RowAgrees, StoreTypeOK
  <2> QED
    BY <1>3, <2>1, <2>2 DEF ApiStep
<1>4. ASSUME NEW w \in Workers, ClaimStep(w)
      PROVE  RowsAgree'
  <2> DEFINE t == TaskOf(w)
  <2>1. t \in Tasks /\ worker[w].claimed_at + Lease \in Nat
    BY <1>4, HeldTasks DEF ClaimStep, WorkerTypeOK, WorkerState
  <2>2. row' = [row EXCEPT ![t] =
                 [status |-> "RUNNING", retry_count |-> row[t].retry_count,
                  lease |-> worker[w].claimed_at + Lease, started |-> TRUE,
                  completed |-> FALSE, error |-> "none"]]
    BY <1>4 DEF ClaimStep, ClaimTask
  <2> HIDE DEF t
  <2> QED
    BY <1>1, <2>1, <2>2 DEF RowsAgree, RowAgrees, StoreTypeOK, NoLease
<1>5. ASSUME NEW w \in Workers, OutcomeStep(w)
      PROVE  RowsAgree'
  <2> DEFINE t == TaskOf(w)
             next == AfterFailure(worker[w].retryable, worker[w].read)
  <2>1. /\ t \in Tasks
        /\ worker[w].read \in 0..MaxRetries /\ worker[w].retryable \in BOOLEAN
    BY <1>5, HeldTasks DEF OutcomeStep, WorkerTypeOK, WorkerState
  <2>2. row[t].started /\ row[t].error = "none"
    BY <1>1, <1>5, <2>1
    DEF OutcomeStep, CompleteTask, FinalizeFailure, Running, RowAgrees
  <2>3. CASE row' = [row EXCEPT ![t] =
                 [status |-> "COMPLETED", retry_count |-> row[t].retry_count,
                  lease |-> NoLease, started |-> row[t].started,
                  completed |-> TRUE, error |-> "none"]]
    <3> HIDE DEF t
    <3> QED
      BY <1>1, <2>1, <2>2, <2>3 DEF RowsAgree, RowAgrees, StoreTypeOK
  <2>4. CASE row' = [row EXCEPT ![t] =
                 [status |-> next.status, retry_count |-> next.retry_count,
                  lease |-> NoLease, started |-> row[t].started,
                  completed |-> FALSE, error |-> "job"]]
    <3>1. \/ next.status = "QUEUED" /\ next.retry_count = worker[w].read + 1
          \/ next.status \in {"DEAD_LETTER", "FAILED"}
      BY <2>1, Decision
    <3> HIDE DEF t, next
    <3> QED
      BY <1>1, <2>1, <2>2, <2>4, <3>1 DEF RowsAgree, RowAgrees, StoreTypeOK
  <2> QED
    BY <1>5, <2>3, <2>4 DEF OutcomeStep, CompleteTask, FinalizeFailure
<1>6. ASSUME NEW s \in Scanners, ReclaimStep(s)
      PROVE  RowsAgree'
  <2> DEFINE t == scanner[s].task
             next == AfterRetryable(scanner[s].read)
  <2>1. t \in Tasks /\ scanner[s].read \in 0..MaxRetries
    BY <1>6, HeldTasks DEF ReclaimStep, RecoveryTypeOK, ScannerState
  <2>2. \/ next.status = "QUEUED" /\ next.retry_count = scanner[s].read + 1
        \/ next.status = "DEAD_LETTER"
    BY DEF AfterRetryable
  <2>3. row' = [row EXCEPT ![t] =
                 [status |-> next.status, retry_count |-> next.retry_count,
                  lease |-> NoLease, started |-> FALSE,
                  completed |-> FALSE, error |-> "stale"]]
    BY <1>6 DEF ReclaimStep, ReclaimTask
  <2> HIDE DEF t, next
  <2> QED
    BY <1>1, <2>1, <2>2, <2>3 DEF RowsAgree, RowAgrees, StoreTypeOK
<1> QED
  BY <1>2, <1>3, <1>4, <1>5, <1>6 DEF SomeStep

-----------------------------------------------------------------------------
\* Only a claim makes a task RUNNING, and it opens the latest attempt; every
\* transaction that closes an attempt ends the RUNNING status as well.
LEMMA RunningIsOpenKept ==
  ASSUME Typed, RunningIsOpen, SomeStep
  PROVE  RunningIsOpen'
<1> USE DEF RunningIsOpen, Running
<1>1. CASE QuietStep
  BY <1>1, QuietFacts
<1>2. ASSUME NEW t \in Tasks, ApiStep(t)
      PROVE  RunningIsOpen'
  BY <1>2, ApiFacts
<1>3. ASSUME NEW w \in Workers, ClaimStep(w), NEW u \in Tasks, Running(u)'
      PROVE  attempts'[u] # <<>> /\ attempts'[u][Len(attempts'[u])] = "open"
  <2> DEFINE t == TaskOf(w)
  <2>1. /\ t \in Tasks /\ ClaimTask(t, worker[w].claimed_at)
        /\ u # t => row'[u] = row[u]
    BY <1>3, ClaimFacts
  <2>2. /\ u # t => attempts'[u] = attempts[u]
        /\ Len(attempts'[t]) = Len(attempts[t]) + 1
        /\ attempts'[t][Len(attempts[t]) + 1] = "open"
    BY <2>1, Claiming
  <2>3. attempts[t] \in Seq(Outcome)
    BY <2>1 DEF Typed, TypeOK, StoreTypeOK
  <2> HIDE DEF t
  <2>4. CASE u = t
    <3>1. attempts'[t] # <<>>
      BY <2>2, <2>3
    <3> QED
      BY <2>2, <2>4, <3>1
  <2> QED
    BY <1>3, <2>1, <2>2, <2>4
<1>4. ASSUME NEW w \in Workers, OutcomeStep(w), NEW u \in Tasks, Running(u)'
      PROVE  attempts'[u] # <<>> /\ attempts'[u][Len(attempts'[u])] = "open"
  <2>1. u # TaskOf(w) /\ row'[u] = row[u]
    BY <1>4, OutcomeFacts
  <2>2. attempts'[u] = attempts[u]
    BY <1>4, <2>1, OutcomeFacts DEF CloseAttempt, Typed, TypeOK, StoreTypeOK
  <2> QED
    BY <1>4, <2>1, <2>2
<1>5. ASSUME NEW s \in Scanners, ReclaimStep(s), NEW u \in Tasks, Running(u)'
      PROVE  attempts'[u] # <<>> /\ attempts'[u][Len(attempts'[u])] = "open"
  <2>1. u # scanner[s].task /\ row'[u] = row[u]
    BY <1>5, ReclaimFacts
  <2>2. attempts'[u] = attempts[u]
    BY <1>5, <2>1, ReclaimFacts DEF CloseLatestOpen, Typed, TypeOK, StoreTypeOK
  <2> QED
    BY <1>5, <2>1, <2>2
<1> QED
  BY <1>1, <1>2, <1>3, <1>4, <1>5 DEF SomeStep

\* No step removes an attempt.
LEMMA AttemptsStay ==
  ASSUME Typed, SomeStep, NEW t \in Tasks
  PROVE  /\ DOMAIN attempts[t] \subseteq DOMAIN attempts'[t]
         /\ Len(attempts[t]) <= Len(attempts'[t])
<1>0. attempts[t] \in Seq(Outcome) /\ Len(attempts[t]) \in Nat
  BY DEF Typed, TypeOK, StoreTypeOK
<1>1. CASE QuietStep
  BY <1>0, <1>1, QuietFacts
<1>2. CASE \E u \in Tasks : ApiStep(u)
  BY <1>0, <1>2, ApiFacts
<1>3. ASSUME NEW w \in Workers, ClaimStep(w)
      PROVE  /\ DOMAIN attempts[t] \subseteq DOMAIN attempts'[t]
             /\ Len(attempts[t]) <= Len(attempts'[t])
  <2>1. TaskOf(w) \in Tasks /\ ClaimTask(TaskOf(w), worker[w].claimed_at)
    BY <1>3, ClaimFacts
  <2> QED
    BY <1>0, <2>1, Claiming
<1>4. ASSUME NEW w \in Workers, OutcomeStep(w)
      PROVE  /\ DOMAIN attempts[t] \subseteq DOMAIN attempts'[t]
             /\ Len(attempts[t]) <= Len(attempts'[t])
  BY <1>0, <1>4, OutcomeFacts, Closing
<1>5. ASSUME NEW s \in Scanners, ReclaimStep(s)
      PROVE  /\ DOMAIN attempts[t] \subseteq DOMAIN attempts'[t]
             /\ Len(attempts[t]) <= Len(attempts'[t])
  BY <1>0, <1>5, ReclaimFacts, ClosingLatest
<1> QED
  BY <1>1, <1>2, <1>3, <1>4, <1>5 DEF SomeStep

\* A claim gives its worker a number no attempt had, and nothing else starts
\* an execution.
LEMMA OneWorkerPerAttemptKept ==
  ASSUME Typed, OneWorkerPerAttempt, SomeStep
  PROVE  OneWorkerPerAttempt'
<1>1. ASSUME \A v \in Workers : Executing(v)' =>
               /\ Executing(v) /\ TaskOf(v)' = TaskOf(v)
               /\ worker'[v].attempt = worker[v].attempt
      PROVE  OneWorkerPerAttempt'
  <2>1. \A v \in Workers : Executing(v)' => TaskOf(v) \in Tasks
    BY <1>1, HeldTasks DEF Executing
  <2> QED
    BY <1>1, <2>1, AttemptsStay DEF OneWorkerPerAttempt
<1>2. CASE QuietStep
  BY <1>1, <1>2, QuietFacts
<1>3. ASSUME NEW t \in Tasks, ApiStep(t)
      PROVE  OneWorkerPerAttempt'
  BY <1>1, <1>3, ApiFacts DEF Executing
<1>4. ASSUME NEW w \in Workers, ClaimStep(w)
      PROVE  OneWorkerPerAttempt'
  <2> DEFINE t == TaskOf(w)
             n == Len(attempts[t]) + 1
  <2>1. /\ t \in Tasks /\ ClaimTask(t, worker[w].claimed_at)
        /\ worker'[w].attempt = n
        /\ \A v \in Workers \ {w} : worker'[v] = worker[v]
        /\ \A v \in Workers : TaskOf(v)' = TaskOf(v)
    BY <1>4, ClaimFacts
  <2>2. n \in DOMAIN attempts'[t] /\ n \notin DOMAIN attempts[t]
    <3>1. attempts[t] \in Seq(Outcome)
      BY <2>1 DEF Typed, TypeOK, StoreTypeOK
    <3> QED
      BY <2>1, <3>1, Claiming
  <2> HIDE DEF n
  <2>3. \A v \in Workers : Executing(v)' =>
          \/ v = w
          \/ /\ v # w /\ Executing(v) /\ TaskOf(v)' = TaskOf(v)
             /\ worker'[v].attempt = worker[v].attempt
    BY <2>1 DEF Executing
  <2>4. \A v \in Workers : Executing(v) =>
          /\ TaskOf(v) \in Tasks
          /\ worker[v].attempt \in DOMAIN attempts[TaskOf(v)]
    BY HeldTasks DEF Executing, OneWorkerPerAttempt
  <2>5. \A v \in Workers : Executing(v)' =>
          worker'[v].attempt \in DOMAIN attempts'[TaskOf(v)']
    BY <2>1, <2>2, <2>3, <2>4, AttemptsStay
  <2>6. ASSUME NEW u \in Workers, NEW v \in Workers, Executing(u)', Executing(v)', u # v
        PROVE  <<TaskOf(u)', worker'[u].attempt>> # <<TaskOf(v)', worker'[v].attempt>>
    <3>1. CASE u # w /\ v # w
      BY <2>3, <2>6, <3>1 DEF OneWorkerPerAttempt
    <3>2. CASE u = w
      BY <2>1, <2>2, <2>3, <2>4, <2>6, <3>2
    <3>3. CASE v = w
      BY <2>1, <2>2, <2>3, <2>4, <2>6, <3>3
    <3> QED
      BY <3>1, <3>2, <3>3
  <2> QED
    BY <2>5, <2>6 DEF OneWorkerPerAttempt
<1>5. ASSUME NEW w \in Workers, OutcomeStep(w)
      PROVE  OneWorkerPerAttempt'
  BY <1>1, <1>5, OutcomeFacts DEF Executing
<1>6. ASSUME NEW s \in Scanners, ReclaimStep(s)
      PROVE  OneWorkerPerAttempt'
  BY <1>1, <1>6, ReclaimFacts DEF Executing
<1> QED
  BY <1>2, <1>3, <1>4, <1>5, <1>6 DEF SomeStep

\* Only _complete_task records a success, and it does so together with the
\* status; no later transaction finds the task RUNNING.
LEMMA SuccessIsFinalKept ==
  ASSUME Typed, OneWorkerPerAttempt, SuccessIsFinal, SomeStep
  PROVE  SuccessIsFinal'
<1>1. CASE QuietStep
  BY <1>1, QuietFacts DEF SuccessIsFinal
<1>2. ASSUME NEW t \in Tasks, ApiStep(t)
      PROVE  SuccessIsFinal'
  BY <1>2, ApiFacts DEF SuccessIsFinal
\* u is the task of the transaction, n the attempt that becomes a success.
<1>3. ASSUME NEW u \in Tasks, row[u].status # "COMPLETED",
             \A t \in Tasks \ {u} : row'[t] = row[t] /\ attempts'[t] = attempts[t],
             row'[u].status = "COMPLETED" <=>
               \E n \in DOMAIN attempts'[u] : attempts'[u][n] = "ok"
      PROVE  SuccessIsFinal'
  BY <1>3 DEF SuccessIsFinal
<1>4. ASSUME NEW w \in Workers, ClaimStep(w)
      PROVE  SuccessIsFinal'
  <2> DEFINE u == TaskOf(w)
  <2>1. /\ u \in Tasks /\ ClaimTask(u, worker[w].claimed_at)
        /\ row[u].status = "QUEUED" /\ row'[u].status = "RUNNING"
        /\ \A t \in Tasks \ {u} : row'[t] = row[t]
    BY <1>4, ClaimFacts
  <2>2. \A t \in Tasks \ {u} : attempts'[t] = attempts[t]
    BY <2>1, Claiming
  <2>3. \A n \in DOMAIN attempts'[u] : attempts'[u][n] # "ok"
    <3>1. attempts[u] \in Seq(Outcome)
      BY <2>1 DEF Typed, TypeOK, StoreTypeOK
    <3>2. \A n \in DOMAIN attempts[u] : attempts[u][n] # "ok"
      BY <2>1 DEF SuccessIsFinal
    <3>3. /\ attempts'[u][Len(attempts[u]) + 1] = "open"
          /\ DOMAIN attempts[u] = 1..Len(attempts[u])
          /\ DOMAIN attempts'[u] = 1..(Len(attempts[u]) + 1)
          /\ \A k \in DOMAIN attempts[u] : attempts'[u][k] = attempts[u][k]
      BY <2>1, Claiming
    <3> HIDE DEF u
    <3> QED
      BY <3>1, <3>2, <3>3
  <2> QED
    BY <1>3, <2>1, <2>2, <2>3
<1>5. ASSUME NEW w \in Workers, OutcomeStep(w)
      PROVE  SuccessIsFinal'
  <2> DEFINE u == TaskOf(w)
             n == worker[w].attempt
  <2>1. /\ u \in Tasks /\ n \in Nat
        /\ row[u].status = "RUNNING"
        /\ \A t \in Tasks \ {u} : row'[t] = row[t]
    BY <1>5, OutcomeFacts
  <2>2. n \in DOMAIN attempts[u]
    BY <1>5 DEF OutcomeStep, Executing, OneWorkerPerAttempt
  <2>3. \A k \in DOMAIN attempts[u] : attempts[u][k] # "ok"
    BY <2>1 DEF SuccessIsFinal
  <2>4. ASSUME NEW o, CloseAttempt(u, n, o)
        PROVE  /\ \A t \in Tasks \ {u} : attempts'[t] = attempts[t]
               /\ DOMAIN attempts'[u] = DOMAIN attempts[u]
               /\ \A k \in DOMAIN attempts[u] :
                    attempts'[u][k] = IF k = n THEN o ELSE attempts[u][k]
    <3>1. \A t \in Tasks \ {u} : attempts'[t] = attempts[t]
      BY <2>4 DEF CloseAttempt, Typed, TypeOK, StoreTypeOK
    <3> HIDE DEF u, n
    <3> QED
      BY <2>1, <2>4, <3>1, Closing
  <2>5. CASE row'[u].status = "COMPLETED" /\ CloseAttempt(u, n, "ok")
    <3>1. attempts'[u][n] = "ok" /\ n \in DOMAIN attempts'[u]
      BY <2>2, <2>4, <2>5
    <3>2. \A t \in Tasks \ {u} : attempts'[t] = attempts[t]
      BY <2>4, <2>5
    <3> QED
      BY <1>3, <2>1, <2>5, <3>1, <3>2
  <2>6. CASE row'[u].status # "COMPLETED" /\ CloseAttempt(u, n, "failed")
    <3>1. \A k \in DOMAIN attempts'[u] : attempts'[u][k] # "ok"
      BY <2>3, <2>4, <2>6
    <3>2. \A t \in Tasks \ {u} : attempts'[t] = attempts[t]
      BY <2>4, <2>6
    <3> QED
      BY <1>3, <2>1, <2>6, <3>1, <3>2
  <2> QED
    BY <1>5, <2>5, <2>6, OutcomeFacts
<1>6. ASSUME NEW s \in Scanners, ReclaimStep(s)
      PROVE  SuccessIsFinal'
  <2> DEFINE u == scanner[s].task
  <2>1. /\ u \in Tasks /\ row[u].status = "RUNNING"
        /\ row'[u].status # "COMPLETED" /\ CloseLatestOpen(u)
        /\ \A t \in Tasks \ {u} : row'[t] = row[t]
    BY <1>6, ReclaimFacts
  <2>2. \A t \in Tasks \ {u} : attempts'[t] = attempts[t]
    BY <2>1 DEF CloseLatestOpen, Typed, TypeOK, StoreTypeOK
  <2>3. \A n \in DOMAIN attempts[u] : attempts[u][n] # "ok"
    BY <2>1 DEF SuccessIsFinal
  <2>4. \A n \in DOMAIN attempts'[u] : attempts'[u][n] # "ok"
    BY <2>1, <2>3, ClosingLatest
  <2> QED
    BY <1>3, <2>1, <2>2, <2>4
<1> QED
  BY <1>1, <1>2, <1>4, <1>5, <1>6 DEF SomeStep

\* Only a claim adds attempts, and it finds no ABSENT task.
LEMMA NoHistoryYetKept ==
  ASSUME Typed, NoHistoryYet, SomeStep
  PROVE  NoHistoryYet'
<1> SUFFICES ASSUME NEW t \in Tasks, row'[t].status = "ABSENT"
             PROVE  attempts'[t] = <<>> /\ base'[t] = 0
  BY DEF NoHistoryYet
<1> USE DEF NoHistoryYet
<1>1. CASE QuietStep
  BY <1>1, QuietFacts
<1>2. CASE \E u \in Tasks : ApiStep(u)
  BY <1>2, ApiFacts
<1>3. ASSUME NEW w \in Workers, ClaimStep(w)
      PROVE  attempts'[t] = <<>> /\ base'[t] = 0
  <2>1. /\ TaskOf(w) \in Tasks /\ t # TaskOf(w) /\ row'[t] = row[t]
        /\ ClaimTask(TaskOf(w), worker[w].claimed_at)
    BY <1>3, ClaimFacts
  <2> QED
    BY <2>1, Claiming DEF ClaimTask
<1>4. ASSUME NEW w \in Workers, OutcomeStep(w)
      PROVE  attempts'[t] = <<>> /\ base'[t] = 0
  <2>1. t # TaskOf(w) /\ row'[t] = row[t] /\ base' = base
    BY <1>4, OutcomeFacts
  <2>2. attempts'[t] = attempts[t]
    BY <1>4, <2>1, OutcomeFacts DEF CloseAttempt, Typed, TypeOK, StoreTypeOK
  <2> QED
    BY <2>1, <2>2
<1>5. ASSUME NEW s \in Scanners, ReclaimStep(s)
      PROVE  attempts'[t] = <<>> /\ base'[t] = 0
  <2>1. t # scanner[s].task /\ row'[t] = row[t] /\ base' = base
    BY <1>5, ReclaimFacts
  <2>2. attempts'[t] = attempts[t]
    BY <1>5, <2>1, ReclaimFacts DEF CloseLatestOpen, Typed, TypeOK, StoreTypeOK
  <2> QED
    BY <2>1, <2>2
<1> QED
  BY <1>1, <1>2, <1>3, <1>4, <1>5 DEF SomeStep

-----------------------------------------------------------------------------
\* What holds however slow the workers are is kept by every step, in whatever
\* state the program was started.
LEMMA CoreKept == CoreInv /\ [Next]_vars => CoreInv'
<1> SUFFICES ASSUME CoreInv, [Next]_vars PROVE CoreInv'
  OBVIOUS
<1>1. Typed /\ SomeStep /\ Typed'
  BY NextType, StepCases DEF CoreInv, Typed
<1> QED
  BY <1>1, ScansInThePastKept, RunningIsOpenKept,
     OneWorkerPerAttemptKept, SuccessIsFinalKept, NoHistoryYetKept
  DEF CoreInv, Typed

\* A release that starts in an empty database starts with it.
LEMMA CoreStarts == Init => CoreInv /\ RowsAgree
<1> SUFFICES ASSUME Init PROVE CoreInv /\ RowsAgree
  OBVIOUS
<1>1. TypeOK /\ HoldersHaveTasks
  BY InitType DEF HoldersHaveTasks, Init, WorkerInit, RecoveryInit, At, IdleScanner
<1>2. ScansInThePast /\ OneWorkerPerAttempt
  BY DEF Init, EnvironmentInit, WorkerInit, RecoveryInit, At, IdleScanner,
         ScansInThePast, OneWorkerPerAttempt, Executing
<1>3. RowsAgree /\ RunningIsOpen /\ SuccessIsFinal /\ NoHistoryYet
  BY DEF Init, StoreInit, NewRow, RowsAgree, RowAgrees, RunningIsOpen,
         Running, SuccessIsFinal, NoHistoryYet
<1> QED
  BY <1>1, <1>2, <1>3 DEF CoreInv

\* The safety properties that hold however slow the workers are.
THEOREM SpeedFree == Spec => [](CoreInv /\ RowsAgree)
<1>1. CoreInv /\ RowsAgree /\ [Next]_vars => RowsAgree'
  BY StepCases, RowsAgreeKept DEF CoreInv, Typed
<1> QED
  BY <1>1, CoreStarts, CoreKept, PTL DEF Spec

\* The columns of every row agree, whatever writes the row.
THEOREM RowsAlwaysAgree == Spec => []RowsAgree
<1> QED
  BY SpeedFree, PTL

\* A recorded success is final, and every COMPLETED task has one.
THEOREM SuccessStaysFinal == Spec => []SuccessIsFinal
<1>1. CoreInv => SuccessIsFinal
  BY DEF CoreInv
<1> QED
  BY <1>1, SpeedFree, PTL

\* Two workers never execute the same attempt.
THEOREM AttemptsHaveOneWorker == Spec => []OneWorkerPerAttempt
<1>1. CoreInv => OneWorkerPerAttempt
  BY DEF CoreInv
<1> QED
  BY <1>1, SpeedFree, PTL

\* The latest attempt of a RUNNING task is open.
THEOREM RunningStaysOpen == Spec => []RunningIsOpen
<1>1. CoreInv => RunningIsOpen
  BY DEF CoreInv
<1> QED
  BY <1>1, SpeedFree, PTL

\* An ended task is only touched by a requeue; no attempt is removed.
THEOREM EndedIsEnded == Spec => EndedStaysEnded
<1> DEFINE Kept == \A t \in Tasks :
       /\ row[t].status \in {"COMPLETED", "FAILED"} => row'[t] = row[t]
       /\ row[t].status = "DEAD_LETTER" =>
            \/ row'[t] = row[t]
            \/ row'[t].status = "QUEUED" /\ row'[t].retry_count = 0
       /\ Len(attempts[t]) <= Len(attempts'[t])
<1>1. ASSUME CoreInv, [Next]_vars
      PROVE  Kept
  <2>1. Typed /\ SomeStep
    BY <1>1, StepCases DEF CoreInv, Typed
  <2> SUFFICES ASSUME NEW t \in Tasks
               PROVE  /\ row[t].status \in {"COMPLETED", "FAILED"} => row'[t] = row[t]
                      /\ row[t].status = "DEAD_LETTER" =>
                           \/ row'[t] = row[t]
                           \/ row'[t].status = "QUEUED" /\ row'[t].retry_count = 0
    BY <2>1, AttemptsStay
  <2>2. CASE QuietStep
    BY <2>2, QuietFacts
  <2>3. CASE \E u \in Tasks : ApiStep(u)
    BY <2>1, <2>3, ApiFacts
  <2>4. CASE \E w \in Workers : ClaimStep(w)
    BY <2>1, <2>4, ClaimFacts
  <2>5. CASE \E w \in Workers : OutcomeStep(w)
    BY <2>1, <2>5, OutcomeFacts
  <2>6. CASE \E s \in Scanners : ReclaimStep(s)
    BY <2>1, <2>6, ReclaimFacts
  <2> QED
    BY <2>1, <2>2, <2>3, <2>4, <2>5, <2>6 DEF SomeStep
<1>2. CoreInv /\ [Next]_vars => [Kept]_vars
  BY <1>1
<1> QED
  BY <1>2, SpeedFree, PTL DEF Spec, EndedStaysEnded
-----------------------------------------------------------------------------
(* As long as no lease is overrun *)

\* A worker reads the clock before it claims, and is done before the clock
\* passes that lease.
LEMMA WithinLeaseKept ==
  ASSUME Typed, LeaseHonoured, WithinLease, SomeStep
  PROVE  WithinLease'
<1> USE ModelAssumption DEF Typed, TypeOK, EnvironmentTypeOK
<1>1. \A w \in Workers : worker[w].claimed_at \in Nat
  BY DEF WorkerTypeOK, WorkerState
<1>2. CASE ClockTicks
  BY <1>1, <1>2 DEF ClockTicks, WithinLease, OnLease
<1>3. CASE QuietStep /\ now' = now
  <2> SUFFICES ASSUME NEW w \in Workers, OnLease(w)'
               PROVE  now <= worker'[w].claimed_at + Lease
    BY <1>3 DEF WithinLease
  <2>1. CASE worker'[w].claimed_at = now
    BY <2>1
  <2>2. CASE OnLease(w) /\ worker'[w].claimed_at = worker[w].claimed_at
    BY <2>2 DEF WithinLease
  <2> QED
    BY <1>3, <2>1, <2>2 DEF QuietStep, WorkerGoesOn, OnLease
<1>4. CASE \E t \in Tasks : ApiStep(t)
  BY <1>4 DEF ApiStep, WithinLease, OnLease
<1>5. ASSUME NEW w \in Workers, ClaimStep(w)
      PROVE  WithinLease'
  BY <1>5, ClaimFacts DEF ClaimStep, WithinLease, OnLease
<1>6. ASSUME NEW w \in Workers, OutcomeStep(w)
      PROVE  WithinLease'
  BY <1>6, OutcomeFacts DEF OutcomeStep, WithinLease, OnLease
<1>7. CASE \E s \in Scanners : ReclaimStep(s)
  BY <1>7 DEF ReclaimStep, WithinLease, OnLease
<1> QED
  BY <1>2, <1>3, <1>4, <1>5, <1>6, <1>7 DEF SomeStep, QuietStep

\* While a worker executes, no transaction but its own touches its task: the
\* task is RUNNING, so no claim, requeue or submission finds it; no other
\* worker executes it; and its lease has not expired for any scan's clock.
LEMMA OthersKeepOut ==
  ASSUME Typed, ScansInThePast, LeaseInv, SomeStep,
         NEW w \in Workers, Executing(w)'
  PROVE  \/ ClaimStep(w)
         \/ /\ Executing(w) /\ TaskOf(w)' = TaskOf(w)
            /\ worker'[w].attempt = worker[w].attempt
            /\ worker'[w].claimed_at = worker[w].claimed_at
            /\ row'[TaskOf(w)] = row[TaskOf(w)]
            /\ attempts'[TaskOf(w)] = attempts[TaskOf(w)]
<1> DEFINE Untouched ==
      /\ Executing(w) /\ TaskOf(w)' = TaskOf(w)
      /\ worker'[w].attempt = worker[w].attempt
      /\ worker'[w].claimed_at = worker[w].claimed_at
      /\ row'[TaskOf(w)] = row[TaskOf(w)]
      /\ attempts'[TaskOf(w)] = attempts[TaskOf(w)]
<1>1. Executing(w) => /\ TaskOf(w) \in Tasks /\ row[TaskOf(w)].status = "RUNNING"
                      /\ row[TaskOf(w)].lease = worker[w].claimed_at + Lease
                      /\ now <= worker[w].claimed_at + Lease
  BY HeldTasks DEF Executing, OnLease, LeaseInv, OwnsItsTask, Running, WithinLease
<1>2. CASE QuietStep
  BY <1>2, QuietFacts
<1>3. ASSUME NEW t \in Tasks, ApiStep(t)
      PROVE  Untouched
  BY <1>1, <1>3, ApiFacts DEF Executing
<1>4. ASSUME NEW v \in Workers, v # w, ClaimStep(v)
      PROVE  Untouched
  <2>1. /\ TaskOf(v) \in Tasks /\ ClaimTask(TaskOf(v), worker[v].claimed_at)
        /\ row[TaskOf(v)].status = "QUEUED"
        /\ \A u \in Tasks \ {TaskOf(v)} : row'[u] = row[u]
        /\ worker'[w] = worker[w] /\ TaskOf(w)' = TaskOf(w)
    BY <1>4, ClaimFacts
  <2>2. Executing(w) /\ TaskOf(w) # TaskOf(v)
    BY <1>1, <2>1 DEF Executing
  <2>3. attempts'[TaskOf(w)] = attempts[TaskOf(w)]
    BY <1>1, <2>1, <2>2, Claiming
  <2> QED
    BY <1>1, <2>1, <2>2, <2>3
<1>5. ASSUME NEW v \in Workers, OutcomeStep(v)
      PROVE  Untouched
  <2>1. /\ \A u \in Tasks \ {TaskOf(v)} : row'[u] = row[u]
        /\ v # w /\ worker'[w] = worker[w] /\ TaskOf(w)' = TaskOf(w)
    BY <1>5, OutcomeFacts DEF Executing
  <2>2. Executing(w) /\ TaskOf(w) # TaskOf(v)
    BY <1>5, <2>1 DEF OutcomeStep, Executing, LeaseInv, ExclusiveExecution
  <2>3. attempts'[TaskOf(w)] = attempts[TaskOf(w)]
    BY <1>1, <1>5, <2>2, OutcomeFacts
    DEF CloseAttempt, Typed, TypeOK, StoreTypeOK
  <2> QED
    BY <1>1, <2>1, <2>2, <2>3
<1>6. ASSUME NEW s \in Scanners, ReclaimStep(s)
      PROVE  Untouched
  <2>1. /\ Stale(scanner[s].task, scanner[s].at)
        /\ CloseLatestOpen(scanner[s].task)
        /\ \A u \in Tasks \ {scanner[s].task} : row'[u] = row[u]
        /\ worker' = worker /\ TaskOf(w)' = TaskOf(w)
    BY <1>6, ReclaimFacts
  <2>2. Executing(w)
    BY <2>1 DEF Executing
  <2>3. TaskOf(w) # scanner[s].task
    <3>1. /\ scanner[s].at \in Nat /\ now \in Nat /\ scanner[s].at <= now
          /\ worker[w].claimed_at \in Nat /\ Lease \in Nat
      BY ModelAssumption DEF ScansInThePast, Typed, TypeOK, EnvironmentTypeOK,
           RecoveryTypeOK, ScannerState, WorkerTypeOK, WorkerState
    <3> QED
      BY <1>1, <2>1, <2>2, <3>1 DEF Stale
  <2>4. attempts'[TaskOf(w)] = attempts[TaskOf(w)]
    BY <1>1, <2>1, <2>2, <2>3 DEF CloseLatestOpen, Typed, TypeOK, StoreTypeOK
  <2> QED
    BY <1>1, <2>1, <2>2, <2>3, <2>4
<1> QED
  BY <1>2, <1>3, <1>4, <1>5, <1>6 DEF SomeStep

\* A worker owns its task from its claim until its outcome, and alone.
LEMMA OwnershipKept ==
  ASSUME Typed, ScansInThePast, LeaseInv, SomeStep
  PROVE  OwnsItsTask' /\ ExclusiveExecution'
<1>1. ASSUME NEW w \in Workers, Executing(w)', ClaimStep(w)
      PROVE  /\ TaskOf(w)' = TaskOf(w) /\ row[TaskOf(w)].status = "QUEUED"
             /\ row'[TaskOf(w)].status = "RUNNING"
             /\ worker'[w].attempt = Len(attempts'[TaskOf(w)])
             /\ row'[TaskOf(w)].lease = worker'[w].claimed_at + Lease
  <2>1. /\ TaskOf(w) \in Tasks /\ ClaimTask(TaskOf(w), worker[w].claimed_at)
        /\ worker'[w].attempt = Len(attempts[TaskOf(w)]) + 1
    BY <1>1, ClaimFacts
  <2>2. worker'[w].attempt = Len(attempts'[TaskOf(w)])
    BY <2>1, Claiming
  <2> QED
    BY <1>1, <2>2, ClaimFacts
<1>2. \A w \in Workers : Executing(w) => row[TaskOf(w)].status = "RUNNING"
  BY DEF LeaseInv, OwnsItsTask, Running
<1>3. OwnsItsTask'
  BY <1>1, OthersKeepOut DEF OwnsItsTask, LeaseInv, Running
<1>4. ASSUME NEW v \in Workers, NEW w \in Workers, Executing(v)', Executing(w)', v # w
      PROVE  TaskOf(v)' # TaskOf(w)'
  <2>1. CASE ClaimStep(v) /\ ClaimStep(w)
    <3>1. worker'[v] = worker[v]
      BY <1>4, <2>1, ClaimFacts
    <3> QED
      BY <1>4, <2>1, <3>1 DEF ClaimStep, Executing
  <2>2. CASE Executing(v) /\ Executing(w) /\ TaskOf(v)' = TaskOf(v) /\ TaskOf(w)' = TaskOf(w)
    BY <1>4, <2>2 DEF LeaseInv, ExclusiveExecution
  <2>3. CASE ClaimStep(v) /\ Executing(w) /\ TaskOf(w)' = TaskOf(w)
    BY <1>1, <1>2, <1>4, <2>3
  <2>4. CASE ClaimStep(w) /\ Executing(v) /\ TaskOf(v)' = TaskOf(v)
    BY <1>1, <1>2, <1>4, <2>4
  <2> QED
    BY <1>4, <2>1, <2>2, <2>3, <2>4, OthersKeepOut
<1> QED
  BY <1>3, <1>4 DEF ExclusiveExecution

\* What a worker has read stays what its UPDATE increments, because nobody
\* else writes its row; what a scan has read does, because a row that was
\* written since is not stale for the scan's clock.
LEMMA ReadsAreFreshKept ==
  ASSUME Typed, Typed', ScansInThePast, LeaseInv, SomeStep
  PROVE  ReadsAreFresh'
<1>1. ASSUME NEW w \in Workers, worker'[w].pc = "failing"
      PROVE  worker'[w].read = row'[TaskOf(w)'].retry_count
  <2>1. Executing(w)' /\ ~ClaimStep(w)
    BY <1>1, ClaimFacts DEF Executing
  <2>2. /\ TaskOf(w)' = TaskOf(w)
        /\ row'[TaskOf(w)] = row[TaskOf(w)]
    BY <2>1, OthersKeepOut
  <2>3. \/ worker'[w] = worker[w]
        \/ worker'[w].read = row[TaskOf(w)].retry_count
    <3>1. CASE QuietStep
      BY <1>1, <3>1 DEF QuietStep, WorkerGoesOn, OnLease
    <3>2. CASE \E t \in Tasks : ApiStep(t)
      BY <3>2, ApiFacts
    <3>3. CASE \E v \in Workers : ClaimStep(v)
      BY <2>1, <3>3, ClaimFacts
    <3>4. CASE \E v \in Workers : OutcomeStep(v)
      BY <1>1, <3>4, OutcomeFacts
    <3>5. CASE \E s \in Scanners : ReclaimStep(s)
      BY <3>5, ReclaimFacts
    <3> QED
      BY <3>1, <3>2, <3>3, <3>4, <3>5 DEF SomeStep
  <2> QED
    BY <1>1, <2>2, <2>3 DEF LeaseInv, ReadsAreFresh
<1>2. ASSUME NEW s \in Scanners, scanner'[s].pc = "updating",
             Stale(scanner[s].task, scanner[s].at)', scanner'[s].task \in Tasks
      PROVE  scanner'[s].read = row'[scanner'[s].task].retry_count
  <2>1. CASE QuietStep
    <3>1. row' = row
      BY <2>1, QuietFacts
    <3>2. CASE scanner'[s] = scanner[s]
      BY <1>2, <3>1, <3>2 DEF LeaseInv, ReadsAreFresh, Stale, Running
    <3>3. CASE scanner'[s].read = row[scanner'[s].task].retry_count
      BY <3>1, <3>3
    <3> QED
      BY <1>2, <2>1, <3>2, <3>3 DEF QuietStep, ScanGoesOn
  \* In every transaction the scan stays where it is.
  <2>2. ASSUME scanner'[s] = scanner[s],
               row'[scanner[s].task] = row[scanner[s].task]
        PROVE  scanner'[s].read = row'[scanner'[s].task].retry_count
    BY <1>2, <2>2 DEF LeaseInv, ReadsAreFresh, Stale, Running
  <2>3. ASSUME NEW t \in Tasks, ApiStep(t)
        PROVE  scanner'[s].read = row'[scanner'[s].task].retry_count
    BY <1>2, <2>2, <2>3, ApiFacts DEF ApiStep, Stale, Running
  <2>4. ASSUME NEW w \in Workers, ClaimStep(w)
        PROVE  scanner'[s].read = row'[scanner'[s].task].retry_count
    <3>1. /\ scanner' = scanner /\ TaskOf(w) \in Tasks
          /\ row'[TaskOf(w)].lease = worker[w].claimed_at + Lease
          /\ \A u \in Tasks \ {TaskOf(w)} : row'[u] = row[u]
      BY <2>4, ClaimFacts DEF ClaimStep
    <3>2. scanner[s].at <= now /\ now <= worker[w].claimed_at + Lease
      BY <2>4 DEF ClaimStep, ScansInThePast, LeaseInv, WithinLease, OnLease
    <3>3. /\ scanner[s].at \in Nat /\ now \in Nat
          /\ worker[w].claimed_at \in Nat /\ Lease \in Nat
      BY ModelAssumption DEF Typed, TypeOK, EnvironmentTypeOK,
           RecoveryTypeOK, ScannerState, WorkerTypeOK, WorkerState
    <3>4. scanner[s].task # TaskOf(w)
      BY <1>2, <3>1, <3>2, <3>3 DEF Stale
    <3> QED
      BY <1>2, <2>2, <3>1, <3>4
  <2>5. ASSUME NEW w \in Workers, OutcomeStep(w)
        PROVE  scanner'[s].read = row'[scanner'[s].task].retry_count
    <3>1. /\ scanner' = scanner
          /\ row'[TaskOf(w)].status # "RUNNING"
          /\ \A u \in Tasks \ {TaskOf(w)} : row'[u] = row[u]
      BY <2>5, OutcomeFacts DEF OutcomeStep
    <3> QED
      BY <1>2, <2>2, <3>1 DEF Stale, Running
  <2>6. ASSUME NEW r \in Scanners, ReclaimStep(r)
        PROVE  scanner'[s].read = row'[scanner'[s].task].retry_count
    <3>1. /\ scanner'[s] = scanner[s]
          /\ row'[scanner[r].task].status # "RUNNING"
          /\ \A u \in Tasks \ {scanner[r].task} : row'[u] = row[u]
      BY <1>2, <2>6, ReclaimFacts DEF ReclaimStep
    <3> QED
      BY <1>2, <2>2, <3>1 DEF Stale, Running
  <2> QED
    BY <2>1, <2>3, <2>4, <2>5, <2>6 DEF SomeStep
<1>3. \A s \in Scanners : scanner'[s].pc = "updating" => scanner'[s].task \in Tasks
  BY DEF Typed, HoldersHaveTasks
<1> QED
  BY <1>1, <1>2, <1>3 DEF ReadsAreFresh, TaskOf

\* The transaction that ends an attempt finds it open and the latest of a
\* RUNNING task; the claim that follows finds every attempt closed.
LEMMA AttemptsClosedKept ==
  ASSUME Typed, RunningIsOpen, LeaseInv, SomeStep
  PROVE  AttemptsClosed'
<1> USE DEF AttemptsClosed, Running
<1>1. \A t \in Tasks : attempts[t] \in Seq(Outcome)
  BY DEF Typed, TypeOK, StoreTypeOK
<1>2. AttemptsClosed
  BY DEF LeaseInv
\* u is the task of the transaction.
<1>3. ASSUME NEW u \in Tasks,
             \A t \in Tasks \ {u} : row'[t] = row[t] /\ attempts'[t] = attempts[t],
             \A n \in DOMAIN attempts'[u] :
               attempts'[u][n] = "open" <=>
                 row'[u].status = "RUNNING" /\ n = Len(attempts'[u])
      PROVE  AttemptsClosed'
  BY <1>2, <1>3
<1>4. CASE QuietStep
  BY <1>2, <1>4, QuietFacts
<1>5. ASSUME NEW t \in Tasks, ApiStep(t)
      PROVE  AttemptsClosed'
  BY <1>2, <1>5, ApiFacts
<1>6. ASSUME NEW w \in Workers, ClaimStep(w)
      PROVE  AttemptsClosed'
  <2> DEFINE u == TaskOf(w)
  <2>1. /\ u \in Tasks /\ ClaimTask(u, worker[w].claimed_at)
        /\ row[u].status = "QUEUED" /\ row'[u].status = "RUNNING"
        /\ \A t \in Tasks \ {u} : row'[t] = row[t]
    BY <1>6, ClaimFacts
  <2>2. /\ \A t \in Tasks \ {u} : attempts'[t] = attempts[t]
        /\ Len(attempts'[u]) = Len(attempts[u]) + 1
        /\ attempts'[u][Len(attempts[u]) + 1] = "open"
        /\ DOMAIN attempts[u] = 1..Len(attempts[u])
        /\ DOMAIN attempts'[u] = 1..(Len(attempts[u]) + 1)
        /\ \A k \in DOMAIN attempts[u] : attempts'[u][k] = attempts[u][k]
    BY <2>1, Claiming
  <2>3. \A k \in DOMAIN attempts[u] : attempts[u][k] # "open"
    BY <1>2, <2>1
  <2>4. Len(attempts[u]) \in Nat
    BY <1>1, <2>1
  <2> HIDE DEF u
  <2>5. \A n \in DOMAIN attempts'[u] :
          attempts'[u][n] = "open" <=> n = Len(attempts'[u])
    BY <2>2, <2>3, <2>4
  <2> QED
    BY <1>3, <2>1, <2>2, <2>5
<1>7. ASSUME NEW w \in Workers, OutcomeStep(w)
      PROVE  AttemptsClosed'
  <2> DEFINE u == TaskOf(w)
             n == worker[w].attempt
  <2>1. /\ u \in Tasks /\ n \in Nat /\ row'[u].status # "RUNNING"
        /\ \A t \in Tasks \ {u} : row'[t] = row[t]
    BY <1>7, OutcomeFacts
  <2>2. PICK o \in {"ok", "failed"} : CloseAttempt(u, n, o)
    BY <1>7, OutcomeFacts
  <2>3. \A t \in Tasks \ {u} : attempts'[t] = attempts[t]
    BY <2>2 DEF CloseAttempt, Typed, TypeOK, StoreTypeOK
  <2>4. n = Len(attempts[u])
    BY <1>7 DEF OutcomeStep, Executing, LeaseInv, OwnsItsTask
  <2>5. \A k \in DOMAIN attempts[u] : k # n => attempts[u][k] # "open"
    BY <1>2, <2>1, <2>4
  <2>6. \A k \in DOMAIN attempts'[u] : attempts'[u][k] # "open"
    BY <2>1, <2>2, <2>5, Closing
  <2> QED
    BY <1>3, <2>1, <2>3, <2>6
<1>8. ASSUME NEW s \in Scanners, ReclaimStep(s)
      PROVE  AttemptsClosed'
  <2> DEFINE u == scanner[s].task
  <2>1. /\ u \in Tasks /\ row[u].status = "RUNNING"
        /\ row'[u].status # "RUNNING" /\ CloseLatestOpen(u)
        /\ \A t \in Tasks \ {u} : row'[t] = row[t]
    BY <1>8, ReclaimFacts
  <2>2. \A t \in Tasks \ {u} : attempts'[t] = attempts[t]
    BY <2>1 DEF CloseLatestOpen, Typed, TypeOK, StoreTypeOK
  <2>3. \A k \in DOMAIN attempts[u] :
          attempts[u][k] = "open" => \A j \in DOMAIN attempts[u] :
            attempts[u][j] = "open" => j <= k
    BY <1>1, <1>2, <2>1
  <2>4. \A k \in DOMAIN attempts'[u] : attempts'[u][k] # "open"
    BY <2>1, <2>3, ClosingLatest
  <2> QED
    BY <1>3, <2>1, <2>2, <2>4
<1> QED
  BY <1>4, <1>5, <1>6, <1>7, <1>8 DEF SomeStep

\* Every attempt that is to be repeated is counted once: the retry_count that
\* is incremented is the one the row still has.
LEMMA RetryCountKept ==
  ASSUME Typed, ScansInThePast, NoHistoryYet, LeaseInv, SomeStep
  PROVE  RetryCountIsExact'
<1> DEFINE Exact(t) == Len(attempts[t]) - base[t] =
                         row[t].retry_count + (IF Queued(t) THEN 0 ELSE 1)
<1>1. \A t \in Tasks : /\ attempts[t] \in Seq(Outcome) /\ Len(attempts[t]) \in Nat
                       /\ base[t] \in Nat /\ row[t].retry_count \in Nat
  BY ModelAssumption DEF Typed, TypeOK, StoreTypeOK, Row
<1>2. \A t \in Tasks : row[t].status # "ABSENT" => Exact(t)
  BY DEF LeaseInv, RetryCountIsExact
<1>3. ASSUME NEW u \in Tasks,
             \A t \in Tasks \ {u} : /\ row'[t] = row[t] /\ base'[t] = base[t]
                                    /\ Len(attempts'[t]) = Len(attempts[t]),
             Exact(u)'
      PROVE  RetryCountIsExact'
  BY <1>2, <1>3 DEF RetryCountIsExact, Queued
<1>4. CASE QuietStep
  BY <1>2, <1>4, QuietFacts DEF RetryCountIsExact, Queued
<1>5. ASSUME NEW u \in Tasks, ApiStep(u)
      PROVE  RetryCountIsExact'
  <2>1. Len(attempts'[u]) = base'[u]
    BY <1>1, <1>5, ApiFacts DEF NoHistoryYet
  <2>2. Exact(u)'
    <3>1. Len(attempts'[u]) \in Nat /\ row'[u].retry_count = 0 /\ Queued(u)'
      BY <1>1, <1>5, ApiFacts DEF Queued
    <3> QED
      BY <2>1, <3>1
  <2> HIDE DEF Exact
  <2> QED
    BY <1>3, <1>5, <2>2, ApiFacts
<1>6. ASSUME NEW w \in Workers, ClaimStep(w)
      PROVE  RetryCountIsExact'
  <2>1. PICK u \in Tasks :
          /\ ClaimTask(u, worker[w].claimed_at) /\ base' = base
          /\ row[u].status = "QUEUED" /\ row'[u].status = "RUNNING"
          /\ row'[u].retry_count = row[u].retry_count
          /\ \A t \in Tasks \ {u} : row'[t] = row[t]
    BY <1>6, ClaimFacts DEF ClaimTask
  <2>2. /\ \A t \in Tasks \ {u} : attempts'[t] = attempts[t]
        /\ Len(attempts'[u]) = Len(attempts[u]) + 1
    BY <2>1, Claiming
  <2>3. Exact(u)'
    BY <1>1, <1>2, <2>1, <2>2 DEF Queued
  <2> HIDE DEF Exact
  <2> QED
    BY <1>3, <2>1, <2>2, <2>3
<1>7. ASSUME NEW u \in Tasks, row[u].status = "RUNNING",
             \/ row'[u].status = "QUEUED" /\ row'[u].retry_count = row[u].retry_count + 1
             \/ /\ row'[u].status \in Terminal
                /\ row'[u].retry_count = row[u].retry_count,
             \A t \in Tasks \ {u} : row'[t] = row[t],
             base' = base,
             \A t \in Tasks : Len(attempts'[t]) = Len(attempts[t])
      PROVE  RetryCountIsExact'
  <2>1. Exact(u)'
    BY <1>1, <1>2, <1>7 DEF Queued, Terminal
  <2> HIDE DEF Exact
  <2> QED
    BY <1>3, <1>7, <2>1
<1>8. ASSUME NEW w \in Workers, OutcomeStep(w)
      PROVE  RetryCountIsExact'
  <2> DEFINE u == TaskOf(w)
  <2>1. worker[w].pc = "failing" => worker[w].read = row[u].retry_count
    BY DEF LeaseInv, ReadsAreFresh
  <2>2. /\ u \in Tasks /\ worker[w].attempt \in Nat
        /\ row[u].status = "RUNNING" /\ base' = base
        /\ \A t \in Tasks \ {u} : row'[t] = row[t]
    BY <1>8, OutcomeFacts
  <2>3. PICK o : CloseAttempt(u, worker[w].attempt, o)
    BY <1>8, OutcomeFacts
  <2>4. \A t \in Tasks : Len(attempts'[t]) = Len(attempts[t])
    BY <2>2, <2>3, Closing
  <2>5. \/ row'[u].status = "QUEUED" /\ row'[u].retry_count = row[u].retry_count + 1
        \/ /\ row'[u].status \in Terminal
           /\ row'[u].retry_count = row[u].retry_count
    BY <1>8, <2>1, OutcomeFacts DEF Terminal
  <2> HIDE DEF u
  <2> QED
    BY <1>7, <2>2, <2>4, <2>5
<1>9. ASSUME NEW s \in Scanners, ReclaimStep(s)
      PROVE  RetryCountIsExact'
  <2>1. scanner[s].read = row[scanner[s].task].retry_count
    BY <1>9, ReclaimFacts DEF ReclaimStep, LeaseInv, ReadsAreFresh
  <2>2. \A t \in Tasks : Len(attempts'[t]) = Len(attempts[t])
    BY <1>9, ReclaimFacts, ClosingLatest
  <2> QED
    BY <1>7, <1>9, <2>1, <2>2, ReclaimFacts DEF Terminal
<1> QED
  BY <1>4, <1>5, <1>6, <1>8, <1>9 DEF SomeStep

-----------------------------------------------------------------------------
\* So are the leases.  LeaseHonoured is about the constants: either it holds in
\* every state or in none.
LEMMA ExecutionKept == ExecutionInv /\ [Next]_vars => ExecutionInv'
<1>1. CoreInv /\ [Next]_vars => CoreInv'
  BY CoreKept
<1> SUFFICES ASSUME ExecutionInv, [Next]_vars, LeaseHonoured PROVE LeaseInv'
  BY <1>1 DEF ExecutionInv, LeaseHonoured
<1>2. /\ Typed /\ Typed' /\ SomeStep /\ LeaseInv
      /\ ScansInThePast /\ NoHistoryYet /\ RunningIsOpen
  BY <1>1, StepCases DEF ExecutionInv, CoreInv, Typed
<1>3. WithinLease'
  BY <1>2, WithinLeaseKept DEF LeaseInv
<1> QED
  BY <1>2, <1>3, OwnershipKept, ReadsAreFreshKept, AttemptsClosedKept,
     RetryCountKept DEF LeaseInv

\* The inductive invariant.
THEOREM Inductive == Spec => []IndInv
<1>1. Init /\ CoreInv => ExecutionInv
  BY DEF Init, StoreInit, NewRow, WorkerInit, At, RecoveryInit, IdleScanner,
         ExecutionInv, LeaseInv, WithinLease, OnLease, ReadsAreFresh,
         ExclusiveExecution, OwnsItsTask, Executing, AttemptsClosed, RetryCountIsExact
<1> QED
  BY <1>1, ExecutionKept, SpeedFree, PTL DEF Spec, IndInv

\* As long as every worker is done before its lease: no two workers execute a
\* task at the same time.
THEOREM ExecutionIsExclusive == LeaseHonoured => (Spec => []ExclusiveExecution)
<1> SUFFICES ASSUME LeaseHonoured PROVE Spec => []ExclusiveExecution
  OBVIOUS
<1>1. IndInv => ExclusiveExecution
  BY DEF IndInv, ExecutionInv, LeaseInv
<1> QED
  BY <1>1, Inductive, PTL

\* A worker that executes owns its task; no outcome is ever rejected.
THEOREM WorkersOwnTheirTasks == LeaseHonoured => (Spec => []OwnsItsTask)
<1> SUFFICES ASSUME LeaseHonoured PROVE Spec => []OwnsItsTask
  OBVIOUS
<1>1. IndInv => OwnsItsTask
  BY DEF IndInv, ExecutionInv, LeaseInv
<1> QED
  BY <1>1, Inductive, PTL

\* An attempt is open exactly as long as it runs.
THEOREM AttemptsGetClosed == LeaseHonoured => (Spec => []AttemptsClosed)
<1> SUFFICES ASSUME LeaseHonoured PROVE Spec => []AttemptsClosed
  OBVIOUS
<1>1. IndInv => AttemptsClosed
  BY DEF IndInv, ExecutionInv, LeaseInv
<1> QED
  BY <1>1, Inductive, PTL

\* retry_count and the attempts agree, and stay within the budget.
THEOREM RetriesAreCounted == LeaseHonoured => (Spec => [](RetryCountIsExact /\ RetryBudget))
<1> SUFFICES ASSUME LeaseHonoured PROVE Spec => [](RetryCountIsExact /\ RetryBudget)
  OBVIOUS
<1>1. IndInv => RetryCountIsExact /\ RetryBudget
  <2> SUFFICES ASSUME IndInv, NEW t \in Tasks
               PROVE  Len(attempts[t]) - base[t] <= MaxRetries + 1
    BY DEF IndInv, ExecutionInv, LeaseInv, RetryBudget
  <2>1. /\ attempts[t] \in Seq(Outcome) /\ Len(attempts[t]) \in Nat
        /\ base[t] \in Nat /\ row[t].retry_count \in 0..MaxRetries
        /\ MaxRetries \in Nat
    BY ModelAssumption DEF IndInv, ExecutionInv, CoreInv, TypeOK, StoreTypeOK, Row
  <2>2. CASE row[t].status = "ABSENT"
    <3>1. attempts[t] = <<>> /\ base[t] = 0
      BY <2>2 DEF IndInv, ExecutionInv, CoreInv, NoHistoryYet
    <3> QED
      BY <2>1, <3>1
  <2>3. CASE row[t].status # "ABSENT"
    BY <2>1, <2>3 DEF IndInv, ExecutionInv, LeaseInv, RetryCountIsExact
  <2> QED
    BY <2>2, <2>3
<1> QED
  BY <1>1, Inductive, PTL

\* retry_count is exactly the number of repeated attempts.
THEOREM RetryCountsAreExact == LeaseHonoured => (Spec => []RetryCountIsExact)
<1> SUFFICES ASSUME LeaseHonoured PROVE Spec => []RetryCountIsExact
  OBVIOUS
<1>1. IndInv => RetryCountIsExact
  BY DEF IndInv, ExecutionInv, LeaseInv
<1> QED
  BY <1>1, Inductive, PTL

\* What was written about an attempt stays.
THEOREM HistoryIsKept == LeaseHonoured => (Spec => AttemptHistoryKept)
<1> SUFFICES ASSUME LeaseHonoured PROVE Spec => AttemptHistoryKept
  OBVIOUS
<1> DEFINE Kept == \A t \in Tasks : \A n \in DOMAIN attempts[t] :
       attempts[t][n] # "open" => attempts'[t][n] = attempts[t][n]
<1>1. ASSUME IndInv, [Next]_vars
      PROVE  Kept
  <2>1. Typed /\ SomeStep /\ LeaseInv
    BY <1>1, StepCases DEF IndInv, ExecutionInv, CoreInv, Typed
  <2> SUFFICES ASSUME NEW t \in Tasks, NEW n \in DOMAIN attempts[t],
                      attempts[t][n] # "open"
               PROVE  attempts'[t][n] = attempts[t][n]
    OBVIOUS
  <2>2. CASE QuietStep
    BY <2>2, QuietFacts
  <2>3. CASE \E u \in Tasks : ApiStep(u)
    BY <2>1, <2>3, ApiFacts
  <2>4. ASSUME NEW w \in Workers, ClaimStep(w)
        PROVE  attempts'[t][n] = attempts[t][n]
    <3>1. TaskOf(w) \in Tasks /\ ClaimTask(TaskOf(w), worker[w].claimed_at)
      BY <2>1, <2>4, ClaimFacts
    <3> QED
      BY <2>1, <3>1, Claiming
  <2>5. ASSUME NEW w \in Workers, OutcomeStep(w)
        PROVE  attempts'[t][n] = attempts[t][n]
    <3> DEFINE u == TaskOf(w)
    <3>1. u \in Tasks /\ worker[w].attempt \in Nat /\ row[u].status = "RUNNING"
      BY <2>1, <2>5, OutcomeFacts
    <3>2. PICK o : CloseAttempt(u, worker[w].attempt, o)
      BY <2>1, <2>5, OutcomeFacts
    <3>3. worker[w].attempt = Len(attempts[u])
      BY <2>1, <2>5 DEF OutcomeStep, Executing, LeaseInv, OwnsItsTask
    <3>4. ~(t = u /\ n = worker[w].attempt)
      BY <2>1, <3>1, <3>3 DEF LeaseInv, AttemptsClosed, Running
    <3> QED
      BY <2>1, <3>1, <3>2, <3>4, Closing
  <2>6. CASE \E s \in Scanners : ReclaimStep(s)
    BY <2>1, <2>6, ReclaimFacts, ClosingLatest
  <2> QED
    BY <2>1, <2>2, <2>3, <2>4, <2>5, <2>6 DEF SomeStep
<1>2. IndInv /\ [Next]_vars => [Kept]_vars
  BY <1>1
<1> QED
  BY <1>2, Inductive, PTL DEF Spec, AttemptHistoryKept
=============================================================================
