--------------------------- MODULE TaskMesh_steps ----------------------------
(****************************************************************************)
(* The steps of TaskMesh as the proofs see them: they keep the types; most  *)
(* leave the database alone, and StepCases sorts them into those and the six*)
(* transactions; and what each transaction does to the rows and attempts.   *)
(****************************************************************************)
EXTENDS TaskMesh, TLAPS, SequenceTheorems

(* Type correctness, transaction by transaction and action by action *)

\* The program starts with typed tables, queues and processes.
LEMMA InitType == Init => TypeOK
<1> SUFFICES ASSUME Init PROVE TypeOK
  OBVIOUS
<1> USE ModelAssumption
<1> USE DEF Init
<1>1. StoreTypeOK
  BY DEF StoreInit, StoreTypeOK, NewRow, Row, NoLease, Status, Terminal
<1>2. BrokerTypeOK /\ EnvironmentTypeOK
  BY DEF BrokerInit, BrokerTypeOK, NoDelivery, Delivery, EnvironmentInit, EnvironmentTypeOK
<1>3. WorkerTypeOK
  BY DEF WorkerInit, WorkerTypeOK, At, WorkerState
<1>4. RecoveryTypeOK
  BY DEF RecoveryInit, RecoveryTypeOK, IdleScanner, ScannerState
<1>5. ApiTypeOK
  BY DEF ApiInit, ApiTypeOK
<1> QED
  BY <1>1, <1>2, <1>3, <1>4, <1>5 DEF TypeOK

-----------------------------------------------------------------------------
\* create_task inserts a well-formed row.
LEMMA CreateType ==
  ASSUME StoreTypeOK, NEW t \in Tasks, CreateTask(t)
  PROVE  StoreTypeOK'
BY ModelAssumption
   DEF StoreTypeOK, CreateTask, NewRow, Row, NoLease, Status, Terminal

\* requeue_dead_letter_task keeps the tables well-formed.
LEMMA RequeueType ==
  ASSUME StoreTypeOK, NEW t \in Tasks, RequeueDeadLetterTask(t)
  PROVE  StoreTypeOK'
<1>1. row' \in [Tasks -> Row]
  BY ModelAssumption
  DEF StoreTypeOK, RequeueDeadLetterTask, Row, Status, Terminal
<1>2. attempts' \in [Tasks -> Seq(Outcome)]
  BY DEF StoreTypeOK, RequeueDeadLetterTask
<1>3. base' \in [Tasks -> Nat]
  BY DEF StoreTypeOK, RequeueDeadLetterTask
<1> QED
  BY <1>1, <1>2, <1>3 DEF StoreTypeOK

\* _claim_task keeps the tables well-formed.
LEMMA ClaimType ==
  ASSUME StoreTypeOK, NEW t \in Tasks, NEW at \in Nat, ClaimTask(t, at)
  PROVE  StoreTypeOK'
<1>1. row' \in [Tasks -> Row]
  BY ModelAssumption
  DEF StoreTypeOK, ClaimTask, Row, NoLease, Status, Terminal
<1>2. attempts' \in [Tasks -> Seq(Outcome)]
  BY DEF StoreTypeOK, ClaimTask, Outcome
<1>3. base' \in [Tasks -> Nat]
  BY DEF StoreTypeOK, ClaimTask
<1> QED
  BY <1>1, <1>2, <1>3 DEF StoreTypeOK

\* Closing an attempt yields a sequence of outcomes, whether or not the attempt
\* exists.
LEMMA CloseType ==
  ASSUME StoreTypeOK, NEW t \in Tasks, NEW n \in Nat, NEW o \in Outcome,
         CloseAttempt(t, n, o)
  PROVE  attempts' \in [Tasks -> Seq(Outcome)]
<1>1. attempts[t] \in Seq(Outcome)
  BY DEF StoreTypeOK
<1>2. [attempts[t] EXCEPT ![n] = o] \in Seq(Outcome)
  <2>1. CASE n \in 1..Len(attempts[t])
    BY <1>1, <2>1, ExceptSeq
  <2>2. CASE n \notin 1..Len(attempts[t])
    <3>1. [attempts[t] EXCEPT ![n] = o] = attempts[t]
      BY <1>1, <2>2
    <3> QED
      BY <1>1, <3>1
  <2> QED
    BY <2>1, <2>2
<1> QED
  BY <1>2 DEF StoreTypeOK, CloseAttempt

\* So does closing the latest open attempt.
LEMMA CloseLatestType ==
  ASSUME StoreTypeOK, NEW t \in Tasks, CloseLatestOpen(t)
  PROVE  attempts' \in [Tasks -> Seq(Outcome)]
<1> DEFINE s == [n \in DOMAIN attempts[t] |->
      IF /\ attempts[t][n] = "open"
         /\ \A k \in DOMAIN attempts[t] : attempts[t][k] = "open" => k <= n
        THEN "stale" ELSE attempts[t][n]]
<1>1. attempts[t] \in Seq(Outcome)
  BY DEF StoreTypeOK
<1>2. s \in Seq(Outcome)
  BY <1>1, IsASeq DEF Outcome
<1>3. attempts' = [attempts EXCEPT ![t] = s]
  BY DEF StoreTypeOK, CloseLatestOpen
<1> QED
  BY <1>2, <1>3 DEF StoreTypeOK

\* The retry decision never leads beyond max_retries: it increments only what is
\* below the limit.
LEMMA AfterType ==
  ASSUME NEW rc \in 0..MaxRetries, NEW retryable \in BOOLEAN
  PROVE  /\ AfterFailure(retryable, rc).status \in Status
         /\ AfterFailure(retryable, rc).retry_count \in 0..MaxRetries
         /\ AfterRetryable(rc).status \in Status
         /\ AfterRetryable(rc).retry_count \in 0..MaxRetries
BY ModelAssumption
   DEF AfterFailure, AfterRetryable, RetryBudgetLeft, Status, Terminal

\* _complete_task keeps the tables well-formed.
LEMMA CompleteType ==
  ASSUME StoreTypeOK, NEW t \in Tasks, NEW n \in Nat, CompleteTask(t, n)
  PROVE  StoreTypeOK'
<1>1. row' \in [Tasks -> Row]
  BY DEF StoreTypeOK, CompleteTask, Row, NoLease, Status, Terminal
<1>2. attempts' \in [Tasks -> Seq(Outcome)]
  BY CloseType DEF CompleteTask, Outcome
<1> QED
  BY <1>1, <1>2 DEF StoreTypeOK, CompleteTask

\* _finalize_failure keeps the tables well-formed.
LEMMA FinalizeType ==
  ASSUME StoreTypeOK, NEW t \in Tasks, NEW n \in Nat, NEW retryable \in BOOLEAN,
         NEW rc \in 0..MaxRetries, FinalizeFailure(t, n, retryable, rc)
  PROVE  StoreTypeOK'
<1>1. row' \in [Tasks -> Row]
  BY AfterType DEF StoreTypeOK, FinalizeFailure, Row, NoLease
<1>2. attempts' \in [Tasks -> Seq(Outcome)]
  BY CloseType DEF FinalizeFailure, Outcome
<1> QED
  BY <1>1, <1>2 DEF StoreTypeOK, FinalizeFailure

\* _reclaim_one keeps the tables well-formed.
LEMMA ReclaimType ==
  ASSUME StoreTypeOK, NEW t \in Tasks, NEW at, NEW rc \in 0..MaxRetries,
         ReclaimTask(t, at, rc)
  PROVE  StoreTypeOK'
<1>1. row' \in [Tasks -> Row]
  BY AfterType DEF StoreTypeOK, ReclaimTask, Row, NoLease
<1>2. attempts' \in [Tasks -> Seq(Outcome)]
  BY CloseLatestType DEF ReclaimTask
<1> QED
  BY <1>1, <1>2 DEF StoreTypeOK, ReclaimTask

-----------------------------------------------------------------------------
\* At(pc) is a worker state.
LEMMA AtType ==
  ASSUME NEW pc \in {"idle", "claiming", "executing", "failing", "retrying", "acking"}
  PROVE  At(pc) \in WorkerState
BY ModelAssumption DEF At, WorkerState

\* Moving a worker on keeps the worker states.
LEMMA GotoType ==
  ASSUME WorkerTypeOK, NEW w \in Workers,
         NEW pc \in {"idle", "retrying", "acking"}, Goto(w, pc)
  PROVE  WorkerTypeOK' /\ worker'[w] = At(pc)
BY AtType DEF WorkerTypeOK, Goto

\* Publishing a message keeps the broker well-formed.
LEMMA PublishType ==
  ASSUME BrokerTypeOK, NEW t \in Tasks, NEW r \in 0..MaxRetries, Publish(t, r)
  PROVE  BrokerTypeOK'
<1>1. <<t, r>> \in Message
  BY DEF Message
<1> QED
  BY <1>1 DEF BrokerTypeOK, Publish, Put

\* Delivering one does: it is taken from the queue, which held it.
LEMMA DeliverType ==
  ASSUME BrokerTypeOK, NEW w \in Workers, NEW t \in Tasks,
         NEW r \in 0..MaxRetries, Deliver(w, t, r)
  PROVE  BrokerTypeOK' /\ unacked'[w].task = t
<1>1. <<t, r>> \in Message
  BY DEF Message
<1>2. queue' \in [Message -> Nat]
  BY <1>1 DEF BrokerTypeOK, Deliver
<1>3. unacked' \in [Workers -> Delivery] /\ unacked'[w].task = t
  BY DEF BrokerTypeOK, Deliver, Delivery
<1> QED
  BY <1>2, <1>3 DEF BrokerTypeOK

\* A worker may hold no message.
LEMMA NoDeliveryType == NoDelivery \in Delivery
BY ModelAssumption DEF NoDelivery, Delivery

\* Acknowledging a message, or giving it back, keeps the broker well-formed.
LEMMA ReleaseType ==
  ASSUME BrokerTypeOK, NEW w \in Workers, TaskOf(w) \in Tasks,
         Acknowledge(w) \/ RequeueHeld(w)
  PROVE  BrokerTypeOK'
<1>1. unacked' \in [Workers -> Delivery]
  BY NoDeliveryType DEF BrokerTypeOK, Acknowledge, RequeueHeld
<1>2. <<unacked[w].task, unacked[w].retries>> \in Message
  BY DEF BrokerTypeOK, TaskOf, Message, Delivery
<1>3. queue' \in [Message -> Nat]
  BY <1>2 DEF BrokerTypeOK, Acknowledge, RequeueHeld, Put
<1> QED
  BY <1>1, <1>3 DEF BrokerTypeOK

\* So does the end of the visibility timeout.
LEMMA RestoreType ==
  ASSUME BrokerTypeOK, NEW w \in Workers, TaskOf(w) \in Tasks, Restore(w)
  PROVE  /\ BrokerTypeOK'
         /\ \A v \in Workers : TaskOf(v)' = TaskOf(v)
<1>1. /\ unacked' \in [Workers -> Delivery]
      /\ \A v \in Workers : unacked'[v].task = unacked[v].task
  BY DEF BrokerTypeOK, Restore, Delivery
<1>2. <<unacked[w].task, unacked[w].retries>> \in Message
  BY DEF BrokerTypeOK, TaskOf, Message, Delivery
<1>3. queue' \in [Message -> Nat]
  BY <1>2 DEF BrokerTypeOK, Restore, Put
<1> QED
  BY <1>1, <1>3 DEF BrokerTypeOK, TaskOf

\* Faults are counted by a number.
LEMMA InjectType ==
  ASSUME EnvironmentTypeOK, NEW kind, Inject(kind), now' = now
  PROVE  EnvironmentTypeOK'
BY DEF EnvironmentTypeOK, Inject

-----------------------------------------------------------------------------
\* The part of the invariant every step needs to be typed.
Typed == TypeOK /\ HoldersHaveTasks

WorkersHaveTasks ==
  \A w \in Workers : worker[w].pc # "idle" => TaskOf(w) \in Tasks

\* A step of a worker keeps every type, and a busy worker holds a task.
LEMMA WorkerNextType ==
  ASSUME Typed, WorkerNext, UNCHANGED <<scanner, pending, requests>>
  PROVE  Typed'
<1> SUFFICES /\ StoreTypeOK' /\ BrokerTypeOK' /\ EnvironmentTypeOK'
             /\ WorkerTypeOK' /\ WorkersHaveTasks'
  BY DEF Typed, TypeOK, HoldersHaveTasks, WorkersHaveTasks, RecoveryTypeOK, ApiTypeOK
<1> USE DEF Typed, TypeOK
<1>1. WorkersHaveTasks
  BY DEF HoldersHaveTasks, WorkersHaveTasks
\* A step of w that leaves the messages held by the others alone.
<1>2. ASSUME NEW w \in Workers, NEW state \in WorkerState,
             worker' = [worker EXCEPT ![w] = state],
             \A v \in Workers \ {w} : TaskOf(v)' = TaskOf(v),
             state.pc = "idle" \/ TaskOf(w)' \in Tasks
      PROVE  WorkerTypeOK' /\ WorkersHaveTasks'
  BY <1>1, <1>2 DEF WorkerTypeOK, WorkersHaveTasks
<1>3. ASSUME NEW w \in Workers, NEW pc \in {"idle", "retrying", "acking"},
             Goto(w, pc),
             \A v \in Workers \ {w} : TaskOf(v)' = TaskOf(v),
             pc = "idle" \/ TaskOf(w)' \in Tasks
      PROVE  WorkerTypeOK' /\ WorkersHaveTasks'
  <2>1. At(pc) \in WorkerState /\ At(pc).pc = pc
    BY AtType DEF At
  <2> QED
    BY <1>2, <1>3, <2>1 DEF Goto
<1>4. ASSUME UNCHANGED unacked, NEW w \in Workers
      PROVE  TaskOf(w)' = TaskOf(w)
  BY <1>4 DEF TaskOf
<1>5. ASSUME NEW w \in Workers, Acknowledge(w) \/ RequeueHeld(w), NEW v \in Workers \ {w}
      PROVE  TaskOf(v)' = TaskOf(v)
  BY <1>5 DEF TaskOf, Acknowledge, RequeueHeld, BrokerTypeOK
<1>6. ASSUME NEW w \in Workers, NEW m \in Message, Receive(w, m[1], m[2])
      PROVE  /\ StoreTypeOK' /\ BrokerTypeOK' /\ EnvironmentTypeOK'
             /\ WorkerTypeOK' /\ WorkersHaveTasks'
  <2>1. m[1] \in Tasks /\ m[2] \in 0..MaxRetries
    BY DEF Message
  <2>2. BrokerTypeOK' /\ TaskOf(w)' \in Tasks
    BY <1>6, <2>1, DeliverType DEF Receive, TaskOf
  <2>3. \A v \in Workers \ {w} : TaskOf(v)' = TaskOf(v)
    BY <1>6 DEF Receive, Deliver, TaskOf, BrokerTypeOK
  <2>4. [pc |-> "claiming", claimed_at |-> now, attempt |-> 0, read |-> 0,
         retryable |-> FALSE] \in WorkerState
    BY ModelAssumption DEF WorkerState, EnvironmentTypeOK
  <2>5. WorkerTypeOK' /\ WorkersHaveTasks'
    BY <1>2, <1>6, <2>2, <2>3, <2>4 DEF Receive
  <2> QED
    BY <1>6, <2>2, <2>5 DEF Receive, StoreTypeOK, EnvironmentTypeOK, storeVars
<1>7. ASSUME NEW w \in Workers, Claim(w)
      PROVE  /\ StoreTypeOK' /\ BrokerTypeOK' /\ EnvironmentTypeOK'
             /\ WorkerTypeOK' /\ WorkersHaveTasks'
  <2>1. /\ TaskOf(w) \in Tasks /\ worker[w].claimed_at \in Nat
        /\ BrokerTypeOK' /\ EnvironmentTypeOK'
        /\ \A v \in Workers : TaskOf(v)' = TaskOf(v)
    BY <1>1, <1>7 DEF Claim, WorkersHaveTasks, WorkerTypeOK, WorkerState,
                      brokerVars, BrokerTypeOK, EnvironmentTypeOK, TaskOf
  <2>2. CASE ClaimTask(TaskOf(w), worker[w].claimed_at) /\ ~Goto(w, "acking")
    <3>1. NextAttempt(TaskOf(w)) \in Nat
      BY <2>1 DEF StoreTypeOK, NextAttempt
    <3>2. [pc |-> "executing", claimed_at |-> worker[w].claimed_at,
           attempt |-> NextAttempt(TaskOf(w)), read |-> 0,
           retryable |-> FALSE] \in WorkerState
      BY <2>1, <3>1, ModelAssumption DEF WorkerState
    <3>3. WorkerTypeOK' /\ WorkersHaveTasks'
      BY <1>2, <1>7, <2>1, <2>2, <3>2 DEF Claim
    <3> QED
      BY <2>1, <2>2, <3>3, ClaimType
  <2>3. CASE Goto(w, "acking")
    BY <1>3, <1>7, <2>1, <2>3, ClaimType DEF Claim, StoreTypeOK, storeVars
  <2> QED
    BY <1>7, <2>2, <2>3 DEF Claim
<1>8. ASSUME NEW w \in Workers, Complete(w)
      PROVE  /\ StoreTypeOK' /\ BrokerTypeOK' /\ EnvironmentTypeOK'
             /\ WorkerTypeOK' /\ WorkersHaveTasks'
  <2>1. /\ TaskOf(w) \in Tasks /\ worker[w].attempt \in Nat
        /\ BrokerTypeOK' /\ EnvironmentTypeOK'
        /\ \A v \in Workers : TaskOf(v)' = TaskOf(v)
    BY <1>1, <1>8 DEF Complete, WorkersHaveTasks, WorkerTypeOK, WorkerState,
                      brokerVars, BrokerTypeOK, EnvironmentTypeOK, TaskOf
  <2>2. WorkerTypeOK' /\ WorkersHaveTasks'
    BY <1>3, <1>8, <2>1 DEF Complete
  <2> QED
    BY <1>8, <2>1, <2>2, CompleteType DEF Complete, StoreTypeOK, storeVars
<1>9. ASSUME NEW w \in Workers, NEW retryable \in BOOLEAN, Fail(w, retryable)
      PROVE  /\ StoreTypeOK' /\ BrokerTypeOK' /\ EnvironmentTypeOK'
             /\ WorkerTypeOK' /\ WorkersHaveTasks'
  <2>1. /\ TaskOf(w) \in Tasks /\ worker[w] \in WorkerState
        /\ StoreTypeOK' /\ BrokerTypeOK' /\ EnvironmentTypeOK'
        /\ \A v \in Workers : TaskOf(v)' = TaskOf(v)
    BY <1>1, <1>9 DEF Fail, WorkersHaveTasks, WorkerTypeOK, StoreTypeOK,
                      storeVars, brokerVars, BrokerTypeOK, EnvironmentTypeOK, TaskOf
  <2>2. row[TaskOf(w)].retry_count \in 0..MaxRetries
    BY <2>1 DEF StoreTypeOK, Row
  <2>3. [pc |-> "failing", claimed_at |-> worker[w].claimed_at,
         attempt |-> worker[w].attempt, read |-> row[TaskOf(w)].retry_count,
         retryable |-> retryable] \in WorkerState
    BY <2>1, <2>2 DEF WorkerState
  <2>4. WorkerTypeOK' /\ WorkersHaveTasks'
    BY <1>2, <1>3, <1>9, <2>1, <2>3 DEF Fail
  <2> QED
    BY <2>1, <2>4
<1>10. ASSUME NEW w \in Workers, Finalize(w)
       PROVE  /\ StoreTypeOK' /\ BrokerTypeOK' /\ EnvironmentTypeOK'
              /\ WorkerTypeOK' /\ WorkersHaveTasks'
  <2>1. /\ TaskOf(w) \in Tasks /\ worker[w] \in WorkerState
        /\ BrokerTypeOK' /\ EnvironmentTypeOK'
        /\ \A v \in Workers : TaskOf(v)' = TaskOf(v)
    BY <1>1, <1>10 DEF Finalize, WorkersHaveTasks, WorkerTypeOK,
                      brokerVars, BrokerTypeOK, EnvironmentTypeOK, TaskOf
  <2>2. PICK pc \in {"retrying", "acking"} : Goto(w, pc)
    BY <1>10 DEF Finalize
  <2>3. WorkerTypeOK' /\ WorkersHaveTasks'
    BY <1>3, <2>1, <2>2
  <2>4. StoreTypeOK'
    <3>1. /\ worker[w].attempt \in Nat /\ worker[w].retryable \in BOOLEAN
          /\ worker[w].read \in 0..MaxRetries
      BY <2>1 DEF WorkerState
    <3> QED
      BY <1>10, <2>1, <3>1, FinalizeType DEF Finalize, StoreTypeOK, storeVars
  <2> QED
    BY <2>1, <2>3, <2>4
<1>11. ASSUME NEW w \in Workers, Retry(w)
       PROVE  /\ StoreTypeOK' /\ BrokerTypeOK' /\ EnvironmentTypeOK'
              /\ WorkerTypeOK' /\ WorkersHaveTasks'
  <2>1. /\ TaskOf(w) \in Tasks /\ StoreTypeOK' /\ EnvironmentTypeOK'
        /\ \A v \in Workers : TaskOf(v)' = TaskOf(v)
    BY <1>1, <1>11 DEF Retry, WorkersHaveTasks, StoreTypeOK, storeVars, Publish,
                       brokerVars, EnvironmentTypeOK, TaskOf
  <2>2. WorkerTypeOK' /\ WorkersHaveTasks'
    BY <1>3, <1>11, <2>1 DEF Retry
  <2>3. BrokerTypeOK'
    <3>1. unacked[w].retries \in 0..MaxRetries
      BY DEF BrokerTypeOK, Delivery
    <3>2. MayRetry(w) => unacked[w].retries + 1 \in 0..MaxRetries
      BY <3>1, ModelAssumption DEF MayRetry
    <3> QED
      BY <1>11, <2>1, <3>2, PublishType DEF Retry, BrokerTypeOK, brokerVars
  <2> QED
    BY <2>1, <2>2, <2>3
<1>12. ASSUME NEW w \in Workers, Ack(w) \/ RetryPublishFails(w) \/ Crash(w)
       PROVE  /\ StoreTypeOK' /\ BrokerTypeOK' /\ EnvironmentTypeOK'
              /\ WorkerTypeOK' /\ WorkersHaveTasks'
  <2>1. /\ TaskOf(w) \in Tasks /\ StoreTypeOK' /\ Goto(w, "idle")
        /\ Acknowledge(w) \/ RequeueHeld(w)
    BY <1>1, <1>12 DEF Ack, RetryPublishFails, Crash, WorkersHaveTasks,
                       StoreTypeOK, storeVars
  <2>2. EnvironmentTypeOK'
    BY <1>12, InjectType DEF Ack, RetryPublishFails, Crash, EnvironmentTypeOK
  <2>3. WorkerTypeOK' /\ WorkersHaveTasks'
    BY <1>3, <1>5, <2>1
  <2> QED
    BY <2>1, <2>2, <2>3, ReleaseType
<1>13. ASSUME NEW w \in Workers, DbError(w)
       PROVE  /\ StoreTypeOK' /\ BrokerTypeOK' /\ EnvironmentTypeOK'
              /\ WorkerTypeOK' /\ WorkersHaveTasks'
  <2>1. /\ TaskOf(w) \in Tasks /\ StoreTypeOK' /\ BrokerTypeOK'
        /\ \A v \in Workers : TaskOf(v)' = TaskOf(v)
    BY <1>1, <1>13 DEF DbError, WorkersHaveTasks, StoreTypeOK, storeVars,
                       BrokerTypeOK, brokerVars, TaskOf
  <2>2. EnvironmentTypeOK'
    BY <1>13, InjectType DEF DbError
  <2> QED
    BY <1>3, <1>13, <2>1, <2>2 DEF DbError
<1>14. ASSUME NEW w \in Workers, Redeliver(w)
       PROVE  /\ StoreTypeOK' /\ BrokerTypeOK' /\ EnvironmentTypeOK'
              /\ WorkerTypeOK' /\ WorkersHaveTasks'
  <2>1. /\ TaskOf(w) \in Tasks /\ StoreTypeOK' /\ worker' = worker /\ Restore(w)
    BY <1>1, <1>14 DEF Redeliver, WorkersHaveTasks, StoreTypeOK, storeVars
  <2>2. EnvironmentTypeOK'
    BY <1>14, InjectType DEF Redeliver
  <2> QED
    BY <1>1, <2>1, <2>2, RestoreType DEF WorkerTypeOK, WorkersHaveTasks
<1> QED
  BY <1>6, <1>7, <1>8, <1>9, <1>10, <1>11, <1>12, <1>13, <1>14
  DEF WorkerNext, WorkerStep, WorkerFault

-----------------------------------------------------------------------------
ScannersHaveTasks ==
  \A s \in Scanners :
    scanner[s].pc \in {"updating", "dispatching"} => scanner[s].task \in Tasks

\* A step of a scan keeps every type, and a scan reclaims an existing task.
LEMMA RecoveryNextType ==
  ASSUME Typed, RecoveryNext, UNCHANGED <<worker, pending, requests>>
  PROVE  Typed'
<1> USE DEF Typed, TypeOK
<1>1. unacked' = unacked
  BY DEF RecoveryNext, ScannerStep, Scan, Select, Reclaim, RecoveryDispatch,
         RecoveryDispatchFails, ScannerCrash, Dispatch, Publish, brokerVars
<1> SUFFICES /\ StoreTypeOK' /\ BrokerTypeOK' /\ EnvironmentTypeOK'
             /\ RecoveryTypeOK' /\ ScannersHaveTasks'
  BY <1>1 DEF HoldersHaveTasks, ScannersHaveTasks, WorkerTypeOK, ApiTypeOK, TaskOf
<1>2. ScannersHaveTasks
  BY DEF HoldersHaveTasks, ScannersHaveTasks
<1>3. ASSUME NEW s \in Scanners, NEW state \in ScannerState,
             scanner' = [scanner EXCEPT ![s] = state],
             state.pc \in {"idle", "scanning"} \/ state.task \in Tasks
      PROVE  RecoveryTypeOK' /\ ScannersHaveTasks'
  BY <1>2, <1>3 DEF RecoveryTypeOK, ScannersHaveTasks
<1>4. ASSUME NEW at \in Nat, NEW todo \in SUBSET Tasks
      PROVE  /\ Scanning(at, todo) \in ScannerState
             /\ Scanning(at, todo).pc = "scanning"
  BY ModelAssumption DEF Scanning, ScannerState
<1>5. IdleScanner \in ScannerState /\ IdleScanner.pc = "idle"
  BY ModelAssumption DEF IdleScanner, ScannerState
<1>6. ASSUME NEW s \in Scanners, NEW t, DoneWith(s, t)
      PROVE  RecoveryTypeOK' /\ ScannersHaveTasks'
  <2>1. scanner[s].at \in Nat /\ scanner[s].todo \ {t} \in SUBSET Tasks
    BY DEF RecoveryTypeOK, ScannerState
  <2> QED
    BY <1>3, <1>4, <1>5, <1>6, <2>1 DEF DoneWith
<1>7. ASSUME NEW s \in Scanners, Scan(s)
      PROVE  /\ StoreTypeOK' /\ BrokerTypeOK' /\ EnvironmentTypeOK'
             /\ RecoveryTypeOK' /\ ScannersHaveTasks'
  <2>1. RecoveryTypeOK' /\ ScannersHaveTasks'
    BY <1>3, <1>4, <1>7 DEF Scan, EnvironmentTypeOK
  <2> QED
    BY <1>7, <2>1 DEF Scan, StoreTypeOK, storeVars, BrokerTypeOK, brokerVars,
                      EnvironmentTypeOK
<1>8. ASSUME NEW s \in Scanners, NEW t \in Tasks, Select(s, t)
      PROVE  /\ StoreTypeOK' /\ BrokerTypeOK' /\ EnvironmentTypeOK'
             /\ RecoveryTypeOK' /\ ScannersHaveTasks'
  <2>1. row[t].retry_count \in 0..MaxRetries /\ scanner[s] \in ScannerState
    BY DEF StoreTypeOK, Row, RecoveryTypeOK
  <2>2. [pc |-> "updating", at |-> scanner[s].at, todo |-> scanner[s].todo,
         task |-> t, read |-> row[t].retry_count] \in ScannerState
    BY <2>1 DEF ScannerState
  <2>3. RecoveryTypeOK' /\ ScannersHaveTasks'
    BY <1>3, <1>6, <1>8, <2>2 DEF Select
  <2> QED
    BY <1>8, <2>3 DEF Select, StoreTypeOK, storeVars, BrokerTypeOK, brokerVars,
                      EnvironmentTypeOK
<1>9. ASSUME NEW s \in Scanners, Reclaim(s)
      PROVE  /\ StoreTypeOK' /\ BrokerTypeOK' /\ EnvironmentTypeOK'
             /\ RecoveryTypeOK' /\ ScannersHaveTasks'
  <2>1. scanner[s].task \in Tasks /\ scanner[s] \in ScannerState
    BY <1>2, <1>9 DEF Reclaim, ScannersHaveTasks, RecoveryTypeOK
  <2>2. [pc |-> "dispatching", at |-> scanner[s].at, todo |-> scanner[s].todo,
         task |-> scanner[s].task, read |-> 0] \in ScannerState
    BY <2>1, ModelAssumption DEF ScannerState
  <2>3. RecoveryTypeOK' /\ ScannersHaveTasks'
    BY <1>3, <1>6, <1>9, <2>1, <2>2 DEF Reclaim
  <2>4. StoreTypeOK'
    BY <1>9, <2>1, ReclaimType DEF Reclaim, ScannerState, StoreTypeOK, storeVars
  <2> QED
    BY <1>9, <2>3, <2>4 DEF Reclaim, BrokerTypeOK, brokerVars, EnvironmentTypeOK
<1>10. ASSUME NEW s \in Scanners, RecoveryDispatch(s)
       PROVE  /\ StoreTypeOK' /\ BrokerTypeOK' /\ EnvironmentTypeOK'
              /\ RecoveryTypeOK' /\ ScannersHaveTasks'
  <2>1. scanner[s].task \in Tasks
    BY <1>2, <1>10 DEF RecoveryDispatch, ScannersHaveTasks
  <2>2. BrokerTypeOK'
    BY <1>10, <2>1, PublishType, ModelAssumption DEF RecoveryDispatch, Dispatch
  <2> QED
    BY <1>6, <1>10, <2>2
    DEF RecoveryDispatch, StoreTypeOK, storeVars, EnvironmentTypeOK
<1>11. ASSUME NEW s \in Scanners, RecoveryDispatchFails(s) \/ ScannerCrash(s)
       PROVE  /\ StoreTypeOK' /\ BrokerTypeOK' /\ EnvironmentTypeOK'
              /\ RecoveryTypeOK' /\ ScannersHaveTasks'
  <2>1. RecoveryTypeOK' /\ ScannersHaveTasks'
    BY <1>3, <1>5, <1>6, <1>11 DEF RecoveryDispatchFails, ScannerCrash
  <2>2. EnvironmentTypeOK'
    BY <1>11, InjectType DEF RecoveryDispatchFails, ScannerCrash
  <2> QED
    BY <1>11, <2>1, <2>2 DEF RecoveryDispatchFails, ScannerCrash, StoreTypeOK,
                             storeVars, BrokerTypeOK, brokerVars
<1> QED
  BY <1>7, <1>8, <1>9, <1>10, <1>11 DEF RecoveryNext, ScannerStep

\* A step of a request keeps every type.
LEMMA ApiNextType ==
  ASSUME Typed, ApiNext, UNCHANGED <<worker, scanner>>
  PROVE  Typed'
<1> USE DEF Typed, TypeOK
<1>1. unacked' = unacked
  BY DEF ApiNext, Submit, Requeue, Redispatch, ApiDispatch, ApiDispatchFails,
         Dispatch, Publish, brokerVars
<1> SUFFICES /\ StoreTypeOK' /\ BrokerTypeOK' /\ EnvironmentTypeOK'
             /\ ApiTypeOK'
  BY <1>1 DEF HoldersHaveTasks, WorkerTypeOK, RecoveryTypeOK, TaskOf
<1>2. ASSUME NEW c \in Clients, NEW t \in Tasks,
             Submit(c, t) \/ Requeue(c, t) \/ Redispatch(c, t)
      PROVE  /\ StoreTypeOK' /\ BrokerTypeOK' /\ EnvironmentTypeOK'
             /\ ApiTypeOK'
  <2>1. ApiTypeOK'
    BY <1>2 DEF Submit, Requeue, Redispatch, ToDispatch, Request, ApiTypeOK
  <2>2. StoreTypeOK'
    BY <1>2, CreateType, RequeueType
    DEF Submit, Requeue, Redispatch, StoreTypeOK, storeVars
  <2> QED
    BY <1>2, <2>1, <2>2
    DEF Submit, Requeue, Redispatch, BrokerTypeOK, brokerVars, EnvironmentTypeOK
<1>3. ASSUME NEW c \in Clients, ApiDispatch(c)
      PROVE  /\ StoreTypeOK' /\ BrokerTypeOK' /\ EnvironmentTypeOK'
             /\ ApiTypeOK'
  <2>1. BrokerTypeOK'
    BY <1>3, PublishType, ModelAssumption DEF ApiDispatch, Dispatch, ApiTypeOK
  <2> QED
    BY <1>3, <2>1
    DEF ApiDispatch, ApiTypeOK, StoreTypeOK, storeVars, EnvironmentTypeOK
<1>4. ASSUME NEW c \in Clients, ApiDispatchFails(c)
      PROVE  /\ StoreTypeOK' /\ BrokerTypeOK' /\ EnvironmentTypeOK'
             /\ ApiTypeOK'
  <2>1. EnvironmentTypeOK'
    BY <1>4, InjectType DEF ApiDispatchFails
  <2> QED
    BY <1>4, <2>1
    DEF ApiDispatchFails, ApiTypeOK, StoreTypeOK, storeVars, BrokerTypeOK, brokerVars
<1> QED
  BY <1>2, <1>3, <1>4 DEF ApiNext

\* So does every step of TaskMesh.
LEMMA NextType ==
  ASSUME Typed, [Next]_vars
  PROVE  Typed'
<1>1. CASE Tick
  BY <1>1 DEF Tick, Typed, TypeOK, HoldersHaveTasks, StoreTypeOK, storeVars,
              BrokerTypeOK, brokerVars, EnvironmentTypeOK, WorkerTypeOK,
              RecoveryTypeOK, ApiTypeOK, TaskOf
<1>2. CASE UNCHANGED vars
  BY <1>2 DEF vars, Typed, TypeOK, HoldersHaveTasks, StoreTypeOK,
              BrokerTypeOK, EnvironmentTypeOK, WorkerTypeOK,
              RecoveryTypeOK, ApiTypeOK, TaskOf
<1> QED
  BY <1>1, <1>2, WorkerNextType, RecoveryNextType, ApiNextType DEF Next

\* The types of TaskMesh's state, for every set of tasks, workers, scans and
\* requests, every lease and every retry limit.
THEOREM TypeCorrect == Spec => []TypeOK
<1>1. Init => Typed
  BY InitType DEF Typed, HoldersHaveTasks, Init, WorkerInit, RecoveryInit, At, IdleScanner
<1>2. Typed /\ [Next]_vars => Typed'
  BY NextType
<1>3. Typed => TypeOK
  BY DEF Typed
<1> QED
  BY <1>1, <1>2, <1>3, PTL DEF Spec
-----------------------------------------------------------------------------

\* After the step w works on what it worked on before, or has just read the
\* clock, or has just read the retry_count of the task it executes.
WorkerGoesOn(w) ==
  OnLease(w)' =>
    \/ worker'[w] = worker[w] /\ TaskOf(w)' = TaskOf(w)
    \/ worker'[w].pc = "claiming" /\ worker'[w].claimed_at = now
    \/ /\ worker[w].pc = "executing" /\ worker'[w].pc = "failing"
       /\ worker'[w].claimed_at = worker[w].claimed_at
       /\ worker'[w].attempt = worker[w].attempt
       /\ Running(TaskOf(w))
       /\ worker'[w].read = row[TaskOf(w)].retry_count
       /\ TaskOf(w)' = TaskOf(w)

ScanGoesOn(s) ==
  /\ scanner'[s].at \in {scanner[s].at, now, 0}
  /\ scanner'[s].pc = "updating" =>
       \/ scanner'[s] = scanner[s]
       \/ /\ Running(scanner'[s].task)
          /\ scanner'[s].read = row[scanner'[s].task].retry_count

ClockTicks ==
  /\ now' = now + 1
  /\ UNCHANGED <<worker, unacked>>
  /\ LeaseHonoured =>
       \A w \in Workers : OnLease(w) => now < worker[w].claimed_at + Lease

QuietStep == /\ UNCHANGED storeVars
             /\ \A w \in Workers : WorkerGoesOn(w)
             /\ \A s \in Scanners : ScanGoesOn(s)
             /\ now' = now \/ ClockTicks

ApiStep(t) == /\ CreateTask(t) \/ RequeueDeadLetterTask(t)
              /\ UNCHANGED <<worker, unacked, scanner, now>>

ClaimStep(w) ==
  /\ worker[w].pc = "claiming"
  /\ ClaimTask(TaskOf(w), worker[w].claimed_at)
  /\ worker' = [worker EXCEPT ![w] =
       [pc |-> "executing", claimed_at |-> worker[w].claimed_at,
        attempt |-> NextAttempt(TaskOf(w)), read |-> 0,
        retryable |-> FALSE]]
  /\ UNCHANGED <<unacked, scanner, now>>

OutcomeStep(w) ==
  /\ \/ /\ worker[w].pc = "executing"
        /\ CompleteTask(TaskOf(w), worker[w].attempt)
     \/ /\ worker[w].pc = "failing"
        /\ FinalizeFailure(TaskOf(w), worker[w].attempt,
                           worker[w].retryable, worker[w].read)
  /\ \E pc \in {"retrying", "acking"} : Goto(w, pc)
  /\ UNCHANGED <<unacked, scanner, now>>

ReclaimStep(s) ==
  /\ scanner[s].pc = "updating"
  /\ ReclaimTask(scanner[s].task, scanner[s].at, scanner[s].read)
  /\ \A r \in Scanners : ScanGoesOn(r)
  /\ \A r \in Scanners : scanner'[r].pc = "updating" => scanner'[r] = scanner[r]
  /\ UNCHANGED <<worker, unacked, now>>

SomeStep == \/ QuietStep
            \/ \E t \in Tasks : ApiStep(t)
            \/ \E w \in Workers : ClaimStep(w) \/ OutcomeStep(w)
            \/ \E s \in Scanners : ReclaimStep(s)

\* A worker's step either writes its claim or its outcome, or is quiet.
LEMMA WorkerCases ==
  ASSUME Typed, WorkerNext, UNCHANGED <<scanner, pending, requests>>
  PROVE  SomeStep
<1> USE DEF Typed, TypeOK
<1>1. \A s \in Scanners : ScanGoesOn(s)
  BY DEF ScanGoesOn
<1>2. now' = now
  BY DEF WorkerNext, WorkerStep, WorkerFault, Receive, Claim, Complete, Fail,
         Finalize, Retry, Ack, DbError, RetryPublishFails, Redeliver, Crash
\* A step of w that only changes w and its message.
<1>3. ASSUME NEW w \in Workers, UNCHANGED storeVars, WorkerGoesOn(w),
             \A v \in Workers \ {w} : worker'[v] = worker[v] /\ TaskOf(v)' = TaskOf(v)
      PROVE  SomeStep
  BY <1>1, <1>2, <1>3 DEF SomeStep, QuietStep, WorkerGoesOn
<1>4. ASSUME NEW w \in Workers, NEW pc \in {"idle", "retrying", "acking"}, Goto(w, pc)
      PROVE  /\ WorkerGoesOn(w)
             /\ \A v \in Workers \ {w} : worker'[v] = worker[v]
  BY <1>4 DEF Goto, At, WorkerGoesOn, OnLease, WorkerTypeOK
<1>5. ASSUME UNCHANGED brokerVars, NEW v \in Workers
      PROVE  TaskOf(v)' = TaskOf(v)
  BY <1>5 DEF TaskOf, brokerVars
<1>6. ASSUME NEW w \in Workers, NEW m \in Message, Receive(w, m[1], m[2])
      PROVE  SomeStep
  <2>1. \A v \in Workers \ {w} : worker'[v] = worker[v] /\ TaskOf(v)' = TaskOf(v)
    BY <1>6 DEF Receive, Deliver, TaskOf, BrokerTypeOK, WorkerTypeOK
  <2>2. WorkerGoesOn(w)
    BY <1>6 DEF Receive, WorkerGoesOn, WorkerTypeOK
  <2> QED
    BY <1>3, <1>6, <2>1, <2>2 DEF Receive
<1>7. ASSUME NEW w \in Workers, Claim(w)
      PROVE  SomeStep
  <2>1. CASE ClaimStep(w)
    BY <2>1 DEF SomeStep
  <2>2. CASE Goto(w, "acking") /\ UNCHANGED storeVars
    BY <1>3, <1>4, <1>5, <1>7, <2>2 DEF Claim
  <2> QED
    BY <1>2, <1>7, <2>1, <2>2 DEF Claim, ClaimStep, brokerVars
<1>8. ASSUME NEW w \in Workers, Complete(w)
      PROVE  SomeStep
  <2>1. CASE CompleteTask(TaskOf(w), worker[w].attempt)
    BY <1>2, <1>8, <2>1 DEF Complete, SomeStep, OutcomeStep, brokerVars
  <2>2. CASE UNCHANGED storeVars
    BY <1>3, <1>4, <1>5, <1>8, <2>2 DEF Complete
  <2> QED
    BY <1>8, <2>1, <2>2 DEF Complete
<1>9. ASSUME NEW w \in Workers, NEW retryable \in BOOLEAN, Fail(w, retryable)
      PROVE  SomeStep
  <2>1. \A v \in Workers : TaskOf(v)' = TaskOf(v)
    BY <1>5, <1>9 DEF Fail
  <2>2. CASE Goto(w, "acking")
    BY <1>3, <1>4, <1>9, <2>1, <2>2 DEF Fail
  <2>3. CASE ~Goto(w, "acking")
    <3>1. WorkerGoesOn(w) /\ \A v \in Workers \ {w} : worker'[v] = worker[v]
      BY <1>9, <2>1, <2>3 DEF Fail, WorkerGoesOn, WorkerTypeOK
    <3> QED
      BY <1>3, <1>9, <2>1, <3>1 DEF Fail
  <2> QED
    BY <2>2, <2>3
<1>10. ASSUME NEW w \in Workers, Finalize(w)
       PROVE  SomeStep
  <2>1. PICK pc \in {"retrying", "acking"} : Goto(w, pc)
    BY <1>10 DEF Finalize
  <2>2. CASE UNCHANGED storeVars
    BY <1>3, <1>4, <1>5, <1>10, <2>1, <2>2 DEF Finalize
  <2>3. CASE FinalizeFailure(TaskOf(w), worker[w].attempt,
                             worker[w].retryable, worker[w].read)
    BY <1>2, <1>10, <2>1, <2>3 DEF Finalize, SomeStep, OutcomeStep, brokerVars
  <2> QED
    BY <1>10, <2>2, <2>3 DEF Finalize
<1>11. ASSUME NEW w \in Workers,
              Retry(w) \/ Ack(w) \/ RetryPublishFails(w) \/ Crash(w) \/ DbError(w)
       PROVE  SomeStep
  <2>1. PICK pc \in {"idle", "acking"} : Goto(w, pc)
    BY <1>11 DEF Retry, Ack, RetryPublishFails, Crash, DbError
  <2>2. \A v \in Workers \ {w} : TaskOf(v)' = TaskOf(v)
    BY <1>11 DEF Retry, Ack, RetryPublishFails, Crash, DbError, Publish,
                 Acknowledge, RequeueHeld, brokerVars, TaskOf, BrokerTypeOK
  <2>3. UNCHANGED storeVars
    BY <1>11 DEF Retry, Ack, RetryPublishFails, Crash, DbError
  <2> QED
    BY <1>3, <1>4, <2>1, <2>2, <2>3
<1>12. ASSUME NEW w \in Workers, Redeliver(w)
       PROVE  SomeStep
  <2>1. worker' = worker /\ \A v \in Workers : TaskOf(v)' = TaskOf(v)
    BY <1>12 DEF Redeliver, Restore, TaskOf, BrokerTypeOK
  <2>2. WorkerGoesOn(w)
    BY <2>1 DEF WorkerGoesOn
  <2> QED
    BY <1>3, <1>12, <2>1, <2>2 DEF Redeliver
<1> QED
  BY <1>6, <1>7, <1>8, <1>9, <1>10, <1>11, <1>12
  DEF WorkerNext, WorkerStep, WorkerFault

\* A scan's step either reclaims a task or is quiet.
LEMMA RecoveryCases ==
  ASSUME Typed, RecoveryNext, UNCHANGED <<worker, pending, requests>>
  PROVE  SomeStep
<1> USE DEF Typed, TypeOK
<1>1. now' = now /\ unacked' = unacked
  BY DEF RecoveryNext, ScannerStep, Scan, Select, Reclaim, RecoveryDispatch,
         RecoveryDispatchFails, ScannerCrash, Dispatch, Publish, brokerVars
<1>2. \A w \in Workers : WorkerGoesOn(w)
  BY <1>1 DEF WorkerGoesOn, TaskOf
<1>3. ASSUME NEW s \in Scanners, NEW state,
             scanner' = [scanner EXCEPT ![s] = state],
             state.at \in {scanner[s].at, now, 0},
             state.pc = "updating" =>
               Running(state.task) /\ state.read = row[state.task].retry_count
      PROVE  /\ \A r \in Scanners : ScanGoesOn(r)
             /\ state.pc # "updating" => \A r \in Scanners :
                  scanner'[r].pc = "updating" => scanner'[r] = scanner[r]
  BY <1>3 DEF ScanGoesOn, RecoveryTypeOK
<1>4. ASSUME NEW s \in Scanners, NEW t, DoneWith(s, t)
      PROVE  \A r \in Scanners :
               /\ ScanGoesOn(r)
               /\ scanner'[r].pc = "updating" => scanner'[r] = scanner[r]
  BY <1>3, <1>4 DEF DoneWith, Scanning, IdleScanner
<1>5. ASSUME UNCHANGED storeVars, \A s \in Scanners : ScanGoesOn(s)
      PROVE  SomeStep
  BY <1>1, <1>2, <1>5 DEF SomeStep, QuietStep
<1>6. ASSUME NEW s \in Scanners, Scan(s)
      PROVE  SomeStep
  <2>1. \A r \in Scanners : ScanGoesOn(r)
    BY <1>3, <1>6 DEF Scan, Scanning
  <2> QED
    BY <1>5, <1>6, <2>1 DEF Scan
<1>7. ASSUME NEW s \in Scanners, NEW t \in Tasks, Select(s, t)
      PROVE  SomeStep
  <2>1. \A r \in Scanners : ScanGoesOn(r)
    BY <1>3, <1>4, <1>7 DEF Select, Stale
  <2> QED
    BY <1>5, <1>7, <2>1 DEF Select
<1>8. ASSUME NEW s \in Scanners, Reclaim(s)
      PROVE  SomeStep
  <2>1. \A r \in Scanners :
          /\ ScanGoesOn(r)
          /\ scanner'[r].pc = "updating" => scanner'[r] = scanner[r]
    <3>1. CASE DoneWith(s, scanner[s].task)
      BY <1>4, <3>1
    <3>2. CASE scanner' = [scanner EXCEPT ![s] =
                 [pc |-> "dispatching", at |-> scanner[s].at,
                  todo |-> scanner[s].todo, task |-> scanner[s].task, read |-> 0]]
      BY <3>2 DEF ScanGoesOn, RecoveryTypeOK
    <3> QED
      BY <1>8, <3>1, <3>2 DEF Reclaim
  <2>2. CASE UNCHANGED storeVars
    BY <1>5, <2>1, <2>2
  <2>3. CASE ReclaimTask(scanner[s].task, scanner[s].at, scanner[s].read)
    BY <1>1, <1>8, <2>1, <2>3 DEF Reclaim, SomeStep, ReclaimStep
  <2> QED
    BY <1>8, <2>2, <2>3 DEF Reclaim
<1>9. ASSUME NEW s \in Scanners,
             RecoveryDispatch(s) \/ RecoveryDispatchFails(s) \/ ScannerCrash(s)
      PROVE  SomeStep
  <2>1. \A r \in Scanners : ScanGoesOn(r)
    BY <1>3, <1>4, <1>9
    DEF RecoveryDispatch, RecoveryDispatchFails, ScannerCrash, IdleScanner
  <2> QED
    BY <1>5, <1>9, <2>1 DEF RecoveryDispatch, RecoveryDispatchFails, ScannerCrash
<1> QED
  BY <1>6, <1>7, <1>8, <1>9 DEF RecoveryNext, ScannerStep

\* Every step of TaskMesh is quiet or one of the six transactions.
LEMMA StepCases ==
  ASSUME Typed, [Next]_vars
  PROVE  SomeStep
<1> USE DEF Typed, TypeOK
<1>1. CASE ApiNext /\ UNCHANGED <<worker, scanner>>
  <2>1. now' = now /\ unacked' = unacked
    BY <1>1 DEF ApiNext, Submit, Requeue, Redispatch, ApiDispatch,
                ApiDispatchFails, Dispatch, Publish, brokerVars
  <2>2. CASE UNCHANGED storeVars
    BY <1>1, <2>1, <2>2
    DEF SomeStep, QuietStep, WorkerGoesOn, ScanGoesOn, TaskOf
  <2>3. CASE \E t \in Tasks : CreateTask(t) \/ RequeueDeadLetterTask(t)
    BY <1>1, <2>1, <2>3 DEF SomeStep, ApiStep
  <2> QED
    BY <1>1, <2>2, <2>3
    DEF ApiNext, Submit, Requeue, Redispatch, ApiDispatch, ApiDispatchFails
<1>2. CASE Tick
  BY <1>2 DEF Tick, storeVars, brokerVars, SomeStep, QuietStep, ClockTicks,
              WorkerGoesOn, ScanGoesOn, TaskOf
<1>3. CASE UNCHANGED vars
  BY <1>3 DEF vars, storeVars, SomeStep, QuietStep, WorkerGoesOn, ScanGoesOn, TaskOf
<1> QED
  BY <1>1, <1>2, <1>3, WorkerCases, RecoveryCases DEF Next

-----------------------------------------------------------------------------
(* What the transactions do to the attempts *)

\* Closing an attempt changes that attempt only.
LEMMA Closing ==
  ASSUME Typed, NEW t \in Tasks, NEW n \in Nat, NEW o, CloseAttempt(t, n, o),
         NEW u \in Tasks
  PROVE  /\ Len(attempts'[u]) = Len(attempts[u])
         /\ DOMAIN attempts'[u] = DOMAIN attempts[u]
         /\ \A k \in DOMAIN attempts[u] :
              attempts'[u][k] = IF u = t /\ k = n THEN o ELSE attempts[u][k]
<1>1. attempts' = [attempts EXCEPT ![t] = [attempts[t] EXCEPT ![n] = o]]
  BY DEF CloseAttempt
<1>2. DOMAIN attempts = Tasks /\ attempts[u] \in Seq(Outcome)
  BY DEF Typed, TypeOK, StoreTypeOK
<1>3. DOMAIN attempts'[u] = DOMAIN attempts[u]
  BY <1>1, <1>2
<1>4. attempts'[u] \in Seq(Outcome \cup {o})
  <2>1. attempts[u] \in Seq(Outcome \cup {o})
    BY <1>2
  <2>2. CASE u = t /\ n \in 1..Len(attempts[t])
    BY <1>1, <1>2, <2>1, <2>2, ExceptSeq
  <2>3. CASE ~(u = t /\ n \in 1..Len(attempts[t]))
    <3>1. attempts'[u] = attempts[u]
      BY <1>1, <1>2, <2>3
    <3> QED
      BY <2>1, <3>1
  <2> QED
    BY <2>2, <2>3
<1>5. Len(attempts'[u]) = Len(attempts[u])
  BY <1>2, <1>3, <1>4
<1> QED
  BY <1>1, <1>2, <1>3, <1>5

\* Closing the latest open attempt changes no attempt that is closed, nor an
\* open one that a later open one follows.
LEMMA ClosingLatest ==
  ASSUME Typed, NEW t \in Tasks, CloseLatestOpen(t), NEW u \in Tasks
  PROVE  /\ Len(attempts'[u]) = Len(attempts[u])
         /\ DOMAIN attempts'[u] = DOMAIN attempts[u]
         /\ \A k \in DOMAIN attempts[u] :
              attempts'[u][k] =
                IF /\ u = t /\ attempts[u][k] = "open"
                   /\ \A j \in DOMAIN attempts[u] : attempts[u][j] = "open" => j <= k
                  THEN "stale" ELSE attempts[u][k]
<1>1. DOMAIN attempts = Tasks /\ attempts[u] \in Seq(Outcome)
  BY DEF Typed, TypeOK, StoreTypeOK
<1>2. /\ DOMAIN attempts'[u] = DOMAIN attempts[u]
      /\ \A k \in DOMAIN attempts[u] :
           attempts'[u][k] =
             IF /\ u = t /\ attempts[u][k] = "open"
                /\ \A j \in DOMAIN attempts[u] : attempts[u][j] = "open" => j <= k
               THEN "stale" ELSE attempts[u][k]
  BY <1>1 DEF CloseLatestOpen
<1>3. attempts' \in [Tasks -> Seq(Outcome)]
  BY CloseLatestType DEF Typed, TypeOK
<1>4. Len(attempts'[u]) = Len(attempts[u])
  BY <1>1, <1>2, <1>3
<1> QED
  BY <1>2, <1>4

\* A claim adds an open attempt and changes no other.
LEMMA Claiming ==
  ASSUME Typed, NEW t \in Tasks, NEW at, ClaimTask(t, at), NEW u \in Tasks
  PROVE  /\ u # t => attempts'[u] = attempts[u]
         /\ Len(attempts'[t]) = Len(attempts[t]) + 1
         /\ attempts'[t][Len(attempts[t]) + 1] = "open"
         /\ DOMAIN attempts[t] = 1..Len(attempts[t])
         /\ DOMAIN attempts'[t] = 1..(Len(attempts[t]) + 1)
         /\ \A k \in DOMAIN attempts[t] : attempts'[t][k] = attempts[t][k]
<1>1. attempts \in [Tasks -> Seq(Outcome)] /\ attempts[t] \in Seq(Outcome)
  BY DEF Typed, TypeOK, StoreTypeOK
<1>2. attempts' = [attempts EXCEPT ![t] = Append(attempts[t], "open")]
  BY DEF ClaimTask
<1> QED
  BY <1>1, <1>2

\* The task of a worker that works, and of a scan that updates, exists.
LEMMA HeldTasks ==
  ASSUME Typed
  PROVE  /\ \A w \in Workers : worker[w].pc # "idle" =>
              TaskOf(w) \in Tasks /\ worker[w].attempt \in Nat
         /\ \A s \in Scanners : scanner[s].pc = "updating" =>
              scanner[s].task \in Tasks /\ scanner[s].at \in Nat
BY DEF Typed, TypeOK, HoldersHaveTasks, WorkerTypeOK, WorkerState,
       RecoveryTypeOK, ScannerState

-----------------------------------------------------------------------------
(* What the transactions do to the rows *)

\* A decision about an attempt that is to be repeated counts it.
LEMMA Decision ==
  ASSUME NEW retry_count \in 0..MaxRetries, NEW retryable \in BOOLEAN
  PROVE  LET next == AfterFailure(retryable, retry_count) IN
         \/ next.status = "QUEUED" /\ next.retry_count = retry_count + 1
         \/ next.status \in {"DEAD_LETTER", "FAILED"} /\ next.retry_count = retry_count
BY DEF AfterFailure, AfterRetryable

\* A claim takes a QUEUED task and opens an attempt of its worker's.
LEMMA ClaimFacts ==
  ASSUME Typed, NEW w \in Workers, ClaimStep(w)
  PROVE  LET t == TaskOf(w) IN
         /\ t \in Tasks /\ row[t].status = "QUEUED"
         /\ ClaimTask(t, worker[w].claimed_at)
         /\ row'[t].status = "RUNNING"
         /\ row'[t].retry_count = row[t].retry_count
         /\ row'[t].lease = worker[w].claimed_at + Lease
         /\ \A u \in Tasks \ {t} : row'[u] = row[u]
         /\ worker'[w].pc = "executing"
         /\ worker'[w].claimed_at = worker[w].claimed_at
         /\ worker'[w].attempt = Len(attempts[t]) + 1
         /\ \A v \in Workers \ {w} : worker'[v] = worker[v]
         /\ \A v \in Workers : TaskOf(v)' = TaskOf(v)
<1>1. TaskOf(w) \in Tasks
  BY HeldTasks DEF ClaimStep
<1> QED
  BY <1>1 DEF ClaimStep, ClaimTask, NextAttempt, Queued, Typed, TypeOK,
              StoreTypeOK, WorkerTypeOK, TaskOf

\* An outcome ends a RUNNING task's attempt and its worker's work on it.
LEMMA OutcomeFacts ==
  ASSUME Typed, NEW w \in Workers, OutcomeStep(w)
  PROVE  LET t == TaskOf(w) IN
         /\ t \in Tasks /\ row[t].status = "RUNNING"
         /\ worker[w].attempt \in Nat
         /\ \/ /\ row'[t].status = "COMPLETED"
               /\ row'[t].retry_count = row[t].retry_count
               /\ CloseAttempt(t, worker[w].attempt, "ok")
            \/ /\ worker[w].pc = "failing"
               /\ \/ /\ row'[t].status = "QUEUED"
                     /\ row'[t].retry_count = worker[w].read + 1
                  \/ /\ row'[t].status \in {"DEAD_LETTER", "FAILED"}
                     /\ row'[t].retry_count = worker[w].read
               /\ CloseAttempt(t, worker[w].attempt, "failed")
         /\ \A u \in Tasks \ {t} : row'[u] = row[u]
         /\ base' = base
         /\ worker'[w].pc \in {"retrying", "acking"}
         /\ \A v \in Workers \ {w} : worker'[v] = worker[v]
         /\ \A v \in Workers : TaskOf(v)' = TaskOf(v)
<1> DEFINE t == TaskOf(w)
           next == AfterFailure(worker[w].retryable, worker[w].read)
<1>1. t \in Tasks /\ worker[w].attempt \in Nat
  BY HeldTasks DEF OutcomeStep
<1>2. worker[w].read \in 0..MaxRetries /\ worker[w].retryable \in BOOLEAN
  BY DEF Typed, TypeOK, WorkerTypeOK, WorkerState
<1>3. row[t].status = "RUNNING" /\ base' = base
  BY DEF OutcomeStep, CompleteTask, FinalizeFailure, Running
<1>4. /\ worker'[w].pc \in {"retrying", "acking"}
      /\ \A v \in Workers \ {w} : worker'[v] = worker[v]
      /\ \A v \in Workers : TaskOf(v)' = TaskOf(v)
  BY DEF OutcomeStep, Goto, At, Typed, TypeOK, WorkerTypeOK, TaskOf
<1>5. CASE CompleteTask(t, worker[w].attempt)
  <2>1. /\ row'[t].status = "COMPLETED"
        /\ row'[t].retry_count = row[t].retry_count
        /\ CloseAttempt(t, worker[w].attempt, "ok")
        /\ \A u \in Tasks \ {t} : row'[u] = row[u]
    BY <1>1, <1>5 DEF CompleteTask, Typed, TypeOK, StoreTypeOK
  <2> QED
    BY <1>1, <1>3, <1>4, <2>1
<1>6. CASE worker[w].pc = "failing" /\ FinalizeFailure(t, worker[w].attempt,
             worker[w].retryable, worker[w].read)
  <2>1. \/ next.status = "QUEUED" /\ next.retry_count = worker[w].read + 1
        \/ /\ next.status \in {"DEAD_LETTER", "FAILED"}
           /\ next.retry_count = worker[w].read
    BY <1>2, Decision
  <2>2. /\ row'[t].status = next.status
        /\ row'[t].retry_count = next.retry_count
        /\ CloseAttempt(t, worker[w].attempt, "failed")
        /\ \A u \in Tasks \ {t} : row'[u] = row[u]
    BY <1>1, <1>6 DEF FinalizeFailure, Typed, TypeOK, StoreTypeOK
  <2> HIDE DEF next
  <2> QED
    BY <1>1, <1>3, <1>4, <1>6, <2>1, <2>2
<1> QED
  BY <1>5, <1>6 DEF OutcomeStep

\* A reclaim ends a stale task's latest open attempt.
LEMMA ReclaimFacts ==
  ASSUME Typed, NEW s \in Scanners, ReclaimStep(s)
  PROVE  LET t == scanner[s].task IN
         /\ t \in Tasks /\ Stale(t, scanner[s].at)
         /\ row[t].status = "RUNNING"
         /\ \/ /\ row'[t].status = "QUEUED"
               /\ row'[t].retry_count = scanner[s].read + 1
            \/ /\ row'[t].status = "DEAD_LETTER"
               /\ row'[t].retry_count = scanner[s].read
         /\ CloseLatestOpen(t)
         /\ \A u \in Tasks \ {t} : row'[u] = row[u]
         /\ base' = base
         /\ worker' = worker
         /\ \A v \in Workers : TaskOf(v)' = TaskOf(v)
<1> DEFINE t == scanner[s].task
           next == AfterRetryable(scanner[s].read)
<1>1. t \in Tasks
  BY HeldTasks DEF ReclaimStep
<1>2. \/ next.status = "QUEUED" /\ next.retry_count = scanner[s].read + 1
      \/ next.status = "DEAD_LETTER" /\ next.retry_count = scanner[s].read
  BY DEF AfterRetryable
<1>3. /\ row'[t].status = next.status
      /\ row'[t].retry_count = next.retry_count
      /\ \A u \in Tasks \ {t} : row'[u] = row[u]
  BY <1>1 DEF ReclaimStep, ReclaimTask, Typed, TypeOK, StoreTypeOK
<1>4. /\ Stale(t, scanner[s].at) /\ row[t].status = "RUNNING"
      /\ CloseLatestOpen(t) /\ base' = base
      /\ worker' = worker /\ \A v \in Workers : TaskOf(v)' = TaskOf(v)
  BY DEF ReclaimStep, ReclaimTask, Stale, Running, TaskOf
<1> HIDE DEF next
<1> QED
  BY <1>1, <1>2, <1>3, <1>4

\* A submission or a requeue queues a task with no retry used.
LEMMA ApiFacts ==
  ASSUME Typed, NEW t \in Tasks, ApiStep(t)
  PROVE  /\ row[t].status \in {"ABSENT", "DEAD_LETTER"}
         /\ row'[t].status = "QUEUED" /\ row'[t].retry_count = 0
         /\ \A u \in Tasks \ {t} : row'[u] = row[u] /\ base'[u] = base[u]
         /\ \/ row[t].status = "ABSENT" /\ base' = base
            \/ row[t].status = "DEAD_LETTER" /\ base'[t] = Len(attempts[t])
         /\ attempts' = attempts
         /\ worker' = worker
         /\ \A v \in Workers : TaskOf(v)' = TaskOf(v)
BY DEF ApiStep, CreateTask, NewRow, RequeueDeadLetterTask, Typed, TypeOK,
       StoreTypeOK, TaskOf

\* A quiet step starts no execution.
LEMMA QuietFacts ==
  ASSUME QuietStep
  PROVE  /\ row' = row /\ attempts' = attempts /\ base' = base
         /\ \A w \in Workers : Executing(w)' =>
              /\ Executing(w)
              /\ worker'[w].attempt = worker[w].attempt
              /\ worker'[w].claimed_at = worker[w].claimed_at
              /\ TaskOf(w)' = TaskOf(w)
BY DEF QuietStep, storeVars, WorkerGoesOn, OnLease, Executing
=============================================================================
