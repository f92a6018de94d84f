------------------------ MODULE TaskMesh_refinement -------------------------
(****************************************************************************)
(* TaskMesh implements TaskLifecycle as long as no lease is overrun.        *)
(****************************************************************************)
EXTENDS TaskMesh_safety

\* Closing the last of some attempts appends an outcome to those before it.
LEMMA Recording ==
  ASSUME NEW a \in Seq(Outcome), NEW b \in Seq(Outcome), a # <<>>,
         Len(b) = Len(a), \A k \in 1..(Len(a) - 1) : b[k] = a[k]
  PROVE  b = Append(SubSeq(a, 1, Len(a) - 1), b[Len(a)])
<1> DEFINE c == SubSeq(a, 1, Len(a) - 1)
           d == Append(c, b[Len(a)])
<1>1. Len(a) \in Nat /\ Len(a) >= 1 /\ b[Len(a)] \in Outcome
  BY EmptySeq, LenProperties
<1>2. /\ c \in Seq(Outcome) /\ Len(c) = Len(a) - 1
      /\ \A k \in 1..(Len(a) - 1) : c[k] = a[k]
  <2>1. \A i \in 1..(Len(a) - 1) : a[i] \in Outcome
    BY <1>1, ElementOfSeq
  <2> QED
    BY <1>1, <2>1, SubSeqProperties
<1> HIDE DEF c
<1>3. /\ d \in Seq(Outcome) /\ Len(d) = Len(a)
      /\ \A k \in 1..Len(a) : d[k] = b[k]
  BY <1>1, <1>2
<1> HIDE DEF d
<1>4. b = d
  BY <1>1, <1>3, SeqEqual
<1> QED
  BY <1>4 DEF c, d

\* Without the last one, which was just added, attempts are what they were.
LEMMA Opening ==
  ASSUME NEW a \in Seq(Outcome), NEW b \in Seq(Outcome),
         Len(b) = Len(a) + 1, \A k \in 1..Len(a) : b[k] = a[k]
  PROVE  SubSeq(b, 1, Len(b) - 1) = a
<1> DEFINE c == SubSeq(b, 1, Len(b) - 1)
<1>1. Len(a) \in Nat
  OBVIOUS
<1>2. /\ c \in Seq(Outcome) /\ Len(c) = Len(a)
      /\ \A k \in 1..Len(a) : c[k] = b[k]
  <2>1. \A i \in 1..(Len(b) - 1) : b[i] \in Outcome
    BY <1>1, ElementOfSeq
  <2> QED
    BY <1>1, <2>1, SubSeqProperties
<1> HIDE DEF c
<1>3. c = a
  BY <1>2, SeqEqual
<1> QED
  BY <1>3 DEF c

\* A transaction on u changes u's status and log only.
LEMMA OnlyOne ==
  ASSUME NEW u \in Tasks,
         \A t \in Tasks \ {u} : row'[t] = row[t] /\ attempts'[t] = attempts[t]
  PROVE  /\ [t \in Tasks |-> row'[t].status] =
              [[t \in Tasks |-> row[t].status] EXCEPT ![u] = row'[u].status]
         /\ [t \in Tasks |-> Finished(t)'] =
              [[t \in Tasks |-> Finished(t)] EXCEPT ![u] = Finished(u)']
BY DEF Finished, Running

\* A task starts without attempts.
LEMMA InitMaps == Init => Lifecycle!Init
BY DEF Init, StoreInit, NewRow, Lifecycle!Init, Finished, Running

\* An attempt that ends with outcome o appends o to the log.
LEMMA EndingMaps ==
  ASSUME IndInv, LeaseHonoured, Typed', NEW u \in Tasks, NEW o \in Outcome,
         row[u].status = "RUNNING", row'[u].status # "RUNNING",
         Len(attempts'[u]) = Len(attempts[u]),
         \A k \in DOMAIN attempts[u] :
           attempts'[u][k] = IF k = Len(attempts[u]) THEN o ELSE attempts[u][k]
  PROVE  /\ Finished(u)' = Append(Finished(u), o)
         /\ Len(Finished(u)) - base[u] = row[u].retry_count
<1>1. /\ attempts[u] \in Seq(Outcome) /\ attempts'[u] \in Seq(Outcome)
      /\ attempts[u] # <<>> /\ Len(attempts[u]) \in Nat
      /\ base[u] \in Nat /\ row[u].retry_count \in Nat
  BY ModelAssumption DEF IndInv, ExecutionInv, CoreInv, Typed, TypeOK, StoreTypeOK, Row,
       RunningIsOpen, Running
<1>2. Len(attempts[u]) >= 1
  BY <1>1
<1>3. attempts'[u] = Append(SubSeq(attempts[u], 1, Len(attempts[u]) - 1), o)
  <2>1. /\ \A k \in 1..(Len(attempts[u]) - 1) : attempts'[u][k] = attempts[u][k]
        /\ attempts'[u][Len(attempts[u])] = o
    BY <1>1, <1>2
  <2> QED
    BY <1>1, <2>1, Recording
<1>4. Len(attempts[u]) - base[u] = row[u].retry_count + 1
  BY DEF IndInv, ExecutionInv, LeaseInv, RetryCountIsExact, Queued
<1>5. Len(SubSeq(attempts[u], 1, Len(attempts[u]) - 1)) = Len(attempts[u]) - 1
  <2>1. \A i \in 1..(Len(attempts[u]) - 1) : attempts[u][i] \in Outcome
    BY <1>1, ElementOfSeq
  <2> QED
    BY <1>1, <1>2, <2>1, SubSeqProperties
<1>6. Finished(u) = SubSeq(attempts[u], 1, Len(attempts[u]) - 1)
  BY DEF Finished, Running
<1>7. Finished(u)' = attempts'[u]
  BY DEF Finished, Running
<1>8. Finished(u)' = Append(Finished(u), o)
  BY <1>3, <1>6, <1>7
<1>9. Len(Finished(u)) = Len(attempts[u]) - 1
  BY <1>5, <1>6
<1> QED
  BY <1>1, <1>4, <1>8, <1>9

\* A claim starts an attempt and leaves the log alone.
LEMMA ClaimMaps ==
  ASSUME IndInv, LeaseHonoured, Typed', NEW w \in Workers, ClaimStep(w)
  PROVE  Lifecycle!Next
<1>1. PICK u \in Tasks :
        /\ ClaimTask(u, worker[w].claimed_at) /\ base' = base
        /\ row[u].status = "QUEUED" /\ row'[u].status = "RUNNING"
        /\ \A t \in Tasks \ {u} : row'[t] = row[t]
  BY ClaimFacts DEF ClaimTask, IndInv, ExecutionInv, CoreInv, Typed
<1>2. /\ \A t \in Tasks \ {u} : attempts'[t] = attempts[t]
      /\ Len(attempts'[u]) = Len(attempts[u]) + 1
      /\ DOMAIN attempts[u] = 1..Len(attempts[u])
      /\ \A k \in DOMAIN attempts[u] : attempts'[u][k] = attempts[u][k]
  BY <1>1, Claiming DEF IndInv, ExecutionInv, CoreInv, Typed
<1>3. attempts[u] \in Seq(Outcome) /\ attempts'[u] \in Seq(Outcome)
  BY DEF IndInv, ExecutionInv, CoreInv, Typed, TypeOK, StoreTypeOK
<1>4. Finished(u)' = Finished(u)
  <2>1. Finished(u)' = SubSeq(attempts'[u], 1, Len(attempts'[u]) - 1)
    BY <1>1 DEF Finished, Running
  <2>2. Finished(u) = attempts[u]
    BY <1>1 DEF Finished, Running
  <2> QED
    BY <1>2, <1>3, <2>1, <2>2, Opening
<1>5. /\ [t \in Tasks |-> row'[t].status] =
           [[t \in Tasks |-> row[t].status] EXCEPT ![u] = "RUNNING"]
      /\ [t \in Tasks |-> Finished(t)'] = [t \in Tasks |-> Finished(t)]
  BY <1>1, <1>2, <1>4, OnlyOne
<1>6. Lifecycle!Start(u)
  BY <1>1, <1>5 DEF Lifecycle!Start, Lifecycle!Move
<1> QED
  BY <1>6 DEF Lifecycle!Next

\* A submission is a submission, a requeue a requeue.
LEMMA ApiMaps ==
  ASSUME Typed, NEW u \in Tasks, ApiStep(u)
  PROVE  Lifecycle!Next
<1>1. /\ row'[u].status = "QUEUED" /\ attempts' = attempts
      /\ row[u].status \in {"ABSENT", "DEAD_LETTER"}
      /\ \A t \in Tasks \ {u} : row'[t] = row[t]
  BY ApiFacts
<1>2. Finished(u)' = Finished(u) /\ Finished(u) = attempts[u]
  BY <1>1 DEF Finished, Running
<1>3. /\ [t \in Tasks |-> row'[t].status] =
           [[t \in Tasks |-> row[t].status] EXCEPT ![u] = "QUEUED"]
      /\ [t \in Tasks |-> Finished(t)'] = [t \in Tasks |-> Finished(t)]
  BY <1>1, <1>2, OnlyOne
<1>4. CASE CreateTask(u)
  <2>1. Lifecycle!Submit(u)
    BY <1>3, <1>4 DEF CreateTask, Lifecycle!Submit, Lifecycle!Move
  <2> QED
    BY <2>1 DEF Lifecycle!Next
<1>5. CASE RequeueDeadLetterTask(u)
  <2>1. Lifecycle!Requeue(u)
    BY <1>2, <1>3, <1>5
    DEF RequeueDeadLetterTask, Lifecycle!Requeue, Lifecycle!Move
  <2> QED
    BY <2>1 DEF Lifecycle!Next
<1> QED
  BY <1>4, <1>5 DEF ApiStep

\* An attempt that ends is recorded, and the task is tried again or given up
\* on according to the recorded outcomes.
LEMMA EndMaps ==
  ASSUME IndInv, LeaseHonoured, Typed', NEW u \in Tasks,
         row[u].status = "RUNNING", base' = base,
         \A t \in Tasks \ {u} : row'[t] = row[t] /\ attempts'[t] = attempts[t],
         Len(attempts'[u]) = Len(attempts[u]),
         NEW o \in Outcome,
         \A k \in DOMAIN attempts[u] :
           attempts'[u][k] = IF k = Len(attempts[u]) THEN o ELSE attempts[u][k],
         \/ o = "ok" /\ row'[u].status = "COMPLETED"
         \/ o = "failed" /\ row'[u].status = "FAILED"
         \/ /\ o \in {"failed", "stale"}
            /\ row'[u].status = AfterRetryable(row[u].retry_count).status
  PROVE  Lifecycle!Next
<1>1. row'[u].status # "RUNNING"
  BY DEF AfterRetryable
<1>2. /\ Finished(u)' = Append(Finished(u), o)
      /\ Len(Finished(u)) - base[u] = row[u].retry_count
  BY <1>1, EndingMaps
<1>3. /\ [t \in Tasks |-> row'[t].status] =
           [[t \in Tasks |-> row[t].status] EXCEPT ![u] = row'[u].status]
      /\ [t \in Tasks |-> Finished(t)'] =
           [[t \in Tasks |-> Finished(t)] EXCEPT ![u] = Append(Finished(u), o)]
  BY <1>2, OnlyOne
<1>4. Lifecycle!Record(u, o)
  BY <1>3 DEF Lifecycle!Record
<1>5. \A to : row'[u].status = to => Lifecycle!Move(u, "RUNNING", to)
  BY <1>3 DEF Lifecycle!Move
<1>6. Lifecycle!BudgetLeft(u) <=> row[u].retry_count < MaxRetries
  BY <1>2 DEF Lifecycle!BudgetLeft
<1>7. CASE o = "ok" /\ row'[u].status = "COMPLETED"
  <2>1. Lifecycle!Succeed(u)
    BY <1>4, <1>5, <1>7 DEF Lifecycle!Succeed
  <2> QED
    BY <2>1 DEF Lifecycle!Next
<1>8. CASE o = "failed" /\ row'[u].status = "FAILED"
  <2>1. Lifecycle!FailForGood(u)
    BY <1>4, <1>5, <1>8 DEF Lifecycle!FailForGood
  <2> QED
    BY <2>1 DEF Lifecycle!Next
<1>9. CASE /\ o \in {"failed", "stale"}
           /\ row'[u].status = AfterRetryable(row[u].retry_count).status
  <2>1. Lifecycle!TryAgain(u, o) \/ Lifecycle!GiveUp(u, o)
    BY <1>4, <1>5, <1>6, <1>9
    DEF Lifecycle!TryAgain, Lifecycle!GiveUp, AfterRetryable, RetryBudgetLeft
  <2> QED
    BY <1>9, <2>1 DEF Lifecycle!Next
<1> QED
  BY <1>7, <1>8, <1>9

\* A worker's outcome ends the latest attempt of the task it owns.
LEMMA OutcomeMaps ==
  ASSUME IndInv, LeaseHonoured, Typed', NEW w \in Workers, OutcomeStep(w)
  PROVE  Lifecycle!Next
<1>1. Typed /\ LeaseInv
  BY DEF IndInv, ExecutionInv, CoreInv, Typed
<1>2. PICK u \in Tasks : u = TaskOf(w)
  BY <1>1, OutcomeFacts
<1>3. /\ row[u].status = "RUNNING" /\ base' = base
      /\ worker[w].attempt \in Nat
      /\ \A t \in Tasks \ {u} : row'[t] = row[t]
  BY <1>1, <1>2, OutcomeFacts
<1>4. worker[w].attempt = Len(attempts[u])
  BY <1>1, <1>2 DEF OutcomeStep, Executing, LeaseInv, OwnsItsTask
<1>5. ASSUME NEW o \in Outcome, CloseAttempt(u, worker[w].attempt, o)
      PROVE  /\ \A t \in Tasks \ {u} : attempts'[t] = attempts[t]
             /\ Len(attempts'[u]) = Len(attempts[u])
             /\ \A k \in DOMAIN attempts[u] :
                  attempts'[u][k] =
                    IF k = Len(attempts[u]) THEN o ELSE attempts[u][k]
  <2>1. \A t \in Tasks \ {u} : attempts'[t] = attempts[t]
    BY <1>1, <1>5 DEF CloseAttempt, Typed, TypeOK, StoreTypeOK
  <2> QED
    BY <1>1, <1>3, <1>4, <1>5, <2>1, Closing
<1>6. CASE CompleteTask(u, worker[w].attempt)
  <2>1. row'[u].status = "COMPLETED" /\ CloseAttempt(u, worker[w].attempt, "ok")
    BY <1>1, <1>6 DEF CompleteTask, Typed, TypeOK, StoreTypeOK
  <2>2. "ok" \in Outcome
    BY DEF Outcome
  <2> QED
    BY <1>3, <1>5, <2>1, <2>2, EndMaps
<1>7. CASE /\ worker[w].pc = "failing"
           /\ FinalizeFailure(u, worker[w].attempt, worker[w].retryable,
                              worker[w].read)
  <2>1. worker[w].read = row[u].retry_count /\ worker[w].retryable \in BOOLEAN
    BY <1>1, <1>2, <1>7 DEF LeaseInv, ReadsAreFresh, Typed, TypeOK,
                            WorkerTypeOK, WorkerState
  <2>2. /\ row'[u].status =
             AfterFailure(worker[w].retryable, row[u].retry_count).status
        /\ CloseAttempt(u, worker[w].attempt, "failed")
    BY <1>1, <1>7, <2>1 DEF FinalizeFailure, Typed, TypeOK, StoreTypeOK
  <2>3. \/ row'[u].status = "FAILED"
        \/ row'[u].status = AfterRetryable(row[u].retry_count).status
    BY <2>1, <2>2 DEF AfterFailure
  <2>4. "failed" \in Outcome
    BY DEF Outcome
  <2> QED
    BY <1>3, <1>5, <2>2, <2>3, <2>4, EndMaps
<1> QED
  BY <1>2, <1>6, <1>7 DEF OutcomeStep

\* A reclaim ends the open attempt of a RUNNING task, which is its latest.
LEMMA ReclaimMaps ==
  ASSUME IndInv, LeaseHonoured, Typed', NEW s \in Scanners, ReclaimStep(s)
  PROVE  Lifecycle!Next
<1>1. Typed /\ LeaseInv
  BY DEF IndInv, ExecutionInv, CoreInv, Typed
<1>2. PICK u \in Tasks : u = scanner[s].task
  BY <1>1, ReclaimFacts
<1>3. /\ row[u].status = "RUNNING" /\ base' = base /\ CloseLatestOpen(u)
      /\ Stale(u, scanner[s].at)
      /\ \A t \in Tasks \ {u} : row'[t] = row[t]
  BY <1>1, <1>2, ReclaimFacts
<1>4. scanner[s].read = row[u].retry_count
  BY <1>2, <1>3, <1>1 DEF ReclaimStep, LeaseInv, ReadsAreFresh
<1>5. row'[u].status = AfterRetryable(row[u].retry_count).status
  BY <1>1, <1>2, <1>4 DEF ReclaimStep, ReclaimTask, Typed, TypeOK, StoreTypeOK
<1>6. \A t \in Tasks \ {u} : attempts'[t] = attempts[t]
  BY <1>1, <1>3 DEF CloseLatestOpen, Typed, TypeOK, StoreTypeOK
<1>7. /\ Len(attempts'[u]) = Len(attempts[u])
      /\ \A k \in DOMAIN attempts[u] :
           attempts'[u][k] =
             IF k = Len(attempts[u]) THEN "stale" ELSE attempts[u][k]
  <2>1. \A k \in DOMAIN attempts[u] :
          attempts[u][k] = "open" <=> k = Len(attempts[u])
    BY <1>1, <1>3 DEF LeaseInv, AttemptsClosed, Running
  <2>2. Len(attempts[u]) \in Nat
    BY <1>1 DEF Typed, TypeOK, StoreTypeOK
  <2> QED
    BY <1>1, <1>3, <2>1, <2>2, ClosingLatest
<1>8. "stale" \in Outcome
  BY DEF Outcome
<1> QED
  BY <1>3, <1>5, <1>6, <1>7, <1>8, EndMaps

-----------------------------------------------------------------------------
\* As long as every worker is done before its lease, TaskMesh keeps what
\* TaskLifecycle promises: one attempt at a time, every outcome recorded once
\* and for good, and as many attempts as the recorded outcomes allow.
THEOREM Implements == LeaseHonoured => (Spec => KeepsLifecycle)
<1> SUFFICES ASSUME LeaseHonoured PROVE Spec => KeepsLifecycle
  OBVIOUS
<1>1. Init => Lifecycle!Init
  BY InitMaps
<1>2. IndInv /\ IndInv' /\ [Next]_vars => [Lifecycle!Next]_(Lifecycle!vars)
  <2> SUFFICES ASSUME IndInv, IndInv', [Next]_vars
               PROVE  Lifecycle!Next \/ UNCHANGED Lifecycle!vars
    OBVIOUS
  <2>1. Typed /\ Typed' /\ SomeStep
    BY StepCases DEF IndInv, ExecutionInv, CoreInv, Typed
  <2>2. CASE QuietStep
    BY <2>2, QuietFacts DEF Lifecycle!vars, Finished, Running
  <2> QED
    BY <2>1, <2>2, ApiMaps, ClaimMaps, OutcomeMaps, ReclaimMaps DEF SomeStep
<1> QED
  BY <1>1, <1>2, Inductive, PTL DEF Spec, KeepsLifecycle, Lifecycle!Spec
=============================================================================
