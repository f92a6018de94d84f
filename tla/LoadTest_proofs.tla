--------------------------- MODULE LoadTest_proofs ---------------------------
(****************************************************************************)
(* The load test: what was reported as a success has been published, and no *)
(* crash, redelivery or failure to publish loses it before it is first      *)
(* tried, however many tasks, clients, workers and scans there are.         *)
(****************************************************************************)
EXTENDS LoadTest, TaskMesh_delivery

\* A task that exists never ceases to.
LEMMA NeverAbsentAgain ==
  ASSUME Typed, SomeStep, NEW t \in Tasks, row[t].status # "ABSENT"
  PROVE  row'[t].status # "ABSENT"
<1>1. CASE QuietStep
  BY <1>1, QuietFacts
<1>2. ASSUME NEW u \in Tasks, ApiStep(u)
      PROVE  row'[t].status # "ABSENT"
  BY <1>2, ApiFacts
<1>3. ASSUME NEW w \in Workers, ClaimStep(w)
      PROVE  row'[t].status # "ABSENT"
  BY <1>3, ClaimFacts
<1>4. ASSUME NEW w \in Workers, OutcomeStep(w)
      PROVE  row'[t].status # "ABSENT"
  BY <1>4, OutcomeFacts
<1>5. ASSUME NEW s \in Scanners, ReclaimStep(s)
      PROVE  row'[t].status # "ABSENT"
  BY <1>5, ReclaimFacts
<1> QED
  BY <1>1, <1>2, <1>3, <1>4, <1>5 DEF SomeStep

\* A task that has never been tried still waits for its first attempt.
LEMMA UntriedWaits ==
  ASSUME Typed, SomeStep, NEW t \in Tasks, attempts'[t] = <<>>,
         attempts[t] = <<>> => row[t].status \in {"ABSENT", "QUEUED"}
  PROVE  /\ attempts[t] = <<>>
         /\ row'[t].status \in {"ABSENT", "QUEUED"}
<1>1. Len(attempts'[t]) = 0 /\ Len(attempts[t]) \in Nat
  BY DEF Typed, TypeOK, StoreTypeOK
<1>2. attempts[t] = <<>>
  <2>1. Len(attempts[t]) = 0
    BY <1>1, AttemptsStay
  <2> QED
    BY <2>1 DEF Typed, TypeOK, StoreTypeOK
<1>3. CASE QuietStep
  BY <1>2, <1>3, QuietFacts
<1>4. ASSUME NEW u \in Tasks, ApiStep(u)
      PROVE  row'[t].status \in {"ABSENT", "QUEUED"}
  BY <1>2, <1>4, ApiFacts
<1>5. ASSUME NEW w \in Workers, ClaimStep(w)
      PROVE  row'[t].status \in {"ABSENT", "QUEUED"}
  <2>1. TaskOf(w) # t
    BY <1>1, <1>2, <1>5, ClaimFacts, Claiming
  <2> QED
    BY <1>2, <1>5, <2>1, ClaimFacts
<1>6. ASSUME NEW w \in Workers, OutcomeStep(w)
      PROVE  row'[t].status \in {"ABSENT", "QUEUED"}
  BY <1>2, <1>6, OutcomeFacts
<1>7. ASSUME NEW s \in Scanners, ReclaimStep(s)
      PROVE  row'[t].status \in {"ABSENT", "QUEUED"}
  BY <1>2, <1>7, ReclaimFacts
<1> QED
  BY <1>2, <1>3, <1>4, <1>5, <1>6, <1>7 DEF SomeStep

-----------------------------------------------------------------------------
(* A firm message stays firm *)

InQueue(t) == \E m \in Message : m[1] = t /\ queue[m] > 0
Offered(t, w) == /\ TaskOf(w) = t /\ ~unacked[w].restored
                 /\ worker[w].pc = "claiming"

\* When the queue loses nothing, and no worker the message it may claim.
LEMMA StaysFirm ==
  ASSUME NEW t \in Tasks, Firm(t),
         \A m \in Message : queue[m] > 0 => queue'[m] > 0,
         \A w \in Workers : Offered(t, w) => Offered(t, w)' \/ InQueue(t)'
  PROVE  Firm(t)'
BY DEF Firm, InQueue, Offered

\* What a worker does to the message of a task that waits for its first attempt.
LEMMA WorkersKeepFirm ==
  ASSUME Typed, "db_error" \notin Faults, WorkerNext,
         NEW t \in Tasks, Queued(t), attempts'[t] = <<>>, Firm(t)
  PROVE  Firm(t)'
<1> USE DEF Typed, TypeOK
\* A step of a worker that offers nothing, or nothing of t's.
<1>1. ASSUME NEW w \in Workers, ~Offered(t, w),
             \A v \in Workers \ {w} : worker'[v] = worker[v] /\ unacked'[v] = unacked[v],
             \A m \in Message : queue[m] > 0 => queue'[m] > 0
      PROVE  Firm(t)'
  <2>1. \A v \in Workers : Offered(t, v) => Offered(t, v)'
    BY <1>1 DEF Offered, TaskOf
  <2> QED
    BY <1>1, <2>1, StaysFirm
<1>2. ASSUME NEW w \in Workers, NEW m \in Message, Receive(w, m[1], m[2])
      PROVE  Firm(t)'
  <2>1. /\ worker[w].pc = "idle" /\ worker'[w].pc = "claiming"
        /\ unacked'[w].task = m[1] /\ ~unacked'[w].restored
        /\ \A v \in Workers \ {w} : worker'[v] = worker[v] /\ unacked'[v] = unacked[v]
        /\ \A n \in Message \ {m} : queue'[n] = queue[n]
    <3>1. <<m[1], m[2]>> = m
      BY DEF Message
    <3>2. worker[w].pc = "idle" /\ worker'[w].pc = "claiming"
      BY <1>2 DEF Receive, WorkerTypeOK
    <3>3. /\ unacked'[w].task = m[1] /\ ~unacked'[w].restored
          /\ \A v \in Workers \ {w} : unacked'[v] = unacked[v]
      BY <1>2 DEF Receive, Deliver, BrokerTypeOK
    <3>4. \A v \in Workers \ {w} : worker'[v] = worker[v]
      BY <1>2 DEF Receive, WorkerTypeOK
    <3>5. queue' = [queue EXCEPT ![m] = @ - 1]
      BY <1>2, <3>1 DEF Receive, Deliver
    <3> QED
      BY <3>2, <3>3, <3>4, <3>5 DEF BrokerTypeOK
  <2>2. CASE m[1] = t
    BY <2>1, <2>2 DEF Firm, TaskOf
  <2>3. CASE m[1] # t
    <3>1. CASE \E n \in Message : n[1] = t /\ queue[n] > 0
      BY <2>1, <2>3, <3>1 DEF Firm
    <3>2. ASSUME NEW v \in Workers, TaskOf(v) = t, ~unacked[v].restored,
                 worker[v].pc = "claiming"
          PROVE  Firm(t)'
      BY <2>1, <3>2 DEF Firm, TaskOf
    <3> QED
      BY <3>1, <3>2 DEF Firm
  <2> QED
    BY <2>2, <2>3
<1>3. ASSUME NEW w \in Workers, Claim(w)
      PROVE  Firm(t)'
  <2>1. TaskOf(w) # t
    <3>1. CASE ClaimTask(TaskOf(w), worker[w].claimed_at)
      <4>1. TaskOf(w) # t \/ Len(attempts'[t]) = Len(attempts[t]) + 1
        BY <3>1, Claiming
      <4> QED
        BY <4>1 DEF StoreTypeOK
    <3>2. CASE ~Queued(TaskOf(w))
      BY <3>2
    <3> QED
      BY <1>3, <3>1, <3>2 DEF Claim
  <2>2. /\ \A v \in Workers \ {w} : worker'[v] = worker[v] /\ unacked'[v] = unacked[v]
        /\ queue' = queue
    BY <1>3 DEF Claim, Goto, brokerVars, WorkerTypeOK
  <2> QED
    BY <1>1, <2>1, <2>2 DEF Offered
<1>4. ASSUME NEW w \in Workers, worker[w].pc \in {"executing", "failing"},
             \/ Complete(w)
             \/ \E retryable \in BOOLEAN : Fail(w, retryable)
             \/ Finalize(w)
      PROVE  Firm(t)'
  <2>1. /\ \A v \in Workers \ {w} : worker'[v] = worker[v] /\ unacked'[v] = unacked[v]
        /\ queue' = queue
    BY <1>4 DEF Complete, Fail, Finalize, Goto, brokerVars, WorkerTypeOK
  <2> QED
    BY <1>1, <1>4, <2>1 DEF Offered
<1>5. ASSUME NEW w \in Workers, Retry(w) \/ Ack(w) \/ RetryPublishFails(w)
      PROVE  Firm(t)'
  <2>1. worker[w].pc \in {"retrying", "acking"}
    BY <1>5 DEF Retry, Ack, RetryPublishFails
  <2>2. \A v \in Workers \ {w} : worker'[v] = worker[v] /\ unacked'[v] = unacked[v]
    BY <1>5 DEF Retry, Publish, Ack, RetryPublishFails, Acknowledge, Goto, brokerVars,
                WorkerTypeOK, BrokerTypeOK
  <2>3. \A m \in Message : queue[m] > 0 => queue'[m] > 0
    <3>1. CASE Retry(w) /\ MayRetry(w)
      <4>1. TaskOf(w) \in Tasks /\ unacked[w].retries + 1 \in 0..MaxRetries
        BY <3>1, HeldTasks, ModelAssumption
        DEF Retry, MayRetry, BrokerTypeOK, Delivery
      <4>2. Put(TaskOf(w), unacked[w].retries + 1)
        BY <3>1 DEF Retry, Publish
      <4> QED
        BY <4>1, <4>2, Putting
    <3>2. CASE queue' = queue
      BY <3>2
    <3> QED
      BY <1>5, <3>1, <3>2 DEF Retry, Ack, RetryPublishFails, Acknowledge, brokerVars
  <2> QED
    BY <1>1, <2>1, <2>2, <2>3 DEF Offered
\* What goes back to the queue, or has done so already.
<1>6. ASSUME NEW w \in Workers, Redeliver(w) \/ Crash(w)
      PROVE  Firm(t)'
  <2>1. /\ TaskOf(w) \in Tasks /\ unacked[w].retries \in 0..MaxRetries
        /\ \A v \in Workers \ {w} : worker'[v] = worker[v] /\ unacked'[v] = unacked[v]
    BY <1>6, HeldTasks
    DEF Redeliver, Crash, Restore, RequeueHeld, Goto, WorkerTypeOK, BrokerTypeOK, Delivery
  <2>2. CASE Put(TaskOf(w), unacked[w].retries)
    <3>1. /\ \E m \in Message : m[1] = TaskOf(w) /\ queue'[m] > 0
          /\ \A m \in Message : queue[m] > 0 => queue'[m] > 0
      BY <2>1, <2>2, Putting
    <3>2. CASE Offered(t, w)
      BY <3>1, <3>2 DEF Offered, Firm
    <3>3. CASE ~Offered(t, w)
      BY <1>1, <2>1, <3>1, <3>3
    <3> QED
      BY <3>2, <3>3
  <2>3. CASE unacked[w].restored /\ UNCHANGED queue
    BY <1>1, <2>1, <2>3 DEF Offered
  <2> QED
    BY <1>6, <2>2, <2>3 DEF Redeliver, Crash, Restore, RequeueHeld, TaskOf
<1>7. \A w \in Workers : ~DbError(w)
  BY DEF DbError, Inject
<1>8. ASSUME NEW w \in Workers, WorkerStep(w) \/ WorkerFault(w)
      PROVE  Firm(t)'
  BY <1>3, <1>4, <1>5, <1>6, <1>7, <1>8
  DEF WorkerStep, WorkerFault, Complete, Fail, Finalize
<1> QED
  BY <1>2, <1>8 DEF WorkerNext

\* The others only publish.
LEMMA OthersKeepFirm ==
  ASSUME Typed, UNCHANGED worker, RecoveryNext \/ ApiNext \/ UNCHANGED brokerVars,
         NEW t \in Tasks, Firm(t)
  PROVE  Firm(t)'
<1> USE DEF Typed, TypeOK
<1>1. ASSUME NEW u \in Tasks, Dispatch(u)
      PROVE  Firm(t)'
  <2>1. unacked' = unacked /\ \A m \in Message : queue[m] > 0 => queue'[m] > 0
    BY <1>1, Dispatching
  <2> QED
    BY <2>1, StaysFirm DEF Offered, TaskOf
<1>2. CASE UNCHANGED brokerVars
  BY <1>2 DEF Firm, brokerVars, TaskOf
<1>3. CASE RecoveryNext
  <2>1. \/ UNCHANGED brokerVars
        \/ \E u \in Tasks : Dispatch(u)
    BY <1>3 DEF RecoveryNext, ScannerStep, Scan, Select, Reclaim, RecoveryDispatch,
                RecoveryDispatchFails, ScannerCrash, HoldersHaveTasks
  <2> QED
    BY <1>1, <1>2, <2>1
<1>4. CASE ApiNext
  <2>1. \/ UNCHANGED brokerVars
        \/ \E u \in Tasks : Dispatch(u)
    BY <1>4 DEF ApiNext, Submit, Requeue, Redispatch, ApiDispatch, ApiDispatchFails, ApiTypeOK
  <2> QED
    BY <1>1, <1>2, <2>1
<1> QED
  BY <1>2, <1>3, <1>4

\* What is firm stays so until the task is tried.
LEMMA FirmKept ==
  ASSUME Typed, "db_error" \notin Faults, [Next]_vars,
         NEW t \in Tasks, Queued(t), attempts'[t] = <<>>, Firm(t)
  PROVE  Firm(t)'
<1>1. CASE WorkerNext
  BY <1>1, WorkersKeepFirm
<1>2. CASE UNCHANGED worker /\ (RecoveryNext \/ ApiNext \/ UNCHANGED brokerVars)
  BY <1>2, OthersKeepFirm
<1> QED
  BY <1>1, <1>2 DEF Next, Tick, vars, brokerVars

-----------------------------------------------------------------------------
(* What the API answers *)

\* A request is about to dispatch a task that exists.
LEMMA PendingExists ==
  ASSUME Typed, [Next]_vars, NEW c \in Clients, pending'[c] # NoTask
  PROVE  pending'[c] = pending[c] \/ row'[pending'[c]].status # "ABSENT"
<1> USE DEF Typed, TypeOK
<1>1. CASE pending' = pending
  BY <1>1
<1>2. ASSUME NEW d \in Clients, NEW t \in Tasks,
             Submit(d, t) \/ Requeue(d, t) \/ Redispatch(d, t)
      PROVE  pending'[c] = pending[c] \/ row'[pending'[c]].status # "ABSENT"
  <2>1. row'[t].status = "QUEUED"
    BY <1>2 DEF Submit, Requeue, Redispatch, CreateTask, RequeueDeadLetterTask, NewRow,
                Queued, storeVars, StoreTypeOK
  <2>2. pending' = [pending EXCEPT ![d] = t]
    BY <1>2 DEF Submit, Requeue, Redispatch, ToDispatch
  <2> QED
    BY <2>1, <2>2 DEF ApiTypeOK
<1>3. ASSUME NEW d \in Clients, ApiDispatch(d) \/ ApiDispatchFails(d)
      PROVE  pending'[c] = pending[c]
  <2>1. pending' = [pending EXCEPT ![d] = NoTask]
    BY <1>3 DEF ApiDispatch, ApiDispatchFails
  <2> QED
    BY <2>1 DEF ApiTypeOK
<1> QED
  BY <1>1, <1>2, <1>3 DEF Next, ApiNext, Tick, vars

\* The API answers 201 when it has published the message, and not otherwise.
LEMMA CreatedIsPublished ==
  ASSUME Typed, [Next]_vars, NEW t \in Tasks, Served(t), faults' = faults
  PROVE  Firm(t)'
<1> USE DEF Typed, TypeOK
<1>1. PICK c \in Clients : pending[c] = t /\ pending'[c] = NoTask
  BY DEF Served
<1>2. t # NoTask /\ pending' # pending
  BY <1>1, ModelAssumption
<1>3. ApiNext
  BY <1>2 DEF Next, Tick, vars
<1>4. ASSUME NEW d \in Clients, NEW u \in Tasks,
             Submit(d, u) \/ Requeue(d, u) \/ Redispatch(d, u)
      PROVE  FALSE
  <2>1. pending[d] = NoTask /\ pending' = [pending EXCEPT ![d] = u]
    BY <1>4 DEF Submit, Requeue, Redispatch, ToDispatch
  <2> QED
    BY <1>1, <1>2, <2>1 DEF ApiTypeOK
<1>5. ASSUME NEW d \in Clients, ApiDispatchFails(d)
      PROVE  FALSE
  BY <1>5 DEF ApiDispatchFails, Inject, EnvironmentTypeOK
<1>6. PICK d \in Clients : ApiDispatch(d)
  BY <1>3, <1>4, <1>5 DEF ApiNext
<1>7. c = d
  BY <1>1, <1>2, <1>6 DEF ApiDispatch, ApiTypeOK
<1>8. Dispatch(t)
  BY <1>1, <1>6, <1>7 DEF ApiDispatch
<1>9. \E m \in Message : m[1] = t /\ queue'[m] > 0
  BY <1>8, Dispatching
<1> QED
  BY <1>9 DEF Firm

-----------------------------------------------------------------------------
(* The inductive invariant *)

LoadInv == CoreInv /\ PublishedInv

\* The part of it that is about one task.
LEMMA TaskStaysPublished ==
  ASSUME LoadInv, "db_error" \notin Faults, [Next]_vars, NEW t \in Tasks,
         reply[t] = 201 \/ result[t] = "success"
  PROVE  row'[t].status # "ABSENT" /\ (attempts'[t] = <<>> => Firm(t)')
<1>1. Typed /\ SomeStep
  BY StepCases DEF LoadInv, CoreInv, Typed
<1>2. /\ row[t].status # "ABSENT" /\ (attempts[t] = <<>> => Firm(t))
      /\ attempts[t] = <<>> => row[t].status \in {"ABSENT", "QUEUED"}
  BY DEF LoadInv, PublishedInv
<1>3. row'[t].status # "ABSENT"
  BY <1>1, <1>2, NeverAbsentAgain
<1>4. ASSUME attempts'[t] = <<>>
      PROVE  Firm(t)'
  <2>1. attempts[t] = <<>>
    BY <1>1, <1>2, <1>4, UntriedWaits
  <2>2. Queued(t) /\ Firm(t)
    BY <1>2, <2>1 DEF Queued
  <2> QED
    BY <1>1, <1>4, <2>2, FirmKept
<1> QED
  BY <1>3, <1>4

\* A step of the system, with the answer it gives.
LEMMA SystemPublishes ==
  ASSUME LoadInv, "db_error" \notin Faults, System
  PROVE  PublishedInv'
<1>1. Typed /\ SomeStep /\ [Next]_vars
  BY StepCases DEF LoadInv, CoreInv, Typed, System
<1>2. result' = result
  BY DEF System
<1>3. PICK failure \in {0, 503} :
        reply' = [t \in Tasks |-> IF ~Served(t) THEN reply[t]
                                  ELSE IF faults' = faults THEN 201 ELSE failure]
  BY DEF System
<1>4. LoadTypeOK'
  BY <1>2, <1>3 DEF LoadInv, PublishedInv, LoadTypeOK
<1>5. ASSUME NEW c \in Clients, pending'[c] # NoTask
      PROVE  row'[pending'[c]].status # "ABSENT"
  <2>1. CASE pending'[c] = pending[c]
    <3>1. pending[c] \in Tasks /\ row[pending[c]].status # "ABSENT"
      BY <1>1, <1>5, <2>1 DEF LoadInv, PublishedInv, Typed, TypeOK, ApiTypeOK
    <3> QED
      BY <1>1, <2>1, <3>1, NeverAbsentAgain
  <2> QED
    BY <1>1, <1>5, <2>1, PendingExists
<1>6. ASSUME NEW t \in Tasks, attempts'[t] = <<>>
      PROVE  row'[t].status \in {"ABSENT", "QUEUED"}
  BY <1>1, <1>6, UntriedWaits DEF LoadInv, PublishedInv
<1>7. ASSUME NEW t \in Tasks, reply'[t] = 201 \/ result'[t] = "success"
      PROVE  row'[t].status # "ABSENT" /\ (attempts'[t] = <<>> => Firm(t)')
  <2>1. CASE reply[t] = 201 \/ result[t] = "success"
    BY <1>1, <2>1, TaskStaysPublished
  <2>2. CASE ~(reply[t] = 201 \/ result[t] = "success")
    <3>1. Served(t) /\ faults' = faults
      BY <1>2, <1>3, <1>7, <2>2
    <3>2. Firm(t)'
      BY <1>1, <3>1, CreatedIsPublished
    <3>3. row[t].status # "ABSENT"
      BY <3>1, ModelAssumption DEF Served, LoadInv, PublishedInv
    <3> QED
      BY <1>1, <3>2, <3>3, NeverAbsentAgain
  <2> QED
    BY <2>1, <2>2
<1> QED
  BY <1>4, <1>5, <1>6, <1>7 DEF PublishedInv

\* A step of the client: only a 201 makes a success.
LEMMA ClientBelieves ==
  ASSUME LoadInv, NEW t \in Tasks, Post(t) \/ Answer(t) \/ ClientError(t)
  PROVE  LoadInv'
<1>1. UNCHANGED vars /\ reply' = reply
  BY DEF Post, Answer, ClientError
<1>2. CoreInv'
  BY <1>1, CoreKept DEF LoadInv
<1>3. /\ result' \in [Tasks -> {"unsent", "sent", "success", "http_error", "exception"}]
      /\ \A u \in Tasks : result'[u] = "success" => result[u] = "success" \/ reply[u] = 201
  <2>1. PICK outcome \in {"sent", "success", "http_error", "exception"} :
          Result(t, outcome) /\ (outcome = "success" => reply[t] = 201)
    BY DEF Post, Answer, ClientError, Accepted
  <2> QED
    BY <2>1 DEF Result, LoadInv, PublishedInv, LoadTypeOK
<1>4. row' = row /\ attempts' = attempts /\ pending' = pending
  BY <1>1 DEF vars
<1>5. \A u \in Tasks : Firm(u)' <=> Firm(u)
  BY <1>1 DEF vars, Firm, TaskOf
<1> QED
  BY <1>1, <1>2, <1>3, <1>4, <1>5 DEF LoadInv, PublishedInv, LoadTypeOK

\* Unless a transaction of a worker fails (which acknowledges its message), what
\* the API has answered 201 to is there and, until it is first tried, firm.
THEOREM LoadInductive ==
  "db_error" \notin Faults => (LoadSpec => [](CoreInv /\ PublishedInv))
<1> SUFFICES ASSUME "db_error" \notin Faults PROVE LoadSpec => [](CoreInv /\ PublishedInv)
  OBVIOUS
<1>1. LoadInit => LoadInv
  <2> SUFFICES ASSUME LoadInit PROVE LoadInv
    OBVIOUS
  <2>1. CoreInv
    BY CoreStarts DEF LoadInit
  <2>2. PublishedInv
    BY DEF LoadInit, Init, ApiInit, StoreInit, NewRow, PublishedInv, LoadTypeOK
  <2> QED
    BY <2>1, <2>2 DEF LoadInv
<1>2. LoadInv /\ [LoadNext /\ Routed]_loadVars => LoadInv'
  <2> SUFFICES ASSUME LoadInv, [LoadNext /\ Routed]_loadVars PROVE LoadInv'
    OBVIOUS
  <2>1. CASE System
    <3>1. CoreInv'
      BY <2>1, CoreKept DEF LoadInv, System
    <3> QED
      BY <2>1, <3>1, SystemPublishes DEF LoadInv
  <2>2. CASE \E t \in Tasks : Post(t) \/ Answer(t) \/ ClientError(t)
    BY <2>2, ClientBelieves
  <2>3. CASE UNCHANGED loadVars
    <3>1. UNCHANGED vars /\ reply' = reply /\ result' = result
      BY <2>3 DEF loadVars
    <3>2. CoreInv'
      BY <3>1, CoreKept DEF LoadInv
    <3>3. \A u \in Tasks : Firm(u)' <=> Firm(u)
      BY <3>1 DEF vars, Firm, TaskOf
    <3> QED
      BY <3>1, <3>2, <3>3 DEF vars, LoadInv, PublishedInv, LoadTypeOK
  <2> QED
    BY <2>1, <2>2, <2>3 DEF LoadNext
<1> QED
  BY <1>1, <1>2, PTL DEF LoadSpec, LoadInv

\* "A successful POST proves acceptance and broker publication", whatever
\* crashes, is redelivered or cannot be published.
THEOREM SuccessIsAlwaysPublished ==
  "db_error" \notin Faults => (LoadSpec => []SuccessIsPublished)
<1> SUFFICES ASSUME "db_error" \notin Faults PROVE LoadSpec => []SuccessIsPublished
  OBVIOUS
<1>1. PublishedInv => SuccessIsPublished
  BY DEF PublishedInv, SuccessIsPublished, Firm, Carried
<1> QED
  BY <1>1, LoadInductive, PTL
=============================================================================
