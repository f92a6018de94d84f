-------------------------- MODULE Monitoring_proofs --------------------------
(****************************************************************************)
(* What a monitoring summary can be relied on for, for every instance: its  *)
(* statements see different states of the database, and yet fit together.   *)
(****************************************************************************)
EXTENDS Monitoring, TaskMesh_safety

\* A monitored TaskMesh is a TaskMesh: reading changes nothing.
LEMMA MonitoredIsTaskMesh == MonitorSpec => Spec
<1>1. MonitorInit => Init
  BY DEF MonitorInit
<1>2. [MonitorNext]_monitorVars => [Next]_vars
  BY DEF MonitorNext, monitorVars
<1> QED
  BY <1>1, <1>2, PTL DEF MonitorSpec, Spec

\* The attempts a task has are never fewer afterwards.
LEMMA AttemptsOnlyGrow ==
  ASSUME Typed, SomeStep, NEW t \in Tasks
  PROVE  Len(attempts'[t]) >= Len(attempts[t])
<1>1. \A u \in Tasks : Len(attempts[u]) \in Nat
  BY DEF Typed, TypeOK, StoreTypeOK
<1>2. CASE attempts' = attempts
  BY <1>1, <1>2
<1>3. ASSUME NEW w \in Workers, ClaimStep(w)
      PROVE  Len(attempts'[t]) >= Len(attempts[t])
  <2>1. TaskOf(w) \in Tasks /\ ClaimTask(TaskOf(w), worker[w].claimed_at)
    BY <1>3, ClaimFacts
  <2> QED
    BY <1>1, <2>1, Claiming
<1>4. ASSUME NEW w \in Workers, OutcomeStep(w)
      PROVE  Len(attempts'[t]) >= Len(attempts[t])
  <2>1. TaskOf(w) \in Tasks /\ worker[w].attempt \in Nat
    BY <1>4, OutcomeFacts
  <2>2. PICK o : CloseAttempt(TaskOf(w), worker[w].attempt, o)
    BY <1>4, OutcomeFacts
  <2> QED
    BY <1>1, <2>1, <2>2, Closing
<1>5. ASSUME NEW s \in Scanners, ReclaimStep(s)
      PROVE  Len(attempts'[t]) >= Len(attempts[t])
  BY <1>1, <1>5, ReclaimFacts, ClosingLatest
<1> QED
  BY <1>2, <1>3, <1>4, <1>5, QuietFacts, ApiFacts DEF SomeStep

\* What a transaction has read about the attempts stays covered until it uses
\* it, and what it writes is covered too.
LEMMA CoverKept ==
  ASSUME Typed, Typed', AttemptsCoverRetries, SomeStep
  PROVE  AttemptsCoverRetries'
<1>1. \A t \in Tasks : /\ Len(attempts[t]) \in Nat /\ Len(attempts'[t]) \in Nat
                       /\ Len(attempts'[t]) >= Len(attempts[t])
                       /\ row[t].retry_count \in Nat
                       /\ Len(attempts[t]) >= AttemptsOf(row[t])
  BY ModelAssumption, AttemptsOnlyGrow
  DEF Typed, TypeOK, StoreTypeOK, Row, AttemptsCoverRetries
<1>2. \A t \in Tasks : Running(t) => Len(attempts[t]) > row[t].retry_count
  BY <1>1 DEF AttemptsOf, Running
<1>3. \A w \in Workers : worker[w].pc = "failing" =>
        /\ TaskOf(w) \in Tasks /\ worker[w].read \in Nat
        /\ Len(attempts[TaskOf(w)]) > worker[w].read
  BY ModelAssumption, HeldTasks
  DEF Typed, TypeOK, WorkerTypeOK, WorkerState, AttemptsCoverRetries
<1>4. \A s \in Scanners : scanner[s].pc = "updating" =>
        /\ scanner[s].task \in Tasks /\ scanner[s].read \in Nat
        /\ Len(attempts[scanner[s].task]) > scanner[s].read
  BY ModelAssumption, HeldTasks
  DEF Typed, TypeOK, RecoveryTypeOK, ScannerState, AttemptsCoverRetries
\* The rows: u is the task of the transaction.
<1>5. ASSUME NEW u \in Tasks, \A t \in Tasks \ {u} : row'[t] = row[t],
             Len(attempts'[u]) >= AttemptsOf(row'[u])
      PROVE  \A t \in Tasks : Len(attempts'[t]) >= AttemptsOf(row'[t])
  BY <1>1, <1>5 DEF AttemptsOf
<1>6. \A t \in Tasks : Len(attempts'[t]) >= AttemptsOf(row'[t])
  <2>1. CASE QuietStep
    BY <1>1, <2>1, QuietFacts
  <2>2. ASSUME NEW t \in Tasks, ApiStep(t)
        PROVE  Len(attempts'[t]) >= AttemptsOf(row'[t])
    BY <1>1, <2>2, ApiFacts DEF AttemptsOf
  <2>3. ASSUME NEW w \in Workers, ClaimStep(w)
        PROVE  Len(attempts'[TaskOf(w)]) >= AttemptsOf(row'[TaskOf(w)])
    BY <1>1, <2>3, ClaimFacts, Claiming DEF AttemptsOf
  <2>4. ASSUME NEW w \in Workers, OutcomeStep(w)
        PROVE  Len(attempts'[TaskOf(w)]) >= AttemptsOf(row'[TaskOf(w)])
    BY <1>1, <1>2, <1>3, <2>4, OutcomeFacts DEF AttemptsOf, Running
  <2>5. ASSUME NEW s \in Scanners, ReclaimStep(s)
        PROVE  Len(attempts'[scanner[s].task]) >= AttemptsOf(row'[scanner[s].task])
    BY <1>1, <1>4, <2>5, ReclaimFacts DEF ReclaimStep, AttemptsOf
  <2> QED
    BY <1>5, <2>1, <2>2, <2>3, <2>4, <2>5, ApiFacts, ClaimFacts, OutcomeFacts,
       ReclaimFacts DEF SomeStep
<1>7. ASSUME NEW w \in Workers, worker'[w].pc = "failing"
      PROVE  Len(attempts'[TaskOf(w)']) > worker'[w].read
  <2>1. CASE worker'[w] = worker[w] /\ TaskOf(w)' = TaskOf(w)
    BY <1>1, <1>3, <1>7, <2>1
  <2>2. CASE QuietStep
    <3>1. CASE /\ worker[w].pc = "executing" /\ TaskOf(w)' = TaskOf(w)
               /\ Running(TaskOf(w))
               /\ worker'[w].read = row[TaskOf(w)].retry_count
      BY <1>1, <1>2, <3>1, HeldTasks
    <3> QED
      BY <1>7, <2>1, <2>2, <3>1 DEF QuietStep, WorkerGoesOn, OnLease
  <2>3. CASE \E v \in Workers : ClaimStep(v)
    BY <1>7, <2>1, <2>3, ClaimFacts
  <2>4. CASE \E v \in Workers : OutcomeStep(v)
    BY <1>7, <2>1, <2>4, OutcomeFacts
  <2> QED
    BY <2>1, <2>2, <2>3, <2>4, ApiFacts, ReclaimFacts DEF SomeStep
<1>8. ASSUME NEW s \in Scanners, scanner'[s].pc = "updating"
      PROVE  Len(attempts'[scanner'[s].task]) > scanner'[s].read
  <2>1. CASE scanner'[s] = scanner[s]
    BY <1>1, <1>4, <1>8, <2>1
  <2>2. CASE QuietStep
    <3>1. CASE /\ Running(scanner'[s].task)
               /\ scanner'[s].read = row[scanner'[s].task].retry_count
      <4>1. scanner'[s].task \in Tasks
        BY <1>8 DEF Typed, HoldersHaveTasks
      <4> QED
        BY <1>2, <2>2, <3>1, <4>1, QuietFacts
    <3> QED
      BY <1>8, <2>1, <2>2, <3>1 DEF QuietStep, ScanGoesOn
  <2> QED
    BY <1>8, <2>1, <2>2 DEF SomeStep, ApiStep, ClaimStep, OutcomeStep, ReclaimStep
<1> QED
  BY <1>6, <1>7, <1>8 DEF AttemptsCoverRetries, TaskOf

\* No task becomes stale for a clock of the past: a claim made since then has
\* a lease that has not ended.
LEMMA NoneGetsStale ==
  ASSUME Typed, LeaseInv, SomeStep, NEW at \in Nat, at <= now, NEW t \in Tasks,
         row'[t].status = "RUNNING", row'[t].lease # NoLease, row'[t].lease < at
  PROVE  Stale(t, at)
<1>1. CASE row'[t] = row[t]
  BY <1>1 DEF Stale, Running
<1>2. ASSUME NEW w \in Workers, ClaimStep(w)
      PROVE  Stale(t, at)
  <2>1. /\ row'[TaskOf(w)].lease = worker[w].claimed_at + Lease
        /\ \A u \in Tasks \ {TaskOf(w)} : row'[u] = row[u]
    BY <1>2, ClaimFacts
  <2>2. now <= worker[w].claimed_at + Lease
    BY <1>2 DEF ClaimStep, LeaseInv, WithinLease, OnLease
  <2>3. now \in Nat /\ worker[w].claimed_at \in Nat /\ Lease \in Nat
    BY ModelAssumption
    DEF Typed, TypeOK, EnvironmentTypeOK, WorkerTypeOK, WorkerState
  <2>4. t # TaskOf(w)
    BY <2>1, <2>2, <2>3
  <2> QED
    BY <1>1, <2>1, <2>4
<1> QED
  BY <1>1, <1>2, QuietFacts, ApiFacts, OutcomeFacts, ReclaimFacts DEF SomeStep

\* What a summary has read stays covered while the system goes on.
LEMMA CoveredBySystem ==
  ASSUME Typed, Typed', LeaseHonoured => LeaseInv, SomeStep, SummaryTypeOK,
         SummaryIsCovered, UNCHANGED summary
  PROVE  SummaryIsCovered'
<1>1. /\ summary.at \in Nat /\ now \in Nat /\ now' \in Nat /\ now <= now'
      /\ summary.at <= now
  BY DEF Typed, TypeOK, EnvironmentTypeOK, SummaryTypeOK, Summary,
         SummaryIsCovered, SomeStep, QuietStep, ClockTicks, ApiStep, ClaimStep,
         OutcomeStep, ReclaimStep
<1>2. ASSUME summary.pc = "staleness", LeaseHonoured, NEW t \in Tasks,
             Stale(t, summary.at)'
      PROVE  t \in summary.counts["RUNNING"]
  <2>1. Stale(t, summary.at)
    BY <1>1, <1>2, NoneGetsStale DEF Stale, Running
  <2> QED
    BY <1>2, <2>1 DEF SummaryIsCovered
<1>3. \A t \in Tasks : /\ Len(attempts[t]) \in Nat /\ Len(attempts'[t]) \in Nat
                       /\ Len(attempts'[t]) >= Len(attempts[t])
                       /\ AttemptsOf(summary.session[t]) \in Nat
  BY ModelAssumption, AttemptsOnlyGrow
  DEF Typed, TypeOK, StoreTypeOK, SummaryTypeOK, Summary, Entity, AttemptsOf
<1>4. LeaseHonoured' = LeaseHonoured
  BY DEF LeaseHonoured
<1> QED
  BY <1>1, <1>2, <1>3, <1>4 DEF SummaryIsCovered

-----------------------------------------------------------------------------
(* The statements of a summary, one by one *)

\* Every statement leaves a well-formed summary.
LEMMA SummaryType ==
  ASSUME Typed, SummaryTypeOK, BuildSummary
  PROVE  SummaryTypeOK'
<1> USE DEF SummaryTypeOK
<1>1. /\ summary \in Summary /\ now \in Nat /\ row \in [Tasks -> Row]
      /\ attempts \in [Tasks -> Seq(Outcome)]
  BY DEF Typed, TypeOK, StoreTypeOK, EnvironmentTypeOK
<1>2. NotLoaded \in Entity
  BY ModelAssumption DEF NotLoaded, Entity
<1>3. ASSUME NEW pc \in {"idle", "counting", "degraded"}, NEW at \in Nat
      PROVE  Blank(pc, at) \in Summary
  BY <1>2 DEF Blank, Summary
<1>4. ASSUME NEW tasks \in SUBSET Tasks
      PROVE  Load(tasks) \in [Tasks -> Entity]
  BY <1>1, <1>4 DEF Load, Summary, Entity, Row
<1>5. ASSUME NEW tasks \in SUBSET Tasks
      PROVE  LoadAttempts(tasks) \in [Tasks -> Entity]
  <2> SUFFICES ASSUME NEW t \in Tasks
               PROVE  [summary.session[t] EXCEPT !.attempt_count = Len(attempts[t])]
                        \in Entity
    BY <1>1 DEF LoadAttempts, Summary
  <2>1. summary.session[t] \in Entity /\ Len(attempts[t]) \in Nat
    BY <1>1 DEF Summary
  <2> QED
    BY <2>1 DEF Entity
<1>6. \A statuses : InStatus(statuses) \in SUBSET Tasks
  BY DEF InStatus
<1>7. CASE Begin \/ Degrade
  <2>1. PICK pc \in {"counting", "degraded"}, at \in Nat : summary' = Blank(pc, at)
    <3>1. summary.at \in Nat
      BY <1>1 DEF Summary
    <3> QED
      BY <1>1, <1>7, <3>1 DEF Begin, Degrade
  <2> QED
    BY <1>3, <2>1
<1>8. CASE CountStatuses
  <2>1. [s \in Status |-> InStatus({s})] \in [Status -> SUBSET Tasks]
    BY <1>6
  <2> QED
    BY <1>1, <1>8, <2>1 DEF CountStatuses, Summary
<1>9. CASE CountStale
  BY <1>1, <1>9 DEF CountStale, Summary
<1>10. CASE ListRecent
  <2>1. PICK tasks \in SUBSET InStatus(Status) :
          summary' = [summary EXCEPT !.pc = "loading", !.recent = tasks,
                                     !.session = Load(tasks)]
    BY <1>10 DEF ListRecent
  <2>2. tasks \in SUBSET Tasks /\ Load(tasks) \in [Tasks -> Entity]
    BY <1>4, <1>6
  <2> QED
    BY <1>1, <2>1, <2>2 DEF Summary
<1>11. CASE ListFailures
  <2>1. PICK tasks \in SUBSET InStatus({"FAILED", "DEAD_LETTER"}) :
          summary' = [summary EXCEPT !.pc = "completing", !.failures = tasks,
                                     !.session = Load(tasks)]
    BY <1>11 DEF ListFailures
  <2>2. tasks \in SUBSET Tasks /\ Load(tasks) \in [Tasks -> Entity]
    BY <1>4, <1>6
  <2> QED
    BY <1>1, <2>1, <2>2 DEF Summary
<1>12. CASE LoadRecentAttempts \/ LoadFailureAttempts
  <2>1. PICK tasks \in SUBSET Tasks, pc \in {"failures", "answered"} :
          summary' = [summary EXCEPT !.pc = pc, !.session = LoadAttempts(tasks)]
    BY <1>1, <1>12 DEF LoadRecentAttempts, LoadFailureAttempts, Summary
  <2>2. LoadAttempts(tasks) \in [Tasks -> Entity]
    BY <1>5
  <2> QED
    BY <1>1, <2>1, <2>2 DEF Summary
<1> QED
  BY <1>7, <1>8, <1>9, <1>10, <1>11, <1>12 DEF BuildSummary

\* A statement reads what the ones before it have left room for.
LEMMA Statement ==
  ASSUME Typed, SummaryTypeOK, AttemptsCoverRetries, ReadInOrder,
         SummaryIsCovered, StaleIsRunning, BuildSummary, UNCHANGED vars
  PROVE  ReadInOrder' /\ SummaryIsCovered' /\ StaleIsRunning'
<1>1. /\ summary \in Summary /\ row' = row /\ attempts' = attempts /\ now' = now
      /\ now \in Nat /\ summary.at \in Nat /\ summary.at <= now
  BY DEF SummaryTypeOK, Summary, SummaryIsCovered, Typed, TypeOK,
         EnvironmentTypeOK, vars
<1>2. \A t \in Tasks : /\ Len(attempts[t]) \in Nat /\ row[t] \in Row
                       /\ Len(attempts[t]) >= AttemptsOf(row[t])
                       /\ summary.session[t] \in Entity
  BY <1>1 DEF Typed, TypeOK, StoreTypeOK, AttemptsCoverRetries, Summary
<1>3. "ABSENT" \notin Status
  BY DEF Status, Terminal
<1>4. LeaseHonoured' = LeaseHonoured
  BY DEF LeaseHonoured
<1>5. ASSUME NEW pc \in {"counting", "degraded"}, NEW at \in Nat, at <= now,
             summary' = Blank(pc, at)
      PROVE  ReadInOrder' /\ SummaryIsCovered' /\ StaleIsRunning'
  <2>1. /\ summary'.pc = pc /\ summary'.at = at /\ summary'.stale = {}
        /\ summary'.recent = {} /\ summary'.failures = {}
        /\ \A t \in Tasks : summary'.session[t].status = "ABSENT"
    BY <1>5 DEF Blank, NotLoaded
  <2> QED
    BY <1>1, <1>5, <2>1 DEF ReadInOrder, SummaryIsCovered, StaleIsRunning
<1>6. CASE Begin \/ Degrade
  BY <1>1, <1>5, <1>6 DEF Begin, Degrade
<1>7. CASE CountStatuses
  <2>1. /\ summary.pc = "counting" /\ summary'.pc = "staleness"
        /\ summary'.counts["RUNNING"] = {t \in Tasks : row[t].status = "RUNNING"}
        /\ summary'.at = summary.at /\ summary'.stale = summary.stale
        /\ summary'.session = summary.session /\ summary'.recent = summary.recent
        /\ summary'.failures = summary.failures
    BY <1>1, <1>7 DEF CountStatuses, Summary, InStatus, Status
  <2>2. \A t \in Tasks : Stale(t, summary.at)' => t \in summary'.counts["RUNNING"]
    BY <1>1, <2>1 DEF Stale, Running
  <2> QED
    BY <1>1, <2>1, <2>2 DEF ReadInOrder, SummaryIsCovered, StaleIsRunning
<1>8. CASE CountStale
  <2>1. /\ summary.pc = "staleness" /\ summary'.pc = "listing"
        /\ summary'.counts = summary.counts
        /\ summary'.stale = {t \in Tasks : Stale(t, summary.at)}
        /\ summary'.at = summary.at
        /\ summary'.session = summary.session /\ summary'.recent = summary.recent
        /\ summary'.failures = summary.failures
    BY <1>1, <1>8 DEF CountStale, Summary
  <2> QED
    BY <1>1, <1>4, <2>1 DEF ReadInOrder, SummaryIsCovered, StaleIsRunning
\* A list adds its tasks as their rows are; the ones the session has keep the
\* columns and the attempts it has.
<1>9. ASSUME NEW tasks, summary'.session = Load(tasks), NEW t \in Tasks
      PROVE  \/ summary'.session[t] = summary.session[t]
             \/ /\ summary.session[t].status = "ABSENT"
                /\ t \in tasks
                /\ AttemptsOf(summary'.session[t]) = AttemptsOf(row[t])
                /\ summary'.session[t].status = row[t].status
  BY <1>3, <1>9 DEF Load, AttemptsOf
<1>10. ASSUME NEW tasks \in SUBSET InStatus(Status),
              summary'.session = Load(tasks), NEW t \in Tasks
       PROVE  summary'.session[t].status # "ABSENT"
                <=> \/ summary.session[t].status # "ABSENT"
                    \/ t \in tasks
  BY <1>3, <1>10 DEF Load, InStatus
<1>11. CASE ListRecent
  <2>1. PICK tasks \in SUBSET InStatus(Status) :
          /\ summary.pc = "listing" /\ summary'.pc = "loading"
          /\ summary'.counts = summary.counts /\ summary'.stale = summary.stale
          /\ summary'.at = summary.at /\ summary'.recent = tasks
          /\ summary'.session = Load(tasks)
          /\ summary'.failures = summary.failures
    BY <1>1, <1>11 DEF ListRecent, Summary
  <2>2. summary.recent = {} /\ summary.failures = {}
    BY <2>1 DEF ReadInOrder
  <2>3. ASSUME NEW t \in Tasks, t \in tasks
        PROVE  Len(attempts[t]) >= AttemptsOf(summary'.session[t])
    <3>1. summary.session[t].status = "ABSENT"
      BY <2>2 DEF ReadInOrder
    <3>2. summary'.session[t].status # "ABSENT"
      BY <1>10, <2>1, <2>3
    <3>3. AttemptsOf(summary'.session[t]) = AttemptsOf(row[t])
      BY <1>9, <2>1, <3>1, <3>2
    <3> QED
      BY <1>2, <3>3
  <2>4. ReadInOrder'
    BY <1>10, <2>1, <2>2 DEF ReadInOrder
  <2> QED
    BY <1>1, <1>4, <2>1, <2>2, <2>3, <2>4 DEF SummaryIsCovered, StaleIsRunning
<1>12. CASE ListFailures
  <2>1. PICK tasks \in SUBSET InStatus({"FAILED", "DEAD_LETTER"}) :
          /\ summary.pc = "failures" /\ summary'.pc = "completing"
          /\ summary'.counts = summary.counts /\ summary'.stale = summary.stale
          /\ summary'.at = summary.at /\ summary'.failures = tasks
          /\ summary'.session = Load(tasks)
          /\ summary'.recent = summary.recent
    BY <1>1, <1>12 DEF ListFailures, Summary
  <2>2. tasks \in SUBSET InStatus(Status)
    BY DEF InStatus, Status, Terminal
  <2>3. \A t \in Tasks : t \in summary.recent => summary'.session[t] = summary.session[t]
    BY <1>9, <2>1, <2>2 DEF ReadInOrder
  <2>4. \A t \in Tasks : summary'.session[t].status # "ABSENT" =>
          Len(attempts[t]) >= AttemptsOf(summary'.session[t])
    BY <1>2, <1>9, <2>1, <2>2 DEF ReadInOrder, SummaryIsCovered
  <2>5. ReadInOrder'
    <3>1. summary.failures = {}
      BY <2>1 DEF ReadInOrder
    <3> QED
      BY <1>10, <2>1, <2>2, <3>1 DEF ReadInOrder
  <2> QED
    BY <1>1, <1>4, <2>1, <2>3, <2>4, <2>5
    DEF ReadInOrder, SummaryIsCovered, StaleIsRunning
<1>13. ASSUME NEW tasks, summary'.session = LoadAttempts(tasks), NEW t \in Tasks
       PROVE  /\ summary'.session[t].status = summary.session[t].status
              /\ summary'.session[t].retry_count = summary.session[t].retry_count
              /\ summary'.session[t].attempt_count =
                   IF t \in tasks THEN Len(attempts[t])
                   ELSE summary.session[t].attempt_count
  BY <1>2, <1>13 DEF LoadAttempts, Entity
<1>14. CASE LoadRecentAttempts
  <2>1. /\ summary.pc = "loading" /\ summary'.pc = "failures"
        /\ summary'.counts = summary.counts /\ summary'.stale = summary.stale
        /\ summary'.at = summary.at /\ summary'.recent = summary.recent
        /\ summary'.session = LoadAttempts(summary.recent)
        /\ summary'.failures = summary.failures
    BY <1>1, <1>14 DEF LoadRecentAttempts, Summary
  <2> QED
    BY <1>1, <1>2, <1>4, <1>13, <2>1
    DEF ReadInOrder, SummaryIsCovered, StaleIsRunning, AttemptsOf
<1>15. CASE LoadFailureAttempts
  <2>1. /\ summary.pc = "completing" /\ summary'.pc = "answered"
        /\ summary'.counts = summary.counts /\ summary'.stale = summary.stale
        /\ summary'.at = summary.at /\ summary'.recent = summary.recent
        /\ summary'.session = LoadAttempts(summary.failures \ summary.recent)
        /\ summary'.failures = summary.failures
    BY <1>1, <1>15 DEF LoadFailureAttempts, Summary
  <2>2. \A t \in Tasks :
          AttemptsOf(summary'.session[t]) = AttemptsOf(summary.session[t])
    BY <1>13, <2>1 DEF AttemptsOf
  <2>3. ASSUME NEW t \in Tasks, t \in summary.recent \cup summary.failures
        PROVE  summary'.session[t].attempt_count >= AttemptsOf(summary.session[t])
    <3>1. CASE t \in summary.recent
      BY <1>13, <2>1, <3>1 DEF SummaryIsCovered
    <3>2. CASE t \notin summary.recent
      <4> DEFINE tasks == summary.failures \ summary.recent
      <4>1. t \in tasks /\ summary'.session = LoadAttempts(tasks)
        BY <2>1, <2>3, <3>2
      <4> HIDE DEF tasks
      <4>2. summary'.session[t].attempt_count = Len(attempts[t])
        BY <1>13, <4>1
      <4> QED
        BY <2>3, <4>2 DEF SummaryIsCovered
    <3> QED
      BY <3>1, <3>2
  <2>4. ASSUME NEW t \in Tasks
        PROVE  summary'.session[t].status = summary.session[t].status
    BY <1>13, <2>1
  <2>5. ReadInOrder'
    BY <2>1, <2>4 DEF ReadInOrder
  <2>6. StaleIsRunning'
    BY <1>4, <2>1 DEF StaleIsRunning
  <2> QED
    BY <1>1, <2>1, <2>2, <2>3, <2>5, <2>6 DEF SummaryIsCovered
<1> QED
  BY <1>6, <1>7, <1>8, <1>11, <1>12, <1>14, <1>15 DEF BuildSummary

-----------------------------------------------------------------------------
\* The inductive invariant of a monitored TaskMesh, for every number of tasks,
\* workers, scans and requests and every kind of fault.
THEOREM MonitorInductive == MonitorSpec => []MonitorInv
<1> DEFINE Read == /\ SummaryTypeOK /\ AttemptsCoverRetries /\ ReadInOrder
                   /\ SummaryIsCovered /\ StaleIsRunning
<1>1. MonitorInit /\ IndInv => Read
  <2> SUFFICES ASSUME MonitorInit, IndInv PROVE Read
    OBVIOUS
  <2>1. summary = Blank("idle", 0) /\ now \in Nat
    BY DEF MonitorInit, IndInv, ExecutionInv, CoreInv, TypeOK, EnvironmentTypeOK
  <2>2. SummaryTypeOK
    BY <2>1, ModelAssumption DEF SummaryTypeOK, Summary, Blank, NotLoaded, Entity
  <2>3. AttemptsCoverRetries
    BY DEF MonitorInit, Init, StoreInit, NewRow, WorkerInit, At, RecoveryInit,
           IdleScanner, AttemptsCoverRetries, AttemptsOf
  <2>4. ReadInOrder /\ SummaryIsCovered /\ StaleIsRunning
    BY <2>1 DEF Blank, NotLoaded, ReadInOrder, SummaryIsCovered, StaleIsRunning
  <2> QED
    BY <2>2, <2>3, <2>4
<1>2. ASSUME IndInv, IndInv', Read, [MonitorNext]_monitorVars
      PROVE  Read'
  <2>1. Typed /\ Typed' /\ (LeaseHonoured => LeaseInv)
    BY <1>2 DEF IndInv, ExecutionInv, CoreInv, Typed
  <2>2. CASE [Next]_vars /\ UNCHANGED summary
    <3>1. SomeStep
      BY <2>1, <2>2, StepCases
    <3>2. SummaryTypeOK' /\ ReadInOrder' /\ StaleIsRunning'
      BY <1>2, <2>2 DEF SummaryTypeOK, ReadInOrder, StaleIsRunning, LeaseHonoured
    <3> QED
      BY <1>2, <2>1, <2>2, <3>1, <3>2, CoverKept, CoveredBySystem
  <2>3. CASE BuildSummary /\ UNCHANGED vars
    <3>1. AttemptsCoverRetries'
      BY <1>2, <2>3
      DEF vars, AttemptsCoverRetries, AttemptsOf, TaskOf
    <3> QED
      BY <1>2, <2>1, <2>3, <3>1, SummaryType, Statement
  <2> QED
    BY <1>2, <2>2, <2>3 DEF MonitorNext, monitorVars
<1>3. MonitorSpec => []IndInv
  BY MonitoredIsTaskMesh, Inductive, PTL
<1>4. MonitorInv <=> IndInv /\ Read
  BY DEF MonitorInv
<1> HIDE DEF Read
<1> QED
  BY <1>1, <1>2, <1>3, <1>4, PTL DEF MonitorSpec

\* A summary never shows more stale tasks than RUNNING ones.
THEOREM StaleTasksAreRunning == MonitorSpec => []StaleIsRunning
<1>1. MonitorInv => StaleIsRunning
  BY DEF MonitorInv
<1> QED
  BY <1>1, MonitorInductive, PTL

\* A summary shows every attempt that the row it shows stands for.
THEOREM NoAttemptIsHidden == MonitorSpec => []AttemptsAreShown
<1>1. MonitorInv => AttemptsAreShown
  <2> SUFFICES ASSUME MonitorInv, summary.pc = "answered",
                      NEW t \in summary.recent \cup summary.failures
               PROVE  summary.session[t].attempt_count >= AttemptsOf(summary.session[t])
    BY DEF AttemptsAreShown
  <2>1. t \in Tasks
    BY DEF MonitorInv, SummaryTypeOK, Summary
  <2> QED
    BY <2>1 DEF MonitorInv, SummaryIsCovered
<1> QED
  BY <1>1, MonitorInductive, PTL
=============================================================================
