----------------------------- MODULE Monitoring -----------------------------
(****************************************************************************)
(* GET /monitoring/summary: build_monitoring_summary reads the database in  *)
(* several statements while requests, workers and scans go on.  Under READ  *)
(* COMMITTED every statement sees what is committed when it starts: a step  *)
(* of its own.  All of them use one session, whose identity map keeps a     *)
(* task as the first statement that returned it has loaded it.              *)
(*                                                                          *)
(*   idle -> counting -> staleness -> listing -> loading                    *)
(*        -> failures -> completing -> answered, or from anywhere degraded  *)
(*                                                                          *)
(* A summary changes nothing, so one of them, begun at any time, stands for *)
(* all.                                                                     *)
(****************************************************************************)
EXTENDS TaskMesh

VARIABLE summary  \* a record of Summary

\* A Task object of the session; ABSENT: not loaded.  attempt_count is the
\* length of execution_attempts.
Entity == [status : Status \cup {"ABSENT"}, retry_count : 0..MaxRetries,
           attempt_count : Nat]

NotLoaded == [status |-> "ABSENT", retry_count |-> 0, attempt_count |-> 0]

\* The counts are kept as the sets of tasks that were counted.
Summary ==
  [pc       : {"idle", "counting", "staleness", "listing", "loading",
               "failures", "completing", "answered", "degraded"},
   at       : Nat,                         \* current_time
   counts   : [Status -> SUBSET Tasks],    \* status -> the tasks counted
   stale    : SUBSET Tasks,                \* the tasks counted as stale
   session  : [Tasks -> Entity],           \* the identity map
   recent   : SUBSET Tasks,                \* recent_tasks
   failures : SUBSET Tasks]                \* recent_failures

Blank(pc, at) ==
  [pc |-> pc, at |-> at, counts |-> [s \in Status |-> {}], stale |-> {},
   session |-> [t \in Tasks |-> NotLoaded], recent |-> {}, failures |-> {}]

SummaryTypeOK == summary \in Summary

MonitorInit == Init /\ summary = Blank("idle", 0)

InStatus(statuses) == {t \in Tasks : row[t].status \in statuses}

\* Mutant of Load: a later statement refreshes the columns it returns.
Load_Refresh(tasks) ==
  [t \in Tasks |->
     IF t \in tasks
       THEN [status |-> row[t].status, retry_count |-> row[t].retry_count,
             attempt_count |-> summary.session[t].attempt_count]
       ELSE summary.session[t]]

\* The session after a SELECT has returned these tasks.
Load(tasks) ==
  [t \in Tasks |->
     IF t \in tasks /\ summary.session[t].status = "ABSENT"
       THEN [status |-> row[t].status, retry_count |-> row[t].retry_count,
             attempt_count |-> 0]
       ELSE summary.session[t]]

\* The session after selectinload has fetched the attempts of these tasks.
LoadAttempts(tasks) ==
  [t \in Tasks |->
     IF t \in tasks THEN [summary.session[t] EXCEPT !.attempt_count = Len(attempts[t])]
                    ELSE summary.session[t]]

-----------------------------------------------------------------------------
Begin == /\ summary.pc = "idle"
         /\ summary' = Blank("counting", now)

CountStatuses ==
  /\ summary.pc = "counting"
  /\ summary' = [summary EXCEPT !.pc = "staleness",
                                !.counts = [s \in Status |-> InStatus({s})]]

\* Mutant of CountStale: count_stale_running is left to read the clock itself.
CountStale_OwnClock ==
  /\ summary.pc = "staleness"
  /\ summary' = [summary EXCEPT !.pc = "listing",
                                !.stale = {t \in Tasks : Stale(t, now)}]

\* count_stale_running, with the clock of the summary.
CountStale ==
  /\ summary.pc = "staleness"
  /\ summary' = [summary EXCEPT !.pc = "listing",
                                !.stale = {t \in Tasks : Stale(t, summary.at)}]

\* The newest ten; which of the tasks they are is left open.
ListRecent ==
  /\ summary.pc = "listing"
  /\ \E listed \in SUBSET InStatus(Status) :
       summary' = [summary EXCEPT !.pc = "loading", !.recent = listed,
                                  !.session = Load(listed)]

LoadRecentAttempts ==
  /\ summary.pc = "loading"
  /\ summary' = [summary EXCEPT !.pc = "failures",
                                !.session = LoadAttempts(summary.recent)]

ListFailures ==
  /\ summary.pc = "failures"
  /\ \E listed \in SUBSET InStatus({"FAILED", "DEAD_LETTER"}) :
       summary' = [summary EXCEPT !.pc = "completing", !.failures = listed,
                                  !.session = Load(listed)]

\* Collections that the session has already are not fetched again.
LoadFailureAttempts ==
  /\ summary.pc = "completing"
  /\ summary' = [summary EXCEPT !.pc = "answered",
       !.session = LoadAttempts(summary.failures \ summary.recent)]

\* A statement fails: nothing of what was read is reported.
Degrade == /\ summary.pc \notin {"idle", "answered", "degraded"}
           /\ summary' = Blank("degraded", summary.at)

BuildSummary ==
  \/ Begin \/ CountStatuses \/ CountStale
  \/ ListRecent \/ LoadRecentAttempts
  \/ ListFailures \/ LoadFailureAttempts \/ Degrade

MonitorNext == \/ Next /\ UNCHANGED summary
               \/ BuildSummary /\ UNCHANGED vars

monitorVars == <<vars, summary>>

MonitorSpec == MonitorInit /\ [][MonitorNext]_monitorVars

-----------------------------------------------------------------------------
(* Properties *)

\* If no lease is overrun, a summary never reports more stale tasks than
\* RUNNING ones, although they are counted by different statements: a task
\* claimed in between has a lease that ends after the summary's clock.
StaleIsRunning ==
  LeaseHonoured => summary.stale \subseteq summary.counts["RUNNING"]

\* The attempts that a row's status and retry_count stand for.
AttemptsOf(entity) ==
  entity.retry_count + (IF entity.status \in {"QUEUED", "ABSENT"} THEN 0 ELSE 1)

\* A task is never shown with fewer attempts than its status and retry_count
\* stand for: they are read after the row, and more of them can only come.
AttemptsAreShown ==
  summary.pc = "answered" =>
    \A t \in summary.recent \cup summary.failures :
      summary.session[t].attempt_count >= AttemptsOf(summary.session[t])

\* recent_failures holds tasks that have failed (test_monitoring.py:109-112).
FailuresHaveFailed ==
  summary.pc = "answered" =>
    \A t \in summary.failures :
      summary.session[t].status \in {"FAILED", "DEAD_LETTER"}

-----------------------------------------------------------------------------
(* The inductive invariant behind them *)

\* A task has been claimed as often as its retry_count and status stand for,
\* also by what a transaction has read and is about to write.
AttemptsCoverRetries ==
  /\ \A t \in Tasks : Len(attempts[t]) >= AttemptsOf(row[t])
  /\ \A w \in Workers :
       worker[w].pc = "failing" => Len(attempts[TaskOf(w)]) > worker[w].read
  /\ \A s \in Scanners :
       scanner[s].pc = "updating" =>
         Len(attempts[scanner[s].task]) > scanner[s].read

\* What a statement returns is empty until it has run, and the session holds
\* what the lists name.
ReadInOrder ==
  /\ summary.pc \in {"counting", "staleness"} => summary.stale = {}
  /\ summary.pc \in {"counting", "staleness", "listing"} => summary.recent = {}
  /\ summary.pc \notin {"completing", "answered"} => summary.failures = {}
  /\ \A t \in Tasks : summary.session[t].status # "ABSENT"
                        <=> t \in summary.recent \cup summary.failures

\* What the statements still to come will add to those that have run.
SummaryIsCovered ==
  /\ summary.at <= now
  /\ summary.pc = "staleness" /\ LeaseHonoured =>
       {t \in Tasks : Stale(t, summary.at)} \subseteq summary.counts["RUNNING"]
  /\ \A t \in Tasks :
       /\ t \in summary.recent \cup summary.failures =>
            Len(attempts[t]) >= AttemptsOf(summary.session[t])
       /\ \/ /\ summary.pc \in {"failures", "completing", "answered"}
             /\ t \in summary.recent
          \/ summary.pc = "answered" /\ t \in summary.failures
          => summary.session[t].attempt_count >= AttemptsOf(summary.session[t])

MonitorInv == /\ IndInv /\ SummaryTypeOK /\ AttemptsCoverRetries
              /\ ReadInOrder /\ SummaryIsCovered /\ StaleIsRunning
=============================================================================
