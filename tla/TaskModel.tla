------------------------------ MODULE TaskModel ------------------------------
(****************************************************************************)
(* What the components of TaskMesh share: the task ids, the columns of a    *)
(* task's row, the outcomes of an attempt and the retry decision.           *)
(****************************************************************************)
EXTENDS Integers, Sequences

CONSTANTS
  Tasks,       \* the task ids that may be submitted
  NoTask,      \* no task id
  MaxRetries,  \* tasks.max_retries, the column default of every task
  Lease        \* TASKMESH_TASK_LEASE_SECONDS, in ticks of the clock

ASSUME ModelAssumption == /\ NoTask \notin Tasks
                          /\ MaxRetries \in Nat
                          /\ Lease \in Nat

Terminal == {"COMPLETED", "FAILED", "DEAD_LETTER"}
Status   == {"QUEUED", "RUNNING"} \cup Terminal

NoLease == -1  \* SQL NULL in lease_expires_at: no clock shows it

\* started and completed: "started_at / completed_at is not NULL".  error is
\* what last_error holds: nothing, a job's error or STALE_LEASE_ERROR.
Row == [status : Status \cup {"ABSENT"}, retry_count : 0..MaxRetries,
        lease : Nat \cup {NoLease}, started : BOOLEAN, completed : BOOLEAN,
        error : {"none", "job", "stale"}]

\* An attempt: "open" (finished_at NULL) or closed without an error ("ok"),
\* with the job's error ("failed") or with STALE_LEASE_ERROR ("stale").
Outcome == {"open", "ok", "failed", "stale"}

NewRow(status) == [status |-> status, retry_count |-> 0, lease |-> NoLease,
                   started |-> FALSE, completed |-> FALSE, error |-> "none"]

-----------------------------------------------------------------------------
(* Retry decisions *)

\* Mutant of RetryBudgetLeft: one retry too many.
RetryBudgetLeft_OneMore(retry_count) == retry_count <= MaxRetries

RetryBudgetLeft(retry_count) == retry_count < MaxRetries

\* The status and retry_count a retryable failure, or a reclaimed attempt,
\* leads to, given the retry_count that the preceding SELECT returned.
AfterRetryable(retry_count) ==
  IF RetryBudgetLeft(retry_count)
    THEN [status |-> "QUEUED", retry_count |-> retry_count + 1]
    ELSE [status |-> "DEAD_LETTER", retry_count |-> retry_count]

AfterFailure(retryable, retry_count) ==
  IF retryable THEN AfterRetryable(retry_count)
               ELSE [status |-> "FAILED", retry_count |-> retry_count]
=============================================================================
