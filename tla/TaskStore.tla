------------------------------ MODULE TaskStore ------------------------------
(****************************************************************************)
(* The PostgreSQL side of TaskMesh: the rows of "tasks" and                 *)
(* "task_execution_attempts" and the transactions that write them.          *)
(*                                                                          *)
(* Every transaction starts with an UPDATE of the task's row whose WHERE    *)
(* clause names the status it expects.  Under READ COMMITTED that UPDATE    *)
(* locks the row, tests the WHERE clause on the newest committed version    *)
(* and keeps the lock until the commit, and attempts are only written under *)
(* that lock: from its UPDATE on, a transaction is one step.  A SELECT that *)
(* precedes the UPDATE is a step of its own (see Worker and Recovery).      *)
(****************************************************************************)
EXTENDS TaskModel

VARIABLES
  row,         \* task id -> its row of "tasks" (status ABSENT: not inserted)
  attempts,    \* task id -> its attempts, by attempt_number
  base         \* task id -> how many attempts it had when it was last
               \* submitted or requeued (history: only properties read it)

storeVars == <<row, attempts, base>>

StoreTypeOK == /\ row \in [Tasks -> Row]
               /\ attempts \in [Tasks -> Seq(Outcome)]
               /\ base \in [Tasks -> Nat]

StoreInit == /\ row = [t \in Tasks |-> NewRow("ABSENT")]
             /\ attempts = [t \in Tasks |-> <<>>]
             /\ base = [t \in Tasks |-> 0]

-----------------------------------------------------------------------------
(* WHERE clauses *)

\* Mutants of Queued: no WHERE on the status; "not RUNNING" for "QUEUED".
Queued_Any(t)        == row[t].status # "ABSENT"
Queued_NotRunning(t) == row[t].status \notin {"ABSENT", "RUNNING"}

Queued(t) == row[t].status = "QUEUED"

\* Mutant of Running: the late outcome is not rejected.
Running_Any(t) == row[t].status # "ABSENT"

Running(t) == row[t].status = "RUNNING"

\* Mutants of Stale: an off-by-one in the comparison; the lease forgotten;
\* the comparison the wrong way round; NULL taken for a lease of the past.
Stale_AtExpiry(t, at) == Running(t) /\ row[t].lease <= at
Stale_AnyRunning(t, at) == Running(t)
Stale_Reversed(t, at) == Running(t) /\ row[t].lease > at

Stale_NullIsPast(t, at) == Running(t) /\ row[t].lease < at

Stale(t, at) == /\ Running(t)
                /\ row[t].lease # NoLease
                /\ row[t].lease < at

-----------------------------------------------------------------------------
(* Transactions *)

CloseAttempt(t, n, outcome) ==
  attempts' = [attempts EXCEPT ![t] = [@ EXCEPT ![n] = outcome]]

\* Recovery closes the open attempt with the greatest attempt_number.
CloseLatestOpen(t) ==
  attempts' = [attempts EXCEPT ![t] =
    [n \in DOMAIN @ |->
      IF /\ attempts[t][n] = "open"
         /\ \A k \in DOMAIN attempts[t] : attempts[t][k] = "open" => k <= n
        THEN "stale" ELSE attempts[t][n]]]

\* create_task: INSERT, columns left to their defaults.
CreateTask(t) ==
  /\ row[t].status = "ABSENT"
  /\ row' = [row EXCEPT ![t] = NewRow("QUEUED")]
  /\ UNCHANGED <<attempts, base>>

\* requeue_dead_letter_task.  It leaves lease_expires_at alone.
RequeueDeadLetterTask(t) ==
  /\ row[t].status = "DEAD_LETTER"
  /\ row' = [row EXCEPT ![t] =
               [status |-> "QUEUED", retry_count |-> 0,
                lease |-> row[t].lease, started |-> FALSE,
                completed |-> FALSE, error |-> "none"]]
  /\ base' = [base EXCEPT ![t] = Len(attempts[t])]
  /\ UNCHANGED attempts

\* Mutant of NextAttempt: not one more than the greatest number.
NextAttempt_Latest(t) == Len(attempts[t])

\* The attempt_number a claim gives: max + 1, numbers having no gaps.
NextAttempt(t) == Len(attempts[t]) + 1

\* _claim_task, from its UPDATE on.
ClaimTask(t, claimed_at) ==
  /\ Queued(t)
  /\ row' = [row EXCEPT ![t] =
               [status |-> "RUNNING", retry_count |-> row[t].retry_count,
                lease |-> claimed_at + Lease, started |-> TRUE,
                completed |-> FALSE, error |-> "none"]]
  /\ attempts' = [attempts EXCEPT ![t] = Append(@, "open")]
  /\ UNCHANGED base

\* _complete_task.  The WHERE clause names the status, not the attempt.
CompleteTask(t, n) ==
  /\ Running(t)
  /\ row' = [row EXCEPT ![t] =
               [status |-> "COMPLETED", retry_count |-> row[t].retry_count,
                lease |-> NoLease, started |-> row[t].started,
                completed |-> TRUE, error |-> "none"]]
  /\ CloseAttempt(t, n, "ok")
  /\ UNCHANGED base

\* _finalize_failure, from its UPDATE on.
FinalizeFailure(t, n, retryable, retry_count) ==
  LET next == AfterFailure(retryable, retry_count) IN
  /\ Running(t)
  /\ row' = [row EXCEPT ![t] =
               [status |-> next.status, retry_count |-> next.retry_count,
                lease |-> NoLease, started |-> row[t].started,
                completed |-> FALSE, error |-> "job"]]
  /\ CloseAttempt(t, n, "failed")
  /\ UNCHANGED base

\* _reclaim_one, from its UPDATE on.
ReclaimTask(t, at, retry_count) ==
  LET next == AfterRetryable(retry_count) IN
  /\ Stale(t, at)
  /\ row' = [row EXCEPT ![t] =
               [status |-> next.status, retry_count |-> next.retry_count,
                lease |-> NoLease, started |-> FALSE,
                completed |-> FALSE, error |-> "stale"]]
  /\ CloseLatestOpen(t)
  /\ UNCHANGED base
=============================================================================
