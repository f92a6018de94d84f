------------------------------- MODULE Worker -------------------------------
(****************************************************************************)
(* The Celery workers: execute_task and process_task.  A worker takes a     *)
(* message, reads the clock, claims the task, runs the job, writes the      *)
(* outcome, asks Celery for a retry if there is one and acknowledges the    *)
(* message last.  One worker is one process of a pool.                      *)
(*                                                                          *)
(*   idle -> claiming -> executing -> acking -> idle                        *)
(*                           +-> failing -> [retrying ->] acking            *)
(****************************************************************************)
EXTENDS TaskStore, Broker, Environment

VARIABLE worker  \* worker -> what it is doing, a record of WorkerState

WorkerState ==
  [pc         : {"idle", "claiming", "executing", "failing", "retrying", "acking"},
   claimed_at : Nat,            \* the clock as read before the claim
   attempt    : Nat,            \* the number of the attempt it claimed
   read       : 0..MaxRetries,  \* retry_count as its SELECT returned it
   retryable  : BOOLEAN]        \* how the job failed

\* Only the message it holds matters.
At(pc) == [pc |-> pc, claimed_at |-> 0, attempt |-> 0, read |-> 0,
           retryable |-> FALSE]

WorkerTypeOK == worker \in [Workers -> WorkerState]

WorkerInit == worker = [w \in Workers |-> At("idle")]

\* It has claimed an attempt whose outcome it has not tried to write yet.
Executing(w) == worker[w].pc \in {"executing", "failing"}

Goto(w, pc) == worker' = [worker EXCEPT ![w] = At(pc)]

-----------------------------------------------------------------------------
\* A message is delivered and process_task starts: _claim_task reads the clock.
Receive(w, t, retries) ==
  /\ worker[w].pc = "idle"
  /\ Deliver(w, t, retries)
  /\ worker' = [worker EXCEPT ![w] =
       [pc |-> "claiming", claimed_at |-> now, attempt |-> 0, read |-> 0,
        retryable |-> FALSE]]
  /\ UNCHANGED <<storeVars, now, faults>>

\* _claim_task's transaction.  A message of a task that is not QUEUED (or does
\* not exist) changes nothing and is acknowledged.
Claim(w) ==
  /\ worker[w].pc = "claiming"
  /\ \/ /\ ClaimTask(TaskOf(w), worker[w].claimed_at)
        /\ worker' = [worker EXCEPT ![w] =
             [pc |-> "executing", claimed_at |-> worker[w].claimed_at,
              attempt |-> NextAttempt(TaskOf(w)), read |-> 0,
              retryable |-> FALSE]]
     \/ ~Queued(TaskOf(w)) /\ Goto(w, "acking") /\ UNCHANGED storeVars
  /\ UNCHANGED <<brokerVars, now, faults>>

\* The job returns and _complete_task runs; if the task is not RUNNING any
\* more it raises TaskReclaimedError and the outcome is dropped.
Complete(w) ==
  /\ worker[w].pc = "executing"
  /\ \/ CompleteTask(TaskOf(w), worker[w].attempt)
     \/ ~Running(TaskOf(w)) /\ UNCHANGED storeVars
  /\ Goto(w, "acking")
  /\ UNCHANGED <<brokerVars, now, faults>>

\* The job raises and _finalize_failure's SELECT reads the budget.
Fail(w, retryable) ==
  /\ worker[w].pc = "executing"
  /\ \/ /\ Running(TaskOf(w))
        /\ worker' = [worker EXCEPT ![w] =
             [pc |-> "failing", claimed_at |-> worker[w].claimed_at,
              attempt |-> worker[w].attempt,
              read |-> row[TaskOf(w)].retry_count, retryable |-> retryable]]
     \/ ~Running(TaskOf(w)) /\ Goto(w, "acking")
  /\ UNCHANGED <<storeVars, brokerVars, now, faults>>

\* _finalize_failure's UPDATE, from the retry_count its SELECT returned.
Finalize(w) ==
  LET me == worker[w] IN
  /\ me.pc = "failing"
  /\ \/ /\ FinalizeFailure(TaskOf(w), me.attempt, me.retryable, me.read)
        /\ Goto(w, IF AfterFailure(me.retryable, me.read).status = "QUEUED"
                     THEN "retrying" ELSE "acking")
     \/ ~Running(TaskOf(w)) /\ Goto(w, "acking") /\ UNCHANGED storeVars
  /\ UNCHANGED <<brokerVars, now, faults>>

\* Mutant of MayRetry: Celery refuses one retry too early.
MayRetry_OneLess(w) == unacked[w].retries + 1 < MaxRetries

\* self.retry: a new message, unless Celery's own count exceeds max_retries;
\* then the exception it was given is raised and nothing is published.
MayRetry(w) == unacked[w].retries + 1 <= MaxRetries

Retry(w) ==
  /\ worker[w].pc = "retrying"
  /\ \/ MayRetry(w) /\ Publish(TaskOf(w), unacked[w].retries + 1)
     \/ ~MayRetry(w) /\ UNCHANGED brokerVars
  /\ Goto(w, "acking")
  /\ UNCHANGED <<storeVars, now, faults>>

Ack(w) ==
  /\ worker[w].pc = "acking"
  /\ Acknowledge(w)
  /\ Goto(w, "idle")
  /\ UNCHANGED <<storeVars, now, faults>>

-----------------------------------------------------------------------------
(* Faults *)

\* The transaction fails: the exception leaves process_task, so Celery
\* acknowledges the message.
DbError(w) ==
  /\ Inject("db_error")
  /\ worker[w].pc \in {"claiming", "executing", "failing"}
  /\ Goto(w, "acking")
  /\ UNCHANGED <<storeVars, brokerVars, now>>

\* self.retry cannot publish: Celery raises Reject(requeue=False).
RetryPublishFails(w) ==
  /\ Inject("publish_error")
  /\ worker[w].pc = "retrying"
  /\ MayRetry(w)
  /\ Acknowledge(w)
  /\ Goto(w, "idle")
  /\ UNCHANGED <<storeVars, now>>

\* The visibility timeout runs from the moment the message was fetched, which
\* may be long before its task started: it can end at any point of the task.
Redeliver(w) ==
  /\ Inject("redelivery")
  /\ worker[w].pc # "idle"
  /\ Restore(w)
  /\ UNCHANGED <<storeVars, worker, now>>

\* The process dies.
Crash(w) ==
  /\ Inject("worker_crash")
  /\ worker[w].pc # "idle"
  /\ RequeueHeld(w)
  /\ Goto(w, "idle")
  /\ UNCHANGED <<storeVars, now>>

\* What a live worker does without anything going wrong.
WorkerStep(w) == \/ Claim(w) \/ Complete(w)
                 \/ \E retryable \in BOOLEAN : Fail(w, retryable)
                 \/ Finalize(w) \/ Retry(w) \/ Ack(w)

WorkerFault(w) == DbError(w) \/ RetryPublishFails(w) \/ Redeliver(w) \/ Crash(w)

WorkerNext == \E w \in Workers :
                \/ \E m \in Message : Receive(w, m[1], m[2])
                \/ WorkerStep(w)
                \/ WorkerFault(w)
=============================================================================
