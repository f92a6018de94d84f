---------------------------- MODULE TaskLifecycle ----------------------------
(****************************************************************************)
(* What TaskMesh promises about a task, as its README draws it: a task runs *)
(* one attempt at a time, the outcome of an attempt is decided once and     *)
(* recorded for good, a retryable failure or a lost worker leads to another *)
(* attempt as long as the budget lasts, and only a requeue opens a new one. *)
(*                                                                          *)
(* There is no worker, no lease, no message and no retry counter here: the  *)
(* budget is counted in the recorded outcomes themselves.                   *)
(****************************************************************************)
EXTENDS TaskModel

VARIABLES
  status,  \* task id -> its status
  log,     \* task id -> the outcomes of its attempts, in order
  mark     \* task id -> how many outcomes the log had at the last requeue

vars == <<status, log, mark>>

Init == /\ status = [t \in Tasks |-> "ABSENT"]
        /\ log = [t \in Tasks |-> <<>>]
        /\ mark = [t \in Tasks |-> 0]

Move(t, from, to) == /\ status[t] = from
                     /\ status' = [status EXCEPT ![t] = to]

Record(t, outcome) == log' = [log EXCEPT ![t] = Append(@, outcome)]

Submit(t) == Move(t, "ABSENT", "QUEUED") /\ UNCHANGED <<log, mark>>

Start(t) == Move(t, "QUEUED", "RUNNING") /\ UNCHANGED <<log, mark>>

Succeed(t) == /\ Move(t, "RUNNING", "COMPLETED")
              /\ Record(t, "ok")
              /\ UNCHANGED mark

FailForGood(t) == /\ Move(t, "RUNNING", "FAILED")
                  /\ Record(t, "failed")
                  /\ UNCHANGED mark

\* The attempts of this budget that have ended leave room for another one.
BudgetLeft(t) == Len(log[t]) - mark[t] < MaxRetries

TryAgain(t, outcome) == /\ BudgetLeft(t)
                        /\ Move(t, "RUNNING", "QUEUED")
                        /\ Record(t, outcome)
                        /\ UNCHANGED mark

GiveUp(t, outcome) == /\ ~BudgetLeft(t)
                      /\ Move(t, "RUNNING", "DEAD_LETTER")
                      /\ Record(t, outcome)
                      /\ UNCHANGED mark

Requeue(t) == /\ Move(t, "DEAD_LETTER", "QUEUED")
              /\ mark' = [mark EXCEPT ![t] = Len(log[t])]
              /\ UNCHANGED log

Next == \E t \in Tasks :
          \/ Submit(t) \/ Start(t) \/ Succeed(t) \/ FailForGood(t) \/ Requeue(t)
          \/ \E outcome \in {"failed", "stale"} :
               TryAgain(t, outcome) \/ GiveUp(t, outcome)

Spec == Init /\ [][Next]_vars
=============================================================================
