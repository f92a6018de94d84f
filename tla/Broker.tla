------------------------------- MODULE Broker -------------------------------
(****************************************************************************)
(* The Celery messages in Redis.  A message carries a task id and Celery's  *)
(* own count of retries, which is not the row's retry_count: a fresh        *)
(* dispatch starts it at 0, self.retry publishes it plus one.               *)
(*                                                                          *)
(* The pool is unordered: prefetching, countdowns and redelivery reorder    *)
(* what the Redis list would keep in order.  A delivered message stays      *)
(* unacknowledged until its task has returned (task_acks_late).             *)
(****************************************************************************)
EXTENDS TaskModel

CONSTANT Workers  \* the worker processes that take messages

VARIABLES
  queue,    \* <<task, retries>> -> copies that wait for a worker
  unacked   \* worker -> the message it holds, or NoDelivery

brokerVars == <<queue, unacked>>

Message == Tasks \X (0..MaxRetries)

\* restored: a copy of the held message is back in the queue already.
Delivery == [task : Tasks \cup {NoTask}, retries : 0..MaxRetries,
             restored : BOOLEAN]

NoDelivery == [task |-> NoTask, retries |-> 0, restored |-> FALSE]

BrokerTypeOK == /\ queue \in [Message -> Nat]
                /\ unacked \in [Workers -> Delivery]

BrokerInit == /\ queue = [m \in Message |-> 0]
              /\ unacked = [w \in Workers |-> NoDelivery]

TaskOf(w) == unacked[w].task

Put(t, retries) == queue' = [queue EXCEPT ![<<t, retries>>] = @ + 1]

Publish(t, retries) == Put(t, retries) /\ UNCHANGED unacked

\* Mutant of Dispatch: nothing is published.
Dispatch_Lost(t) == UNCHANGED brokerVars

\* CeleryTaskDispatcher.dispatch: execute_task.apply_async.
Dispatch(t) == Publish(t, 0)

Deliver(w, t, retries) ==
  /\ queue[<<t, retries>>] > 0
  /\ queue' = [queue EXCEPT ![<<t, retries>>] = @ - 1]
  /\ unacked' = [unacked EXCEPT ![w] =
                   [task |-> t, retries |-> retries, restored |-> FALSE]]

Acknowledge(w) == /\ unacked' = [unacked EXCEPT ![w] = NoDelivery]
                  /\ UNCHANGED queue

\* The visibility timeout ends while the worker holds the message.
Restore(w) ==
  /\ ~unacked[w].restored
  /\ Put(unacked[w].task, unacked[w].retries)
  /\ unacked' = [unacked EXCEPT ![w] = [task |-> @.task, retries |-> @.retries,
                                        restored |-> TRUE]]

\* Mutant of RequeueHeld: the message was acknowledged before the task ran.
RequeueHeld_EarlyAck(w) == Acknowledge(w)

\* The worker is lost (task_reject_on_worker_lost, or later the visibility
\* timeout): its message goes back to the queue, unless it has done so already.
RequeueHeld(w) ==
  /\ \/ unacked[w].restored /\ UNCHANGED queue
     \/ ~unacked[w].restored /\ Put(unacked[w].task, unacked[w].retries)
  /\ unacked' = [unacked EXCEPT ![w] = NoDelivery]
=============================================================================
