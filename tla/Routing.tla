------------------------------- MODULE Routing -------------------------------
(****************************************************************************)
(* TaskMesh as it is deployed: one queue per priority and, in Docker        *)
(* Compose and CI, dedicated workers for each queue.  What TaskMesh leaves  *)
(* open, which waiting message a worker takes, is settled by the queues.    *)
(****************************************************************************)
EXTENDS TaskMesh

CONSTANTS
  HighTasks, LowTasks,     \* by the priority they are submitted with; the
                           \* others are MEDIUM
  HighWorkers, LowWorkers  \* by the queue of their command (-Q); the others
                           \* are worker-medium's

ASSUME RoutingAssumption == /\ HighTasks \cap LowTasks = {}
                            /\ HighWorkers \cap LowWorkers = {}

PRIORITY_QUEUES == [HIGH |-> "high", MEDIUM |-> "medium", LOW |-> "low"]

Priority(t) == IF t \in HighTasks THEN "HIGH"
               ELSE IF t \in LowTasks THEN "LOW" ELSE "MEDIUM"

\* CeleryTaskDispatcher.dispatch: submissions, requeues, redispatches, recovery.
queue_for_priority(t) == PRIORITY_QUEUES[Priority(t)]

\* Mutant of RetryQueue: a retry goes to task_default_queue.
RetryQueue_Default(t) == "medium"

\* self.retry keeps the routing of the delivery it repeats.
RetryQueue(t) == queue_for_priority(t)

QueueOf(m) == IF m[2] = 0 THEN queue_for_priority(m[1]) ELSE RetryQueue(m[1])

\* The command of the worker's container: celery worker -Q.
Consumes(w) == IF w \in HighWorkers THEN "high"
               ELSE IF w \in LowWorkers THEN "low" ELSE "medium"

\* A worker takes messages of its own queue only.
Routed ==
  \A w \in Workers : worker[w].pc = "idle" /\ worker'[w].pc = "claiming" =>
    QueueOf(<<TaskOf(w)', unacked'[w].retries>>) = Consumes(w)

\* Only the workers that consume this queue are known to go on; the others may
\* hang for ever, in a job or anywhere else, with any backlog.
QueueFairness(q) ==
  LET serving == {w \in Workers : Consumes(w) = q}
      routed  == {m \in Message : QueueOf(m) = q} IN
  /\ \A w \in serving :
       WF_vars(WorkerStep(w) /\ UNCHANGED <<scanner, pending, requests>>)
  /\ WF_vars(/\ \E w \in serving, m \in routed : Receive(w, m[1], m[2])
             /\ UNCHANGED <<scanner, pending, requests>>)
  /\ \A c \in Clients : WF_vars(ApiDispatch(c) /\ UNCHANGED <<worker, scanner>>)
=============================================================================
