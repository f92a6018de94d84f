--------------------------------- MODULE Api ---------------------------------
(****************************************************************************)
(* The requests of the HTTP API that change something: POST /tasks,         *)
(* POST /tasks/{id}/requeue and POST /tasks/{id}/redispatch.  Each commits  *)
(* (or only reads) first and publishes a message afterwards: the two are    *)
(* not atomic.                                                              *)
(****************************************************************************)
EXTENDS TaskStore, Broker, Environment

CONSTANTS
  Clients,     \* requests that may be in flight at once
  Requests,    \* the operators' requests: "requeue", "redispatch" or both
  MaxRequests  \* bound: how many of them are made

ASSUME ApiAssumption == Requests \subseteq {"requeue", "redispatch"}

VARIABLES
  pending,  \* client -> the task its request is about to dispatch, or NoTask
  requests  \* how many of Requests have been made

ApiTypeOK == /\ pending \in [Clients -> Tasks \cup {NoTask}]
             /\ requests \in Nat

ApiInit == pending = [c \in Clients |-> NoTask] /\ requests = 0

ToDispatch(c, t) == /\ pending[c] = NoTask
                    /\ pending' = [pending EXCEPT ![c] = t]

Request(kind) == /\ kind \in Requests
                 /\ requests < MaxRequests
                 /\ requests' = requests + 1

-----------------------------------------------------------------------------
\* submit_task up to create_task's commit.
Submit(c, t) ==
  /\ ToDispatch(c, t)
  /\ CreateTask(t)
  /\ UNCHANGED <<brokerVars, requests, now, faults>>

\* requeue_task up to the commit; it is refused unless DEAD_LETTER.
Requeue(c, t) ==
  /\ Request("requeue")
  /\ ToDispatch(c, t)
  /\ RequeueDeadLetterTask(t)
  /\ UNCHANGED <<brokerVars, now, faults>>

\* redispatch_task reads the status; what it read may be stale when it
\* dispatches.
Redispatch(c, t) ==
  /\ Request("redispatch")
  /\ ToDispatch(c, t)
  /\ Queued(t)
  /\ UNCHANGED <<storeVars, brokerVars, now, faults>>

ApiDispatch(c) ==
  /\ pending[c] # NoTask
  /\ Dispatch(pending[c])
  /\ pending' = [pending EXCEPT ![c] = NoTask]
  /\ UNCHANGED <<storeVars, requests, now, faults>>

\* TaskDispatchError (503), or the API process dies before it dispatches.
ApiDispatchFails(c) ==
  /\ Inject("publish_error") \/ Inject("service_crash")
  /\ pending[c] # NoTask
  /\ pending' = [pending EXCEPT ![c] = NoTask]
  /\ UNCHANGED <<storeVars, brokerVars, requests, now>>

ApiNext == \E c \in Clients :
             \/ \E t \in Tasks : Submit(c, t) \/ Requeue(c, t) \/ Redispatch(c, t)
             \/ ApiDispatch(c) \/ ApiDispatchFails(c)
=============================================================================
