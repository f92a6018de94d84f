------------------------------- MODULE LoadTest -------------------------------
(****************************************************************************)
(* scripts/load_test.py against TaskMesh with its queues: submit_one posts  *)
(* every task once, under a semaphore, and takes the answer, or the lack of *)
(* one, for its result.  The API goes on whether or not the client waits.   *)
(****************************************************************************)
EXTENDS Routing, FiniteSets

CONSTANT Concurrency  \* --concurrency

\* Nobody but the script sends requests, so that a request is a submission.
ASSUME LoadTestAssumption == Concurrency \in Nat \ {0} /\ Requests = {}

VARIABLES
  reply,   \* task -> the status code the API has answered with, or 0
  result   \* task -> its SubmissionResult: before it is sent, under way,
           \* success, an HTTP error or an exception of the client

loadVars == <<vars, reply, result>>

Waiting(t) == result[t] = "sent"

LoadInit == /\ Init
            /\ reply = [t \in Tasks |-> 0]
            /\ result = [t \in Tasks |-> "unsent"]

Result(t, outcome) == result' = [result EXCEPT ![t] = outcome]

-----------------------------------------------------------------------------
\* submit_one enters the semaphore and posts.
Post(t) == /\ result[t] = "unsent"
           /\ Cardinality({u \in Tasks : Waiting(u)}) < Concurrency
           /\ Result(t, "sent")
           /\ UNCHANGED <<vars, reply>>

\* Mutant of Accepted: any answer will do.
Accepted_AnyReply(status_code) == status_code \in {201, 503}

Accepted(status_code) == status_code = 201

\* The answer arrives.
Answer(t) == /\ Waiting(t) /\ reply[t] # 0
             /\ Result(t, IF Accepted(reply[t]) THEN "success" ELSE "http_error")
             /\ UNCHANGED <<vars, reply>>

\* httpx.HTTPError: no connection, or none of the answer in time.  The request
\* may have reached the API or not.
ClientError(t) == Waiting(t) /\ Result(t, "exception") /\ UNCHANGED <<vars, reply>>

\* The API and the rest of the system: a task that was posted is inserted, and
\* its request answered when it has been dispatched (201) or has failed to be
\* (503, or nothing if the API has died).
Served(t) == \E c \in Clients : pending[c] = t /\ pending'[c] = NoTask

System ==
  /\ Next
  /\ \A t \in Tasks : row[t].status # row'[t].status /\ row[t].status = "ABSENT"
                        => result[t] # "unsent"
  /\ \E failure \in {0, 503} : reply' = [t \in Tasks |->
       IF ~Served(t) THEN reply[t] ELSE IF faults' = faults THEN 201 ELSE failure]
  /\ UNCHANGED result

LoadNext == System \/ \E t \in Tasks : Post(t) \/ Answer(t) \/ ClientError(t)

\* Only HIGH's workers are known to go on.
LoadSpec == /\ LoadInit /\ [][LoadNext /\ Routed]_loadVars
            /\ QueueFairness("high")

-----------------------------------------------------------------------------
(* Properties *)

LoadTypeOK ==
  /\ reply \in [Tasks -> {0, 201, 503}]
  /\ result \in [Tasks -> {"unsent", "sent", "success", "http_error", "exception"}]

\* "A successful POST proves acceptance and broker publication": a task that
\* was reported as a success exists and, until it is first tried, is on its
\* way to a worker, whatever crashes and whatever else fails to be published.
SuccessIsPublished ==
  \A t \in Tasks : result[t] = "success" =>
    /\ row[t].status # "ABSENT"
    /\ attempts[t] = <<>> => Carried(t)

\* A message of the task that no worker can drop without having claimed it: in
\* the queue, or held without a copy of it that others may have.
Firm(t) == \/ \E m \in Message : m[1] = t /\ queue[m] > 0
           \/ \E w \in Workers : /\ TaskOf(w) = t /\ ~unacked[w].restored
                                 /\ worker[w].pc = "claiming"

\* The inductive invariant behind it: what is dispatched is there, a task that
\* was never tried still waits, and the API says 201 to what it has published.
PublishedInv ==
  /\ LoadTypeOK
  /\ \A c \in Clients : pending[c] # NoTask => row[pending[c]].status # "ABSENT"
  /\ \A t \in Tasks :
       /\ attempts[t] = <<>> => row[t].status \in {"ABSENT", "QUEUED"}
       /\ reply[t] = 201 \/ result[t] = "success" =>
            row[t].status # "ABSENT" /\ (attempts[t] = <<>> => Firm(t))

\* A HIGH task that was reported as a success ends as long as the workers of
\* its queue work, whatever becomes of the others and of their backlogs ("a
\* HIGH task can never be stuck waiting behind a backlog of LOW tasks").
HighTasksEnd ==
  \A t \in HighTasks : result[t] = "success" ~> row[t].status \in Terminal
==============================================================================
