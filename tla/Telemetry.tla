------------------------------ MODULE Telemetry ------------------------------
(****************************************************************************)
(* The live half of GET /monitoring/summary: CeleryWorkerMonitor asks the   *)
(* workers who is there, what they execute and what they have prefetched,   *)
(* RedisQueueMonitor then asks Redis for the length of one queue after the  *)
(* other, while messages move on:                                           *)
(*                                                                          *)
(*   high, medium, low or control -> [scheduled ->] reserved -> active      *)
(*     -> gone                                                              *)
(*                                                                          *)
(* and back: the message of a lost worker returns to its queue, and so does *)
(* that of a live one when the visibility timeout ends, which leaves it in  *)
(* both places.  What is counted is copies of messages, a step of its own   *)
(* for every question.  The numbers are kept as the sets of copies they     *)
(* count.  One inspection stands for all.                                   *)
(****************************************************************************)
EXTENDS Naturals, Sequences, FiniteSets

CONSTANTS Copies,     \* of messages, in Redis or with a worker; a message is
                      \* named by its first copy
          Nodes,      \* the workers, by their node names
          NoNode,
          MaxLosses   \* bound: how many workers are lost

ASSUME TelemetryAssumption == NoNode \notin Nodes /\ MaxLosses \in Nat

VARIABLES
  copy,     \* copy -> where it is, a record of Whereabouts
  losses,   \* how many workers have been lost
  report    \* the inspection, a record of Report

telemetryVars == <<copy, losses, report>>

MONITORED_QUEUES == {"high", "medium", "low"}

Queues == MONITORED_QUEUES \cup {"control"}

\* Delivered to a worker and not acknowledged; it waits for its countdown
\* first, if it has one.
Unacked == {"scheduled", "reserved", "active"}

\* restored: a later copy of the message has been put into the queue.
Whereabouts == [place    : Queues \cup Unacked \cup {"unsent", "gone"},
                queue    : Queues,        \* its routing
                worker   : Nodes \cup {NoNode},
                message  : Copies,
                restored : BOOLEAN]

\* Mutants of Reads: what is reserved is asked for first; a queue is forgotten.
Reads_WithTheFlow == <<"reserved", "active", "high", "medium", "low">>
Reads_NoLow       == <<"active", "reserved", "high", "medium">>

\* The questions after the ping, in the order of the two inspect methods.
Reads == <<"active", "reserved", "high", "medium", "low">>

\* What the workers are asked for; nobody asks for what is scheduled.
Held == {"active", "reserved"}

\* still and returned are history, which only properties read: the copies that
\* have not moved since the ping; the messages that were in two places then or
\* have been put back since.
Report == [next      : 0..(Len(Reads) + 1),       \* the next question; 0: the ping
           listed    : SUBSET Nodes,            \* who answered the ping
           silent    : SUBSET Nodes,            \* who then missed a question
           counted   : [MONITORED_QUEUES \cup Held -> SUBSET Copies],
           workers_available : BOOLEAN, queues_available : BOOLEAN,
           still     : SUBSET Copies, returned : SUBSET Copies]

TelemetryTypeOK == /\ copy \in [Copies -> Whereabouts]
                   /\ losses \in Nat
                   /\ report \in Report

NothingCounted == [p \in MONITORED_QUEUES \cup Held |-> {}]

\* A copy of a message that waits in a queue.
Waiting(message, queue) ==
  [place |-> queue, queue |-> queue, worker |-> NoNode, message |-> message,
   restored |-> FALSE]

TelemetryInit ==
  /\ copy = [c \in Copies |-> [Waiting(c, "medium") EXCEPT !.place = "unsent"]]
  /\ losses = 0
  /\ report = [next |-> 0, listed |-> {}, silent |-> {}, counted |-> NothingCounted,
               workers_available |-> TRUE, queues_available |-> TRUE,
               still |-> {}, returned |-> {}]

-----------------------------------------------------------------------------
(* The messages: Celery and Redis *)

Change(c, whereabouts) == /\ copy' = [copy EXCEPT ![c] = whereabouts]
                          /\ report' = [report EXCEPT !.still = @ \ {c}]
                          /\ UNCHANGED losses

Move(c, place, worker) ==
  Change(c, [copy[c] EXCEPT !.place = place, !.worker = worker])

\* A dispatch or a retry; a retry is a message of its own.
Send(c, q) == copy[c].place = "unsent" /\ Change(c, Waiting(c, q))

\* A worker takes a message; one with a countdown it keeps aside.
Prefetch(c, w) == /\ copy[c].place \in Queues
                  /\ Move(c, "reserved", w) \/ Move(c, "scheduled", w)

Due(c) == copy[c].place = "scheduled" /\ Move(c, "reserved", copy[c].worker)

Start(c) == copy[c].place = "reserved" /\ Move(c, "active", copy[c].worker)

Finish(c) == copy[c].place = "active" /\ Move(c, "gone", NoNode)

\* What the report remembers of messages that are put back.
Returned(messages) == IF report.next = 0 THEN {} ELSE report.returned \cup messages

\* The visibility timeout ends while a worker holds the message, whether it
\* executes it or not: there are two copies now.
RestoreCopy(c, d) ==
  /\ copy[c].place \in Unacked /\ ~copy[c].restored
  /\ copy[d].place = "unsent"
  /\ copy' = [copy EXCEPT ![c].restored = TRUE,
                          ![d] = Waiting(copy[c].message, copy[c].queue)]
  /\ report' = [report EXCEPT !.still = @ \ {d}, !.returned = Returned({copy[c].message})]
  /\ UNCHANGED losses

\* A worker is lost: what it held goes back to its queue, unless it has done so.
Lose(w) ==
  LET held     == {c \in Copies : copy[c].worker = w}
      put_back == {c \in held : ~copy[c].restored} IN
  /\ losses < MaxLosses /\ held # {}
  /\ losses' = losses + 1
  /\ copy' = [c \in Copies |->
       IF c \in put_back THEN Waiting(copy[c].message, copy[c].queue)
       ELSE IF c \in held THEN [copy[c] EXCEPT !.place = "gone", !.worker = NoNode]
       ELSE copy[c]]
  /\ report' = [report EXCEPT !.still = @ \ held,
                              !.returned = Returned({copy[c].message : c \in put_back})]

-----------------------------------------------------------------------------
(* The inspection *)

\* The messages that a live worker holds and a queue, or another worker, too.
InTwoPlaces ==
  {copy[c].message : c \in {c \in Copies : \E d \in Copies \ {c} :
     /\ copy[c].message = copy[d].message
     /\ {copy[c].place, copy[d].place} \subseteq Queues \cup Unacked}}

\* Whoever answers within the timeout is listed.
Ping == /\ report.next = 0
        /\ \E answering \in SUBSET Nodes :
             report' = [report EXCEPT !.next = 1, !.listed = answering,
                          !.still = Copies, !.returned = InTwoPlaces]
        /\ UNCHANGED <<copy, losses>>

Asks(places) == report.next \in DOMAIN Reads /\ Reads[report.next] \in places

\* Nothing is counted of a worker that does not answer, nor of one that does
\* although it is not listed.
ReadHeld ==
  LET place == Reads[report.next] IN
  /\ Asks(Held)
  /\ \E answering \in SUBSET report.listed :
       report' = [report EXCEPT !.next = @ + 1,
         !.silent = @ \cup (report.listed \ answering),
         !.counted[place] = {c \in Copies : /\ copy[c].place = place
                                              /\ copy[c].worker \in answering}]
  /\ UNCHANGED <<copy, losses>>

\* LLEN.
ReadQueue ==
  LET place == Reads[report.next] IN
  /\ Asks(MONITORED_QUEUES)
  /\ report' = [report EXCEPT !.next = @ + 1,
       !.counted[place] = {c \in Copies : copy[c].place = place}]
  /\ UNCHANGED <<copy, losses>>

\* An exception of the worker inspection: no worker is reported, and the
\* queues are asked all the same.
WorkersUnavailable ==
  /\ report.next = 0 \/ Asks(Held)
  /\ report' = [report EXCEPT !.next = Cardinality(Held) + 1, !.listed = {},
       !.counted = NothingCounted, !.workers_available = FALSE,
       !.still = Copies, !.returned = InTwoPlaces]
  /\ UNCHANGED <<copy, losses>>

\* An exception of the queue inspection: no depth is reported.
QueuesUnavailable ==
  /\ Asks(MONITORED_QUEUES)
  /\ report' = [report EXCEPT !.next = Len(Reads) + 1, !.queues_available = FALSE,
       !.counted = [p \in DOMAIN NothingCounted |-> IF p \in Held THEN @[p] ELSE {}]]
  /\ UNCHANGED <<copy, losses>>

TelemetryNext ==
  \/ \E c \in Copies :
       \/ \E q \in Queues : Send(c, q)
       \/ \E w \in Nodes : Prefetch(c, w)
       \/ Due(c) \/ Start(c) \/ Finish(c)
       \/ \E d \in Copies : RestoreCopy(c, d)
  \/ \E w \in Nodes : Lose(w)
  \/ Ping \/ ReadHeld \/ ReadQueue \/ WorkersUnavailable \/ QueuesUnavailable

TelemetrySpec == TelemetryInit /\ [][TelemetryNext]_telemetryVars

-----------------------------------------------------------------------------
(* Properties *)

Reported == report.next = Len(Reads) + 1

\* A message is counted twice only if it was in two places when the inspection
\* began, or has been put back since: the inspection asks against the direction
\* in which messages move.
NothingCountedTwice ==
  \A p, q \in DOMAIN report.counted :
    \A c \in report.counted[p], d \in report.counted[q] :
      copy[c].message = copy[d].message /\ <<c, p>> # <<d, q>>
        => copy[c].message \in report.returned

\* The question about the place was answered, for what this worker holds.
Answered(place, worker) ==
  IF place \in Held THEN worker \in report.listed \ report.silent
                    ELSE report.queues_available

\* What stays where it is while the inspection goes on is counted there, unless
\* nobody answers for the place: only what moves, or what is scheduled or in
\* the control queue, may be counted nowhere.
StillIsCounted ==
  Reported => \A c \in report.still, p \in DOMAIN report.counted :
    copy[c].place = p /\ Answered(p, copy[c].worker) => c \in report.counted[p]

(* The inductive invariant behind both *)

\* A copy waits in the queue it was routed to, or is held by a worker; what is
\* not sent is no message's copy but its own.
CopiesAreSomewhere ==
  \A c \in Copies :
    /\ copy[c].place \in Queues => copy[c].place = copy[c].queue
    /\ copy[c].place \in Unacked <=> copy[c].worker # NoNode
    /\ IF copy[c].place = "unsent" THEN copy[c].message = c
                                   ELSE copy[copy[c].message].place # "unsent"

\* What has not been asked has not been counted.
AskedInOrder ==
  /\ \A n \in DOMAIN Reads : report.next <= n => report.counted[Reads[n]] = {}
  /\ report.next < Len(Reads) + 1 => report.queues_available
  /\ report.next = 0 => report.still = {} /\ report.returned = {}

\* Where a copy that was counted at a place may have come to since then, unless
\* its message has been put back.
Downstream(p) == (CASE p \in MONITORED_QUEUES -> {p} \cup Unacked
                    [] p = "reserved"         -> Held
                    [] p = "active"           -> {"active"}) \cup {"gone"}

CountedMoveOn ==
  \A p \in DOMAIN report.counted : \A c \in report.counted[p] :
    /\ copy[c].place # "unsent"
    /\ copy[c].message \notin report.returned =>
         /\ copy[c].place \in Downstream(p)
         /\ p \in MONITORED_QUEUES => copy[c].queue = p

\* A copy that has been acknowledged before it could be counted.
Spent(c) == /\ copy[c].place = "gone"
            /\ \A p \in DOMAIN report.counted : c \notin report.counted[p]

\* Of a message that was in one place when the inspection began, and has not
\* been put back, one copy at most can be counted.
OneCanBeCounted ==
  report.next > 0 =>
    \A c, d \in Copies :
      c # d /\ copy[c].message = copy[d].message /\ copy[c].message \notin report.returned
        => Spent(c) \/ Spent(d)

\* StillIsCounted, of the questions asked so far.
StillCountedSoFar ==
  \A c \in report.still, n \in DOMAIN Reads : n < report.next =>
    (copy[c].place = Reads[n] /\ Answered(Reads[n], copy[c].worker)
       => c \in report.counted[Reads[n]])

TelemetryInv == /\ TelemetryTypeOK /\ CopiesAreSomewhere /\ AskedInOrder
                /\ CountedMoveOn /\ OneCanBeCounted
                /\ NothingCountedTwice /\ StillCountedSoFar
=============================================================================
