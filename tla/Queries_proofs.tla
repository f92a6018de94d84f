--------------------------- MODULE Queries_proofs ---------------------------
(****************************************************************************)
(* What only reads: the inspection behind the summary, a client that pages  *)
(* through a filter and the load test's report, for any number of messages, *)
(* tasks and results, any page limit and any latencies.                     *)
(****************************************************************************)
EXTENDS Telemetry, Listing, LoadReport, TLAPS, FiniteSetTheorems

(* The inspection *)

\* The five questions, each about a place of its own.
LEMMA ReadsFacts ==
  /\ Len(Reads) = 5 /\ DOMAIN Reads = 1..5
  /\ Reads[1] = "active" /\ Reads[2] = "reserved"
  /\ Reads[3] = "high" /\ Reads[4] = "medium" /\ Reads[5] = "low"
BY DEF Reads

LEMMA HeldFacts == Cardinality(Held) = 2
<1>1. IsFiniteSet({"active"}) /\ Cardinality({"active"}) = 1
  BY FS_Singleton
<1>2. Cardinality({"active"} \cup {"reserved"}) = 2
  BY <1>1, FS_AddElement
<1>3. Held = {"active"} \cup {"reserved"}
  BY DEF Held
<1> QED
  BY <1>2, <1>3

\* The inspection starts with nothing asked, counted or still.
LEMMA TelemetryStarts == TelemetryInit => TelemetryInv
<1> SUFFICES ASSUME TelemetryInit PROVE TelemetryInv
  OBVIOUS
<1> USE ReadsFacts DEF TelemetryInit
<1>1. TelemetryTypeOK
  <2>1. \A c \in Copies : [Waiting(c, "medium") EXCEPT !.place = "unsent"] \in Whereabouts
    BY DEF Whereabouts, Waiting, Queues, MONITORED_QUEUES
  <2>2. NothingCounted \in [MONITORED_QUEUES \cup Held -> SUBSET Copies]
    BY DEF NothingCounted
  <2>3. report \in Report
    BY <2>2 DEF Report
  <2> QED
    BY <2>1, <2>3 DEF TelemetryTypeOK
<1>2. \A p \in DOMAIN report.counted : report.counted[p] = {}
  BY DEF NothingCounted
<1>3. \A n \in DOMAIN Reads : report.counted[Reads[n]] = {}
  BY DEF NothingCounted, MONITORED_QUEUES, Held
<1>4. CopiesAreSomewhere
  BY DEF CopiesAreSomewhere, Waiting, Queues, Unacked, MONITORED_QUEUES
<1> QED
  BY <1>1, <1>2, <1>3, <1>4
  DEF TelemetryInv, AskedInOrder, CountedMoveOn, OneCanBeCounted,
      NothingCountedTwice, StillCountedSoFar

\* Until it begins the inspection has counted nothing.
LEMMA NothingYet ==
  ASSUME TelemetryInv, report.next = 0
  PROVE  \A p \in DOMAIN report.counted : report.counted[p] = {}
<1>1. \A p \in DOMAIN report.counted : \E n \in DOMAIN Reads : p = Reads[n]
  BY ReadsFacts DEF TelemetryInv, TelemetryTypeOK, Report, MONITORED_QUEUES, Held
<1> QED
  BY <1>1, ReadsFacts DEF TelemetryInv, AskedInOrder

\* Copies that have not been sent are no other's message.
LEMMA UnsentAlone ==
  ASSUME TelemetryInv, NEW c \in Copies, copy[c].place = "unsent"
  PROVE  copy[c].message = c /\ \A d \in Copies \ {c} : copy[d].message # c
BY DEF TelemetryInv, CopiesAreSomewhere

\* What a step of the messages may do without taking back what the inspection
\* has found: a copy moves on, or its message is one of those that return.
ReportKept(moved, back) ==
  /\ report' \in Report
  /\ report'.counted = report.counted /\ report'.next = report.next
  /\ report'.listed = report.listed /\ report'.silent = report.silent
  /\ report'.queues_available = report.queues_available
  /\ report'.still = report.still \ moved /\ report'.returned = back
  /\ report.next = 0 => back = {}
  /\ report.next > 0 => report.returned \subseteq back

SentOnce(c) == copy[c].place # "unsent" =>
  /\ copy'[c].place # "unsent"
  /\ copy'[c].message = copy[c].message /\ copy'[c].queue = copy[c].queue

MovesOn(c, back) == report.next > 0 =>
  /\ copy'[c].message = copy[c].message \/ copy'[c].message \in back
  /\ copy[c].message \notin back => \A p \in MONITORED_QUEUES \cup Held :
       copy[c].place \in Downstream(p) => copy'[c].place \in Downstream(p)

Onward(moved, back) ==
  /\ copy' \in [Copies -> Whereabouts] /\ losses' \in Nat /\ CopiesAreSomewhere'
  /\ \A c \in Copies :
       /\ c \notin moved => copy'[c].place = copy[c].place /\ copy'[c].worker = copy[c].worker
       /\ copy[c].place = "gone" => copy'[c].place = "gone"
       /\ SentOnce(c) /\ MovesOn(c, back)

LEMMA MessagesKeep ==
  ASSUME TelemetryInv, NEW moved, NEW back, ReportKept(moved, back), Onward(moved, back)
  PROVE  TelemetryInv'
<1> USE DEF ReportKept, Onward, SentOnce, MovesOn
<1> USE ReadsFacts
<1>1. /\ report \in Report /\ copy \in [Copies -> Whereabouts]
      /\ DOMAIN report.counted = MONITORED_QUEUES \cup Held
      /\ \A p \in MONITORED_QUEUES \cup Held : report.counted[p] \subseteq Copies
      /\ report.still \subseteq Copies /\ report.next \in Nat
  BY DEF TelemetryInv, TelemetryTypeOK, Report
<1>2. TelemetryTypeOK'
  BY DEF TelemetryTypeOK
<1>3. AskedInOrder'
  BY DEF TelemetryInv, AskedInOrder
<1>4. ASSUME NEW p \in DOMAIN report.counted, NEW c \in report.counted[p]
      PROVE  /\ c \in Copies /\ report.next > 0 /\ copy[c].place # "unsent"
             /\ copy'[c].message = copy[c].message
  BY <1>1, NothingYet DEF TelemetryInv, CountedMoveOn
<1>5. CountedMoveOn'
  <2> SUFFICES ASSUME NEW p \in DOMAIN report.counted, NEW c \in report.counted[p]
               PROVE  /\ copy'[c].place # "unsent"
                      /\ copy'[c].message \notin back =>
                           /\ copy'[c].place \in Downstream(p)
                           /\ p \in MONITORED_QUEUES => copy'[c].queue = p
    BY DEF CountedMoveOn
  <2> QED
    BY <1>1, <1>4 DEF TelemetryInv, CountedMoveOn
<1>6. NothingCountedTwice'
  BY <1>4 DEF TelemetryInv, NothingCountedTwice
<1>7. OneCanBeCounted'
  BY <1>1 DEF TelemetryInv, OneCanBeCounted, Spent
<1>8. StillCountedSoFar'
  BY <1>1 DEF TelemetryInv, StillCountedSoFar, Answered
<1> QED
  BY <1>2, <1>3, <1>5, <1>6, <1>7, <1>8 DEF TelemetryInv

\* The places are apart.
LEMMA PlacesApart ==
  /\ Queues \cap Unacked = {}
  /\ {"gone", "unsent"} \cap (Queues \cup Unacked) = {}
  /\ \A p \in MONITORED_QUEUES \cup Held : "gone" \in Downstream(p) /\ "unsent" \notin Downstream(p)
BY DEF Queues, MONITORED_QUEUES, Unacked, Held, Downstream

\* What every copy is, and what returns.
LEMMA CopyFacts ==
  ASSUME TelemetryInv
  PROVE  /\ report \in Report /\ copy \in [Copies -> Whereabouts] /\ losses \in Nat
         /\ \A c \in Copies : /\ copy[c] \in Whereabouts
                              /\ copy[c].message \in Copies /\ copy[c].queue \in Queues
         /\ report.next = 0 => report.returned = {}
BY DEF TelemetryInv, TelemetryTypeOK, AskedInOrder, Whereabouts

\* A message is sent.
LEMMA SendKeeps ==
  ASSUME TelemetryInv, NEW c \in Copies, NEW q \in Queues, Send(c, q)
  PROVE  TelemetryInv'
<1>1. /\ UNCHANGED losses /\ copy[c].place = "unsent"
      /\ copy' = [copy EXCEPT ![c] = Waiting(c, q)]
      /\ report' = [report EXCEPT !.still = @ \ {c}]
  BY DEF Send, Change
<1>2. /\ copy'[c] = Waiting(c, q) /\ \A d \in Copies \ {c} : copy'[d] = copy[d]
      /\ copy[c].message = c /\ \A d \in Copies \ {c} : copy[d].message # c
  BY <1>1, UnsentAlone, CopyFacts
<1>3. /\ copy'[c].place = q /\ copy'[c].queue = q /\ copy'[c].worker = NoNode
      /\ copy'[c].message = c
  BY <1>2 DEF Waiting
<1>4. copy' \in [Copies -> Whereabouts]
  BY <1>1, CopyFacts DEF Waiting, Whereabouts
<1>5. CopiesAreSomewhere'
  BY <1>2, <1>3, CopyFacts, PlacesApart DEF TelemetryInv, CopiesAreSomewhere
<1>6. ReportKept({c}, report.returned)
  BY <1>1, CopyFacts DEF ReportKept, Report
<1>7. Onward({c}, report.returned)
  BY <1>1, <1>2, <1>3, <1>4, <1>5, CopyFacts, PlacesApart DEF Onward, SentOnce, MovesOn
<1> QED
  BY <1>6, <1>7, MessagesKeep

\* A copy is taken by a worker, and acknowledged in the end.
LEMMA MoveKeeps ==
  ASSUME TelemetryInv, NEW c \in Copies, NEW place, NEW w \in Nodes \cup {NoNode},
         Move(c, place, w),
         \/ copy[c].place \in Queues /\ place \in {"reserved", "scheduled"} /\ w \in Nodes
         \/ copy[c].place = "scheduled" /\ place = "reserved" /\ w = copy[c].worker
         \/ copy[c].place = "reserved" /\ place = "active" /\ w = copy[c].worker
         \/ copy[c].place = "active" /\ place = "gone" /\ w = NoNode
  PROVE  TelemetryInv'
<1>1. /\ UNCHANGED losses
      /\ copy' = [copy EXCEPT ![c] = [copy[c] EXCEPT !.place = place, !.worker = w]]
      /\ report' = [report EXCEPT !.still = @ \ {c}]
  BY DEF Move, Change
<1>2. \A d \in Copies \ {c} : copy'[d] = copy[d]
  BY <1>1, CopyFacts
<1>3. /\ copy'[c].place = place /\ copy'[c].worker = w
      /\ copy'[c].message = copy[c].message /\ copy'[c].queue = copy[c].queue
  BY <1>1, CopyFacts DEF Whereabouts
<1>4. copy' \in [Copies -> Whereabouts]
  BY <1>1, CopyFacts DEF Whereabouts, Unacked
<1>5. copy[c].place \notin {"gone", "unsent"} /\ place \in Unacked \cup {"gone"}
  BY PlacesApart DEF Unacked
<1>6. place \in Unacked <=> w # NoNode
  BY TelemetryAssumption, PlacesApart DEF TelemetryInv, CopiesAreSomewhere, Unacked
<1>7. CopiesAreSomewhere'
  BY <1>2, <1>3, <1>5, <1>6, CopyFacts, PlacesApart DEF TelemetryInv, CopiesAreSomewhere
<1>8. \A p \in MONITORED_QUEUES \cup Held :
        copy[c].place \in Downstream(p) => copy'[c].place \in Downstream(p)
  BY <1>3 DEF Downstream, MONITORED_QUEUES, Held, Unacked, Queues
<1>9. ReportKept({c}, report.returned)
  BY <1>1, CopyFacts DEF ReportKept, Report
<1>10. Onward({c}, report.returned)
  BY <1>1, <1>2, <1>3, <1>4, <1>5, <1>7, <1>8, CopyFacts, PlacesApart
  DEF Onward, SentOnce, MovesOn
<1> QED
  BY <1>9, <1>10, MessagesKeep

\* What is put back may be counted twice from now on.
LEMMA ReturnedFacts ==
  ASSUME TelemetryInv, NEW messages \in SUBSET Copies
  PROVE  /\ Returned(messages) \in SUBSET Copies
         /\ report.next = 0 => Returned(messages) = {}
         /\ report.next > 0 => /\ report.returned \subseteq Returned(messages)
                               /\ messages \subseteq Returned(messages)
BY CopyFacts DEF Returned, Report

\* The visibility timeout: a copy that was not there waits in the queue.
LEMMA RestoreKeeps ==
  ASSUME TelemetryInv, NEW c \in Copies, NEW d \in Copies, RestoreCopy(c, d)
  PROVE  TelemetryInv'
<1> DEFINE back == Returned({copy[c].message})
           again == Waiting(copy[c].message, copy[c].queue)
<1>1. /\ UNCHANGED losses /\ copy[c].place \in Unacked /\ copy[d].place = "unsent"
      /\ copy' = [copy EXCEPT ![c].restored = TRUE, ![d] = again]
      /\ report' = [report EXCEPT !.still = @ \ {d}, !.returned = back]
  BY DEF RestoreCopy
<1>2. c # d
  BY <1>1, PlacesApart
<1>3. /\ copy'[c] = [copy[c] EXCEPT !.restored = TRUE] /\ copy'[d] = again
      /\ \A e \in Copies \ {c, d} : copy'[e] = copy[e]
  BY <1>1, <1>2, CopyFacts
<1>4. /\ copy'[c].place = copy[c].place /\ copy'[c].worker = copy[c].worker
      /\ copy'[c].message = copy[c].message /\ copy'[c].queue = copy[c].queue
  BY <1>3, CopyFacts DEF Whereabouts
<1>5. /\ copy'[d].place = copy[c].queue /\ copy'[d].queue = copy[c].queue
      /\ copy'[d].worker = NoNode /\ copy'[d].message = copy[c].message
  BY <1>3 DEF Waiting
<1>6. copy' \in [Copies -> Whereabouts]
  <2>1. again \in Whereabouts /\ [copy[c] EXCEPT !.restored = TRUE] \in Whereabouts
    BY CopyFacts DEF Waiting, Whereabouts
  <2> HIDE DEF again
  <2> QED
    BY <1>1, <1>2, <2>1, CopyFacts
<1>7. /\ copy[copy[c].message].place # "unsent"
      /\ \A e \in Copies \ {d} : copy[e].message # d
  BY <1>1, UnsentAlone, PlacesApart DEF TelemetryInv, CopiesAreSomewhere
<1>8. CopiesAreSomewhere'
  <2> SUFFICES ASSUME NEW e \in Copies
               PROVE  /\ copy'[e].place \in Queues => copy'[e].place = copy'[e].queue
                      /\ copy'[e].place \in Unacked <=> copy'[e].worker # NoNode
                      /\ IF copy'[e].place = "unsent" THEN copy'[e].message = e
                         ELSE copy'[copy'[e].message].place # "unsent"
    BY DEF CopiesAreSomewhere
  <2>1. \A f \in Copies : f # d => copy'[f].place = copy[f].place
    BY <1>3, <1>4
  <2>2. CASE e = d
    BY <1>2, <1>5, <1>7, <2>1, <2>2, CopyFacts, PlacesApart
  <2>3. CASE e # d
    <3>1. /\ copy'[e].place = copy[e].place /\ copy'[e].worker = copy[e].worker
          /\ copy'[e].message = copy[e].message /\ copy'[e].queue = copy[e].queue
      BY <1>3, <1>4, <2>3
    <3>2. copy[e].message \in Copies \ {d}
      BY <1>7, <2>3, CopyFacts
    <3> QED
      BY <2>1, <3>1, <3>2 DEF TelemetryInv, CopiesAreSomewhere
  <2> QED
    BY <2>2, <2>3
<1>9. /\ back \in SUBSET Copies
      /\ report.next = 0 => back = {}
      /\ report.next > 0 => report.returned \subseteq back /\ copy[c].message \in back
  BY ReturnedFacts, CopyFacts
<1> HIDE DEF back, again
<1>10. ReportKept({d}, back)
  <2>1. report \in Report /\ back \in SUBSET Copies
    BY <1>9, CopyFacts
  <2>2. report' = [report EXCEPT !.still = @ \ {d}, !.returned = back]
    BY <1>1
  <2>3. report' \in Report
    BY <2>1, <2>2 DEF Report
  <2> QED
    BY <1>9, <2>1, <2>2, <2>3 DEF ReportKept, Report
<1>11. ASSUME NEW e \in Copies
       PROVE  /\ e \notin {d} => /\ copy'[e].place = copy[e].place
                                 /\ copy'[e].worker = copy[e].worker
              /\ copy[e].place = "gone" => copy'[e].place = "gone"
              /\ SentOnce(e) /\ MovesOn(e, back)
  <2>1. CASE e = d
    BY <1>1, <1>5, <1>9, <2>1, PlacesApart DEF SentOnce, MovesOn
  <2>2. CASE e # d
    BY <1>3, <1>4, <2>2 DEF SentOnce, MovesOn
  <2> QED
    BY <2>1, <2>2
<1>12. Onward({d}, back)
  BY <1>1, <1>6, <1>8, <1>11, CopyFacts DEF Onward
<1> QED
  BY <1>10, <1>12, MessagesKeep

\* A worker that is lost: what it held returns, or has returned.
LEMMA LoseKeeps ==
  ASSUME TelemetryInv, NEW w \in Nodes, Lose(w)
  PROVE  TelemetryInv'
<1> DEFINE held == {c \in Copies : copy[c].worker = w}
           put_back == {c \in held : ~copy[c].restored}
           back == Returned({copy[c].message : c \in put_back})
<1>1. /\ copy' = [c \in Copies |->
           IF c \in put_back THEN Waiting(copy[c].message, copy[c].queue)
           ELSE IF c \in held THEN [copy[c] EXCEPT !.place = "gone", !.worker = NoNode]
           ELSE copy[c]]
      /\ report' = [report EXCEPT !.still = @ \ held, !.returned = back]
      /\ losses' = losses + 1
  BY Zenon DEF Lose
<1>2. /\ back \in SUBSET Copies
      /\ report.next = 0 => back = {}
      /\ report.next > 0 => /\ report.returned \subseteq back
                            /\ \A c \in put_back : copy[c].message \in back
  <2>1. {copy[c].message : c \in put_back} \in SUBSET Copies
    BY CopyFacts
  <2> QED
    BY <2>1, ReturnedFacts
<1>3. \A c \in held : copy[c].place \in Unacked
  BY TelemetryAssumption DEF TelemetryInv, CopiesAreSomewhere
<1>4. put_back \subseteq held /\ held \subseteq Copies
  OBVIOUS
<1> HIDE DEF held, put_back, back
<1>5. copy' \in [Copies -> Whereabouts]
  <2>1. ASSUME NEW c \in Copies
        PROVE  /\ Waiting(copy[c].message, copy[c].queue) \in Whereabouts
               /\ [copy[c] EXCEPT !.place = "gone", !.worker = NoNode] \in Whereabouts
    BY CopyFacts DEF Waiting, Whereabouts
  <2> QED
    BY <1>1, <2>1, CopyFacts
<1>6. ASSUME NEW c \in Copies
      PROVE  /\ copy'[c].message = copy[c].message /\ copy'[c].queue = copy[c].queue
             /\ c \in put_back => copy'[c].place = copy[c].queue /\ copy'[c].worker = NoNode
             /\ c \in held \ put_back => copy'[c].place = "gone" /\ copy'[c].worker = NoNode
             /\ c \notin held => /\ copy'[c].place = copy[c].place
                                 /\ copy'[c].worker = copy[c].worker
  <2>1. copy'[c] = IF c \in put_back THEN Waiting(copy[c].message, copy[c].queue)
                   ELSE IF c \in held
                        THEN [copy[c] EXCEPT !.place = "gone", !.worker = NoNode]
                   ELSE copy[c]
    BY <1>1
  <2> QED
    BY <1>4, <2>1, CopyFacts DEF Waiting, Whereabouts
<1>7. \A c \in Copies : /\ copy'[c].place = "unsent" <=> copy[c].place = "unsent"
                        /\ copy[c].place = "gone" => copy'[c].place = "gone"
  BY <1>3, <1>4, <1>6, CopyFacts, PlacesApart
<1>8. CopiesAreSomewhere'
  <2> SUFFICES ASSUME NEW c \in Copies
               PROVE  /\ copy'[c].place \in Queues => copy'[c].place = copy'[c].queue
                      /\ copy'[c].place \in Unacked <=> copy'[c].worker # NoNode
                      /\ IF copy'[c].place = "unsent" THEN copy'[c].message = c
                         ELSE copy'[copy'[c].message].place # "unsent"
    BY DEF CopiesAreSomewhere
  <2>1. copy[c].message \in Copies /\ copy[c].queue \in Queues
    BY CopyFacts
  <2> QED
    BY <1>4, <1>6, <1>7, <2>1, PlacesApart DEF TelemetryInv, CopiesAreSomewhere
<1>9. ReportKept(held, back)
  <2>1. report \in Report /\ back \in SUBSET Copies
    BY <1>2, CopyFacts
  <2>2. report' = [report EXCEPT !.still = @ \ held, !.returned = back]
    BY <1>1
  <2>3. report' \in Report
    BY <2>1, <2>2 DEF Report
  <2> QED
    BY <1>2, <2>1, <2>2, <2>3 DEF ReportKept, Report
<1>10. ASSUME NEW c \in Copies PROVE SentOnce(c) /\ MovesOn(c, back)
  <2>1. report.next > 0 /\ copy[c].message \notin back =>
          copy'[c].place = copy[c].place \/ copy'[c].place = "gone"
    BY <1>2, <1>4, <1>6
  <2> QED
    BY <1>6, <1>7, <2>1, PlacesApart DEF SentOnce, MovesOn
<1>11. Onward(held, back)
  <2>1. losses' \in Nat
    <3>1. losses' = losses + 1 /\ losses \in Nat
      BY <1>1, CopyFacts
    <3> QED
      BY <3>1
  <2> QED
    BY <1>5, <1>6, <1>7, <1>8, <1>10, <2>1 DEF Onward
<1> QED
  BY <1>9, <1>11, MessagesKeep

\* An answer counts what is at the place that was asked about, all of it if
\* those who answer for it did: no copy that was counted before is there, and
\* no other copy of its message either.
LEMMA AnswerKeeps ==
  ASSUME TelemetryInv, UNCHANGED <<copy, losses>>,
         report.next \in DOMAIN Reads, NEW place, place = Reads[report.next],
         report' \in Report, report'.next = report.next + 1,
         report'.listed = report.listed, report.silent \subseteq report'.silent,
         report'.queues_available = report.queues_available,
         report'.still = report.still, report'.returned = report.returned,
         \A p \in (MONITORED_QUEUES \cup Held) \ {place} :
           report'.counted[p] = report.counted[p],
         \A c \in Copies : c \in report'.counted[place] => copy[c].place = place,
         \A c \in Copies : c \notin report'.counted[place] =>
           \/ copy[c].place # place
           \/ place \in Held /\ copy[c].worker \notin report.listed \ report'.silent
  PROVE  TelemetryInv'
<1> USE ReadsFacts
<1> DEFINE k == report.next
<1>1. /\ copy \in [Copies -> Whereabouts] /\ report \in Report
      /\ k \in 1..5
  BY DEF TelemetryInv, TelemetryTypeOK
<1>2. /\ DOMAIN report.counted = MONITORED_QUEUES \cup Held
      /\ \A n \in 1..5 : Reads[n] \in MONITORED_QUEUES \cup Held
      /\ \A n \in 1..5 : n # k => Reads[n] # place
      /\ \A p \in MONITORED_QUEUES \cup Held : \E n \in 1..5 : p = Reads[n]
  BY <1>1 DEF Report, MONITORED_QUEUES, Held
<1> DEFINE S == report'.counted[place]
<1>3. S \subseteq Copies /\ \A c \in S : copy[c].place = place
  BY <1>1, <1>2 DEF Report
<1>4. /\ DOMAIN report'.counted = MONITORED_QUEUES \cup Held
      /\ report'.counted[place] = S
  BY DEF Report
<1>5. TelemetryTypeOK'
  BY <1>1 DEF TelemetryInv, TelemetryTypeOK
<1> HIDE DEF S
<1>6. CopiesAreSomewhere'
  BY DEF TelemetryInv, CopiesAreSomewhere
<1>7. AskedInOrder'
  <2>1. \A n \in 1..5 : k + 1 <= n => report'.counted[Reads[n]] = {}
    BY <1>1, <1>2, <1>4 DEF TelemetryInv, AskedInOrder
  <2>2. k < 6 /\ report.queues_available
    BY <1>1 DEF TelemetryInv, AskedInOrder
  <2> QED
    BY <1>1, <2>1, <2>2 DEF AskedInOrder
<1>8. place \in MONITORED_QUEUES \cup Held /\ place \notin {"gone", "unsent"}
  BY <1>1, <1>2 DEF MONITORED_QUEUES, Held
<1>9. CountedMoveOn'
  <2>1. ASSUME NEW c \in S
        PROVE  /\ copy[c].place \in Downstream(place)
               /\ place \in MONITORED_QUEUES => copy[c].queue = place
    BY <1>3, <1>8, <2>1
    DEF Downstream, MONITORED_QUEUES, Held, Queues, TelemetryInv, CopiesAreSomewhere
  <2>2. ASSUME NEW p \in MONITORED_QUEUES \cup Held, NEW c \in report'.counted[p]
        PROVE  /\ copy[c].place # "unsent"
               /\ copy[c].message \notin report.returned =>
                    /\ copy[c].place \in Downstream(p)
                    /\ p \in MONITORED_QUEUES => copy[c].queue = p
    BY <1>2, <1>3, <1>4, <1>8, <2>1, <2>2 DEF TelemetryInv, CountedMoveOn
  <2> QED
    BY <1>4, <2>2 DEF CountedMoveOn, Downstream
<1>10. OneCanBeCounted'
  <2>1. \A c \in Copies : Spent(c) => Spent(c)'
    BY <1>2, <1>3, <1>4, <1>8 DEF Spent
  <2> QED
    BY <1>1, <2>1 DEF TelemetryInv, OneCanBeCounted
<1>11. NothingCountedTwice'
  \* Of a message that is counted now, none was before.
  <2>1. ASSUME NEW p \in (MONITORED_QUEUES \cup Held) \ {place},
               NEW c \in report.counted[p], NEW d \in S,
               copy[c].message = copy[d].message, copy[d].message \notin report.returned
        PROVE  FALSE
    <3>1. c \in Copies /\ d \in Copies /\ copy[d].place = place /\ k > 0
      BY <1>1, <1>3 DEF Report
    <3>2. ~Spent(c) /\ ~Spent(d)
      BY <1>2, <1>8, <3>1 DEF Spent
    <3>3. c = d
      BY <2>1, <3>1, <3>2 DEF TelemetryInv, OneCanBeCounted
    <3>4. /\ place \in Downstream(p)
          /\ p \in MONITORED_QUEUES => copy[d].queue = p
          /\ place \in MONITORED_QUEUES => copy[d].queue = place
      BY <1>2, <2>1, <3>1, <3>3
      DEF TelemetryInv, CountedMoveOn, CopiesAreSomewhere, Queues
    <3>5. PICK n \in 1..5 : p = Reads[n]
      BY <1>2
    <3>6. n < k
      BY <1>1, <3>5 DEF TelemetryInv, AskedInOrder
    <3> QED
      BY <1>1, <3>4, <3>5, <3>6 DEF Downstream, MONITORED_QUEUES, Held, Unacked
  <2>2. ASSUME NEW c \in S, NEW d \in S, c # d, copy[c].message = copy[d].message
        PROVE  copy[c].message \in report.returned
    <3>1. ~Spent(c) /\ ~Spent(d) /\ c \in Copies /\ d \in Copies /\ k > 0
      BY <1>1, <1>3, <1>8 DEF Spent
    <3> QED
      BY <2>2, <3>1 DEF TelemetryInv, OneCanBeCounted
  <2> SUFFICES ASSUME NEW p \in MONITORED_QUEUES \cup Held, NEW q \in MONITORED_QUEUES \cup Held,
                      NEW c \in report'.counted[p], NEW d \in report'.counted[q],
                      copy[c].message = copy[d].message, <<c, p>> # <<d, q>>
               PROVE  copy[c].message \in report.returned
    BY <1>4 DEF NothingCountedTwice
  <2>3. CASE p # place /\ q # place
    BY <1>2, <2>3 DEF TelemetryInv, NothingCountedTwice
  <2>4. CASE p # place /\ q = place
    BY <1>4, <2>1, <2>4
  <2>5. CASE p = place /\ q # place
    BY <1>4, <2>1, <2>5
  <2>6. CASE p = place /\ q = place
    BY <1>4, <2>2, <2>6
  <2> QED
    BY <2>3, <2>4, <2>5, <2>6
<1>12. StillCountedSoFar'
  <2> SUFFICES ASSUME NEW c \in report.still, NEW n \in 1..5, n < k + 1,
                      copy[c].place = Reads[n], Answered(Reads[n], copy[c].worker)'
               PROVE  c \in report'.counted[Reads[n]]
    BY DEF StillCountedSoFar
  <2>1. c \in Copies
    BY <1>1 DEF Report
  <2>2. CASE n = k
    BY <1>4, <2>1, <2>2 DEF Answered
  <2>3. CASE n # k
    <3>1. n < k /\ report'.counted[Reads[n]] = report.counted[Reads[n]]
      BY <1>1, <1>2, <1>4, <2>3
    <3>2. Answered(Reads[n], copy[c].worker)
      BY DEF Answered
    <3> QED
      BY <3>1, <3>2 DEF TelemetryInv, StillCountedSoFar
  <2> QED
    BY <2>2, <2>3
<1> QED
  BY <1>5, <1>6, <1>7, <1>9, <1>10, <1>11, <1>12 DEF TelemetryInv

\* What is in two places are messages.
LEMMA MessagesTwice == TelemetryInv => InTwoPlaces \in SUBSET Copies
BY DEF TelemetryInv, TelemetryTypeOK, Whereabouts, InTwoPlaces

\* An inspection that has counted nothing yet: of what is in one place only, one
\* copy can be counted from now on.
LEMMA FromNowOn ==
  ASSUME TelemetryInv, UNCHANGED <<copy, losses>>, report' \in Report,
         \A p \in DOMAIN report'.counted : report'.counted[p] = {},
         report'.next \in 1..(Cardinality(Held) + 1),
         report'.next = 1 \/ report'.listed = {},
         report'.queues_available, report'.returned = InTwoPlaces
  PROVE  TelemetryInv'
<1> USE ReadsFacts, HeldFacts
<1>1. TelemetryTypeOK' /\ CopiesAreSomewhere'
  BY DEF TelemetryInv, TelemetryTypeOK, CopiesAreSomewhere
<1>2. /\ DOMAIN report'.counted = MONITORED_QUEUES \cup Held
      /\ \A n \in 1..5 : Reads[n] \in MONITORED_QUEUES \cup Held
  BY DEF Report, MONITORED_QUEUES, Held
<1>3. AskedInOrder'
  BY <1>2 DEF AskedInOrder
<1>4. CountedMoveOn' /\ NothingCountedTwice'
  BY DEF CountedMoveOn, NothingCountedTwice
<1>5. OneCanBeCounted'
  <2> SUFFICES ASSUME NEW c \in Copies, NEW d \in Copies, c # d,
                      copy[c].message = copy[d].message,
                      copy[c].message \notin InTwoPlaces
               PROVE  copy[c].place = "gone" \/ copy[d].place = "gone"
    BY DEF OneCanBeCounted, Spent
  <2>1. ~({copy[c].place, copy[d].place} \subseteq Queues \cup Unacked)
    BY DEF InTwoPlaces
  <2>2. copy[c].place # "unsent" /\ copy[d].place # "unsent"
    BY UnsentAlone
  <2>3. {copy[c].place, copy[d].place} \subseteq Queues \cup Unacked \cup {"unsent", "gone"}
    BY DEF TelemetryInv, TelemetryTypeOK, Whereabouts
  <2> QED
    BY <2>1, <2>2, <2>3
<1>6. StillCountedSoFar'
  BY DEF StillCountedSoFar, Answered, Held
<1> QED
  BY <1>1, <1>3, <1>4, <1>5, <1>6 DEF TelemetryInv

\* The inspection, an answer or an exception at a time.
LEMMA InspectionKeeps ==
  ASSUME TelemetryInv,
         Ping \/ ReadHeld \/ ReadQueue \/ WorkersUnavailable \/ QueuesUnavailable
  PROVE  TelemetryInv'
<1> USE ReadsFacts
<1>1. /\ copy \in [Copies -> Whereabouts] /\ report \in Report
      /\ DOMAIN report.counted = MONITORED_QUEUES \cup Held
      /\ \A n \in 1..5 : Reads[n] \in MONITORED_QUEUES \cup Held
  BY DEF TelemetryInv, TelemetryTypeOK, Report, MONITORED_QUEUES, Held
<1>2. CASE Ping
  <2>1. PICK answering \in SUBSET Nodes :
          report' = [report EXCEPT !.next = 1, !.listed = answering,
                       !.still = Copies, !.returned = InTwoPlaces]
    BY <1>2 DEF Ping
  <2>2. UNCHANGED <<copy, losses>> /\ report.next = 0
    BY <1>2 DEF Ping
  <2>3. report' \in Report
    <3>1. 1 \in 0..(Len(Reads) + 1)
      OBVIOUS
    <3> QED
      BY <1>1, <2>1, <3>1, MessagesTwice DEF Report
  <2>4. /\ report'.next = 1 /\ report'.returned = InTwoPlaces
        /\ report'.counted = report.counted
        /\ report'.queues_available = report.queues_available
    BY <1>1, <2>1 DEF Report
  <2>5. /\ \A p \in DOMAIN report.counted : report.counted[p] = {}
        /\ report.queues_available
    BY <2>2, NothingYet DEF TelemetryInv, AskedInOrder
  <2> QED
    BY <2>2, <2>3, <2>4, <2>5, HeldFacts, FromNowOn
<1>3. CASE ReadHeld
  <2> PICK place : place = Reads[report.next]
    OBVIOUS
  <2>1. PICK answering \in SUBSET report.listed :
          report' = [report EXCEPT !.next = @ + 1,
            !.silent = @ \cup (report.listed \ answering),
            !.counted[place] = {c \in Copies : /\ copy[c].place = place
                                                 /\ copy[c].worker \in answering}]
    BY <1>3 DEF ReadHeld
  <2>2. /\ UNCHANGED <<copy, losses>> /\ report.next \in DOMAIN Reads
        /\ place \in Held
    BY <1>3 DEF ReadHeld, Asks
  <2>3. /\ report' \in Report /\ report'.next = report.next + 1
        /\ report'.listed = report.listed
        /\ report'.silent = report.silent \cup (report.listed \ answering)
        /\ report'.queues_available = report.queues_available
        /\ report'.still = report.still /\ report'.returned = report.returned
        /\ \A p \in (MONITORED_QUEUES \cup Held) \ {place} :
             report'.counted[p] = report.counted[p]
        /\ report'.counted[place] = {c \in Copies : /\ copy[c].place = place
                                                      /\ copy[c].worker \in answering}
    <3> DEFINE silent == report.silent \cup (report.listed \ answering)
               S == {c \in Copies : /\ copy[c].place = place
                                      /\ copy[c].worker \in answering}
    <3>1. /\ silent \in SUBSET Nodes /\ S \in SUBSET Copies
          /\ place \in MONITORED_QUEUES \cup Held /\ report.next \in 1..5
      BY <1>1, <2>2 DEF Report
    <3> DEFINE counted == [report.counted EXCEPT ![place] = S]
    <3>2. /\ counted \in [MONITORED_QUEUES \cup Held -> SUBSET Copies]
          /\ \A p \in (MONITORED_QUEUES \cup Held) \ {place} :
               counted[p] = report.counted[p]
          /\ counted[place] = S
      BY <1>1, <3>1 DEF Report
    <3>3. report' = [report EXCEPT !.next = report.next + 1, !.silent = silent,
                                   !.counted = counted]
      BY <1>1, <2>1 DEF Report
    <3>4. report.next + 1 \in 0..(Len(Reads) + 1)
      BY <3>1
    <3> HIDE DEF counted, silent, S
    <3>5. report' \in Report
      BY <1>1, <3>1, <3>2, <3>3, <3>4 DEF Report
    <3>6. /\ report' \in Report /\ report'.next = report.next + 1
          /\ report'.listed = report.listed /\ report'.silent = silent
          /\ report'.still = report.still /\ report'.returned = report.returned
          /\ report'.queues_available = report.queues_available
          /\ \A p \in (MONITORED_QUEUES \cup Held) \ {place} :
               report'.counted[p] = report.counted[p]
          /\ report'.counted[place] = S
      BY <1>1, <3>2, <3>3, <3>5 DEF Report
    <3> QED
      BY <3>6 DEF silent, S
  <2> QED
    BY <2>2, <2>3, AnswerKeeps
<1>4. CASE ReadQueue
  <2> PICK place : place = Reads[report.next]
    OBVIOUS
  <2>1. /\ UNCHANGED <<copy, losses>> /\ report.next \in DOMAIN Reads
        /\ place \in MONITORED_QUEUES
        /\ report' = [report EXCEPT !.next = @ + 1,
             !.counted[place] = {c \in Copies : copy[c].place = place}]
    BY <1>4 DEF ReadQueue, Asks
  <2>2. /\ report' \in Report /\ report'.next = report.next + 1
        /\ report'.listed = report.listed /\ report'.silent = report.silent
        /\ report'.queues_available = report.queues_available
        /\ report'.still = report.still /\ report'.returned = report.returned
        /\ \A p \in (MONITORED_QUEUES \cup Held) \ {place} :
             report'.counted[p] = report.counted[p]
        /\ report'.counted[place] = {c \in Copies : copy[c].place = place}
    <3> DEFINE S == {c \in Copies : copy[c].place = place}
    <3>1. /\ report.silent \in SUBSET Nodes /\ S \in SUBSET Copies
          /\ place \in MONITORED_QUEUES \cup Held /\ report.next \in 1..5
      BY <1>1, <2>1 DEF Report
    <3> DEFINE counted == [report.counted EXCEPT ![place] = S]
    <3>2. /\ counted \in [MONITORED_QUEUES \cup Held -> SUBSET Copies]
          /\ \A p \in (MONITORED_QUEUES \cup Held) \ {place} :
               counted[p] = report.counted[p]
          /\ counted[place] = S
      BY <1>1, <3>1 DEF Report
    <3>3. report' = [report EXCEPT !.next = report.next + 1, !.silent = report.silent,
                                   !.counted = counted]
      BY <1>1, <2>1 DEF Report
    <3>4. report.next + 1 \in 0..(Len(Reads) + 1)
      BY <3>1
    <3> HIDE DEF counted, S
    <3>5. report' \in Report
      BY <1>1, <3>1, <3>2, <3>3, <3>4 DEF Report
    <3>6. /\ report' \in Report /\ report'.next = report.next + 1
          /\ report'.listed = report.listed /\ report'.silent = report.silent
          /\ report'.still = report.still /\ report'.returned = report.returned
          /\ report'.queues_available = report.queues_available
          /\ \A p \in (MONITORED_QUEUES \cup Held) \ {place} :
               report'.counted[p] = report.counted[p]
          /\ report'.counted[place] = S
      BY <1>1, <3>2, <3>3, <3>5 DEF Report
    <3> QED
      BY <3>6 DEF S
  <2> QED
    BY <2>1, <2>2, AnswerKeeps
<1>5. CASE WorkersUnavailable
  <2>1. report' = [report EXCEPT !.next = 3, !.listed = {}, !.counted = NothingCounted,
                     !.workers_available = FALSE, !.still = Copies, !.returned = InTwoPlaces]
    BY <1>5, HeldFacts DEF WorkersUnavailable
  <2>2. UNCHANGED <<copy, losses>> /\ report.next \in 0..2
    BY <1>1, <1>5 DEF WorkersUnavailable, Report, Asks, Held
  <2>3. report' \in Report
    <3>1. NothingCounted \in [MONITORED_QUEUES \cup Held -> SUBSET Copies]
      BY DEF NothingCounted
    <3>2. 3 \in 0..(Len(Reads) + 1)
      OBVIOUS
    <3> QED
      BY <1>1, <2>1, <3>1, <3>2, MessagesTwice DEF Report
  <2>4. /\ report'.next = 3 /\ report'.listed = {} /\ report'.returned = InTwoPlaces
        /\ report'.counted = NothingCounted
        /\ report'.queues_available = report.queues_available
    BY <1>1, <2>1 DEF Report
  <2>5. /\ \A p \in DOMAIN NothingCounted : NothingCounted[p] = {}
        /\ report.queues_available
    BY <2>2 DEF NothingCounted, TelemetryInv, AskedInOrder
  <2> QED
    BY <2>2, <2>3, <2>4, <2>5, HeldFacts, FromNowOn
<1>6. CASE QueuesUnavailable
  <2>1. /\ UNCHANGED <<copy, losses>> /\ report.next \in 3..5
        /\ report'.next = 6 /\ report'.listed = report.listed
        /\ report'.silent = report.silent /\ report'.still = report.still /\ report'.returned = report.returned
        /\ report'.counted = [p \in DOMAIN NothingCounted |->
                                IF p \in Held THEN report.counted[p] ELSE {}]
        /\ report'.queues_available = FALSE
    BY <1>1, <1>6 DEF QueuesUnavailable, Report, Asks, MONITORED_QUEUES
  <2>2. /\ DOMAIN report'.counted = MONITORED_QUEUES \cup Held
        /\ \A p \in MONITORED_QUEUES \cup Held :
             report'.counted[p] = IF p \in Held THEN report.counted[p] ELSE {}
    BY <2>1 DEF NothingCounted
  <2>3. TelemetryTypeOK'
    <3> DEFINE counted == [p \in DOMAIN NothingCounted |->
                             IF p \in Held THEN report.counted[p] ELSE {}]
    <3>1. counted \in [MONITORED_QUEUES \cup Held -> SUBSET Copies]
      BY <1>1 DEF NothingCounted, Report
    <3>2. report' = [report EXCEPT !.next = 6, !.queues_available = FALSE, !.counted = counted]
      BY <1>6 DEF QueuesUnavailable
    <3> HIDE DEF counted
    <3>3. 6 \in 0..(Len(Reads) + 1)
      OBVIOUS
    <3>4. report' \in Report
      BY <1>1, <3>1, <3>2, <3>3 DEF Report
    <3> QED
      BY <2>1, <3>4 DEF TelemetryInv, TelemetryTypeOK
  <2>4. AskedInOrder'
    BY <2>1 DEF AskedInOrder
  <2>5. \A p \in MONITORED_QUEUES \cup Held : report'.counted[p] \subseteq report.counted[p]
    BY <2>2
  <2>6. /\ CountedMoveOn' /\ CopiesAreSomewhere'
        /\ NothingCountedTwice'
    <3>1. CopiesAreSomewhere'
      BY <2>1 DEF TelemetryInv, CopiesAreSomewhere
    <3>2. CountedMoveOn'
      BY <1>1, <2>1, <2>2, <2>5 DEF TelemetryInv, CountedMoveOn
    <3>3. NothingCountedTwice'
      BY <1>1, <2>1, <2>2, <2>5 DEF TelemetryInv, NothingCountedTwice
    <3> QED
      BY <3>1, <3>2, <3>3
  <2>7. OneCanBeCounted'
    BY <1>1, <2>1, <2>2, <2>5 DEF TelemetryInv, OneCanBeCounted, Spent
  <2>8. StillCountedSoFar'
    <3> SUFFICES ASSUME NEW c \in report.still, NEW n \in 1..5,
                        copy[c].place = Reads[n], Answered(Reads[n], copy[c].worker)'
                 PROVE  c \in report'.counted[Reads[n]]
      BY <2>1 DEF StillCountedSoFar
    <3>1. CASE Reads[n] \in Held
      BY <1>1, <2>1, <2>2, <3>1 DEF TelemetryInv, StillCountedSoFar, Answered, Held
    <3>2. CASE Reads[n] \notin Held
      BY <1>1, <2>1, <2>2, <3>2 DEF Answered
    <3> QED
      BY <3>1, <3>2
  <2> QED
    BY <2>3, <2>4, <2>6, <2>7, <2>8 DEF TelemetryInv
<1> QED
  BY <1>2, <1>3, <1>4, <1>5, <1>6

\* The inductive invariant of the inspection.
THEOREM TelemetryInductive == TelemetrySpec => []TelemetryInv
<1>1. TelemetryInv /\ [TelemetryNext]_telemetryVars => TelemetryInv'
  <2> SUFFICES ASSUME TelemetryInv, [TelemetryNext]_telemetryVars PROVE TelemetryInv'
    OBVIOUS
  <2>1. \A c \in Copies : copy[c].worker \in Nodes \cup {NoNode}
    BY DEF TelemetryInv, TelemetryTypeOK, Whereabouts
  <2>2. ASSUME NEW c \in Copies, NEW w \in Nodes, Prefetch(c, w)
        PROVE  TelemetryInv'
    BY <2>2, MoveKeeps DEF Prefetch
  <2>3. ASSUME NEW c \in Copies, Due(c) \/ Start(c) \/ Finish(c)
        PROVE  TelemetryInv'
    BY <2>1, <2>3, MoveKeeps DEF Due, Start, Finish
  <2>4. CASE UNCHANGED telemetryVars
    BY <2>4 DEF telemetryVars, TelemetryInv, TelemetryTypeOK, CopiesAreSomewhere, AskedInOrder,
       CountedMoveOn, OneCanBeCounted, Spent, NothingCountedTwice, StillCountedSoFar, Answered
  <2> QED
    BY <2>2, <2>3, <2>4, SendKeeps, RestoreKeeps, LoseKeeps, InspectionKeeps
    DEF TelemetryNext
<1> QED
  BY <1>1, TelemetryStarts, PTL DEF TelemetrySpec

\* Whatever messages, workers and answers there are, and with the visibility
\* timeout and lost workers among them: what is counted twice was in two places
\* when the inspection began, or has been put back since.
THEOREM NeverCountedTwice == TelemetrySpec => []NothingCountedTwice
<1>1. TelemetryInv => NothingCountedTwice
  BY DEF TelemetryInv
<1> QED
  BY <1>1, TelemetryInductive, PTL

\* What has not moved is counted where it is, unless nobody answers for it.
THEOREM StillIsAlwaysCounted == TelemetrySpec => []StillIsCounted
<1>1. TelemetryInv => StillIsCounted
  <2> SUFFICES ASSUME TelemetryInv, Reported, NEW c \in report.still,
                      NEW p \in DOMAIN report.counted,
                      copy[c].place = p, Answered(p, copy[c].worker)
               PROVE  c \in report.counted[p]
    BY DEF StillIsCounted
  <2>1. PICK n \in 1..5 : p = Reads[n]
    BY ReadsFacts DEF TelemetryInv, TelemetryTypeOK, Report, MONITORED_QUEUES, Held
  <2> QED
    BY <2>1, ReadsFacts DEF TelemetryInv, StillCountedSoFar, Reported
<1> QED
  BY <1>1, TelemetryInductive, PTL

-----------------------------------------------------------------------------
(* Orders of finite sets *)

\* In a finite set in which below[x] are the elements before x, their number is
\* x's place in the order, counted from 0, and every place is taken.
LEMMA Ranking ==
  ASSUME NEW S, IsFiniteSet(S), NEW below \in [S -> SUBSET S],
         \A x \in S : x \notin below[x],
         \A x \in S : \A y \in below[x] : below[y] \subseteq below[x],
         \A x, y \in S : x # y => x \in below[y] \/ y \in below[x]
  PROVE  /\ Cardinality(S) \in Nat
         /\ \A x \in S : Cardinality(below[x]) \in 0..(Cardinality(S) - 1)
         /\ \A x, y \in S : y \in below[x] <=> Cardinality(below[y]) < Cardinality(below[x])
         /\ \A x, y \in S : Cardinality(below[y]) = Cardinality(below[x]) => x = y
         /\ \A k \in 0..(Cardinality(S) - 1) : \E x \in S : Cardinality(below[x]) = k
<1> DEFINE rank == [x \in S |-> Cardinality(below[x])]
           T == 0..(Cardinality(S) - 1)
<1>1. Cardinality(S) \in Nat
  BY FS_CardinalityType
<1>2. \A x \in S : IsFiniteSet(below[x]) /\ Cardinality(below[x]) \in Nat
  BY FS_Subset, FS_CardinalityType
<1>3. ASSUME NEW x \in S PROVE Cardinality(below[x]) \in T
  <2>1. /\ Cardinality(below[x]) <= Cardinality(S)
        /\ Cardinality(S) = Cardinality(below[x]) => S = below[x]
    BY FS_Subset
  <2> QED
    BY <1>1, <1>2, <2>1
<1>4. ASSUME NEW x \in S, NEW y \in below[x]
      PROVE  Cardinality(below[y]) < Cardinality(below[x])
  <2>1. y \in S /\ below[y] \in SUBSET below[x] /\ below[y] # below[x]
    OBVIOUS
  <2>2. /\ Cardinality(below[y]) <= Cardinality(below[x])
        /\ Cardinality(below[x]) = Cardinality(below[y]) => below[x] = below[y]
    BY <1>2, <2>1, FS_Subset
  <2> QED
    BY <1>2, <2>1, <2>2
<1>5. \A x, y \in S : Cardinality(below[y]) = Cardinality(below[x]) => x = y
  BY <1>2, <1>4
<1>6. \A x, y \in S : Cardinality(below[y]) < Cardinality(below[x]) => y \in below[x]
  BY <1>2, <1>4
<1>7. \A k \in T : \E x \in S : Cardinality(below[x]) = k
  <2>1. IsFiniteSet(T) /\ Cardinality(T) = Cardinality(S)
    BY <1>1, FS_Interval
  <2>2. rank \in Injection(S, T)
    BY <1>3, <1>5 DEF Injection, IsInjective
  <2>3. rank \in Surjection(S, T)
    <3> HIDE DEF rank, T
    <3> QED
      BY <2>1, <2>2, FS_Injection
  <2> QED
    BY <2>3 DEF Surjection
<1> QED
  BY <1>1, <1>3, <1>4, <1>5, <1>6, <1>7

-----------------------------------------------------------------------------
(* Paging *)

\* Newest first, then the greatest id: no two rows are level.
LEMMA RowsAreOrdered ==
  ASSUME ListingInv
  PROVE  /\ \A t \in matching : IsFiniteSet(Preceding(t)) /\ Cardinality(Preceding(t)) \in Nat
         /\ \A t, u \in matching :
              Cardinality(Preceding(u)) = Cardinality(Preceding(t)) => t = u
         /\ \A t \in matching, k \in Nat : k <= Cardinality(Preceding(t)) =>
              \E u \in matching : Cardinality(Preceding(u)) = k
<1> USE ListingAssumption DEF ListingInv, ListingTypeOK
<1> DEFINE below == [t \in matching |-> Preceding(t)]
<1>1. \A t \in matching : t \in Nat /\ created_at[t] \in Nat
  OBVIOUS
<1>2. below \in [matching -> SUBSET matching]
  BY DEF Preceding
<1>3. /\ \A t \in matching : t \notin below[t]
      /\ \A t \in matching : \A u \in below[t] : below[u] \subseteq below[t]
      /\ \A t, u \in matching : t # u => t \in below[u] \/ u \in below[t]
  BY <1>1 DEF Preceding, Before
<1>4. \A t \in matching : below[t] = Preceding(t)
  OBVIOUS
<1> HIDE DEF below
<1>5. /\ Cardinality(matching) \in Nat
      /\ \A t \in matching : Cardinality(below[t]) \in 0..(Cardinality(matching) - 1)
      /\ \A t, u \in matching : Cardinality(below[u]) = Cardinality(below[t]) => t = u
      /\ \A k \in 0..(Cardinality(matching) - 1) :
           \E t \in matching : Cardinality(below[t]) = k
  BY <1>2, <1>3, Ranking
<1>6. \A t \in matching : IsFiniteSet(Preceding(t))
  BY FS_Subset DEF Preceding
<1> QED
  BY <1>4, <1>5, <1>6

\* A page is full if there is a row behind it.
LEMMA PageIsFull ==
  ASSUME ListingInv, NEW offset \in Nat, NEW t \in matching,
         Cardinality(Preceding(t)) >= offset + Limit
  PROVE  Cardinality(Page(offset)) >= Limit
<1> USE ListingAssumption
<1> DEFINE places == offset..(offset + Limit - 1)
           place == [u \in Page(offset) |-> Cardinality(Preceding(u))]
<1>1. \A u \in matching : Cardinality(Preceding(u)) \in Nat
  BY RowsAreOrdered
<1>2. \A k \in places : \E u \in matching : Cardinality(Preceding(u)) = k
  BY <1>1, RowsAreOrdered
<1>3. place \in Surjection(Page(offset), places)
  BY <1>1, <1>2 DEF Page, Surjection
<1>4. IsFiniteSet(Page(offset)) /\ Page(offset) \subseteq matching
  BY FS_Subset DEF Page, ListingInv, ListingTypeOK
<1>5. Cardinality(places) = Limit
  BY FS_Interval
<1>6. Cardinality(Page(offset)) \in Nat
  BY <1>4, FS_CardinalityType
<1> HIDE DEF place, places
<1>7. Cardinality(places) <= Cardinality(Page(offset))
  BY <1>3, <1>4, FS_Surjection
<1> QED
  BY <1>5, <1>6, <1>7

\* An order between rows that are there does not change.
LEMMA OrderStays ==
  ASSUME ListingInv, NEW t \in DOMAIN created_at, NEW u \in DOMAIN created_at,
         \A v \in DOMAIN created_at : created_at'[v] = created_at[v]
  PROVE  Before(u, t)' <=> Before(u, t)
BY DEF Before

\* What changes under the client: rows are inserted, and begin or stop to match.
LEMMA ChangeKeeps ==
  ASSUME ListingInv, NEW t \in Ids, NEW now_matching, Matches(now_matching),
         DOMAIN created_at \subseteq DOMAIN created_at',
         DOMAIN created_at' \subseteq DOMAIN created_at \cup {t},
         created_at' \in [DOMAIN created_at' -> Times],
         \A v \in DOMAIN created_at : created_at'[v] = created_at[v],
         t \in DOMAIN created_at',
         now_matching \in {matching, matching \cup {t}, matching \ {t}}
  PROVE  ListingInv'
<1> USE ListingAssumption DEF ListingInv, ListingTypeOK
<1>1. /\ client'.offset = client.offset /\ client'.done = client.done
      /\ client'.listed = client.listed /\ client'.wanted = client.wanted
      /\ client'.left = IF Paging THEN client.left \cup (matching \ now_matching)
                                  ELSE client.left
      /\ client'.joined = IF Paging THEN client.joined \cup (now_matching \ matching)
                                    ELSE client.joined
      /\ matching' = now_matching
  BY DEF Matches, Client
<1>2. /\ client.offset \in Nat /\ client.listed \in [Ids -> Nat]
      /\ client.wanted \subseteq DOMAIN created_at
      /\ client.left \subseteq DOMAIN created_at
      /\ client.joined \subseteq DOMAIN created_at
  BY DEF Client, RemembersRows
<1>3. /\ matching' \subseteq DOMAIN created_at' /\ IsFiniteSet(matching')
      /\ DOMAIN created_at' \subseteq Ids
  BY <1>1, FS_AddElement, FS_RemoveElement
<1>4. ListingTypeOK'
  <2>1. client' \in Client
    BY <1>1, <1>2, <1>3 DEF Matches, Client
  <2> QED
    BY <1>3, <2>1
<1>5. RemembersRows'
  BY <1>1, <1>2, <1>3 DEF RemembersRows, Paging
\* Whether a row comes before another, and what comes before it.
<1>6. \A u, v \in DOMAIN created_at : Before(u, v)' <=> Before(u, v)
  BY OrderStays
<1>7. ASSUME NEW v \in matching, v \in matching'
      PROVE  /\ \/ Cardinality(Preceding(v))' >= Cardinality(Preceding(v))
                \/ t \in matching \ matching' /\ Before(t, v)
             /\ \/ Cardinality(Preceding(v))' <= Cardinality(Preceding(v))
                \/ t \in matching' \ matching /\ Before(t, v)'
             /\ Cardinality(Preceding(v))' \in Nat /\ Cardinality(Preceding(v)) \in Nat
  <2>1. /\ IsFiniteSet(Preceding(v)) /\ IsFiniteSet(Preceding(v))'
        /\ Cardinality(Preceding(v)) \in Nat /\ Cardinality(Preceding(v))' \in Nat
    BY <1>3, FS_Subset, FS_CardinalityType DEF Preceding
  <2>2. CASE t \notin matching \ matching'
    <3>1. Preceding(v) \subseteq Preceding(v)'
      BY <1>1, <1>6, <2>2 DEF Preceding
    <3>2. Cardinality(Preceding(v)) <= Cardinality(Preceding(v))'
      BY <2>1, <3>1, FS_Subset
    <3>3. \/ Preceding(v)' \subseteq Preceding(v)
          \/ t \in matching' \ matching /\ Before(t, v)'
      BY <1>1, <1>6 DEF Preceding
    <3>4. Preceding(v)' \subseteq Preceding(v) =>
            Cardinality(Preceding(v))' <= Cardinality(Preceding(v))
      BY <2>1, FS_Subset
    <3> QED
      BY <2>1, <3>2, <3>3, <3>4
  <2>3. CASE t \in matching \ matching'
    <3>1. Preceding(v)' \subseteq Preceding(v)
      BY <1>1, <1>6, <2>3 DEF Preceding
    <3>2. Cardinality(Preceding(v))' <= Cardinality(Preceding(v))
      BY <2>1, <3>1, FS_Subset
    <3>3. Preceding(v) \subseteq Preceding(v)' \/ Before(t, v)
      BY <1>1, <1>6 DEF Preceding
    <3>4. Preceding(v) \subseteq Preceding(v)' =>
            Cardinality(Preceding(v))' >= Cardinality(Preceding(v))
      BY <2>1, FS_Subset
    <3> QED
      BY <2>1, <2>3, <3>2, <3>3, <3>4
  <2> QED
    BY <2>2, <2>3
<1>8. WantedIsAhead'
  <2> SUFFICES ASSUME Paging, NEW v \in client.wanted \ client'.left
               PROVE  /\ v \in matching'
                      /\ \/ client.listed[v] > 0 \/ Passed(v)' = FALSE
                         \/ \E u \in client'.left : Before(u, v)'
    BY <1>1 DEF WantedIsAhead, Paging
  <2>1. v \in matching /\ v \in matching' /\ v \in client.wanted \ client.left
    BY <1>1 DEF WantedIsAhead
  <2>2. CASE \E u \in client.left : Before(u, v)
    BY <1>1, <1>2, <1>6, <2>1, <2>2
  <2>3. CASE t \in matching \ matching' /\ Before(t, v)
    BY <1>1, <1>6, <2>1, <2>3
  <2>4. CASE ~Passed(v) /\ Cardinality(Preceding(v))' >= Cardinality(Preceding(v))
    BY <1>1, <1>2, <1>7, <2>1, <2>4 DEF Passed
  <2> QED
    BY <1>7, <2>1, <2>2, <2>3, <2>4 DEF WantedIsAhead
<1>9. ListedIsPassed'
  <2> SUFFICES ASSUME ~client.done, NEW v \in matching', client.listed[v] > 0
               PROVE  Passed(v)' \/ v \in client'.joined \/ \E u \in client'.joined : Before(u, v)'
    BY <1>1 DEF ListedIsPassed
  <2>1. Paging
    BY <1>2, <1>3 DEF RemembersRows, Paging
  <2>2. CASE v \notin matching
    BY <1>1, <2>1, <2>2
  <2>3. CASE v \in matching
    <3>1. CASE v \in client.joined \/ \E u \in client.joined : Before(u, v)
      BY <1>1, <1>2, <1>6, <2>3, <3>1
    <3>2. CASE t \in matching' \ matching /\ Before(t, v)'
      BY <1>1, <2>1, <3>2
    <3>3. CASE Passed(v) /\ Cardinality(Preceding(v))' <= Cardinality(Preceding(v))
      BY <1>1, <1>2, <1>7, <2>3, <3>3 DEF Passed
    <3> QED
      BY <1>7, <2>3, <3>1, <3>2, <3>3 DEF ListedIsPassed
  <2> QED
    BY <2>2, <2>3
<1>10. NothingIsMissed'
  BY <1>1, <1>2, <1>6 DEF NothingIsMissed, Paging
<1>11. ListedOnce'
  <2> SUFFICES ASSUME NEW v \in Ids, client.listed[v] > 1
               PROVE  v \in client'.joined \/ \E u \in client'.joined : Before(u, v)'
    BY <1>1 DEF ListedOnce
  <2>1. v \in DOMAIN created_at
    BY <1>2 DEF RemembersRows
  <2>2. v \in client.joined \/ \E u \in client.joined : Before(u, v)
    BY DEF ListedOnce
  <2> QED
    BY <1>1, <1>2, <1>6, <2>1, <2>2
<1> QED
  BY <1>4, <1>5, <1>8, <1>9, <1>10, <1>11

\* A page lists what it passes over.
LEMMA PageKeeps ==
  ASSUME ListingInv, ReadPage
  PROVE  ListingInv'
<1> USE ListingAssumption DEF ListingInv, ListingTypeOK
<1> DEFINE page == Page(client.offset)
<1>1. /\ ~client.done /\ UNCHANGED <<created_at, matching>>
      /\ client'.offset = client.offset + Limit
      /\ client'.done <=> Cardinality(page) < Limit
      /\ client'.listed = [t \in Ids |-> IF t \in page THEN client.listed[t] + 1
                                                       ELSE client.listed[t]]
      /\ client'.wanted = IF Paging THEN client.wanted ELSE matching
      /\ client'.left = client.left /\ client'.joined = client.joined
  BY DEF ReadPage, Client
<1>2. /\ client.offset \in Nat /\ client.listed \in [Ids -> Nat]
      /\ client.wanted \subseteq Ids /\ client.left \subseteq Ids
      /\ client.joined \subseteq Ids
  BY DEF Client
<1>3. /\ \A t \in matching : Cardinality(Preceding(t)) \in Nat
      /\ matching \subseteq Ids /\ page \subseteq matching
      /\ \A t \in matching : t \in page <=>
           /\ Cardinality(Preceding(t)) >= client.offset
           /\ Cardinality(Preceding(t)) < client'.offset
  BY <1>1, RowsAreOrdered DEF Page
\* The last page: no row is behind it.
<1>4. client'.done => \A t \in matching : Cardinality(Preceding(t)) < client'.offset
  <2> SUFFICES ASSUME NEW t \in matching, Cardinality(Preceding(t)) >= client'.offset
               PROVE  ~client'.done
    BY <1>1, <1>2, <1>3
  <2>1. Cardinality(page) >= Limit
    BY <1>1, <1>2, PageIsFull
  <2>2. Cardinality(page) \in Nat
    BY <1>3, FS_Subset, FS_CardinalityType
  <2> QED
    BY <1>1, <2>1, <2>2
<1> HIDE DEF page
<1>5. client'.offset > 0 /\ \A t \in Ids : client'.listed[t] \in Nat
  BY <1>1, <1>2
<1>6. /\ \A t, u \in Ids : Before(u, t)' <=> Before(u, t)
      /\ \A t \in matching : Passed(t)' <=> Cardinality(Preceding(t)) < client'.offset
      /\ ~Paging <=> client.offset = 0
  BY <1>1, <1>2 DEF Before, Preceding, Passed, Paging
\* What was wanted when the page was read, and is not behind it, is listed.
<1>7. ASSUME NEW t \in client'.wanted \ client'.left
      PROVE  /\ t \in matching
             /\ \/ client'.listed[t] > 0 \/ ~(Cardinality(Preceding(t)) < client'.offset)
                \/ \E u \in client'.left : Before(u, t)
  <2>1. /\ t \in matching
        /\ \/ client.listed[t] > 0 \/ ~(Cardinality(Preceding(t)) < client.offset)
           \/ \E u \in client.left : Before(u, t)
    <3>1. CASE Paging
      BY <1>1, <3>1 DEF WantedIsAhead, Passed
    <3>2. CASE ~Paging
      BY <1>1, <1>3, <1>6, <3>2
    <3> QED
      BY <3>1, <3>2
  <2> QED
    BY <1>1, <1>2, <1>3, <2>1
<1>8. ListingTypeOK'
  <2>1. client' \in Client
    <3>1. /\ client'.offset \in Nat /\ client'.listed \in [Ids -> Nat]
          /\ client'.wanted \in SUBSET Ids
      BY <1>1, <1>2, <1>3
    <3>2. client'.done \in BOOLEAN
      BY DEF ReadPage, Client
    <3> QED
      BY <3>1, <3>2 DEF ReadPage, Client
  <2> QED
    BY <1>1, <2>1
<1>9. RemembersRows'
  BY <1>1, <1>2, <1>3, <1>5 DEF RemembersRows
<1>10. WantedIsAhead'
  BY <1>1, <1>2, <1>3, <1>6, <1>7 DEF WantedIsAhead
<1>11. ListedIsPassed'
  <2> SUFFICES ASSUME NEW t \in matching, client'.listed[t] > 0
               PROVE  \/ Cardinality(Preceding(t)) < client'.offset
                      \/ t \in client.joined \/ \E u \in client.joined : Before(u, t)
    BY <1>1, <1>2, <1>3, <1>6 DEF ListedIsPassed
  <2>1. CASE t \in page
    BY <1>3, <2>1
  <2>2. CASE t \notin page
    BY <1>1, <1>2, <1>3, <2>2 DEF ListedIsPassed, Passed
  <2> QED
    BY <2>1, <2>2
<1>12. NothingIsMissed'
  <2> SUFFICES ASSUME client'.done, NEW t \in client'.wanted \ client'.left
               PROVE  client'.listed[t] > 0 \/ \E u \in client'.left : Before(u, t)
    BY <1>1, <1>2, <1>3, <1>6 DEF NothingIsMissed
  <2> QED
    BY <1>4, <1>7
<1>13. ListedOnce'
  <2> SUFFICES ASSUME NEW t \in Ids, client'.listed[t] > 1
               PROVE  t \in client.joined \/ \E u \in client.joined : Before(u, t)
    BY <1>1, <1>2, <1>6 DEF ListedOnce
  <2>1. CASE t \in page
    BY <1>1, <1>2, <1>3, <2>1 DEF ListedIsPassed, Passed
  <2>2. CASE t \notin page
    BY <1>1, <2>2 DEF ListedOnce
  <2> QED
    BY <2>1, <2>2
<1> QED
  BY <1>8, <1>9, <1>10, <1>11, <1>12, <1>13

\* The inductive invariant of paging.
THEOREM ListingInductive == ListingSpec => []ListingInv
<1>1. ListingInit => ListingInv
  <2> SUFFICES ASSUME ListingInit PROVE ListingInv
    OBVIOUS
  <2>1. DOMAIN created_at = {} /\ IsFiniteSet({})
    BY FS_EmptySet DEF ListingInit
  <2> QED
    BY <2>1 DEF ListingInit, ListingInv, ListingTypeOK, Client, RemembersRows, Paging,
       WantedIsAhead, ListedIsPassed, NothingIsMissed, ListedOnce
<1>2. ListingInv /\ [ListingNext]_listingVars => ListingInv'
  <2> SUFFICES ASSUME ListingInv, [ListingNext]_listingVars PROVE ListingInv'
    OBVIOUS
  <2>1. /\ DOMAIN created_at \subseteq Ids /\ matching \subseteq DOMAIN created_at
        /\ created_at \in [DOMAIN created_at -> Times]
    BY DEF ListingInv, ListingTypeOK
  <2>2. ASSUME NEW t \in Ids, NEW at \in Times, Insert(t, at)
        PROVE  ListingInv'
    <3>1. /\ DOMAIN created_at' = DOMAIN created_at \cup {t}
          /\ created_at' \in [DOMAIN created_at' -> Times]
          /\ \A v \in DOMAIN created_at : created_at'[v] = created_at[v]
      BY <2>1, <2>2 DEF Insert
    <3>2. PICK now_matching \in {matching, matching \cup {t}} : Matches(now_matching)
      BY <2>2 DEF Insert
    <3> QED
      BY <3>1, <3>2, ChangeKeeps
  <2>3. ASSUME NEW t \in Ids, ChangeStatus(t)
        PROVE  ListingInv'
    <3>1. /\ created_at' = created_at /\ t \in DOMAIN created_at
      BY <2>3 DEF ChangeStatus
    <3>2. PICK now_matching \in {matching \ {t}, matching \cup {t}} : Matches(now_matching)
      BY <2>3 DEF ChangeStatus
    <3> QED
      BY <2>1, <3>1, <3>2, ChangeKeeps
  <2>4. CASE UNCHANGED listingVars
    BY <2>4 DEF listingVars, ListingInv, ListingTypeOK, RemembersRows, Paging,
       WantedIsAhead, ListedIsPassed, NothingIsMissed, ListedOnce, Passed, Preceding, Before
  <2> QED
    BY <2>2, <2>3, <2>4, PageKeeps DEF ListingNext
<1> QED
  BY <1>1, <1>2, PTL DEF ListingSpec

\* Whatever is submitted or changes, and however large a page is: a task that
\* matches all the time is listed, unless one before it stopped to match.
THEOREM NothingIsEverMissed == ListingSpec => []NothingIsMissed
<1>1. ListingInv => NothingIsMissed
  BY DEF ListingInv
<1> QED
  BY <1>1, ListingInductive, PTL

\* None is listed twice, unless it or one before it joined meanwhile.
THEOREM NoneIsListedTwice == ListingSpec => []ListedOnce
<1>1. ListingInv => ListedOnce
  BY DEF ListingInv
<1> QED
  BY <1>1, ListingInductive, PTL

-----------------------------------------------------------------------------
(* The load test's report *)

\* sorted returns the values, no other, in ascending order: an ascending order
\* of the positions exists, by value and by position where values are equal.
LEMMA Sorting ==
  ASSUME NEW n \in Nat, NEW values \in [1..n -> Nat]
  PROVE  /\ sorted(values) \in [1..n -> Nat]
         /\ \A k, l \in 1..n : k <= l => sorted(values)[k] <= sorted(values)[l]
         /\ \A k \in 1..n : \E i \in 1..n : sorted(values)[k] = values[i]
         /\ \A i \in 1..n : \E k \in 1..n : sorted(values)[k] = values[i]
<1> DEFINE S == 1..n
           Ascending(p) == \A k, l \in S : k < l => values[p[k]] <= values[p[l]]
           below == [i \in S |-> {j \in S : \/ values[j] < values[i]
                                            \/ values[j] = values[i] /\ j < i}]
           Place(i) == Cardinality(below[i])
           order == [k \in S |-> CHOOSE i \in S : Place(i) = k - 1]
<1>1. IsFiniteSet(S) /\ Cardinality(S) = n
  BY FS_Interval
<1>2. /\ Cardinality(S) \in Nat
      /\ \A i \in S : Place(i) \in 0..(Cardinality(S) - 1)
      /\ \A i, j \in S : j \in below[i] <=> Place(j) < Place(i)
      /\ \A i, j \in S : Place(j) = Place(i) => i = j
      /\ \A k \in 0..(Cardinality(S) - 1) : \E i \in S : Place(i) = k
  <2>1. below \in [S -> SUBSET S]
    OBVIOUS
  <2>2. /\ \A i \in S : i \notin below[i]
        /\ \A i \in S : \A j \in below[i] : below[j] \subseteq below[i]
        /\ \A i, j \in S : i # j => i \in below[j] \/ j \in below[i]
    OBVIOUS
  <2> HIDE DEF below, S
  <2> QED
    BY <1>1, <2>1, <2>2, Ranking
<1>3. \A i, j \in S : Place(j) < Place(i) => values[j] <= values[i]
  <2> SUFFICES ASSUME NEW i \in S, NEW j \in S, j \in below[i]
               PROVE  values[j] <= values[i]
    BY <1>2
  <2> QED
    OBVIOUS
<1> HIDE DEF below, Place
<1>4. \A k \in S : order[k] \in S /\ Place(order[k]) = k - 1
  <2> SUFFICES ASSUME NEW k \in S PROVE order[k] \in S /\ Place(order[k]) = k - 1
    OBVIOUS
  <2>1. k - 1 \in 0..(Cardinality(S) - 1)
    BY <1>1
  <2>2. order[k] = CHOOSE i \in S : Place(i) = k - 1
    OBVIOUS
  <2> HIDE DEF order, S
  <2> QED
    BY <1>2, <2>1, <2>2
<1>5. order \in Bijection(S, S)
  <2>1. order \in [S -> S]
    BY <1>4
  <2>2. \A i \in S : Place(i) + 1 \in S /\ order[Place(i) + 1] = i
    BY <1>1, <1>2, <1>4
  <2>3. \A k, l \in S : order[k] = order[l] => k = l
    BY <1>4
  <2> HIDE DEF order
  <2> QED
    BY <2>1, <2>2, <2>3 DEF Bijection, Injection, Surjection, IsInjective
<1>6. Ascending(order)
  BY <1>3, <1>4
<1> HIDE DEF order
<1>7. DOMAIN values = S
  OBVIOUS
<1> DEFINE chosen == CHOOSE p \in Bijection(S, S) : Ascending(p)
<1>8. chosen \in Bijection(S, S) /\ Ascending(chosen)
  BY <1>5, <1>6
<1>9. sorted(values) = [k \in S |-> values[chosen[k]]]
  BY <1>7 DEF sorted
<1> HIDE DEF chosen
<1>10. /\ \A k \in S : chosen[k] \in S
       /\ \A i \in S : \E k \in S : chosen[k] = i
  BY <1>8 DEF Bijection, Surjection
<1> DEFINE ordered == sorted(values)
<1>11. \A k \in S : ordered[k] = values[chosen[k]]
  BY <1>9
<1>12. ordered \in [S -> Nat]
  BY <1>9, <1>10
<1> HIDE DEF ordered
<1>13. \A k, l \in S : k <= l => ordered[k] <= ordered[l]
  <2> SUFFICES ASSUME NEW k \in S, NEW l \in S, k < l PROVE ordered[k] <= ordered[l]
    BY <1>12
  <2> QED
    BY <1>8, <1>11
<1>14. /\ \A k \in S : \E i \in S : ordered[k] = values[i]
       /\ \A i \in S : \E k \in S : ordered[k] = values[i]
  <2>1. ASSUME NEW k \in S PROVE \E i \in S : ordered[k] = values[i]
    <3>1. chosen[k] \in S /\ ordered[k] = values[chosen[k]]
      BY <1>10, <1>11
    <3> QED
      BY <3>1
  <2>2. ASSUME NEW i \in S PROVE \E k \in S : ordered[k] = values[i]
    <3>1. PICK k \in S : chosen[k] = i
      BY <1>10
    <3>2. ordered[k] = values[i]
      BY <1>11, <3>1
    <3> QED
      BY <3>2
  <2> QED
    BY <2>1, <2>2
<1> QED
  BY <1>12, <1>13, <1>14 DEF ordered

\* Between two values, r hundredths of the way; percentile's value at k.
Share(v, u, r) == v * 100 + (u - v) * r

Interpolated(ordered, last, k) ==
  LET lower == k \div 100
      upper == IF lower < last THEN lower + 1 ELSE last
  IN  Share(ordered[lower + 1], ordered[upper + 1], k % 100)

LEMMA Scaled ==
  ASSUME NEW d \in Nat, NEW r \in Nat, NEW s \in Nat, r <= s
  PROVE  d * r \in Nat /\ d * r <= d * s
<1>1. d * r \in Nat /\ d * (s - r) \in Nat
  OBVIOUS
<1>2. d * s = d * r + d * (s - r)
  OBVIOUS
<1> QED
  BY <1>1, <1>2

\* An index, in hundredths, is the position below it and a rest.
LEMMA Hundredths ==
  ASSUME NEW last \in Nat, NEW k \in 0..(100 * last)
  PROVE  /\ k \div 100 \in 0..last /\ k % 100 \in 0..99
         /\ k % 100 = k - 100 * (k \div 100)
<1>1. k \in Nat /\ k <= 100 * last
  OBVIOUS
<1>2. k \div 100 \in Nat /\ k % 100 \in 0..99 /\ k % 100 = k - 100 * (k \div 100)
  BY <1>1
<1> DEFINE lower == k \div 100
           rest  == k % 100
<1> HIDE DEF lower, rest
<1>3. lower \in Nat /\ rest \in 0..99 /\ rest = k - 100 * lower
  BY <1>2 DEF lower, rest
<1>4. lower <= last
  BY <1>1, <1>3
<1> QED
  BY <1>3, <1>4 DEF lower, rest

\* Between two values, a share of their distance.
LEMMA Between ==
  ASSUME NEW v \in Nat, NEW u \in Nat, v <= u, NEW r \in 0..99
  PROVE  /\ Share(v, u, r) \in Nat
         /\ v * 100 <= Share(v, u, r) /\ Share(v, u, r) <= u * 100
         /\ \A s \in r..99 : Share(v, u, r) <= Share(v, u, s)
<1> DEFINE d == u - v
<1>1. d \in Nat /\ u = v + d
  OBVIOUS
<1> HIDE DEF d
<1>2. d * r \in Nat /\ d * r <= d * 100
  BY <1>1, Scaled
<1>3. u * 100 = v * 100 + d * 100 /\ v * 100 \in Nat /\ d * 100 \in Nat
  BY <1>1
<1>4. Share(v, u, r) = v * 100 + d * r
  BY DEF d, Share
<1>5. ASSUME NEW s \in r..99
      PROVE  Share(v, u, r) <= Share(v, u, s)
  <2>1. d * s \in Nat /\ d * r <= d * s
    BY <1>1, Scaled
  <2>2. Share(v, u, s) = v * 100 + d * s
    BY DEF d, Share
  <2> QED
    BY <1>2, <1>4, <2>1, <2>2
<1>6. Share(v, u, r) \in Nat /\ v * 100 <= Share(v, u, r) /\ Share(v, u, r) <= u * 100
  BY <1>2, <1>3, <1>4
<1> QED
  BY <1>5, <1>6

\* Where an index is, and what percentile makes of it.
At(ordered, last, k, lower, upper, r) ==
  /\ k = 100 * lower + r
  /\ lower <= upper /\ (lower < last => upper = lower + 1)
  /\ Interpolated(ordered, last, k) = Share(ordered[lower + 1], ordered[upper + 1], r)

LEMMA Located ==
  ASSUME NEW last \in Nat, NEW ordered \in [1..(last + 1) -> Nat],
         NEW k \in 0..(100 * last)
  PROVE  \E lower \in 0..last, upper \in 0..last, r \in 0..99 :
           At(ordered, last, k, lower, upper, r)
<1> DEFINE lower == k \div 100
           upper == IF lower < last THEN lower + 1 ELSE last
           r     == k % 100
<1>1. lower \in 0..last /\ r \in 0..99 /\ r = k - 100 * lower
  BY Hundredths
<1>2. Interpolated(ordered, last, k) = Share(ordered[lower + 1], ordered[upper + 1], r)
  BY DEF Interpolated
<1> HIDE DEF lower, r
<1>3. upper \in 0..last /\ lower <= upper /\ (lower < last => upper = lower + 1)
  BY <1>1
<1> HIDE DEF upper
<1>4. k = 100 * lower + r
  BY <1>1
<1> QED
  BY <1>1, <1>2, <1>3, <1>4 DEF At

\* It stays between the two values, and follows the index.
LEMMA Interpolation ==
  ASSUME NEW last \in Nat, NEW ordered \in [1..(last + 1) -> Nat],
         \A k, l \in 1..(last + 1) : k <= l => ordered[k] <= ordered[l],
         NEW j \in 0..(100 * last), NEW k \in 0..(100 * last), j <= k
  PROVE  /\ Interpolated(ordered, last, j) <= Interpolated(ordered, last, k)
         /\ Interpolated(ordered, last, k) \in Int
<1>1. PICK lj \in 0..last, uj \in 0..last, rj \in 0..99 : At(ordered, last, j, lj, uj, rj)
  BY Located
<1>2. PICK lk \in 0..last, uk \in 0..last, rk \in 0..99 : At(ordered, last, k, lk, uk, rk)
  BY Located
<1> DEFINE a  == ordered[lj + 1]
           b  == ordered[uj + 1]
           c  == ordered[lk + 1]
           d  == ordered[uk + 1]
<1>3. a \in Nat /\ b \in Nat /\ c \in Nat /\ d \in Nat /\ a <= b /\ c <= d
  BY <1>1, <1>2 DEF At
<1>4. lj < lk => b <= c
  BY <1>1, <1>2 DEF At
<1>5. lj = lk => a = c /\ b = d /\ rk \in rj..99
  BY <1>1, <1>2 DEF At
<1>6. lj < lk \/ lj = lk
  BY <1>1, <1>2 DEF At
<1> HIDE DEF a, b, c, d
<1>7. /\ Share(a, b, rj) \in Nat /\ Share(a, b, rj) <= b * 100
      /\ Share(c, d, rk) \in Nat /\ c * 100 <= Share(c, d, rk)
  BY <1>3, Between
<1>8. Share(a, b, rj) <= Share(c, d, rk)
  <2>1. CASE lj < lk
    BY <1>3, <1>4, <1>7, <2>1
  <2>2. CASE lj = lk
    BY <1>3, <1>5, <2>2, Between
  <2> QED
    BY <1>6, <2>1, <2>2
<1> QED
  BY <1>1, <1>2, <1>7, <1>8 DEF a, b, c, d, At

\* It never leaves the values.
LEMMA Within ==
  ASSUME NEW last \in Nat, NEW ordered \in [1..(last + 1) -> Nat],
         \A k, l \in 1..(last + 1) : k <= l => ordered[k] <= ordered[l],
         NEW k \in 0..(100 * last)
  PROVE  /\ 100 * ordered[1] <= Interpolated(ordered, last, k)
         /\ Interpolated(ordered, last, k) <= 100 * ordered[last + 1]
<1>1. PICK lower \in 0..last, upper \in 0..last, r \in 0..99 :
        At(ordered, last, k, lower, upper, r)
  BY Located
<1> DEFINE a == ordered[lower + 1]
           b == ordered[upper + 1]
<1>2. /\ ordered[1] \in Nat /\ a \in Nat /\ b \in Nat /\ ordered[last + 1] \in Nat
      /\ ordered[1] <= a /\ a <= b /\ b <= ordered[last + 1]
  BY <1>1 DEF At
<1>3. Interpolated(ordered, last, k) = Share(a, b, r)
  BY <1>1 DEF At
<1> HIDE DEF a, b
<1>4. Share(a, b, r) \in Nat /\ a * 100 <= Share(a, b, r) /\ Share(a, b, r) <= b * 100
  BY <1>2, Between
<1> QED
  BY <1>2, <1>3, <1>4

\* Half way is the median.
LEMMA HalfWay ==
  ASSUME NEW last \in Nat, NEW ordered \in [1..(last + 1) -> Nat]
  PROVE  Interpolated(ordered, last, last * 50) =
           50 * (ordered[(last + 2) \div 2] + ordered[(last + 3) \div 2])
<1>1. last * 50 \in 0..(100 * last)
  OBVIOUS
<1>2. PICK lower \in 0..last, upper \in 0..last, r \in 0..99 :
        At(ordered, last, last * 50, lower, upper, r)
  BY <1>1, Located
<1>3. \/ r = 0 /\ last = 2 * lower
      \/ r = 50 /\ last = 2 * lower + 1 /\ upper = lower + 1
  <2>1. last * 50 = 100 * lower + r /\ (lower < last => upper = lower + 1)
    BY <1>2 DEF At
  <2>2. r = 50 * (last - 2 * lower)
    BY <2>1
  <2>3. last - 2 * lower = 0 \/ last - 2 * lower = 1
    BY <2>2
  <2> QED
    BY <2>1, <2>2, <2>3
<1> DEFINE a == ordered[lower + 1]
           b == ordered[upper + 1]
<1>4. a \in Nat /\ b \in Nat
  OBVIOUS
<1>5. Interpolated(ordered, last, last * 50) = Share(a, b, r)
  BY <1>2 DEF At
<1>6. CASE r = 0 /\ last = 2 * lower
  <2>1. (last + 2) \div 2 = lower + 1 /\ (last + 3) \div 2 = lower + 1
    BY <1>6
  <2> HIDE DEF b
  <2>2. Share(a, b, 0) = 50 * (a + a)
    <3> HIDE DEF a
    <3> QED
      BY <1>4 DEF Share
  <2> QED
    BY <1>5, <1>6, <2>1, <2>2
<1>7. CASE r = 50 /\ last = 2 * lower + 1 /\ upper = lower + 1
  <2>1. (last + 2) \div 2 = lower + 1 /\ (last + 3) \div 2 = upper + 1
    BY <1>7
  <2>2. Share(a, b, 50) = 50 * (a + b)
    <3> HIDE DEF a, b
    <3> QED
      BY <1>4 DEF Share
  <2> QED
    BY <1>5, <1>7, <2>1, <2>2
<1> QED
  BY <1>3, <1>6, <1>7

\* A function on 1..n is a sequence of that length.
LEMMA Indexed ==
  ASSUME NEW n \in Nat, NEW values \in [1..n -> Nat]
  PROVE  values \in Seq(Nat) /\ Len(values) = n /\ DOMAIN values = 1..n
OBVIOUS

\* percentile is the interpolation, at a percentage of the last position.
LEMMA PercentileIs ==
  ASSUME NEW n \in Nat, NEW values \in [1..n -> Nat], NEW percent \in 0..100
  PROVE  percentile(values, percent) =
           Interpolated(sorted(values), n - 1, (n - 1) * percent)
BY Indexed DEF percentile, Interpolated, Share

\* What the summary says of some latencies is right.
LEMMA SummaryIsRight ==
  ASSUME NEW n \in Nat \ {0}, NEW values \in [1..n -> Nat]
  PROVE  LET ordered == sorted(values) IN
         /\ percentile(values, 50) =
              50 * (ordered[(Len(ordered) + 1) \div 2] + ordered[(Len(ordered) + 2) \div 2])
         /\ 100 * Min(ToSet(values)) <= percentile(values, 50)
         /\ percentile(values, 50) <= percentile(values, 95)
         /\ percentile(values, 95) <= percentile(values, 99)
         /\ percentile(values, 99) <= 100 * Max(ToSet(values))
<1> DEFINE last    == n - 1
           ordered == sorted(values)
<1>1. last \in Nat /\ last + 1 = n
  OBVIOUS
<1>2. /\ ordered \in [1..n -> Nat]
      /\ \A k, l \in 1..n : k <= l => ordered[k] <= ordered[l]
      /\ \A k \in 1..n : \E i \in 1..n : ordered[k] = values[i]
      /\ \A i \in 1..n : \E k \in 1..n : ordered[k] = values[i]
  BY Sorting
<1>3. \A percent \in 0..100 :
        percentile(values, percent) = Interpolated(ordered, last, last * percent)
  BY PercentileIs
<1>4. Len(ordered) = n
  BY <1>2, Indexed
<1> HIDE DEF ordered
<1>5. ToSet(values) \in SUBSET Nat /\ ordered[1] \in ToSet(values) /\ ordered[n] \in ToSet(values)
  <2>1. ToSet(values) = {values[i] : i \in 1..n}
    BY DEF ToSet
  <2>2. \A k \in 1..n : ordered[k] \in ToSet(values)
    BY <1>2, <2>1
  <2>3. 1 \in 1..n /\ n \in 1..n
    OBVIOUS
  <2>4. ToSet(values) \in SUBSET Nat
    BY <2>1
  <2> QED
    BY <2>2, <2>3, <2>4
<1>6. /\ ordered[1] \in Nat /\ ordered[n] \in Nat
      /\ Min(ToSet(values)) \in Nat /\ Min(ToSet(values)) <= ordered[1]
      /\ Max(ToSet(values)) \in Nat /\ ordered[n] <= Max(ToSet(values))
  <2>1. \A v \in ToSet(values) : ordered[1] <= v /\ v <= ordered[n]
    BY <1>2 DEF ToSet
  <2>2. \E v \in ToSet(values) : \A u \in ToSet(values) : v <= u
    BY <1>5, <2>1
  <2>3. \E v \in ToSet(values) : \A u \in ToSet(values) : v >= u
    BY <1>5, <2>1
  <2>4. /\ Min(ToSet(values)) \in ToSet(values)
        /\ \A u \in ToSet(values) : Min(ToSet(values)) <= u
    BY <2>2 DEF Min
  <2>5. /\ Max(ToSet(values)) \in ToSet(values)
        /\ \A u \in ToSet(values) : Max(ToSet(values)) >= u
    BY <2>3 DEF Max
  <2> QED
    BY <1>5, <2>4, <2>5
<1> HIDE DEF last
<1>7. /\ last * 50 \in 0..(100 * last) /\ last * 95 \in 0..(100 * last)
      /\ last * 99 \in 0..(100 * last) /\ last * 50 <= last * 95 /\ last * 95 <= last * 99
      /\ last * 50 <= last * 50
  BY <1>1
<1>8. /\ ordered \in [1..(last + 1) -> Nat]
      /\ \A k, l \in 1..(last + 1) : k <= l => ordered[k] <= ordered[l]
  BY <1>1, <1>2
<1> DEFINE p50 == Interpolated(ordered, last, last * 50)
           p95 == Interpolated(ordered, last, last * 95)
           p99 == Interpolated(ordered, last, last * 99)
<1>9. p50 <= p95 /\ p95 <= p99 /\ p50 \in Int /\ p95 \in Int /\ p99 \in Int
  <2>1. p50 <= p95 /\ p95 \in Int
    BY <1>1, <1>7, <1>8, Interpolation
  <2>2. p95 <= p99 /\ p99 \in Int
    BY <1>1, <1>7, <1>8, Interpolation
  <2>3. p50 \in Int
    BY <1>1, <1>7, <1>8, Interpolation
  <2> QED
    BY <2>1, <2>2, <2>3
<1>10. 100 * ordered[1] <= p50 /\ p99 <= 100 * ordered[n]
  BY <1>1, <1>7, <1>8, Within
<1>11. p50 = 50 * (ordered[(last + 2) \div 2] + ordered[(last + 3) \div 2])
  BY <1>1, <1>8, HalfWay
<1>12. /\ percentile(values, 50) = p50
       /\ percentile(values, 95) = p95
       /\ percentile(values, 99) = p99
  BY <1>3
<1> HIDE DEF p50, p95, p99
<1>13. 100 * Min(ToSet(values)) <= p50 /\ p99 <= 100 * Max(ToSet(values))
  BY <1>6, <1>9, <1>10
<1>14. last + 2 = Len(ordered) + 1 /\ last + 3 = Len(ordered) + 2
  BY <1>1, <1>4
<1> QED
  BY <1>9, <1>11, <1>12, <1>13, <1>14 DEF ordered

\* The report is made of all the results, and none is added to them after it.
ReportInv == /\ results \in Seq(SubmissionResult)
             /\ summarized # <<>> => Len(results) = Submissions
             /\ PercentilesAreRight

\* However many results the load test has and whatever their latencies: p50 is
\* the median, and min, p50, p95, p99 and max ascend (scripts/load_test.py).
THEOREM PercentilesAlwaysRight == ReportSpec => []PercentilesAreRight
<1>1. ReportInit => ReportInv
  BY DEF ReportInit, ReportInv, PercentilesAreRight
<1>2. ReportInv /\ [ReportNext]_loadReportVars => ReportInv'
  <2> SUFFICES ASSUME ReportInv, [ReportNext]_loadReportVars PROVE ReportInv'
    OBVIOUS
  <2> USE DEF ReportInv
  <2>1. ASSUME NEW r \in SubmissionResult, Gather(r)
        PROVE  ReportInv'
    <3>1. summarized = <<>> /\ summarized' = <<>>
      BY <2>1, ReportAssumption DEF Gather
    <3>2. results' \in Seq(SubmissionResult)
      BY <2>1 DEF Gather
    <3> QED
      BY <3>1, <3>2 DEF PercentilesAreRight
  <2>2. ASSUME NEW duration \in 1..MaxLatency, Summarize(duration)
        PROVE  ReportInv'
    <3> DEFINE n == Len(results)
    <3>1. /\ results' = results /\ n = Submissions /\ n \in Nat \ {0}
          /\ DOMAIN results = 1..n
      BY <2>2, ReportAssumption DEF Summarize
    <3>2. Latencies \in [1..n -> Nat]
      <4>1. \A k \in 1..n : results[k] \in SubmissionResult
        BY <3>1
      <4>2. \A k \in 1..n : results[k].latency \in Nat
        BY <4>1, ReportAssumption DEF SubmissionResult
      <4> QED
        BY <3>1, <4>2 DEF Latencies
    <3>3. Latencies' = Latencies
      BY <3>1 DEF Latencies
    <3>4. /\ summarized'.p50 = percentile(Latencies, 50)
          /\ summarized'.p95 = percentile(Latencies, 95)
          /\ summarized'.p99 = percentile(Latencies, 99)
          /\ summarized'.min = 100 * Min(ToSet(Latencies))
          /\ summarized'.max = 100 * Max(ToSet(Latencies))
      BY <2>2 DEF Summarize
    <3>5. Median' = Median
      BY <3>3 DEF Median
    <3> DEFINE values == Latencies
    <3>6. values \in [1..n -> Nat] /\ n \in Nat \ {0}
      BY <3>1, <3>2
    <3>7. Median = LET ordered == sorted(values) IN
                   50 * (ordered[(Len(ordered) + 1) \div 2] + ordered[(Len(ordered) + 2) \div 2])
      BY DEF Median
    <3>8. PercentilesAreRight'
      <4> HIDE DEF values, n
      <4>1. /\ percentile(values, 50) = Median
            /\ 100 * Min(ToSet(values)) <= percentile(values, 50)
            /\ percentile(values, 50) <= percentile(values, 95)
            /\ percentile(values, 95) <= percentile(values, 99)
            /\ percentile(values, 99) <= 100 * Max(ToSet(values))
        BY <3>6, <3>7, SummaryIsRight
      <4> QED
        BY <3>4, <3>5, <4>1 DEF PercentilesAreRight, values
    <3> QED
      BY <3>1, <3>8
  <2>3. ASSUME UNCHANGED loadReportVars
        PROVE  ReportInv'
    BY <2>3 DEF loadReportVars, PercentilesAreRight, Median, Latencies
  <2> QED
    BY <2>1, <2>2, <2>3 DEF ReportNext
<1>3. ReportInv => PercentilesAreRight
  BY DEF ReportInv
<1> QED
  BY <1>1, <1>2, <1>3, PTL DEF ReportSpec
=============================================================================
