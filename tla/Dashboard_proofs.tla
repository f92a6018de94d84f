-------------------------- MODULE Dashboard_proofs --------------------------
(****************************************************************************)
(* The dashboard's safety properties, for any number of tasks and fetches.  *)
(****************************************************************************)
EXTENDS Dashboard, TLAPS

\* The page starts well-formed, with the script's refresh under way.
LEMMA DashboardInit == Init => DashboardInv
<1> SUFFICES ASSUME Init PROVE DashboardInv
  OBVIOUS
<1> USE DEF Init
<1> PICK f \in Fetches :
      fetch = [g \in Fetches |-> IF g = f THEN Summary("nobody") ELSE NoFetch]
  OBVIOUS
<1>1. TypeOK
  BY DEF TypeOK, Fetch, Display, TaskState, Dialog, EmptyDrawer, Nothing,
         Summary, NoFetch, Request
<1>2. FetchesFit
  BY DEF FetchesFit, Dialog, Summary, NoFetch, Request
<1>3. ConfirmLock
  BY DEF ConfirmLock, OnBehalf, Dialog, Summary, NoFetch, Request
<1>4. SelectedIsAsked /\ PollingGoesOn
  BY DEF SelectedIsAsked, PollingGoesOn, Summary, Request
<1> QED
  BY <1>1, <1>2, <1>3, <1>4 DEF DashboardInv

-----------------------------------------------------------------------------
(* How a step may change the fetches and the locks *)

\* A fetch as its four kinds of change leave it: nothing but the answer
\* changes, it is sent, it ends, or a dialog's request turns into its refresh.
SameOwner(f) ==
  /\ fetch'[f].kind = fetch[f].kind /\ fetch'[f].by = fetch[f].by
  /\ fetch'[f].task = fetch[f].task

\* Every fetch but f is left alone.
OthersAlone(f) == \A g \in Fetches \ {f} : fetch'[g] = fetch[g]

\* What an answer of the server does to the fetches: it adds an answer.
LEMMA AnswerFacts ==
  ASSUME TypeOK, NEW f \in Fetches, NEW pc \in {"ok", "failed"},
         NEW data \in Display, Answer(f, pc, data)
  PROVE  /\ fetch' \in [Fetches -> Fetch]
         /\ SameOwner(f) /\ OthersAlone(f)
BY DEF TypeOK, Answer, Set, Fetch, SameOwner, OthersAlone

\* What a handler does to the fetches: its own becomes the given request.
LEMMA SetFacts ==
  ASSUME TypeOK, NEW f \in Fetches, NEW r \in Fetch, Set(f, r)
  PROVE  /\ fetch' \in [Fetches -> Fetch]
         /\ fetch'[f] = r /\ OthersAlone(f)
BY DEF TypeOK, Set, OthersAlone

\* The requests the page makes are well-formed.
LEMMA RequestFacts ==
  /\ NoFetch \in Fetch
  /\ NoFetch.kind = "none" /\ NoFetch.by = "nobody"
  /\ \A by \in Dialog \cup {"nobody"} :
       /\ Summary(by) \in Fetch
       /\ Summary(by).kind = "summary" /\ Summary(by).by = by
  /\ \A kind \in {"summary", "detail"} \cup Dialog,
        t \in Tasks \cup {NoTask}, by \in Dialog \cup {"nobody"} :
       /\ Request(kind, t, by) \in Fetch
       /\ Request(kind, t, by).kind = kind /\ Request(kind, t, by).by = by
       /\ Request(kind, t, by).task = t
BY DEF NoFetch, Summary, Request, Fetch, Display, Nothing, Dialog

\* A fetch in flight is answered, or nothing happens to any.
Keeps == /\ \/ fetch' = fetch
            \/ \E f \in Fetches : SameOwner(f) /\ OthersAlone(f)
         /\ locked' = locked /\ armed' = armed

\* A refresh or a task's detail is asked for.
Starts(f) == /\ fetch[f].kind = "none" /\ OthersAlone(f)
             /\ fetch'[f].kind \in {"summary", "detail"}
             /\ fetch'[f].by = "nobody"
             /\ fetch'[f].kind = "detail" => fetch'[f].task \in Tasks
             /\ locked' = locked
             /\ \/ armed' = armed
                \/ fetch'[f].kind = "summary"

\* A dialog is confirmed.
Confirms(f, kind) == /\ fetch[f].kind = "none" /\ OthersAlone(f)
                     /\ dialog = kind /\ kind \notin locked
                     /\ fetch'[f].kind = kind /\ fetch'[f].by = kind
                     /\ kind # "recovery" => /\ fetch'[f].task \in Tasks
                                             /\ fetch'[f].task = asked
                     /\ locked' = locked \cup {kind} /\ armed' = armed

\* A handler comes to its end.
Ends(f) == /\ fetch[f].kind # "none" /\ OthersAlone(f)
           /\ fetch'[f] = NoFetch
           /\ locked' = locked \ {fetch[f].by}
           /\ \/ armed' = TRUE
              \/ fetch[f].kind # "summary" /\ armed' = armed

\* A dialog's request is answered and its handler awaits a refresh.
Turns(f) == /\ fetch[f].kind \in Dialog /\ OthersAlone(f)
            /\ fetch'[f].kind = "summary" /\ fetch'[f].by = fetch[f].kind
            /\ locked' = locked /\ armed' = armed

\* All that can happen to the fetches.
FetchStep == \/ Keeps
             \/ \E f \in Fetches : \/ Starts(f) \/ Ends(f) \/ Turns(f)
                                   \/ \E kind \in Dialog : Confirms(f, kind)

-----------------------------------------------------------------------------
(* The invariant follows from what can happen to the fetches *)

\* Every fetch keeps naming what its kind needs.
LEMMA FitKept ==
  ASSUME TypeOK, FetchesFit, FetchStep
  PROVE  FetchesFit'
<1> USE RequestFacts DEF FetchesFit, OthersAlone
<1>1. CASE Keeps
  <2>1. CASE fetch' = fetch
    BY <2>1
  <2>2. ASSUME NEW f \in Fetches, SameOwner(f), OthersAlone(f)
        PROVE  FetchesFit'
    <3>1. \A g \in Fetches : SameOwner(g)
      BY <2>2 DEF SameOwner
    <3> QED
      BY <3>1 DEF SameOwner
  <2> QED
    BY <1>1, <2>1, <2>2 DEF Keeps
<1>2. ASSUME NEW f \in Fetches, Starts(f) PROVE FetchesFit'
  BY <1>2 DEF Starts, Dialog
<1>3. ASSUME NEW f \in Fetches, Ends(f) PROVE FetchesFit'
  BY <1>3 DEF Ends, Dialog
<1>4. ASSUME NEW f \in Fetches, Turns(f) PROVE FetchesFit'
  BY <1>4 DEF Turns, Dialog
<1>5. ASSUME NEW f \in Fetches, NEW kind \in Dialog, Confirms(f, kind)
      PROVE FetchesFit'
  BY <1>5 DEF Confirms, Dialog
<1> QED
  BY <1>1, <1>2, <1>3, <1>4, <1>5 DEF FetchStep

\* A confirm button is disabled exactly while its one request is under way.
LEMMA LockKept ==
  ASSUME TypeOK, FetchesFit, ConfirmLock, FetchStep
  PROVE  ConfirmLock'
<1> SUFFICES ASSUME NEW kind \in Dialog
             PROVE  /\ kind \in locked' <=> \E f \in Fetches : OnBehalf(f, kind)'
                    /\ \A f, g \in Fetches :
                         OnBehalf(f, kind)' /\ OnBehalf(g, kind)' => f = g
  BY DEF ConfirmLock
<1>0. /\ kind \in locked <=> \E f \in Fetches : OnBehalf(f, kind)
      /\ \A f, g \in Fetches : OnBehalf(f, kind) /\ OnBehalf(g, kind) => f = g
      /\ kind # "nobody" /\ kind # "none" /\ kind # "summary" /\ kind # "detail"
  BY DEF ConfirmLock, Dialog
<1> DEFINE Same(f) == OnBehalf(f, kind)' <=> OnBehalf(f, kind)
<1>1. CASE Keeps
  <2>1. \A f \in Fetches : Same(f)
    BY <1>1 DEF Keeps, SameOwner, OthersAlone, OnBehalf
  <2> QED
    BY <2>1, <1>0, <1>1 DEF Keeps
<1>2. ASSUME NEW f \in Fetches, Starts(f) PROVE \A g \in Fetches : Same(g)
  BY <1>2, <1>0 DEF Starts, OthersAlone, OnBehalf
<1>3. ASSUME NEW f \in Fetches, Turns(f) PROVE \A g \in Fetches : Same(g)
  BY <1>3, <1>0 DEF Turns, OthersAlone, OnBehalf, FetchesFit, Dialog
<1>4. ASSUME NEW f \in Fetches, Ends(f)
      PROVE  /\ ~OnBehalf(f, kind)'
             /\ \A g \in Fetches \ {f} : Same(g)
             /\ kind \in locked' <=> kind \in locked /\ ~OnBehalf(f, kind)
  BY <1>4, <1>0, RequestFacts DEF Ends, OthersAlone, OnBehalf
<1>5. ASSUME NEW f \in Fetches, NEW k \in Dialog, Confirms(f, k)
      PROVE  /\ ~OnBehalf(f, kind)
             /\ OnBehalf(f, kind)' <=> k = kind
             /\ \A g \in Fetches \ {f} : Same(g)
             /\ kind \in locked' <=> kind \in locked \/ k = kind
             /\ k \notin locked
  BY <1>5, <1>0 DEF Confirms, OthersAlone, OnBehalf, Dialog
<1>6. ASSUME NEW f \in Fetches, Starts(f) \/ Turns(f)
      PROVE  locked' = locked
  BY <1>6 DEF Starts, Turns
<1> HIDE DEF Same
<1>7. \/ Keeps
      \/ \E f \in Fetches : Starts(f) \/ Turns(f)
      \/ \E f \in Fetches : Ends(f)
      \/ \E f \in Fetches, k \in Dialog : Confirms(f, k)
  BY DEF FetchStep
<1>8. CASE \E f \in Fetches : Starts(f) \/ Turns(f)
  BY <1>0, <1>2, <1>3, <1>6, <1>8 DEF Same
<1>9. CASE \E f \in Fetches : Ends(f)
  <2> PICK f \in Fetches : Ends(f)
    BY <1>9
  <2> QED
    BY <1>0, <1>4 DEF Same
<1>10. CASE \E f \in Fetches, k \in Dialog : Confirms(f, k)
  <2> PICK f \in Fetches, k \in Dialog : Confirms(f, k)
    BY <1>10
  <2> QED
    BY <1>0, <1>5 DEF Same
<1> QED
  BY <1>1, <1>7, <1>8, <1>9, <1>10

\* A refresh is under way or the timer waits.
LEMMA PollingKept ==
  ASSUME TypeOK, PollingGoesOn, FetchStep
  PROVE  PollingGoesOn'
<1> USE DEF PollingGoesOn, OthersAlone
<1>1. CASE Keeps
  BY <1>1 DEF Keeps, SameOwner
<1>2. ASSUME NEW f \in Fetches, Starts(f) PROVE PollingGoesOn'
  BY <1>2 DEF Starts
<1>3. ASSUME NEW f \in Fetches, Ends(f) PROVE PollingGoesOn'
  BY <1>3 DEF Ends
<1>4. ASSUME NEW f \in Fetches, Turns(f) PROVE PollingGoesOn'
  BY <1>4 DEF Turns
<1>5. ASSUME NEW f \in Fetches, NEW kind \in Dialog, Confirms(f, kind)
      PROVE PollingGoesOn'
  BY <1>5 DEF Confirms, Dialog
<1> QED
  BY <1>1, <1>2, <1>3, <1>4, <1>5 DEF FetchStep

-----------------------------------------------------------------------------
(* Every action is a step of the fetches and keeps the types *)

\* refresh, by the timer or by a button.
LEMMA RefreshSteps ==
  ASSUME DashboardInv, NEW f \in Fetches, TimerFires(f) \/ ClickRefresh(f)
  PROVE  TypeOK' /\ FetchStep /\ SelectedIsAsked'
<1> USE DEF DashboardInv
<1>1. /\ fetch[f].kind = "none"
      /\ Set(f, Summary("nobody"))
      /\ button' = FALSE
      /\ UNCHANGED <<serverVars, drawer, dialogVars, shown, alert>>
      /\ armed' = armed \/ armed' = FALSE
  BY DEF TimerFires, ClickRefresh, Refresh, Send
<1>2. Summary("nobody") \in Fetch /\ Summary("nobody").kind = "summary"
      /\ Summary("nobody").by = "nobody"
  BY RequestFacts
<1>3. /\ fetch' \in [Fetches -> Fetch]
      /\ fetch'[f] = Summary("nobody") /\ OthersAlone(f)
  BY <1>1, <1>2, SetFacts
<1>4. TypeOK'
  BY <1>1, <1>3 DEF TypeOK, serverVars, dialogVars
<1>5. Starts(f)
  BY <1>1, <1>2, <1>3 DEF Starts, dialogVars
<1> QED
  BY <1>1, <1>4, <1>5 DEF FetchStep, SelectedIsAsked, dialogVars

\* The end of refresh, after a success or a failure.
LEMMA SummarySteps ==
  ASSUME DashboardInv, NEW f \in Fetches, SummaryArrives(f) \/ SummaryFails(f)
  PROVE  TypeOK' /\ FetchStep /\ SelectedIsAsked'
<1> USE DEF DashboardInv
<1>1. /\ fetch[f].kind = "summary"
      /\ Finally(f)
      /\ alert' \in BOOLEAN
      /\ shown' = fetch[f].data \/ shown' = shown
      /\ UNCHANGED <<serverVars, drawer, selected, dialog, asked>>
  BY DEF SummaryArrives, SummaryFails
<1>2. /\ fetch' \in [Fetches -> Fetch]
      /\ fetch'[f] = NoFetch /\ OthersAlone(f)
  BY <1>1, RequestFacts, SetFacts DEF Finally
<1>3. shown' \in Display
  BY <1>1 DEF TypeOK, Fetch
<1>4. TypeOK'
  BY <1>1, <1>2, <1>3 DEF TypeOK, serverVars, Finally
<1>5. Ends(f)
  BY <1>1, <1>2 DEF Ends, Finally
<1> QED
  BY <1>1, <1>4, <1>5 DEF FetchStep, SelectedIsAsked

\* showTask up to its await.
LEMMA InspectSteps ==
  ASSUME DashboardInv, NEW f \in Fetches, NEW t \in Tasks, Inspect(f, t)
  PROVE  TypeOK' /\ FetchStep /\ SelectedIsAsked'
<1> USE DEF DashboardInv
<1> DEFINE r == Request("detail", t, "nobody")
<1>1. r \in Fetch /\ r.kind = "detail" /\ r.by = "nobody" /\ r.task = t
  BY RequestFacts
<1>2. /\ fetch' \in [Fetches -> Fetch]
      /\ fetch'[f] = r /\ OthersAlone(f)
  BY <1>1, SetFacts DEF Inspect, Send
<1>3. TypeOK'
  BY <1>2 DEF TypeOK, Inspect, EmptyDrawer, serverVars, pollVars
<1>4. Starts(f)
  BY <1>1, <1>2 DEF Starts, Inspect, Send, pollVars
<1> QED
  BY <1>3, <1>4 DEF FetchStep, SelectedIsAsked, Inspect

\* showTask after its await.
LEMMA DetailSteps ==
  ASSUME DashboardInv, NEW f \in Fetches, DetailArrives(f) \/ DetailFails(f)
  PROVE  TypeOK' /\ FetchStep /\ SelectedIsAsked'
<1> USE DEF DashboardInv
<1>1. /\ fetch[f].kind = "detail" /\ Set(f, NoFetch)
      /\ \/ drawer' = EmptyDrawer(drawer.open)
         \/ drawer' = [open |-> drawer.open, task |-> fetch[f].task,
                       status |-> fetch[f].data[fetch[f].task]]
      /\ UNCHANGED <<serverVars, dialogVars, pollVars>>
  BY DEF DetailArrives, DetailFails
<1>2. /\ fetch' \in [Fetches -> Fetch]
      /\ fetch'[f] = NoFetch /\ OthersAlone(f)
  BY <1>1, RequestFacts, SetFacts
<1>3. /\ fetch[f].task \in Tasks /\ fetch[f].by = "nobody"
      /\ fetch[f].data \in [Tasks -> TaskState \cup {"unknown"}]
  BY <1>1 DEF TypeOK, Fetch, Display, FetchesFit
<1>4. TypeOK'
  BY <1>1, <1>2, <1>3 DEF TypeOK, EmptyDrawer, serverVars, dialogVars, pollVars
<1>5. locked \ {"nobody"} = locked
  BY DEF TypeOK, Dialog
<1>6. Ends(f)
  BY <1>1, <1>2, <1>3, <1>5 DEF Ends, dialogVars, pollVars
<1> QED
  BY <1>1, <1>4, <1>6 DEF FetchStep, SelectedIsAsked, dialogVars

\* Opening and closing drawer and dialogs.
LEMMA DialogSteps ==
  ASSUME DashboardInv,
         \/ \E t \in Tasks : RequestRequeue(t) \/ RequestRedispatch(t)
         \/ CloseDrawer \/ CancelDialog \/ RequestRecovery
  PROVE  TypeOK' /\ FetchStep /\ SelectedIsAsked'
<1> USE DEF DashboardInv, serverVars, dialogVars, pollVars, FetchStep, Keeps, Closed
<1>1. ASSUME NEW t \in Tasks, NEW kind \in {"requeue", "redispatch"}, OpenDialog(kind, t)
      PROVE  TypeOK' /\ FetchStep /\ SelectedIsAsked'
  BY <1>1 DEF OpenDialog, TypeOK, SelectedIsAsked, Dialog
<1>2. CASE CloseDrawer
  BY <1>2 DEF CloseDrawer, TypeOK, SelectedIsAsked
<1>3. CASE CancelDialog
  BY <1>3 DEF CancelDialog, TypeOK, SelectedIsAsked
<1>4. CASE RequestRecovery
  BY <1>4 DEF RequestRecovery, TypeOK, SelectedIsAsked, Dialog
<1> QED
  BY <1>1, <1>2, <1>3, <1>4 DEF RequestRequeue, RequestRedispatch

\* A dialog's confirm button up to the handler's first await.
LEMMA ConfirmSteps ==
  ASSUME DashboardInv, NEW f \in Fetches, NEW kind \in Dialog, Confirm(f, kind)
  PROVE  TypeOK' /\ FetchStep /\ SelectedIsAsked'
<1> USE DEF DashboardInv
<1> DEFINE t == IF kind = "recovery" THEN NoTask ELSE selected
           r == Request(kind, t, kind)
<1>1. t \in Tasks \cup {NoTask}
  BY DEF TypeOK
<1>2. r \in Fetch /\ r.kind = kind /\ r.by = kind /\ r.task = t
  <2>1. \A x \in Tasks \cup {NoTask} :
          /\ Request(kind, x, kind) \in Fetch
          /\ Request(kind, x, kind).kind = kind /\ Request(kind, x, kind).by = kind
          /\ Request(kind, x, kind).task = x
    BY DEF Request, Fetch, Display, Nothing, Dialog
  <2> HIDE DEF t
  <2> QED
    BY <1>1, <2>1
<1>3. /\ fetch' \in [Fetches -> Fetch]
      /\ fetch'[f] = r /\ OthersAlone(f)
  BY <1>2, SetFacts DEF Confirm, Send
<1>4. TypeOK'
  BY <1>3 DEF TypeOK, Confirm, serverVars, pollVars
<1>5. kind # "recovery" => t = asked /\ asked \in Tasks
  BY DEF SelectedIsAsked, Confirm, MayConfirm, Dialog
<1>6. Confirms(f, kind)
  BY <1>2, <1>3, <1>5 DEF Confirms, Confirm, MayConfirm, Send, pollVars
<1> QED
  BY <1>4, <1>6 DEF FetchStep, SelectedIsAsked, Confirm

\* A dialog's handler after its first await.
LEMMA ConfirmedSteps ==
  ASSUME DashboardInv, NEW f \in Fetches, Confirmed(f) \/ ConfirmFails(f)
  PROVE  TypeOK' /\ FetchStep /\ SelectedIsAsked'
<1> USE DEF DashboardInv
<1> DEFINE kind == fetch[f].kind
<1>0. kind \in Dialog /\ fetch[f].by = kind
  BY DEF Confirmed, ConfirmFails, FetchesFit
<1>1. CASE Confirmed(f)
  <2>1. Summary(kind) \in Fetch /\ Summary(kind).kind = "summary" /\ Summary(kind).by = kind
    BY <1>0, RequestFacts
  <2>2. /\ fetch' \in [Fetches -> Fetch]
        /\ fetch'[f] = Summary(kind) /\ OthersAlone(f)
    BY <1>1, <2>1, SetFacts DEF Confirmed
  <2>3. TypeOK'
    BY <1>1, <2>2 DEF Confirmed, TypeOK, Closed, serverVars
  <2>4. Turns(f)
    BY <1>0, <1>1, <2>1, <2>2 DEF Turns, Confirmed
  <2> QED
    BY <1>1, <2>3, <2>4 DEF Confirmed, FetchStep, SelectedIsAsked
<1>2. CASE ConfirmFails(f)
  <2>1. /\ fetch' \in [Fetches -> Fetch]
        /\ fetch'[f] = NoFetch /\ OthersAlone(f)
    BY <1>2, RequestFacts, SetFacts DEF ConfirmFails
  <2>2. TypeOK'
    BY <1>2, <2>1 DEF ConfirmFails, TypeOK, serverVars, pollVars
  <2>3. Ends(f)
    BY <1>0, <1>2, <2>1 DEF Ends, ConfirmFails, Dialog, pollVars
  <2> QED
    BY <1>2, <2>2, <2>3 DEF ConfirmFails, FetchStep, SelectedIsAsked
<1> QED
  BY <1>1, <1>2

\* The server, the network and everybody else.
LEMMA ServerSteps ==
  ASSUME DashboardInv,
         \/ \E f \in Fetches : Serve(f) \/ Fails(f) \/ ServeDegraded(f)
         \/ \E t \in Tasks, status \in TaskState : Change(t, status)
  PROVE  TypeOK' /\ FetchStep /\ SelectedIsAsked'
<1> USE DEF DashboardInv
<1>0. Nothing \in Display /\ board \in Display
  BY DEF TypeOK, Nothing, Display
<1>1. ASSUME NEW f \in Fetches, NEW pc \in {"ok", "failed"}, NEW data \in Display,
             Answer(f, pc, data), board' \in [Tasks -> TaskState],
             changes' = changes, failures' \in Nat,
             UNCHANGED <<drawer, dialogVars, pollVars>>
      PROVE  TypeOK' /\ FetchStep /\ SelectedIsAsked'
  <2>1. /\ fetch' \in [Fetches -> Fetch]
        /\ SameOwner(f) /\ OthersAlone(f)
    BY <1>1, AnswerFacts
  <2>2. TypeOK'
    BY <1>1, <2>1 DEF TypeOK, dialogVars, pollVars
  <2> QED
    BY <1>1, <2>1, <2>2 DEF FetchStep, Keeps, SelectedIsAsked, dialogVars, pollVars
<1>2. ASSUME NEW f \in Fetches, ServeRead(f)
      PROVE  TypeOK' /\ FetchStep /\ SelectedIsAsked'
  BY <1>0, <1>1, <1>2 DEF ServeRead, serverVars, TypeOK
<1>3. ASSUME NEW f \in Fetches, ServeRequeue(f)
      PROVE  TypeOK' /\ FetchStep /\ SelectedIsAsked'
  <2>1. board' \in [Tasks -> TaskState]
    BY <1>3 DEF ServeRequeue, TypeOK, TaskState
  <2> QED
    BY <1>0, <1>1, <1>3, <2>1 DEF ServeRequeue, TypeOK
<1>4. ASSUME NEW f \in Fetches, ServeRedispatch(f)
      PROVE  TypeOK' /\ FetchStep /\ SelectedIsAsked'
  BY <1>0, <1>1, <1>4 DEF ServeRedispatch, serverVars, TypeOK
<1>5. ASSUME NEW f \in Fetches, ServeRecovery(f)
      PROVE  TypeOK' /\ FetchStep /\ SelectedIsAsked'
  <2>1. board' \in [Tasks -> TaskState]
    BY <1>5 DEF ServeRecovery, TypeOK, TaskState
  <2> QED
    BY <1>0, <1>1, <1>5, <2>1 DEF ServeRecovery, TypeOK
<1>6. ASSUME NEW f \in Fetches, Fails(f) \/ ServeDegraded(f)
      PROVE  TypeOK' /\ FetchStep /\ SelectedIsAsked'
  BY <1>0, <1>1, <1>6 DEF Fails, ServeDegraded, TypeOK
<1>7. ASSUME NEW t \in Tasks, NEW status \in TaskState, Change(t, status)
      PROVE  TypeOK' /\ FetchStep /\ SelectedIsAsked'
  BY <1>7 DEF Change, TypeOK, FetchStep, Keeps, SelectedIsAsked, dialogVars, pollVars
<1> QED
  BY <1>2, <1>3, <1>4, <1>5, <1>6, <1>7 DEF Serve

\* Every step of the page, of the user and of the server.
LEMMA Steps ==
  ASSUME DashboardInv, [Next]_vars
  PROVE  TypeOK' /\ FetchStep /\ SelectedIsAsked'
<1>1. CASE UNCHANGED vars
  BY <1>1 DEF vars, serverVars, dialogVars, pollVars, DashboardInv, TypeOK,
              FetchStep, Keeps, SelectedIsAsked
<1>2. CASE Next
  BY <1>2, RefreshSteps, SummarySteps, InspectSteps, DetailSteps, DialogSteps,
     ConfirmSteps, ConfirmedSteps, ServerSteps
     DEF Next, User, Continue
<1> QED
  BY <1>1, <1>2

-----------------------------------------------------------------------------
(* Theorems *)

\* The inductive invariant of the page holds in every reachable state.
THEOREM DashboardInductive == Spec => []DashboardInv
<1>1. DashboardInv /\ [Next]_vars => DashboardInv'
  BY Steps, FitKept, LockKept, PollingKept DEF DashboardInv
<1> QED
  BY <1>1, DashboardInit, PTL DEF Spec

\* A confirm button is disabled exactly while its one request is under way: no
\* request of a dialog is sent twice.
THEOREM NoDoubleRequest == Spec => []ConfirmLock
<1>1. DashboardInv => ConfirmLock
  BY DEF DashboardInv
<1> QED
  BY <1>1, DashboardInductive, PTL

\* The page never stops polling.
THEOREM PollingNeverStops == Spec => []PollingGoesOn
<1>1. DashboardInv => PollingGoesOn
  BY DEF DashboardInv
<1> QED
  BY <1>1, DashboardInductive, PTL

\* A request is only sent for the task whose dialog is confirmed.
THEOREM OnlyWhatWasAsked == Spec => ConfirmsWhatWasAsked
<1> DEFINE Asked == \A f \in Fetches, kind \in {"requeue", "redispatch"} :
                      fetch[f].kind # kind /\ fetch'[f].kind = kind =>
                        dialog = kind /\ fetch'[f].task = asked
<1>1. ASSUME DashboardInv, [Next]_vars
      PROVE  Asked
  <2>1. FetchStep
    BY <1>1, Steps
  <2>2. SUFFICES ASSUME NEW f \in Fetches, NEW kind \in {"requeue", "redispatch"},
                        fetch[f].kind # kind, fetch'[f].kind = kind
                 PROVE  dialog = kind /\ fetch'[f].task = asked
    OBVIOUS
  <2>3. ~Keeps
    BY <2>2 DEF Keeps, SameOwner, OthersAlone
  <2>4. PICK g \in Fetches : \/ Starts(g) \/ Ends(g) \/ Turns(g)
                             \/ \E k \in Dialog : Confirms(g, k)
    BY <2>1, <2>3 DEF FetchStep
  <2>5. g = f
    BY <2>2, <2>4 DEF Starts, Ends, Turns, Confirms, OthersAlone
  <2>6. Confirms(f, kind)
    BY <2>2, <2>4, <2>5, RequestFacts DEF Starts, Ends, Turns, Confirms
  <2> QED
    BY <2>2, <2>6 DEF Confirms
<1>2. DashboardInv /\ [Next]_vars => [Asked]_vars
  BY <1>1
<1> QED
  BY <1>2, DashboardInductive, PTL DEF Spec, ConfirmsWhatWasAsked
=============================================================================
