------------------------------ MODULE Dashboard ------------------------------
(****************************************************************************)
(* The dashboard page (app.js): it polls a summary, shows a task in a       *)
(* drawer, and sends requeue, redispatch and recovery requests, each behind *)
(* a dialog that has to be confirmed.  A handler runs to its next await     *)
(* without interruption; between an await's fetch and its answer the user,  *)
(* the timer and other answers come in any order.                           *)
(*                                                                          *)
(* The page has one event loop, so an action is a handler up to its await,  *)
(* or what follows that await.  The server is what the page sees of it: the *)
(* status of each task.                                                     *)
(****************************************************************************)
EXTENDS Naturals

CONSTANTS
  Tasks,       \* the tasks the page may show
  NoTask,      \* no task id
  Fetches,     \* bound: fetches that may be under way at once
  MaxChanges,  \* bound: how often a status changes behind the page's back
  MaxFailures  \* bound: how many fetches fail or find the database down

ASSUME DashboardAssumption == NoTask \notin Tasks

VARIABLES
  board,     \* task -> its status in the database
  changes,   \* how often it has changed behind the page's back
  failures,  \* how many fetches have failed
  fetch,     \* fetch -> what it is for, a record of Fetch
  shown,     \* task -> its status in the snapshot on the page
  drawer,    \* the drawer: open or not, the task it shows and its status
  selected,  \* selectedTaskId
  dialog,    \* the modal dialog that is open
  locked,    \* the dialogs whose confirm button is disabled
  asked,     \* the task whose button opened the dialog (history: only
             \* properties read it)
  armed,     \* refreshTimer is waiting
  button,    \* the refresh button is enabled
  alert      \* the telemetry alert, which has a retry button, is visible

serverVars == <<board, changes, failures>>
dialogVars == <<selected, dialog, locked, asked>>
pollVars   == <<shown, armed, button, alert>>
vars == <<serverVars, fetch, drawer, dialogVars, pollVars>>

\* The statuses the page tells apart by its buttons.
TaskState == {"QUEUED", "RUNNING", "DEAD_LETTER"}
Display   == [Tasks -> TaskState \cup {"unknown"}]
Nothing   == [t \in Tasks |-> "unknown"]

Dialog == {"requeue", "redispatch", "recovery"}

\* sent: the request is on its way; ok or failed: so is the answer.  A summary
\* may be fetched on behalf of a dialog, whose handler awaits it.
Fetch == [kind : {"none", "summary", "detail"} \cup Dialog,
          task : Tasks \cup {NoTask}, by : Dialog \cup {"nobody"},
          pc : {"sent", "ok", "failed"}, data : Display]

Request(kind, task, by) ==
  [kind |-> kind, task |-> task, by |-> by, pc |-> "sent", data |-> Nothing]

NoFetch == Request("none", NoTask, "nobody")
Summary(by) == Request("summary", NoTask, by)

TypeOK ==
  /\ board \in [Tasks -> TaskState] /\ changes \in Nat /\ failures \in Nat
  /\ fetch \in [Fetches -> Fetch]
  /\ drawer \in [open : BOOLEAN, task : Tasks \cup {NoTask},
                 status : TaskState \cup {"unknown"}]
  /\ selected \in Tasks \cup {NoTask} /\ asked \in Tasks \cup {NoTask}
  /\ dialog \in Dialog \cup {"none"} /\ locked \subseteq Dialog
  /\ shown \in Display /\ armed \in BOOLEAN
  /\ button \in BOOLEAN /\ alert \in BOOLEAN

EmptyDrawer(open) == [open |-> open, task |-> NoTask, status |-> "unknown"]

\* The script ends with a call of refresh.
Init ==
  /\ board \in [Tasks -> TaskState] /\ changes = 0 /\ failures = 0
  /\ \E f \in Fetches :
       fetch = [g \in Fetches |-> IF g = f THEN Summary("nobody") ELSE NoFetch]
  /\ drawer = EmptyDrawer(FALSE)
  /\ selected = NoTask /\ dialog = "none" /\ locked = {} /\ asked = NoTask
  /\ shown = Nothing /\ armed = FALSE /\ button = FALSE /\ alert = FALSE

Set(f, request) == fetch' = [fetch EXCEPT ![f] = request]

Send(f, request) == fetch[f].kind = "none" /\ Set(f, request)

-----------------------------------------------------------------------------
(* Polling: refresh *)

\* refresh up to its await.
Refresh(f) == /\ Send(f, Summary("nobody"))
              /\ button' = FALSE

TimerFires(f) == /\ armed
                 /\ Refresh(f)
                 /\ armed' = FALSE
                 /\ UNCHANGED <<serverVars, drawer, dialogVars, shown, alert>>

\* The refresh button is disabled while a refresh is under way, the alert's
\* retry button is not.  A modal dialog makes the rest of the page inert.
ClickRefresh(f) ==
  /\ dialog = "none"
  /\ button \/ alert
  /\ Refresh(f)
  /\ UNCHANGED <<serverVars, drawer, dialogVars, shown, armed, alert>>

\* Mutant of Finally: the timer is only armed after a success.
Finally_NoTimer(f) == /\ armed' = (armed \/ fetch[f].pc = "ok")
                      /\ button' = TRUE
                      /\ locked' = locked \ {fetch[f].by}
                      /\ Set(f, NoFetch)

\* refresh's finally, and that of the dialog's handler if it awaits this
\* refresh.  clearTimeout precedes setTimeout: one timer is armed.
Finally(f) == /\ armed' = TRUE
              /\ button' = TRUE
              /\ locked' = locked \ {fetch[f].by}
              /\ Set(f, NoFetch)

SummaryArrives(f) ==
  /\ fetch[f].kind = "summary" /\ fetch[f].pc = "ok"
  /\ shown' = fetch[f].data
  /\ alert' = FALSE
  /\ Finally(f)
  /\ UNCHANGED <<serverVars, drawer, selected, dialog, asked>>

\* The page keeps what it shows.
SummaryFails(f) ==
  /\ fetch[f].kind = "summary" /\ fetch[f].pc = "failed"
  /\ alert' = TRUE
  /\ Finally(f)
  /\ UNCHANGED <<serverVars, drawer, selected, dialog, asked, shown>>

-----------------------------------------------------------------------------
(* The drawer: showTask, closeDrawer *)

Inspect(f, t) ==
  /\ dialog = "none"
  /\ shown[t] # "unknown"
  /\ Send(f, Request("detail", t, "nobody"))
  /\ selected' = t
  /\ drawer' = EmptyDrawer(TRUE)
  /\ UNCHANGED <<serverVars, dialog, locked, asked, pollVars>>

\* Mutant of DetailArrives: showTask selects its task after the await.
DetailArrives_Selects(f) ==
  /\ fetch[f].kind = "detail" /\ fetch[f].pc = "ok"
  /\ drawer' = [open |-> drawer.open, task |-> fetch[f].task,
                status |-> fetch[f].data[fetch[f].task]]
  /\ selected' = fetch[f].task
  /\ Set(f, NoFetch)
  /\ UNCHANGED <<serverVars, dialog, locked, asked, pollVars>>

\* Whatever task is selected by now, the drawer shows the one that arrives.
DetailArrives(f) ==
  /\ fetch[f].kind = "detail" /\ fetch[f].pc = "ok"
  /\ drawer' = [open |-> drawer.open, task |-> fetch[f].task,
                status |-> fetch[f].data[fetch[f].task]]
  /\ Set(f, NoFetch)
  /\ UNCHANGED <<serverVars, dialogVars, pollVars>>

DetailFails(f) ==
  /\ fetch[f].kind = "detail" /\ fetch[f].pc = "failed"
  /\ drawer' = EmptyDrawer(drawer.open)
  /\ Set(f, NoFetch)
  /\ UNCHANGED <<serverVars, dialogVars, pollVars>>

Closed == [drawer EXCEPT !.open = FALSE]

CloseDrawer ==
  /\ drawer.open /\ dialog = "none"
  /\ drawer' = Closed
  /\ UNCHANGED <<serverVars, fetch, dialogVars, pollVars>>

-----------------------------------------------------------------------------
(* Dialogs: requestRequeue, requestRedispatch, and their confirm buttons *)

OpenDialog(kind, t) ==
  /\ dialog = "none"
  /\ dialog' = kind /\ selected' = t /\ asked' = t
  /\ UNCHANGED <<serverVars, fetch, drawer, locked, pollVars>>

InDrawer(t, status) == drawer.open /\ drawer.task = t /\ drawer.status = status

RequestRequeue(t) == /\ shown[t] = "DEAD_LETTER" \/ InDrawer(t, "DEAD_LETTER")
                     /\ OpenDialog("requeue", t)

RequestRedispatch(t) == /\ InDrawer(t, "QUEUED")
                        /\ OpenDialog("redispatch", t)

\* This dialog leaves selectedTaskId alone.
RequestRecovery ==
  /\ dialog = "none"
  /\ dialog' = "recovery"
  /\ UNCHANGED <<serverVars, fetch, drawer, selected, locked, asked, pollVars>>

\* Cancel, or Escape, which closes the drawer as well.
CancelDialog ==
  /\ dialog # "none"
  /\ dialog' = "none"
  /\ drawer' \in {drawer, Closed}
  /\ UNCHANGED <<serverVars, fetch, selected, locked, asked, pollVars>>

\* Mutant of MayConfirm: the confirm button is not disabled.
MayConfirm_Always(kind) == dialog = kind

MayConfirm(kind) == dialog = kind /\ kind \notin locked

\* requeueSelected, redispatchSelected, runRecovery up to their first await.
Confirm(f, kind) ==
  /\ MayConfirm(kind)
  /\ Send(f, Request(kind, IF kind = "recovery" THEN NoTask ELSE selected, kind))
  /\ locked' = locked \cup {kind}
  /\ UNCHANGED <<serverVars, drawer, selected, dialog, asked, pollVars>>

\* close() does nothing to a dialog that is closed, but closes one that has
\* been opened again meanwhile.  The handler goes on to await refresh().
Confirmed(f) ==
  LET kind == fetch[f].kind IN
  /\ kind \in Dialog /\ fetch[f].pc = "ok"
  /\ dialog' = IF dialog = kind THEN "none" ELSE dialog
  /\ drawer' = IF kind = "recovery" THEN drawer ELSE Closed
  /\ Set(f, Summary(kind))
  /\ button' = FALSE
  /\ UNCHANGED <<serverVars, selected, locked, asked, shown, armed, alert>>

\* The dialog stays open.
ConfirmFails(f) ==
  /\ fetch[f].kind \in Dialog /\ fetch[f].pc = "failed"
  /\ locked' = locked \ {fetch[f].kind}
  /\ Set(f, NoFetch)
  /\ UNCHANGED <<serverVars, drawer, selected, dialog, asked, pollVars>>

-----------------------------------------------------------------------------
(* The server *)

Answer(f, pc, data) ==
  Set(f, [kind |-> fetch[f].kind, task |-> fetch[f].task, by |-> fetch[f].by,
          pc |-> pc, data |-> data])

\* A summary or a task's detail is read.
ServeRead(f) ==
  /\ fetch[f].kind \in {"summary", "detail"} /\ fetch[f].pc = "sent"
  /\ Answer(f, "ok", board)
  /\ UNCHANGED <<serverVars, drawer, dialogVars, pollVars>>

\* The task's status decides; a refusal is a 409.
ServeRequeue(f) ==
  LET t == fetch[f].task IN
  /\ fetch[f].kind = "requeue" /\ fetch[f].pc = "sent"
  /\ \/ /\ board[t] = "DEAD_LETTER"
        /\ board' = [board EXCEPT ![t] = "QUEUED"]
        /\ Answer(f, "ok", Nothing)
     \/ /\ board[t] # "DEAD_LETTER"
        /\ Answer(f, "failed", Nothing)
        /\ UNCHANGED board
  /\ UNCHANGED <<changes, failures, drawer, dialogVars, pollVars>>

ServeRedispatch(f) ==
  LET t == fetch[f].task IN
  /\ fetch[f].kind = "redispatch" /\ fetch[f].pc = "sent"
  /\ Answer(f, IF board[t] = "QUEUED" THEN "ok" ELSE "failed", Nothing)
  /\ UNCHANGED <<serverVars, drawer, dialogVars, pollVars>>

\* Some RUNNING tasks may turn out to be stale.
ServeRecovery(f) ==
  /\ fetch[f].kind = "recovery" /\ fetch[f].pc = "sent"
  /\ \E stale \in SUBSET {t \in Tasks : board[t] = "RUNNING"} :
       \E next \in [stale -> {"QUEUED", "DEAD_LETTER"}] :
         board' = [t \in Tasks |-> IF t \in stale THEN next[t] ELSE board[t]]
  /\ Answer(f, "ok", Nothing)
  /\ UNCHANGED <<changes, failures, drawer, dialogVars, pollVars>>

\* The network fails before or after the server has acted, or the server
\* answers an error (500; 503 after it has committed a requeue).
Fails(f) ==
  /\ failures < MaxFailures
  /\ failures' = failures + 1
  /\ fetch[f].kind # "none" /\ fetch[f].pc # "failed"
  /\ Answer(f, "failed", Nothing)
  /\ UNCHANGED <<board, changes, drawer, dialogVars, pollVars>>

\* The summary of an unreachable database: no task at all.
ServeDegraded(f) ==
  /\ failures < MaxFailures
  /\ failures' = failures + 1
  /\ fetch[f].kind = "summary" /\ fetch[f].pc = "sent"
  /\ Answer(f, "ok", Nothing)
  /\ UNCHANGED <<board, changes, drawer, dialogVars, pollVars>>

\* Workers, scans and other users.
Change(t, status) ==
  /\ changes < MaxChanges
  /\ changes' = changes + 1
  /\ board[t] # status
  /\ board' = [board EXCEPT ![t] = status]
  /\ UNCHANGED <<failures, fetch, drawer, dialogVars, pollVars>>

-----------------------------------------------------------------------------
User == \/ \E f \in Fetches : \/ ClickRefresh(f)
                              \/ \E t \in Tasks : Inspect(f, t)
                              \/ \E kind \in Dialog : Confirm(f, kind)
        \/ \E t \in Tasks : RequestRequeue(t) \/ RequestRedispatch(t)
        \/ CloseDrawer \/ CancelDialog \/ RequestRecovery

\* What follows an await.
Continue(f) == \/ SummaryArrives(f) \/ SummaryFails(f)
               \/ DetailArrives(f) \/ DetailFails(f)
               \/ Confirmed(f) \/ ConfirmFails(f)

Serve(f) == ServeRead(f) \/ ServeRequeue(f) \/ ServeRedispatch(f) \/ ServeRecovery(f)

Next == \/ User
        \/ \E f \in Fetches : \/ TimerFires(f) \/ Continue(f) \/ Serve(f)
                              \/ Fails(f) \/ ServeDegraded(f)
        \/ \E t \in Tasks, status \in TaskState : Change(t, status)

Spec == Init /\ [][Next]_vars

\* Every fetch is answered and its handler goes on; the timer fires.  Strong
\* fairness of the timer: that Fetches may all be in use is a bound of the
\* model, not of a browser.
FairSpec == /\ Spec
            /\ \A f \in Fetches : WF_vars(Serve(f)) /\ WF_vars(Continue(f))
            /\ SF_vars(\E f \in Fetches : TimerFires(f))

-----------------------------------------------------------------------------
(* Properties *)

\* A requeue or redispatch request is only sent for the task whose button opened
\* the dialog that is confirmed.  Three handlers share selectedTaskId, and a
\* drawer's answer may still be awaited.
ConfirmsWhatWasAsked ==
  [][\A f \in Fetches, kind \in {"requeue", "redispatch"} :
       fetch[f].kind # kind /\ fetch'[f].kind = kind =>
         dialog = kind /\ fetch'[f].task = asked]_vars

\* On whose behalf a fetch is made.
OnBehalf(f, kind) == fetch[f].kind # "none" /\ fetch[f].by = kind

\* A confirm button is disabled exactly while its request, or the refresh that
\* follows it, is under way, and there is only one of those, also if the
\* dialog is closed and opened again meanwhile: no request is sent twice and
\* no button stays disabled.
ConfirmLock ==
  \A kind \in Dialog :
    /\ kind \in locked <=> \E f \in Fetches : OnBehalf(f, kind)
    /\ \A f, g \in Fetches : OnBehalf(f, kind) /\ OnBehalf(g, kind) => f = g

\* The page never stops polling: a refresh is under way or the timer waits.
PollingGoesOn ==
  \/ armed
  \/ \E f \in Fetches : fetch[f].kind = "summary"

\* When the tasks have stopped changing and the fetches failing, the page ends
\* up with what the database holds, whatever answers came out of order before.
PageCatchesUp == <>[](shown = board)

-----------------------------------------------------------------------------
(* The inductive invariant behind the safety properties *)

\* While a task's dialog is open, nobody else changes selectedTaskId.
SelectedIsAsked ==
  dialog \in {"requeue", "redispatch"} => selected = asked /\ asked \in Tasks

\* A fetch names what its kind needs.
FetchesFit ==
  \A f \in Fetches :
    /\ fetch[f].kind \in {"detail", "requeue", "redispatch"} => fetch[f].task \in Tasks
    /\ fetch[f].kind \in Dialog => fetch[f].by = fetch[f].kind
    /\ fetch[f].kind \in {"none", "detail"} => fetch[f].by = "nobody"

DashboardInv == /\ TypeOK /\ SelectedIsAsked /\ FetchesFit
                /\ ConfirmLock /\ PollingGoesOn
=============================================================================
