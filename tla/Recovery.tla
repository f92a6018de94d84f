------------------------------ MODULE Recovery ------------------------------
(****************************************************************************)
(* Lease recovery: recover_stale_tasks, run by Celery Beat through          *)
(* recover_stale_tasks_task and by POST /recovery/stale-running.  Several   *)
(* scans may run at once.  A scan reads the clock and the candidates, then  *)
(* reclaims them one by one in transactions of their own and dispatches the *)
(* ones that are QUEUED again after the commit.                             *)
(*                                                                          *)
(*   idle -> scanning <-> updating -> dispatching -> scanning or idle       *)
(****************************************************************************)
EXTENDS TaskStore, Broker, Environment

CONSTANT Scanners

VARIABLE scanner  \* scanner -> what it is doing, a record of ScannerState

ScannerState ==
  [pc   : {"idle", "scanning", "updating", "dispatching"},
   at   : Nat,                  \* the clock as the scan read it
   todo : SUBSET Tasks,         \* the candidates that are left
   task : Tasks \cup {NoTask},  \* the one it works on
   read : 0..MaxRetries]        \* retry_count as _reclaim_one's SELECT read it

Scanning(at, todo) ==
  [pc |-> "scanning", at |-> at, todo |-> todo, task |-> NoTask, read |-> 0]

IdleScanner ==
  [pc |-> "idle", at |-> 0, todo |-> {}, task |-> NoTask, read |-> 0]

RecoveryTypeOK == scanner \in [Scanners -> ScannerState]

RecoveryInit == scanner = [s \in Scanners |-> IdleScanner]

\* On to the next candidate, if there is one.
DoneWith(s, t) ==
  LET left == scanner[s].todo \ {t} IN
  scanner' = [scanner EXCEPT ![s] =
    IF left = {} THEN IdleScanner ELSE Scanning(scanner[s].at, left)]

-----------------------------------------------------------------------------
\* A scan starts: current_time and candidate_ids.  Without candidates it ends.
Scan(s) ==
  LET candidates == {t \in Tasks : Stale(t, now)} IN
  /\ scanner[s].pc = "idle"
  /\ candidates # {}
  /\ scanner' = [scanner EXCEPT ![s] = Scanning(now, candidates)]
  /\ UNCHANGED <<storeVars, brokerVars, now, faults>>

\* _reclaim_one's SELECT.
Select(s, t) ==
  /\ scanner[s].pc = "scanning"
  /\ t \in scanner[s].todo
  /\ \/ /\ Stale(t, scanner[s].at)
        /\ scanner' = [scanner EXCEPT ![s] =
             [pc |-> "updating", at |-> scanner[s].at, todo |-> scanner[s].todo,
              task |-> t, read |-> row[t].retry_count]]
     \/ ~Stale(t, scanner[s].at) /\ DoneWith(s, t)
  /\ UNCHANGED <<storeVars, brokerVars, now, faults>>

\* _reclaim_one's UPDATE; a lost race leaves everything as it is.
Reclaim(s) ==
  LET me == scanner[s] IN
  /\ me.pc = "updating"
  /\ \/ /\ ReclaimTask(me.task, me.at, me.read)
        /\ \/ /\ AfterRetryable(me.read).status = "QUEUED"
              /\ scanner' = [scanner EXCEPT ![s] =
                   [pc |-> "dispatching", at |-> me.at, todo |-> me.todo,
                    task |-> me.task, read |-> 0]]
           \/ /\ AfterRetryable(me.read).status # "QUEUED"
              /\ DoneWith(s, me.task)
     \/ /\ ~Stale(me.task, me.at)
        /\ DoneWith(s, me.task)
        /\ UNCHANGED storeVars
  /\ UNCHANGED <<brokerVars, now, faults>>

RecoveryDispatch(s) ==
  /\ scanner[s].pc = "dispatching"
  /\ Dispatch(scanner[s].task)
  /\ DoneWith(s, scanner[s].task)
  /\ UNCHANGED <<storeVars, now, faults>>

-----------------------------------------------------------------------------
(* Faults *)

\* TaskDispatchError: the task stays QUEUED and the scan goes on.
RecoveryDispatchFails(s) ==
  /\ Inject("publish_error")
  /\ scanner[s].pc = "dispatching"
  /\ DoneWith(s, scanner[s].task)
  /\ UNCHANGED <<storeVars, brokerVars, now>>

\* The process that runs the scan dies; an exception of the database, which
\* leaves recover_stale_tasks between two commits, ends the scan the same way.
ScannerCrash(s) ==
  /\ Inject("service_crash")
  /\ scanner[s].pc # "idle"
  /\ scanner' = [scanner EXCEPT ![s] = IdleScanner]
  /\ UNCHANGED <<storeVars, brokerVars, now>>

ScannerStep(s) == \/ Scan(s)
                  \/ \E t \in Tasks : Select(s, t)
                  \/ Reclaim(s) \/ RecoveryDispatch(s)

RecoveryNext == \E s \in Scanners :
                  ScannerStep(s) \/ RecoveryDispatchFails(s) \/ ScannerCrash(s)
=============================================================================
