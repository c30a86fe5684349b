---------------------------- MODULE DeliveryClock ----------------------------
(***************************************************************************)
(* Why a run that looks orphaned has no live worker.  One SC-05 or SC-20    *)
(* run, its message, and the four durations that settings/base.py sets and  *)
(* checks.py orders: hard task limit < broker visibility < orphan cutoff.   *)
(* RunLifecycle assumes what is shown here: a message is redelivered, and a *)
(* RUNNING run is isolated, only when nobody executes it any more.          *)
(*                                                                          *)
(* Time is an integer clock shared by all processes; the skew between hosts *)
(* is not modelled.  A worker starts a task when it receives it, because    *)
(* concurrency and prefetch are 1.                                          *)
(***************************************************************************)
EXTENDS Integers

CONSTANTS
  Workers,
  HardLimit,      \* CELERY_TASK_TIME_LIMIT
  Visibility,     \* CELERY_BROKER_VISIBILITY_TIMEOUT_SECONDS
  QueuedStale,    \* AUTOMATION_QUEUED_STALE_AFTER_SECONDS
  RunningStale,   \* AUTOMATION_RUNNING_STALE_AFTER_SECONDS
  MaxTime         \* bound of the clock

ASSUME DurationsAssumption ==
  /\ HardLimit \in Nat \ {0} /\ Visibility \in Nat /\ QueuedStale \in Nat
  /\ RunningStale \in Nat /\ MaxTime \in Nat

(* The checks that refuse to start with another order.                      *)
ASSUME E045 == Visibility > HardLimit
ASSUME E046 == QueuedStale > 0
ASSUME E047 == RunningStale > Visibility

VARIABLES
  now,
  status,     \* "queued", "running", "finished" or "isolated"
  heartbeat,  \* heartbeat_at, meaningful once the run has been started
  waiting,    \* the message is visible in the queue
  flagged,    \* the broker marks its next delivery as redelivered
  lease,      \* NoLease, or the time the unacknowledged message becomes visible
  task,       \* [Workers -> Task]: what each worker executes
  pulse       \* NoPulse, or the time at which the running reconciliation began

vars == <<now, status, heartbeat, waiting, flagged, lease, task, pulse>>

NoLease == -1
NoPulse == -1
Time == 0..MaxTime

Task == [live : BOOLEAN, started : BOOLEAN, flagged : BOOLEAN, since : Time]
NoTask == [live |-> FALSE, started |-> FALSE, flagged |-> FALSE, since |-> 0]

TypeOK ==
  /\ now \in Time
  /\ status \in {"queued", "running", "finished", "isolated"}
  /\ heartbeat \in Time
  /\ waiting \in BOOLEAN
  /\ flagged \in BOOLEAN
  /\ lease \in Int
  /\ task \in [Workers -> Task]
  /\ pulse \in Time \cup {NoPulse}

Init ==
  /\ now = 0
  /\ status = "queued"
  /\ heartbeat = 0
  /\ waiting = TRUE
  /\ flagged = FALSE
  /\ lease = NoLease
  /\ task = [w \in Workers |-> NoTask]
  /\ pulse = NoPulse

(* Mutant: the task declares no hard limit.                                 *)
NoLimit(w) == TRUE

(* The pool kills a task at the hard limit.                                 *)
WithinHardLimit(w) == task[w].live => now < task[w].since + HardLimit

Tick ==
  /\ now < MaxTime
  /\ \A w \in Workers : WithinHardLimit(w)
  /\ now' = now + 1
  /\ UNCHANGED <<status, heartbeat, waiting, flagged, lease, task, pulse>>

(* The broker hands the message out and hides it for the visibility timeout. *)
Deliver(w) ==
  /\ waiting
  /\ ~task[w].live
  /\ waiting' = FALSE
  /\ lease' = now + Visibility
  /\ task' = [task EXCEPT ![w] =
       [live |-> TRUE, started |-> FALSE, flagged |-> flagged, since |-> now]]
  /\ UNCHANGED <<now, status, heartbeat, flagged, pulse>>

(* The start transaction: begin, isolate an interrupted run, or ignore.     *)
Start(w) ==
  /\ task[w].live
  /\ ~task[w].started
  /\ status' = CASE status = "queued" -> "running"
                 [] status = "running" /\ task[w].flagged -> "isolated"
                 [] OTHER -> status
  /\ IF status = "queued"
     THEN /\ heartbeat' = now
          /\ task' = [task EXCEPT ![w].started = TRUE]
          /\ UNCHANGED lease
     ELSE /\ task' = [task EXCEPT ![w] = NoTask]
          /\ lease' = NoLease
          /\ UNCHANGED heartbeat
  /\ UNCHANGED <<now, waiting, flagged, pulse>>

(* Mutant: the heartbeat is stored as a deadline.                           *)
TouchDeadline(w) ==
  /\ task[w].live
  /\ task[w].started
  /\ status = "running"
  /\ heartbeat' = now + RunningStale
  /\ UNCHANGED <<now, status, waiting, flagged, lease, task, pulse>>

(* run_tracking.touch_run                                                   *)
Touch(w) ==
  /\ task[w].live
  /\ task[w].started
  /\ status = "running"
  /\ heartbeat' = now
  /\ UNCHANGED <<now, status, waiting, flagged, lease, task, pulse>>

(* The final transaction, fenced by status, and the acknowledgement.        *)
Finish(w) ==
  /\ task[w].live
  /\ task[w].started
  /\ status' = IF status = "running" THEN "finished" ELSE status
  /\ task' = [task EXCEPT ![w] = NoTask]
  /\ lease' = NoLease
  /\ UNCHANGED <<now, heartbeat, waiting, flagged, pulse>>

(* The hard limit: the task is killed and its message acknowledged.         *)
TimeOut(w) ==
  /\ task[w].live
  /\ now >= task[w].since + HardLimit
  /\ task' = [task EXCEPT ![w] = NoTask]
  /\ lease' = NoLease
  /\ UNCHANGED <<now, status, heartbeat, waiting, flagged, pulse>>

(* The worker host dies; the broker does not notice.                        *)
Die(w) ==
  /\ task[w].live
  /\ task' = [task EXCEPT ![w] = NoTask]
  /\ UNCHANGED <<now, status, heartbeat, waiting, flagged, lease, pulse>>

(* Only the pool process dies: reject_on_worker_lost requeues at once.      *)
Reject(w) ==
  /\ task[w].live
  /\ task' = [task EXCEPT ![w] = NoTask]
  /\ waiting' = TRUE
  /\ flagged' = TRUE
  /\ lease' = NoLease
  /\ UNCHANGED <<now, status, heartbeat, pulse>>

(* The visibility timeout elapses on an unacknowledged message.             *)
Restore ==
  /\ lease # NoLease
  /\ now >= lease
  /\ waiting' = TRUE
  /\ flagged' = TRUE
  /\ lease' = NoLease
  /\ UNCHANGED <<now, status, heartbeat, task, pulse>>

(* reconcile_stale_runs reads the clock once, long before it may reach the  *)
(* run's row.                                                               *)
BeginPulse ==
  /\ pulse = NoPulse
  /\ pulse' = now
  /\ UNCHANGED <<now, status, heartbeat, waiting, flagged, lease, task>>

(* Mutant: the cutoff of queued runs is applied to running ones.            *)
StaleByQueuedCutoff == heartbeat <= pulse - QueuedStale

(* _is_still_stale for a RUNNING run, checked under the row lock.           *)
Stale == heartbeat <= pulse - RunningStale

EndPulse ==
  /\ pulse # NoPulse
  /\ status' = IF status = "running" /\ Stale THEN "isolated" ELSE status
  /\ pulse' = NoPulse
  /\ UNCHANGED <<now, heartbeat, waiting, flagged, lease, task>>

Next ==
  \/ Tick \/ Restore \/ BeginPulse \/ EndPulse
  \/ \E w \in Workers :
       Deliver(w) \/ Start(w) \/ Touch(w) \/ Finish(w) \/ TimeOut(w) \/ Die(w) \/ Reject(w)

Spec == Init /\ [][Next]_vars

-----------------------------------------------------------------------------
(* The message is never in the hands of two live workers: the hard limit has *)
(* killed the first before the visibility timeout hands it to a second.      *)
SingleLive ==
  \A w1, w2 \in Workers : task[w1].live /\ task[w2].live => w1 = w2

(* Neither a pulse, however late it reaches the row, nor a redelivery ever   *)
(* isolates a run that a worker is executing.                                *)
IsolatesOnlyTheDead ==
  [][status = "running" /\ status' = "isolated" =>
       \A w \in Workers : ~(task[w].live /\ task[w].started)]_vars

(* When the pulse takes a run for an orphan, the broker has had its chance:  *)
(* the message was acknowledged, is due for redelivery or was redelivered.   *)
OrphanAfterLease ==
  pulse # NoPulse /\ status = "running" /\ Stale => lease = NoLease \/ lease <= now \/ flagged

=============================================================================
