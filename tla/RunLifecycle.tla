---------------------------- MODULE RunLifecycle ----------------------------
(***************************************************************************)
(* The execution layer shared by SC-04, SC-05 and SC-20: an AutomationRun   *)
(* row, the publication of its Celery message, the delivery of that message *)
(* to a worker, the fencing of late deliveries and the reconciliation of    *)
(* orphans.  Code: dispatching.py, run_tracking.py, tasks.py,               *)
(* reconciliation.py, dispatch_due_schedules.py and the transactions of the *)
(* three domain services that create, start and finish a run.               *)
(*                                                                          *)
(* One action is one database transaction or one broker interaction, so     *)
(* every gap between two transactions is a place where another process may  *)
(* step in or where the process may die.  What a worker does between the    *)
(* start and the end of an execution is the subject of SC05Saga and         *)
(* SC20Communications.  Time is abstract: a QUEUED run may be stale at any  *)
(* moment, a RUNNING one only when no live worker executes it, which is     *)
(* what DeliveryClock derives from the ordering of the time limits.         *)
(***************************************************************************)
EXTENDS Naturals, FiniteSets

CONSTANTS
  Runs,         \* identities of AutomationRun rows
  Kinds,        \* the automations in use, among SC-04, SC-05 and SC-20
  Workers,      \* worker processes (concurrency 1 each)
  MaxAttempts,  \* AUTOMATION_RECONCILIATION_MAX_ATTEMPTS
  MaxGrants,    \* bound: authorisations (creation, resume, re-preparation) per run
  Faults        \* environment faults that may happen

FaultKinds == {"refuse",       \* apply_async raises
               "duplicate",    \* the client library publishes a message twice
               "lost",         \* a worker process dies, the broker redelivers
               "timeout",      \* the hard time limit kills a task, Celery acks it
               "drop",         \* a delivery fails before it reaches the run
               "purge",        \* Redis is cleared
               "slow_upload"}  \* an upload request outlives the queued cutoff

ASSUME ConstantsAssumption ==
  /\ MaxAttempts \in Nat \ {0}      \* checks.py E048
  /\ MaxGrants \in Nat
  /\ Runs # {}
  /\ Kinds \subseteq {"SC-04", "SC-05", "SC-20"}
  /\ Faults \subseteq FaultKinds

VARIABLES
  row,         \* [Runs -> Row]: the AutomationRun table
  uploading,   \* runs whose manual upload request is still being served
  publishers,  \* processes between the commit of a publication and its outcome
  msgs,        \* messages waiting in the broker
  worker       \* [Workers -> Worker]

vars == <<row, uploading, publishers, msgs, worker>>

-----------------------------------------------------------------------------
(* The table.                                                              *)

NoTask == 0

Terminal == {"SUCCEEDED", "SUCCEEDED_WITH_WARNINGS", "PARTIALLY_FAILED", "FAILED"}
Statuses == {"absent", "PENDING", "QUEUED", "RUNNING", "AWAITING_REVIEW"} \cup Terminal

(* task is the delivery identifier (a UUID in the code): the n-th identifier *)
(* a run is given is n, and issued is how many it has been given.  starts    *)
(* and grants are history: how often a worker began or resumed the run, how  *)
(* often a person or the schedule asked for it.                              *)
Row == [kind : Kinds \cup {"none"}, scheduled : BOOLEAN, status : Statuses,
        task : Nat, issued : Nat,
        dispatched : BOOLEAN,     \* dispatch_started_at is set
        published : BOOLEAN,      \* broker_published_at is set
        started : BOOLEAN,        \* started_at is set
        attempts : Nat,           \* reconciliation_attempts
        dispatchError : BOOLEAN,  \* metadata["dispatch_error"]
        resumes : Nat,            \* SC05Operation.resume_count
        partial : BOOLEAN,        \* SC-05 client PARTIAL or UNKNOWN
        hasNew : BOOLEAN,         \* SC-04 run owns a NEW item
        reviewable : BOOLEAN,     \* SC-04 review or failed route can be acted on
        starts : Nat, grants : Nat]

Blank == [kind |-> "none", scheduled |-> FALSE, status |-> "absent",
          task |-> NoTask, issued |-> 0, dispatched |-> FALSE, published |-> FALSE,
          started |-> FALSE, attempts |-> 0, dispatchError |-> FALSE, resumes |-> 0,
          partial |-> FALSE, hasNew |-> FALSE, reviewable |-> FALSE,
          starts |-> 0, grants |-> 0]

Message == [run : Runs, task : Nat, redelivered : BOOLEAN]
Publisher == [run : Runs, task : Nat, recovery : BOOLEAN, phase : {"sending", "enqueued"}]
Worker == [pc : {"idle", "received", "running", "done"},
           run : Runs, task : Nat, redelivered : BOOLEAN]

Idle == [pc |-> "idle", run |-> CHOOSE r \in Runs : TRUE, task |-> NoTask, redelivered |-> FALSE]

TypeOK ==
  /\ row \in [Runs -> Row]
  /\ uploading \subseteq Runs
  /\ publishers \subseteq Publisher
  /\ msgs \subseteq Message
  /\ worker \in [Workers -> Worker]

Init ==
  /\ row = [r \in Runs |-> Blank]
  /\ uploading = {}
  /\ publishers = {}
  /\ msgs = {}
  /\ worker = [w \in Workers |-> Idle]

Fresh(r) == row[r].issued + 1

(* A row that is queued under a fresh identifier; markers of the previous    *)
(* publication are cleared by the caller, attempts are kept by the caller.   *)
Requeued(rec) ==
  [rec EXCEPT !.status = "QUEUED", !.task = rec.issued + 1, !.issued = rec.issued + 1]

Publication(r, t, rec) == [run |-> r, task |-> t, recovery |-> rec, phase |-> "sending"]

-----------------------------------------------------------------------------
(* Creation.                                                               *)

(* create_sc05_run_result, create_sc20_run, create_manual_sc04_inbox_run and *)
(* the created branch of prepare_scheduled_sc04_run / _sc20_run: the row is  *)
(* committed QUEUED with its identifier; publication comes afterwards.       *)
Submit(r) ==
  /\ row[r].status = "absent"
  /\ \E k \in Kinds, s \in BOOLEAN :
       /\ s => k # "SC-05"
       /\ row' = [row EXCEPT ![r] =
            [Requeued(@) EXCEPT !.kind = k, !.scheduled = s, !.grants = 1]]
  /\ UNCHANGED <<uploading, publishers, msgs, worker>>

(* create_manual_sc04_run, first transaction: a PENDING run, no identifier.  *)
Upload(r) ==
  /\ "SC-04" \in Kinds
  /\ row[r].status = "absent"
  /\ row' = [row EXCEPT ![r] = [@ EXCEPT !.kind = "SC-04", !.status = "PENDING", !.grants = 1]]
  /\ uploading' = uploading \cup {r}
  /\ UNCHANGED <<publishers, msgs, worker>>

(* ingest_document commits a NEW item for the uploaded file.                 *)
IngestUpload(r) ==
  /\ r \in uploading
  /\ ~row[r].hasNew
  /\ row' = [row EXCEPT ![r].hasNew = TRUE]
  /\ UNCHANGED <<uploading, publishers, msgs, worker>>

(* A duplicate upload is not dispatched: recompute_sc04_run sees no NEW      *)
(* document, so only a failed duplicate separates FAILED from SUCCEEDED.     *)
(* An upload that cannot be ingested ends in _fail_run_before_processing.    *)
EndUpload(r) ==
  /\ r \in uploading
  /\ ~row[r].hasNew
  /\ \E s \in {"SUCCEEDED", "FAILED"} : row' = [row EXCEPT ![r].status = s]
  /\ uploading' = uploading \ {r}
  /\ UNCHANGED <<publishers, msgs, worker>>

(* create_manual_sc04_run, last transaction.  It looks at no status and      *)
(* leaves the publication markers as they are.                               *)
QueueUpload(r) ==
  /\ r \in uploading
  /\ row[r].hasNew
  /\ row' = [row EXCEPT ![r] = [Requeued(@) EXCEPT !.dispatchError = FALSE]]
  /\ uploading' = uploading \ {r}
  /\ UNCHANGED <<publishers, msgs, worker>>

(* The web process serving the upload dies.                                  *)
AbandonUpload(r) ==
  /\ r \in uploading
  /\ uploading' = uploading \ {r}
  /\ UNCHANGED <<row, publishers, msgs, worker>>

-----------------------------------------------------------------------------
(* Publication (dispatching.py).                                           *)

(* dispatch_run, the transaction.  A run that is not QUEUED is refused and   *)
(* one whose publication has begun is left to the publisher that began it.   *)
StartDispatch(r) ==
  /\ row[r].status = "QUEUED"
  /\ ~row[r].published
  /\ ~row[r].dispatched
  /\ row' = [row EXCEPT ![r].dispatched = TRUE]
  /\ publishers' = publishers \cup {Publication(r, row[r].task, FALSE)}
  /\ UNCHANGED <<uploading, msgs, worker>>

(* apply_async reaches the broker, outside any transaction.                  *)
Enqueue(p) ==
  /\ p.phase = "sending" \/ "duplicate" \in Faults
  /\ msgs' = msgs \cup {[run |-> p.run, task |-> p.task, redelivered |-> FALSE]}
  /\ publishers' = (publishers \ {p}) \cup {[p EXCEPT !.phase = "enqueued"]}
  /\ UNCHANGED <<row, uploading, worker>>

(* Mutant: a late confirmation marks whatever publication the run has now.   *)
ConfirmPublicationAnyTask(p) ==
  /\ p.phase = "enqueued"
  /\ row' = [row EXCEPT ![p.run].published = TRUE]
  /\ publishers' = publishers \ {p}
  /\ UNCHANGED <<uploading, msgs, worker>>

(* _record_dispatch_success: filtered by identifier, not by status.          *)
ConfirmPublication(p) ==
  /\ p.phase = "enqueued"
  /\ row' = [row EXCEPT ![p.run].published = @ \/ row[p.run].task = p.task]
  /\ publishers' = publishers \ {p}
  /\ UNCHANGED <<uploading, msgs, worker>>

(* The status dispatch_run is told to leave: views.py passes                 *)
(* PARTIALLY_FAILED for a resumed SC-05 run, FAILED otherwise.               *)
DispatchFailureStatus(r) ==
  IF row[r].resumes > 0 THEN "PARTIALLY_FAILED" ELSE "FAILED"

(* Mutant: a refused publication fails the run whatever its status.          *)
FailPublicationAnyStatus(p) ==
  /\ "refuse" \in Faults
  /\ publishers' = publishers \ {p}
  /\ IF row[p.run].task = p.task /\ ~p.recovery
     THEN row' = [row EXCEPT ![p.run].status = DispatchFailureStatus(p.run),
                             ![p.run].dispatchError = TRUE]
     ELSE UNCHANGED row
  /\ UNCHANGED <<uploading, msgs, worker>>

(* _record_dispatch_failure; from "enqueued" it is an ambiguous publication, *)
(* an exception raised although the message is in the queue.  A recovery's   *)
(* failure (_record_recovery_publish_failure) is only noted in the metadata. *)
FailPublication(p) ==
  /\ "refuse" \in Faults
  /\ publishers' = publishers \ {p}
  /\ IF /\ row[p.run].task = p.task
        /\ row[p.run].status = "QUEUED"
        /\ ~p.recovery
     THEN row' = [row EXCEPT ![p.run].status = DispatchFailureStatus(p.run),
                             ![p.run].dispatchError = TRUE]
     ELSE UNCHANGED row
  /\ UNCHANGED <<uploading, msgs, worker>>

(* The publishing process dies between two of its steps.                     *)
CrashPublisher(p) ==
  /\ publishers' = publishers \ {p}
  /\ UNCHANGED <<row, uploading, msgs, worker>>

-----------------------------------------------------------------------------
(* Delivery and the start of an execution.                                 *)

Receive(w) ==
  /\ worker[w].pc = "idle"
  /\ \E m \in msgs :
       /\ msgs' = msgs \ {m}
       /\ worker' = [worker EXCEPT ![w] = [pc |-> "received", run |-> m.run,
                       task |-> m.task, redelivered |-> m.redelivered]]
  /\ UNCHANGED <<row, uploading, publishers>>

Goto(w, s) == worker' = [worker EXCEPT ![w].pc = s]
Release(w) == worker' = [worker EXCEPT ![w] = Idle]

(* Mutant: every delivery is taken for the current one.                      *)
AnyDeliveryMatches(r, t) == TRUE

(* run_tracking.delivery_matches, for a delivery that has an identifier.     *)
DeliveryMatches(r, t) == row[r].task = NoTask \/ row[r].task = t

(* Mutant: a run that is already RUNNING may be started again.               *)
StartableOrRunning(k) == {"PENDING", "QUEUED", "RUNNING"}

(* Statuses _start_run accepts besides RUNNING.                              *)
Startable(k) == CASE k = "SC-20" -> {"PENDING", "QUEUED", "AWAITING_REVIEW"}
                  [] OTHER -> {"PENDING", "QUEUED"}

(* The start transaction finds a superseded delivery, a run that ended, or a *)
(* run already RUNNING for a delivery the broker does not flag redelivered.  *)
IgnoreDelivery(w) ==
  LET r == worker[w].run IN
  /\ worker[w].pc = "received"
  /\ \/ ~DeliveryMatches(r, worker[w].task)
     \/ row[r].status \notin Startable(row[r].kind) \cup {"RUNNING"}
     \/ row[r].status = "RUNNING" /\ ~worker[w].redelivered
  /\ Goto(w, "done")
  /\ UNCHANGED <<row, uploading, publishers, msgs>>

(* bind_delivery, the publication markers, RUNNING.                          *)
Begun(rec, t) ==
  [rec EXCEPT !.status = "RUNNING", !.task = t, !.dispatched = TRUE, !.published = TRUE,
              !.started = TRUE, !.starts = rec.starts + 1]

(* The normal start.                                                         *)
BeginRun(w) ==
  LET r == worker[w].run IN
  /\ worker[w].pc = "received"
  /\ DeliveryMatches(r, worker[w].task)
  /\ row[r].status \in Startable(row[r].kind)
  /\ row' = [row EXCEPT ![r] = Begun(row[r], worker[w].task)]
  /\ Goto(w, "running")
  /\ UNCHANGED <<uploading, publishers, msgs>>

Interrupted(w) ==
  /\ worker[w].pc = "received"
  /\ worker[w].redelivered
  /\ DeliveryMatches(worker[w].run, worker[w].task)
  /\ row[worker[w].run].status = "RUNNING"

Resumed(rec, t) ==
  [rec EXCEPT !.task = t, !.dispatched = TRUE, !.published = TRUE,
              !.attempts = rec.attempts + 1, !.starts = rec.starts + 1]

(* SC-04 only: the interrupted run goes on under the same identifier.        *)
ResumeInterrupted(w) ==
  LET r == worker[w].run IN
  /\ Interrupted(w)
  /\ row[r].kind = "SC-04"
  /\ row[r].attempts < MaxAttempts
  /\ row' = [row EXCEPT ![r] = Resumed(row[r], worker[w].task)]
  /\ Goto(w, "running")
  /\ UNCHANGED <<uploading, publishers, msgs>>

(* Rows an interruption closes: the identifier is revoked.                   *)
Exhausted(rec) == [rec EXCEPT !.status = "FAILED", !.task = NoTask]

(* Mutants: isolation forgets the SC-05 client; isolation uses a status the  *)
(* table does not have.                                                      *)
QuarantinedRunOnly(rec) ==
  [rec EXCEPT !.status = "PARTIALLY_FAILED", !.task = NoTask, !.attempts = rec.attempts + 1]
QuarantinedStatus(rec) ==
  [rec EXCEPT !.status = "QUARANTINED", !.task = NoTask, !.attempts = rec.attempts + 1]

(* _quarantine_sc05 (client PARTIAL) and _quarantine_sc20.                   *)
Quarantined(rec) ==
  [rec EXCEPT !.status = "PARTIALLY_FAILED", !.task = NoTask,
              !.attempts = rec.attempts + 1, !.partial = rec.partial \/ rec.kind = "SC-05"]

(* SC-05 and SC-20 are isolated, SC-04 is closed once its attempts are spent.*)
CloseInterrupted(w) ==
  LET r == worker[w].run IN
  /\ Interrupted(w)
  /\ row[r].kind = "SC-04" => row[r].attempts >= MaxAttempts
  /\ row' = [row EXCEPT ![r] =
       [(IF row[r].kind = "SC-04" THEN Exhausted(row[r]) ELSE Quarantined(row[r]))
          EXCEPT !.dispatched = TRUE, !.published = TRUE]]
  /\ Goto(w, "done")
  /\ UNCHANGED <<uploading, publishers, msgs>>

-----------------------------------------------------------------------------
(* The end of an execution.                                                *)

(* The fence of the final transaction: SC-04 and SC-05 compare the           *)
(* identifier, SC-20 goes through delivery_matches.                          *)
HoldsFence(w) ==
  LET r == worker[w].run IN
  /\ row[r].status = "RUNNING"
  /\ IF row[r].kind = "SC-20" THEN DeliveryMatches(r, worker[w].task)
                              ELSE row[r].task = worker[w].task

(* Statuses the final transaction can write; SC-04 stays RUNNING when a      *)
(* document of it is still in progress.                                      *)
Outcomes(k) ==
  CASE k = "SC-04" -> {"RUNNING", "AWAITING_REVIEW", "FAILED",
                       "SUCCEEDED_WITH_WARNINGS", "SUCCEEDED"}
    [] k = "SC-05" -> {"SUCCEEDED", "FAILED", "PARTIALLY_FAILED"}
    [] OTHER       -> {"SUCCEEDED", "SUCCEEDED_WITH_WARNINGS", "FAILED", "PARTIALLY_FAILED"}

(* SC-05 writes the client with the run: PARTIAL with PARTIALLY_FAILED,      *)
(* UNKNOWN with some FAILED, a whole status otherwise.                       *)
ClientLeft(k, s, u) == k = "SC-05" /\ (s = "PARTIALLY_FAILED" \/ (s = "FAILED" /\ u))

FinishRun(w) ==
  LET r == worker[w].run IN
  /\ worker[w].pc = "running"
  /\ HoldsFence(w)
  /\ \E s \in Outcomes(row[r].kind), u \in BOOLEAN :
       row' = [row EXCEPT ![r].status = s, ![r].partial = ClientLeft(row[r].kind, s, u)]
  /\ Goto(w, "done")
  /\ UNCHANGED <<uploading, publishers, msgs>>

(* A superseded execution ends without effect (SupersededDelivery).          *)
AbandonRun(w) ==
  /\ worker[w].pc = "running"
  /\ ~HoldsFence(w)
  /\ Goto(w, "done")
  /\ UNCHANGED <<row, uploading, publishers, msgs>>

(* _open_review or a failed route makes the SC-04 run actionable by people.  *)
OpenReview(w) ==
  LET r == worker[w].run IN
  /\ worker[w].pc = "running"
  /\ row[r].kind = "SC-04"
  /\ row[r].status = "RUNNING"
  /\ DeliveryMatches(r, worker[w].task)
  /\ ~row[r].reviewable
  /\ row' = [row EXCEPT ![r].reviewable = TRUE]
  /\ UNCHANGED <<uploading, publishers, msgs, worker>>

(* Late acknowledgement.                                                     *)
Ack(w) ==
  /\ worker[w].pc = "done"
  /\ Release(w)
  /\ UNCHANGED <<row, uploading, publishers, msgs>>

(* The process dies before it acknowledges: the broker flags the message.    *)
LoseWorker(w) ==
  /\ "lost" \in Faults
  /\ worker[w].pc # "idle"
  /\ msgs' = msgs \cup {[run |-> worker[w].run, task |-> worker[w].task, redelivered |-> TRUE]}
  /\ Release(w)
  /\ UNCHANGED <<row, uploading, publishers>>

(* The hard time limit kills the task and Celery acknowledges the message.   *)
TimeOutRun(w) ==
  /\ "timeout" \in Faults
  /\ worker[w].pc = "running"
  /\ Release(w)
  /\ UNCHANGED <<row, uploading, publishers, msgs>>

(* An exception before the start transaction commits: acknowledged, lost.    *)
DropDelivery(w) ==
  /\ "drop" \in Faults
  /\ worker[w].pc = "received"
  /\ Release(w)
  /\ UNCHANGED <<row, uploading, publishers, msgs>>

PurgeBroker ==
  /\ "purge" \in Faults
  /\ msgs # {}
  /\ msgs' = {}
  /\ UNCHANGED <<row, uploading, publishers, worker>>

-----------------------------------------------------------------------------
(* Reconciliation (reconciliation.py), at the start of every pulse.        *)

(* Mutant: the claim does not count the attempt.                             *)
ClaimUncounted(r) ==
  /\ row' = [row EXCEPT ![r] = [Requeued(@) EXCEPT !.dispatched = TRUE, !.published = FALSE]]
  /\ publishers' = publishers \cup {Publication(r, Fresh(r), TRUE)}

Claimed(rec) ==
  [Requeued(rec) EXCEPT !.dispatched = TRUE, !.published = FALSE, !.attempts = rec.attempts + 1]

(* _claim_recovery and the start of publish_claimed_run.                     *)
ClaimRecovery(r) ==
  /\ row' = [row EXCEPT ![r] = Claimed(row[r])]
  /\ publishers' = publishers \cup {Publication(r, Fresh(r), TRUE)}

ReconcilePending(r) ==
  /\ row[r].status = "PENDING"
  /\ row[r].kind = "SC-04"
  /\ r \notin uploading \/ "slow_upload" \in Faults
  /\ \/ /\ row[r].hasNew
        /\ ClaimRecovery(r)
     \/ /\ ~row[r].hasNew
        /\ row' = [row EXCEPT ![r] = Exhausted(row[r])]
        /\ UNCHANGED publishers
  /\ UNCHANGED <<uploading, msgs, worker>>

(* _sc05_queue_has_ambiguous_state                                           *)
AmbiguousQueue(rec) ==
  rec.kind = "SC-05" /\ (rec.started \/ rec.resumes > 0 \/ rec.partial)

(* Mutant: only a publication that was begun is looked at.                   *)
ReconcileDispatchedQueued(r) ==
  /\ row[r].status = "QUEUED"
  /\ ~row[r].published
  /\ row[r].dispatched
  /\ \/ /\ row[r].attempts < MaxAttempts
        /\ ClaimRecovery(r)
     \/ /\ row[r].attempts >= MaxAttempts
        /\ row' = [row EXCEPT ![r] = Exhausted(row[r])]
        /\ UNCHANGED publishers
  /\ UNCHANGED <<uploading, msgs, worker>>

(* A queued run whose publication was never confirmed: claimed again while   *)
(* attempts last, then failed, or isolated when SC-05 may have acted before. *)
ReconcileQueued(r) ==
  /\ row[r].status = "QUEUED"
  /\ ~row[r].published
  /\ \/ /\ row[r].attempts < MaxAttempts
        /\ ClaimRecovery(r)
     \/ /\ row[r].attempts >= MaxAttempts
        /\ row' = [row EXCEPT ![r] =
             IF AmbiguousQueue(row[r]) THEN Quarantined(row[r]) ELSE Exhausted(row[r])]
        /\ UNCHANGED publishers
  /\ UNCHANGED <<uploading, msgs, worker>>

(* Mutant: an interrupted SC-20 run is requeued like an SC-04 one.           *)
ReconcileRunningRequeues(r) ==
  /\ row[r].status = "RUNNING"
  /\ \A w \in Workers : ~(worker[w].pc = "running" /\ worker[w].run = r)
  /\ IF row[r].kind # "SC-05" /\ row[r].attempts < MaxAttempts
     THEN ClaimRecovery(r)
     ELSE row' = [row EXCEPT ![r] = Quarantined(row[r])] /\ UNCHANGED publishers
  /\ UNCHANGED <<uploading, msgs, worker>>

(* A RUNNING run without heartbeat: SC-04 is requeued while attempts last,   *)
(* SC-05 and SC-20 are isolated.                                             *)
ReconcileRunning(r) ==
  /\ row[r].status = "RUNNING"
  /\ \A w \in Workers : ~(worker[w].pc = "running" /\ worker[w].run = r)
  /\ \/ /\ row[r].kind # "SC-04"
        /\ row' = [row EXCEPT ![r] = Quarantined(row[r])]
        /\ UNCHANGED publishers
     \/ /\ row[r].kind = "SC-04"
        /\ row[r].attempts >= MaxAttempts
        /\ row' = [row EXCEPT ![r] = Exhausted(row[r])]
        /\ UNCHANGED publishers
     \/ /\ row[r].kind = "SC-04"
        /\ row[r].attempts < MaxAttempts
        /\ ClaimRecovery(r)
  /\ UNCHANGED <<uploading, msgs, worker>>

-----------------------------------------------------------------------------
(* Requests of people and of the schedule on an existing run.              *)

Regranted(rec) ==
  [Requeued(rec) EXCEPT !.dispatched = FALSE, !.published = FALSE,
                        !.attempts = 0, !.grants = rec.grants + 1]

(* resume_sc05_run                                                           *)
Resume(r) ==
  /\ row[r].kind = "SC-05"
  /\ row[r].status = "PARTIALLY_FAILED"
  /\ row[r].grants < MaxGrants
  /\ row' = [row EXCEPT ![r] = [Regranted(row[r]) EXCEPT !.resumes = row[r].resumes + 1]]
  /\ UNCHANGED <<uploading, publishers, msgs, worker>>

(* prepare_scheduled_*: only a publication that failed before any start.     *)
Reprepare(r) ==
  /\ row[r].scheduled
  /\ row[r].status = "FAILED"
  /\ ~row[r].started
  /\ row[r].dispatchError
  /\ row[r].grants < MaxGrants
  /\ row' = [row EXCEPT ![r] = [Regranted(@) EXCEPT !.dispatchError = FALSE]]
  /\ UNCHANGED <<uploading, publishers, msgs, worker>>

(* resolve_document_review and retry_document_route end in a recompute that  *)
(* carries no identifier: any status the documents can yield, whatever the   *)
(* run is doing.  The documents themselves are not modelled here.            *)
WebRecompute(r) ==
  /\ row[r].kind = "SC-04"
  /\ row[r].reviewable
  /\ \E s \in Outcomes("SC-04") : row' = [row EXCEPT ![r].status = s]
  /\ UNCHANGED <<uploading, publishers, msgs, worker>>

-----------------------------------------------------------------------------
UploadStep(r) == Upload(r) \/ IngestUpload(r) \/ EndUpload(r) \/ QueueUpload(r) \/ AbandonUpload(r)
Reconcile(r) == ReconcilePending(r) \/ ReconcileQueued(r) \/ ReconcileRunning(r)
Request(r) == Submit(r) \/ Resume(r) \/ Reprepare(r) \/ WebRecompute(r)
EndPublication(p) == ConfirmPublication(p) \/ FailPublication(p) \/ CrashPublisher(p)
StartStep(w) == IgnoreDelivery(w) \/ BeginRun(w) \/ ResumeInterrupted(w) \/ CloseInterrupted(w)
EndStep(w) == FinishRun(w) \/ AbandonRun(w) \/ Ack(w)
WorkerFault(w) == LoseWorker(w) \/ TimeOutRun(w) \/ DropDelivery(w)

Next ==
  \/ \E r \in Runs : Request(r) \/ UploadStep(r) \/ StartDispatch(r) \/ Reconcile(r)
  \/ \E p \in publishers : Enqueue(p) \/ EndPublication(p)
  \/ \E w \in Workers : Receive(w) \/ StartStep(w) \/ OpenReview(w) \/ EndStep(w) \/ WorkerFault(w)
  \/ PurgeBroker

Spec == Init /\ [][Next]_vars

(* The cron pulse comes back, a publishing process finishes or dies, an      *)
(* upload request ends, a worker that is up takes messages and completes its *)
(* transactions, and workers do not die for ever.  Nothing makes people, the *)
(* schedule or the other faults act.                                         *)
Fairness ==
  /\ \A r \in Runs : /\ WF_vars(Reconcile(r))
                     /\ WF_vars(EndUpload(r) \/ QueueUpload(r) \/ AbandonUpload(r))
  /\ WF_vars(\E p \in publishers : EndPublication(p))
  /\ \A w \in Workers : WF_vars(Receive(w)) /\ WF_vars(StartStep(w)) /\ WF_vars(EndStep(w))
  /\ <>[][~\E w \in Workers : LoseWorker(w)]_vars

FairSpec == Spec /\ Fairness

-----------------------------------------------------------------------------
(* Properties.                                                             *)

(* The automations with external effects, whose runs are never repeated by   *)
(* the execution layer (reconciliation.py isolates them instead).            *)
Guarded(r) == row[r].kind \in {"SC-05", "SC-20"}

Running(w, r) == worker[w].pc = "running" /\ worker[w].run = r

(* No two workers may finish, or go on writing to, the same SC-05 or SC-20   *)
(* run: whichever deliveries, redeliveries and recoveries have happened, one *)
(* of them at most passes the fence.  It does not hold of SC-04: when a      *)
(* message is published twice and the copy's worker dies, the code resumes a *)
(* run that somebody is executing.                                           *)
OneAuthority ==
  \A r \in Runs : \A w1, w2 \in Workers :
    /\ Guarded(r)
    /\ Running(w1, r) /\ HoldsFence(w1)
    /\ Running(w2, r) /\ HoldsFence(w2)
    => w1 = w2

(* Unless the broker holds a message twice, a worker that executes an SC-05  *)
(* or SC-20 run keeps its fence to the end: neither the reconciler nor a     *)
(* redelivery isolates a run somebody is executing.                          *)
LiveExecutionKeepsFence ==
  "duplicate" \notin Faults =>
    \A w \in Workers : worker[w].pc = "running" /\ Guarded(worker[w].run) => HoldsFence(w)

(* Recovery never repeats what it may not: an SC-20 run is executed once, an *)
(* SC-05 run once per request of a person, an SC-04 run once more than its   *)
(* recovery attempts.                                                        *)
StartsLicensed ==
  \A r \in Runs :
    row[r].starts <= CASE row[r].kind = "SC-20" -> 1
                       [] row[r].kind = "SC-05" -> 1 + row[r].resumes
                       [] OTHER -> 1 + row[r].attempts

(* What reconciliation.py takes for granted when it skips a queued run whose *)
(* publication was confirmed: its message is in the broker or in the hands   *)
(* of a worker that has yet to start it.                                     *)
ConfirmedIsCarried ==
  Faults \cap {"purge", "drop", "slow_upload"} = {} =>
    \A r \in Runs :
      row[r].status = "QUEUED" /\ row[r].published =>
        \/ \E m \in msgs : m.run = r /\ m.task = row[r].task
        \/ \E w \in Workers : worker[w].pc = "received" /\ worker[w].run = r
                                /\ worker[w].task = row[r].task

(* A client left half-way by an SC-05 run stays marked PARTIAL or UNKNOWN    *)
(* while the run waits for its resumption, so nothing else may start on it.  *)
PartialRunKeepsClientPartial ==
  \A r \in Runs :
    /\ row[r].kind = "SC-05"
    /\ row[r].status = "PARTIALLY_FAILED" \/ (row[r].status = "QUEUED" /\ row[r].resumes > 0)
    => row[r].partial

(* Late workers, late confirmations, late refusals and overlapping pulses    *)
(* never rewrite the outcome of a settled run: only a new authorisation      *)
(* does, or, for SC-04, a person's decision on a document.                   *)
SettledStays ==
  [][\A r \in Runs :
       /\ row[r].status \in Terminal
       /\ Guarded(r) \/ ~(row[r].reviewable \/ "slow_upload" \in Faults)
       => \/ row'[r].status = row[r].status
          \/ row'[r].status = "QUEUED" /\ row'[r].grants > row[r].grants]_vars

(* Every run that was accepted ends, or waits for a person.                  *)
EventuallySettled ==
  \A r \in Runs :
    row[r].status \in {"PENDING", "QUEUED", "RUNNING"}
      ~> row[r].status \in Terminal \cup {"AWAITING_REVIEW"}

-----------------------------------------------------------------------------
(* An authorisation to act on the outside world is used at most once.        *)
Phase(rec) ==
  IF rec.kind \notin {"SC-05", "SC-20"} THEN "none"
  ELSE CASE rec.status = "QUEUED" -> "asked"
         [] rec.status = "RUNNING" -> "active"
         [] OTHER -> "settled"

Effects == INSTANCE EffectContract WITH
  phase <- [r \in Runs |-> Phase(row[r])],
  grants <- [r \in Runs |-> IF Phase(row[r]) = "none" THEN 0 ELSE row[r].grants],
  starts <- [r \in Runs |-> IF Phase(row[r]) = "none" THEN 0 ELSE row[r].starts]

(* The execution layer implements that contract for SC-05 and SC-20.         *)
ImplementsEffects == Effects!Spec
=============================================================================
