------------------------------ MODULE SC05Saga ------------------------------
(***************************************************************************)
(* SC-05: blocking and unblocking one client in three external portals.     *)
(* The portals share no transaction with the database, so an operation is a *)
(* saga: per portal, look, remember what was there, act, look again; on a   *)
(* failure, look again and restore in reverse order.  Code: sc05/services.py*)
(* sc05/playwright.py (restore), reconciliation.py (_quarantine_sc05) and,  *)
(* for the portals, sc05_simulator/views.py.                                *)
(*                                                                          *)
(* A portal call either works, fails before it changed anything or fails    *)
(* after it did; the worker may die between two steps; people may use the   *)
(* portals by hand.  Which worker executes, and that it is the only one, is *)
(* the subject of RunLifecycle.                                             *)
(***************************************************************************)
EXTENDS Naturals, Sequences, FiniteSets

CONSTANTS
  Tasks,       \* open tasks of the client in the tasks portal
  MaxOps,      \* bound: operations on the client
  MaxResumes,  \* bound: resumptions per operation
  MaxFaults,   \* bound: faults of all kinds
  Faults       \* kinds of fault that may happen

ASSUME ConstantsAssumption ==
  /\ Tasks # {}
  /\ {MaxOps, MaxResumes, MaxFaults} \subseteq Nat
  /\ Faults \subseteq {"call",    \* a portal call or its screenshot fails
                       "crash",   \* the worker process dies
                       "abort",   \* an exception outside a portal call: login,
                                  \* database, soft time limit
                       "unsent",  \* the operation is never delivered
                       "hand"}    \* somebody changes a portal by hand

VARIABLES
  client,   \* [status, snapshot]: the SC05Client row
  run,      \* [action, status, resumes]: the latest operation and its run
  steps,    \* [Portals -> Step]: its SC05PortalStep rows
  worker,   \* [pc, at, prior, failed, marker]: the execution under way
  portal,   \* [Portals -> state]: what the portals hold
  owner,    \* [Tasks -> owner]: previous_assignee in the tasks portal
  past,     \* history: operations made, states before the last good BLOCK
  ghost     \* history: what went wrong so far

vars == <<client, run, steps, worker, portal, owner, past, ghost>>

-----------------------------------------------------------------------------
(* Portals.                                                                *)

Portals == {"files", "accounting", "tasks"}
Order(action) == IF action = "BLOCK" THEN <<"files", "accounting", "tasks">>
                                     ELSE <<"tasks", "accounting", "files">>

(* An account is "own" (active) or "blocked"; a task is with its "own"       *)
(* assignee, with some "other" one, or "blocked" (the delinquency marker).   *)
Items(p) == IF p = "tasks" THEN Tasks ELSE {p}
Values(p) == IF p = "tasks" THEN {"own", "other", "blocked"} ELSE {"own", "blocked"}
State(p) == [Items(p) -> Values(p)]
None == <<>>   \* an empty before_state, desired_state or snapshot

AllBlocked(p) == [i \in Items(p) |-> "blocked"]

(* sc05_simulator: the forms of the portals.                                 *)
AfterForm(p, action) ==
  IF action = "BLOCK" THEN AllBlocked(p)
  ELSE [i \in Items(p) |-> IF portal[p][i] # "blocked" THEN portal[p][i]
                           ELSE IF p = "tasks" THEN owner[i] ELSE "own"]
OwnersAfterForm(p, action) ==
  IF p = "tasks" /\ action = "BLOCK"
  THEN [t \in Tasks |-> IF portal[p][t] = "blocked" THEN owner[t] ELSE portal[p][t]]
  ELSE owner
SubmitForm(p, action) ==
  /\ portal' = [portal EXCEPT ![p] = AfterForm(p, action)]
  /\ owner' = OwnersAfterForm(p, action)

-----------------------------------------------------------------------------
(* Rows.                                                                   *)

ClientStatuses == {"ACTIVE", "BLOCKED", "PARTIAL", "UNKNOWN"}
RunStatuses == {"NONE", "QUEUED", "RUNNING", "SUCCEEDED", "FAILED", "PARTIALLY_FAILED"}
StepStatuses == {"PENDING", "RUNNING", "APPLIED", "UNCHANGED", "FAILED",
                 "COMPENSATED", "COMPENSATION_FAILED"}
Active == {"QUEUED", "RUNNING"}

FreshStep == [status |-> "PENDING", before |-> None, desired |-> None]
Resting == [pc |-> "none", at |-> 0, prior |-> "PENDING", failed |-> 0, comp |-> FALSE,
            marker |-> FALSE]

TypeOK ==
  /\ client \in [status : ClientStatuses, snapshot : State("tasks") \cup {None}]
  /\ run \in [action : {"BLOCK", "UNBLOCK"}, status : RunStatuses, resumes : 0..MaxResumes]
  /\ \A p \in Portals :
       /\ steps[p].status \in StepStatuses
       /\ {steps[p].before, steps[p].desired} \subseteq State(p) \cup {None}
       /\ steps[p].before = None <=> steps[p].desired = None
       /\ portal[p] \in State(p)
       /\ past.block[p] \in State(p) \cup {None}
       /\ past.base[p] \in State(p)
  /\ worker \in [pc : {"none", "step", "inspect", "apply", "compensate", "restore", "dead"},
                 at : 0..4, prior : StepStatuses, failed : 0..3, comp : BOOLEAN, marker : BOOLEAN]
  /\ owner \in [Tasks -> {"own", "other"}]
  /\ past.ops \in 0..MaxOps
  /\ ghost \in [faults : 0..MaxFaults, faulted : BOOLEAN, byHand : BOOLEAN, aborted : BOOLEAN,
                 polluted : BOOLEAN]

Init ==
  /\ client = [status |-> "ACTIVE", snapshot |-> None]
  /\ run = [action |-> "BLOCK", status |-> "NONE", resumes |-> 0]
  /\ steps = [p \in Portals |-> FreshStep]
  /\ worker = Resting
  /\ portal \in {f \in [Portals -> UNION {State(p) : p \in Portals}] :
                   /\ \A p \in Portals : f[p] \in State(p)
                   /\ \A t \in Tasks : f["tasks"][t] # "blocked"}
  /\ owner = [t \in Tasks |-> "own"]
  /\ past = [ops |-> 0, block |-> [p \in Portals |-> None], base |-> portal]
  /\ ghost = [faults |-> 0, faulted |-> FALSE, byHand |-> FALSE, aborted |-> FALSE,
              polluted |-> FALSE]

Here == Order(run.action)[worker.at]
Step == steps[Here]

(* A fault of the given kind happens in this step.                           *)
Fault(kind) ==
  /\ kind \in Faults
  /\ ghost.faults < MaxFaults
  /\ ghost' = [ghost EXCEPT !.faults = @ + 1, !.faulted = TRUE]

-----------------------------------------------------------------------------
(* Requests.                                                               *)

(* create_sc05_run_result: under the client's row lock.                      *)
Create(action) ==
  /\ past.ops < MaxOps
  /\ client.status \notin {"PARTIAL", "UNKNOWN"}
  /\ action = "BLOCK" => client.status # "BLOCKED"
  /\ action = "UNBLOCK" => client.status = "BLOCKED" /\ client.snapshot # None
  /\ run.status \notin Active
  /\ run' = [action |-> action, status |-> "QUEUED", resumes |-> 0]
  /\ steps' = [p \in Portals |-> FreshStep]
  /\ past' = [past EXCEPT !.ops = @ + 1,
                          !.base = IF action = "BLOCK" THEN portal ELSE @]
  /\ UNCHANGED <<client, worker, portal, owner, ghost>>

(* resume_sc05_run                                                           *)
Resume ==
  /\ run.status = "PARTIALLY_FAILED"
  /\ run.resumes < MaxResumes
  /\ run' = [run EXCEPT !.status = "QUEUED", !.resumes = @ + 1]
  /\ UNCHANGED <<client, steps, worker, portal, owner, past, ghost>>

(* The delivery never arrives: the failed publication, or the reconciler     *)
(* once its attempts are spent (_exhaust_queued_run).                        *)
Undelivered ==
  /\ run.status = "QUEUED"
  /\ Fault("unsent")
  /\ IF run.resumes > 0
     THEN /\ run' = [run EXCEPT !.status = "PARTIALLY_FAILED"]
          /\ client' = [client EXCEPT !.status = "PARTIAL"]
     ELSE /\ run' = [run EXCEPT !.status = "FAILED"]
          /\ UNCHANGED client
  /\ UNCHANGED <<steps, worker, portal, owner, past>>

(* Somebody uses a portal's form, or gives a task to somebody else.          *)
ByHand ==
  /\ "hand" \in Faults
  /\ ghost.faults < MaxFaults
  /\ ghost' = [ghost EXCEPT !.faults = @ + 1, !.byHand = TRUE]
  /\ \/ \E p \in Portals, action \in {"BLOCK", "UNBLOCK"} : SubmitForm(p, action)
     \/ \E t \in Tasks, v \in {"own", "other"} :
          portal' = [portal EXCEPT !["tasks"][t] = v] /\ UNCHANGED owner
  /\ UNCHANGED <<client, run, steps, worker, past>>

-----------------------------------------------------------------------------
(* Applying the steps in order.                                            *)

(* _prepare_operation: QUEUED -> RUNNING.  The first execution and the       *)
(* resumed one walk over all the steps.                                      *)
BeginExecution ==
  /\ run.status = "QUEUED"
  /\ run' = [run EXCEPT !.status = "RUNNING"]
  /\ worker' = [Resting EXCEPT !.pc = "step", !.at = 1]
  /\ ghost' = [ghost EXCEPT !.faulted = FALSE]
  /\ UNCHANGED <<client, steps, portal, owner, past>>

(* _start_step; the caller has kept the status the step had before.          *)
StartStep ==
  /\ worker.pc = "step"
  /\ worker.at <= 3
  /\ steps' = [steps EXCEPT ![Here].status = "RUNNING"]
  /\ worker' = [worker EXCEPT !.pc = "inspect", !.prior = Step.status]
  /\ UNCHANGED <<client, run, portal, owner, past, ghost>>

(* A task that changed hands since the snapshot cannot be given back.        *)
Restorable(state) ==
  \A t \in Tasks : state[t] \in {"blocked", client.snapshot[t]}

(* Mutant: the snapshot lookup forgets to filter by portal.                  *)
DesiredAnyPortal(p, observed) ==
  IF run.action = "BLOCK" THEN AllBlocked(p) ELSE past.block["tasks"]

(* _desired_state, with _prior_block_state for the accounts and              *)
(* _task_unblock_state for the tasks; None is the conflict they raise.       *)
Desired(p, observed) ==
  IF run.action = "BLOCK" THEN AllBlocked(p)
  ELSE IF p # "tasks" THEN past.block[p]
  ELSE IF client.snapshot # None /\ Restorable(observed) THEN client.snapshot
  ELSE None

(* _validate_initial_state: a task already carries the marker.               *)
MarkerWithoutSnapshot(p, observed) ==
  run.action = "BLOCK" /\ p = "tasks" /\ \E t \in Tasks : observed[t] = "blocked"

(* The step fails (_mark_step_failed); compensation starts from it.          *)
FailStep(rows, marker) ==
  /\ steps' = [rows EXCEPT ![Here].status = "FAILED"]
  /\ worker' = [worker EXCEPT !.pc = "compensate", !.failed = worker.at, !.marker = marker]

Advance(rows, status) ==
  /\ steps' = [rows EXCEPT ![Here].status = status]
  /\ worker' = [worker EXCEPT !.pc = "step", !.at = @ + 1]

(* Mutant: every execution takes its own snapshot.                           *)
FirstLookAlways(p) == TRUE

(* first_observation                                                         *)
FirstLook(p) == steps[p].before = None

(* Mutant: a portal that already conforms is a conflict on resumption.       *)
ForeignUnlessBefore(p, observed) == observed # steps[p].before

(* The portal holds neither what was there before nor what the saga wants.   *)
Foreign(p, observed) == observed \notin {steps[p].before, steps[p].desired}

(* The inspection and the decisions of _apply_step that follow from it.  On  *)
(* a first look a refusal comes before anything is saved.                    *)
Inspect ==
  LET observed == portal[Here]
      first == FirstLook(Here)
      refused == first /\ MarkerWithoutSnapshot(Here, observed)
      desired == IF first THEN Desired(Here, observed) ELSE Step.desired
      conflict == IF first THEN desired = None ELSE Foreign(Here, observed)
      saved == IF first THEN [steps EXCEPT ![Here].before = observed, ![Here].desired = desired]
                        ELSE steps
  IN
  /\ worker.pc = "inspect"
  /\ \/ /\ refused \/ conflict
        /\ FailStep(steps, refused)
     \/ /\ ~refused /\ ~conflict
        /\ observed = desired
        /\ Advance(saved, IF worker.prior \in {"APPLIED", "COMPENSATION_FAILED"}
                          THEN "APPLIED" ELSE "UNCHANGED")
     \/ /\ ~refused /\ ~conflict
        /\ observed # desired
        /\ steps' = saved
        /\ worker' = [worker EXCEPT !.pc = "apply"]
  /\ UNCHANGED <<client, run, portal, owner, past, ghost>>

InspectFails ==
  /\ worker.pc = "inspect"
  /\ Fault("call")
  /\ FailStep(steps, FALSE)
  /\ UNCHANGED <<client, run, portal, owner, past>>

(* The form of the action is submitted and the portal read again.            *)
Apply ==
  /\ worker.pc = "apply"
  /\ SubmitForm(Here, run.action)
  /\ IF AfterForm(Here, run.action) = Step.desired
     THEN Advance(steps, "APPLIED")
     ELSE FailStep(steps, FALSE)
  /\ UNCHANGED <<client, run, past, ghost>>

(* The call fails, before the portal changed or after.                       *)
ApplyFails ==
  /\ worker.pc = "apply"
  /\ Fault("call")
  /\ FailStep(steps, FALSE)
  /\ SubmitForm(Here, run.action) \/ UNCHANGED <<portal, owner>>
  /\ UNCHANGED <<client, run, past>>

-----------------------------------------------------------------------------
(* Compensating in reverse order.                                          *)

(* Mutant: the failed step itself is left out.                               *)
CandidatesBefore ==
  {n \in 1..worker.failed - 1 : steps[Order(run.action)[n]].before # None /\ n <= worker.at}

(* _compensate walks over the steps that have a before_state, from the last  *)
(* position down, and leaves out those after the failed one.                 *)
Candidates ==
  {n \in 1..worker.failed : steps[Order(run.action)[n]].before # None /\ n <= worker.at}
Last(S) == CHOOSE n \in S : \A m \in S : m <= n
Current == Order(run.action)[Last(Candidates)]

(* Restoring is refused unless the portal holds what the saga put there.     *)
OwnEffect(p) == portal[p] = steps[p].desired

Done(status) ==
  /\ steps' = [steps EXCEPT ![Current].status = status]
  /\ worker' = [worker EXCEPT !.pc = "compensate", !.at = Last(Candidates) - 1,
                              !.comp = @ \/ status = "COMPENSATION_FAILED"]

CompensateInspect ==
  /\ worker.pc = "compensate"
  /\ Candidates # {}
  /\ \/ /\ portal[Current] = steps[Current].before
        /\ Done(IF steps[Current].status = "FAILED" THEN "FAILED" ELSE "COMPENSATED")
     \/ /\ portal[Current] # steps[Current].before
        /\ ~OwnEffect(Current)
        /\ Done("COMPENSATION_FAILED")
     \/ /\ portal[Current] # steps[Current].before
        /\ OwnEffect(Current)
        /\ worker' = [worker EXCEPT !.pc = "restore"]
        /\ UNCHANGED steps
  /\ UNCHANGED <<client, run, portal, owner, past, ghost>>

(* PortalGateway.restore: look once more, submit the form that leads to the  *)
(* target, compare.                                                          *)
RestoreForm(p) == IF steps[p].before = AllBlocked(p) THEN "BLOCK" ELSE "UNBLOCK"

CompensateRestore ==
  /\ worker.pc = "restore"
  /\ IF OwnEffect(Current)
     THEN /\ SubmitForm(Current, RestoreForm(Current))
          /\ Done(IF AfterForm(Current, RestoreForm(Current)) = steps[Current].before
                  THEN "COMPENSATED" ELSE "COMPENSATION_FAILED")
     ELSE Done("COMPENSATION_FAILED") /\ UNCHANGED <<portal, owner>>
  /\ UNCHANGED <<client, run, past, ghost>>

CompensationFails ==
  /\ \/ worker.pc = "compensate" /\ Candidates # {} /\ UNCHANGED <<portal, owner>>
     \/ worker.pc = "restore" /\ UNCHANGED <<portal, owner>>
     \/ worker.pc = "restore" /\ OwnEffect(Current) /\ SubmitForm(Current, RestoreForm(Current))
  /\ Fault("call")
  /\ Done("COMPENSATION_FAILED")
  /\ UNCHANGED <<client, run, past>>

-----------------------------------------------------------------------------
(* The end of an execution.                                                *)

(* _finish_succeeded.  past.block is what _prior_block_state will look up.   *)
FinishSucceeded ==
  /\ worker.pc = "step"
  /\ worker.at = 4
  /\ run' = [run EXCEPT !.status = "SUCCEEDED"]
  /\ IF run.action = "BLOCK"
     THEN /\ client' = [status |-> "BLOCKED", snapshot |-> steps["tasks"].before]
          /\ past' = [past EXCEPT !.block = [p \in Portals |-> steps[p].before]]
     ELSE /\ client' = [status |-> "ACTIVE", snapshot |-> None]
          /\ UNCHANGED past
  /\ worker' = Resting
  /\ UNCHANGED <<steps, portal, owner, ghost>>

Residue == \E p \in Portals : steps[p].before # None /\ portal[p] # steps[p].before

(* _finish_failed                                                            *)
FinishFailed(marker, compensationFailed) ==
  /\ client' = [client EXCEPT !.status =
       CASE marker -> "UNKNOWN"
         [] ~marker /\ compensationFailed -> "PARTIAL"
         [] OTHER -> IF run.action = "BLOCK" THEN "ACTIVE" ELSE "BLOCKED"]
  /\ run' = [run EXCEPT !.status = IF compensationFailed /\ ~marker
                                   THEN "PARTIALLY_FAILED" ELSE "FAILED"]
  /\ worker' = Resting

(* Every candidate has been looked at.                                       *)
FinishCompensated ==
  /\ worker.pc = "compensate"
  /\ Candidates = {}
  /\ FinishFailed(worker.marker, worker.comp)
  /\ ghost' = [ghost EXCEPT !.polluted = @ \/ (run'.status = "FAILED" /\ Residue)]
  /\ UNCHANGED <<steps, portal, owner, past>>

(* _has_residual_state                                                       *)
HasResidualState ==
  \E p \in Portals : steps[p].status \in {"RUNNING", "APPLIED", "COMPENSATION_FAILED"}

(* An exception that is no portal call's: the session cannot be opened, the  *)
(* database fails, the soft time limit strikes.  Nothing is compensated, and *)
(* the error of the step gives way to unexpected_worker_error.               *)
AbortExecution ==
  /\ worker.pc \notin {"none", "dead"}
  /\ "abort" \in Faults
  /\ ghost.faults < MaxFaults
  /\ FinishFailed(FALSE, HasResidualState)
  /\ ghost' = [ghost EXCEPT !.faults = @ + 1, !.faulted = TRUE, !.aborted = TRUE,
                            !.polluted = @ \/ (run'.status = "FAILED" /\ Residue)]
  /\ UNCHANGED <<steps, portal, owner, past>>

(* The worker dies, possibly after a form was submitted.                     *)
Crash ==
  /\ worker.pc \notin {"none", "dead"}
  /\ Fault("crash")
  /\ worker' = [worker EXCEPT !.pc = "dead"]
  /\ \/ UNCHANGED <<portal, owner>>
     \/ worker.pc = "apply" /\ SubmitForm(Here, run.action)
     \/ worker.pc = "restore" /\ OwnEffect(Current) /\ SubmitForm(Current, RestoreForm(Current))
  /\ UNCHANGED <<client, run, steps, past>>

(* Mutant: isolation forgets the client.                                     *)
QuarantineRunOnly ==
  /\ worker.pc = "dead"
  /\ steps' = [p \in Portals |->
       [steps[p] EXCEPT !.status = IF @ = "RUNNING" THEN "FAILED" ELSE @]]
  /\ run' = [run EXCEPT !.status = "PARTIALLY_FAILED"]
  /\ worker' = Resting
  /\ UNCHANGED <<client, portal, owner, past, ghost>>

(* _quarantine_sc05 with _close_sc05_interrupted_attempts, or the same done  *)
(* by a redelivery in _prepare_operation.                                    *)
Quarantine ==
  /\ worker.pc = "dead"
  /\ steps' = [p \in Portals |->
       [steps[p] EXCEPT !.status = IF @ = "RUNNING" THEN "FAILED" ELSE @]]
  /\ client' = [client EXCEPT !.status = "PARTIAL"]
  /\ run' = [run EXCEPT !.status = "PARTIALLY_FAILED"]
  /\ worker' = Resting
  /\ UNCHANGED <<portal, owner, past, ghost>>

Next ==
  \/ Create("BLOCK") \/ Create("UNBLOCK") \/ Resume \/ Undelivered \/ ByHand
  \/ BeginExecution \/ StartStep \/ Inspect \/ InspectFails \/ Apply \/ ApplyFails
  \/ CompensateInspect \/ CompensateRestore \/ CompensationFails
  \/ FinishSucceeded \/ FinishCompensated \/ AbortExecution \/ Crash \/ Quarantine

Spec == Init /\ [][Next]_vars

-----------------------------------------------------------------------------
(* Properties.                                                             *)

(* A run that ends FAILED at its first execution has put every portal back:  *)
(* provided nobody else touched the portals and no exception cut the         *)
(* compensation short.  A client left UNKNOWN says so itself.                *)
RollbackComplete ==
  /\ run.status = "FAILED" /\ run.resumes = 0
  /\ client.status # "UNKNOWN"
  /\ ~ghost.byHand /\ ~ghost.aborted
  => ~Residue

(* A run that ends FAILED, resumed or not, leaves nothing behind             *)
(* (docs/architecture.md: FAILED when every compensation restored the        *)
(* initial state, PARTIALLY_FAILED when there is a residue).                 *)
NoHiddenResidue ==
  run.status = "FAILED" /\ client.status # "UNKNOWN" /\ ~ghost.byHand => ~Residue

(* The client's status tells what the latest run left: PARTIAL exactly while *)
(* a partial failure, or its resumption, is open; BLOCKED only with          *)
(* everything an unblocking needs.                                           *)
ClientMirrorsRun ==
  /\ client.status = "PARTIAL" <=>
       run.status = "PARTIALLY_FAILED" \/ (run.status \in Active /\ run.resumes > 0)
  /\ client.status = "BLOCKED" =>
       client.snapshot # None /\ \A p \in Portals : past.block[p] # None

(* Blocking and unblocking bring back what was there, whatever failures,     *)
(* crashes and resumptions happened in between: unless somebody else changed *)
(* a portal or an earlier FAILED run left a residue.                         *)
RoundTrip ==
  /\ run.status = "SUCCEEDED"
  /\ ~ghost.byHand
  /\ ~ghost.polluted
  => portal = IF run.action = "UNBLOCK" THEN past.base
              ELSE [p \in Portals |-> AllBlocked(p)]

(* A partial failure can be mended: an execution, first or resumed, that     *)
(* meets no fault of its own succeeds, whatever earlier ones left behind.    *)
FailureHasCause ==
  /\ run.status \in {"FAILED", "PARTIALLY_FAILED"}
  /\ ~ghost.byHand
  /\ ~ghost.polluted
  => ghost.faulted
=============================================================================
