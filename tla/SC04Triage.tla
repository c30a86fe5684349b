----------------------------- MODULE SC04Triage -----------------------------
(***************************************************************************)
(* SC-04: documents are received, stored, classified, reviewed by people    *)
(* and routed.  Workers and web requests work on the same rows at the same  *)
(* time: a worker compares the run's status and delivery identifier in      *)
(* every transaction, a web request does not.  Code: sc04/services.py,      *)
(* sc04/storage.py, the SC-04 part of reconciliation.py, and the requests   *)
(* sc04_upload, sc04_process_inbox, sc04_resolve_review, sc04_retry_route.  *)
(*                                                                          *)
(* One action is one transaction, with the call to the storage or the       *)
(* classifier before it.  A run has one live worker at most and the         *)
(* reconciler meets only runs without one (DeliveryClock).  Superseded      *)
(* messages are ignored by RunLifecycle, so the queue holds the last one.   *)
(* A document is its SHA-256; the attachment i of run r has the source      *)
(* reference <<r, i>>, since the code puts a token of the run into it.      *)
(***************************************************************************)
EXTENDS Naturals, Sequences, FiniteSets

CONSTANTS
  Docs,         \* contents
  InboxRuns,    \* runs over the simulated inbox
  UploadRuns,   \* runs of a manual upload
  Inbox,        \* the contents of the inbox, in order
  People,
  MaxAttempts,  \* AUTOMATION_RECONCILIATION_MAX_ATTEMPTS
  Threshold,    \* SC04_AUTO_ROUTE_THRESHOLD, on the scale of Confidences
  Confidences,
  Faults,       \* environment faults that may happen
  MaxFaults     \* bound: how many of them happen

Runs == InboxRuns \cup UploadRuns

ASSUME ConstantsAssumption ==
  /\ InboxRuns \cap UploadRuns = {}
  /\ Inbox \in Seq(Docs)
  /\ MaxAttempts \in Nat \ {0}
  /\ Threshold \in Nat
  /\ Confidences \subseteq Nat
  /\ MaxFaults \in Nat
  /\ Faults \subseteq {"refuse",      \* the first publication is refused
                       "lost",        \* a worker dies, the broker redelivers
                       "timeout",     \* a worker dies, its message is gone
                       "storage",     \* a storage call fails, before or after its effect
                       "classifier",  \* the classifier fails
                       "unhandled",   \* an exception outside a document
                       "web"}         \* a web process dies

VARIABLES
  run,     \* [Runs -> Run]: runs with their items and trace
  doc,     \* [Docs -> Document]: documents with attempts, review, decision and route
  stored,  \* [original, routed : SUBSET Docs]: the object storage
  msg,     \* [Runs -> Message]: the message in the queue
  job,     \* [Runs -> Job]: the worker that executes a run
  web,     \* [People -> Request]: the request a person waits for
  faults   \* how many faults have happened

vars == <<run, doc, stored, msg, job, web, faults>>

-----------------------------------------------------------------------------
(* The tables.                                                             *)

Closed == {"SUCCEEDED", "SUCCEEDED_WITH_WARNINGS", "FAILED"}
Statuses == {"absent", "PENDING", "QUEUED", "RUNNING", "AWAITING_REVIEW"} \cup Closed
DocStatuses == {"QUEUED", "PROCESSING", "AWAITING_REVIEW", "ROUTED", "FAILED"}
Verdicts == {"SUCCEEDED", "FAILED"}   \* INVALID_RESPONSE counts as FAILED
Types == {"known", "UNKNOWN"}   \* the routable types are one, and OTHER is as UNKNOWN
Clients == {"none", "client"}

(* failures, error: metadata["ingestion_failures"] and the dispatch_error or *)
(* technical_error of the metadata.  events: the trace, restricted to the    *)
(* changes of status that recompute_sc04_run writes.  torn (history): a web  *)
(* process died or the trace refused its event before its recompute, or the  *)
(* recompute, which has no fence, ran under a worker that was still at work. *)
NoRun == [status |-> "absent", task |-> 0, attempts |-> 0, published |-> FALSE,
          content |-> <<>>, items |-> <<>>, failures |-> 0, error |-> "none",
          torn |-> FALSE, issued |-> 0, events |-> {}]

(* ground: classified_type, the two confidences and whether there is a       *)
(* client and an ambiguity, as they were when an automatic decision was made.*)
NoGround == [type |-> "UNKNOWN", typeConfidence |-> 0, client |-> "none",
             clientConfidence |-> 0, ambiguous |-> FALSE]
NoDocument == [status |-> "absent", intake |-> "none", tries |-> <<>>, review |-> "none",
               decision |-> "none", ground |-> NoGround, route |-> "none"]

NoMessage == [task |-> 0, redelivered |-> FALSE]

(* job: dup is the outcome of the ingestion at hand, phase the loop a route  *)
(* is executed in.                                                           *)
NoDoc == "none"
NoRunId == "none"
NoJob == [pc |-> "none", task |-> 0, i |-> 0, failures |-> 0, dup |-> FALSE,
          todo |-> {}, doc |-> NoDoc, phase |-> "routes"]
NoRequest == [pc |-> "none", run |-> NoRunId, doc |-> NoDoc, dup |-> FALSE]

TypeOK ==
  /\ \A r \in Runs :
       /\ run[r].status \in Statuses /\ run[r].task \in 0..run[r].issued
       /\ run[r].content \in Seq(Docs) /\ run[r].failures \in Nat
       /\ run[r].items \in [DOMAIN run[r].content -> {"none", "NEW", "DUPLICATE_HASH"}]
       /\ run[r].attempts \in 0..MaxAttempts
       /\ msg[r].task \in 0..run[r].issued
       /\ job[r].pc \in {"none", "ingest", "enlist", "routes", "docs", "claimed", "classify",
                         "route", "copy", "copied", "refused", "failing"}
       /\ job[r].todo \subseteq Docs
  /\ \A d \in Docs :
       /\ doc[d].status \in {"absent"} \cup DocStatuses
       /\ doc[d].intake \in {"none"} \cup DocStatuses
       /\ doc[d].tries \in Seq({"PROCESSING"} \cup Verdicts)
       /\ doc[d].review \in {"none", "PENDING", "COMPLETED"}
       /\ doc[d].decision \in {"none", "AUTOMATIC", "HUMAN_REVIEW"}
       /\ doc[d].route \in {"none", "PENDING", "ROUTED", "FAILED"}
  /\ stored \in [original : SUBSET Docs, routed : SUBSET Docs]
  /\ \A p \in People :
       web[p].pc \in {"none", "ingest", "enlist", "queue", "route", "copied", "refused", "recompute"}
  /\ faults \in 0..MaxFaults

Init ==
  /\ run = [r \in Runs |-> NoRun]
  /\ doc = [d \in Docs |-> NoDocument]
  /\ stored = [original |-> {}, routed |-> {}]
  /\ msg = [r \in Runs |-> NoMessage]
  /\ job = [r \in Runs |-> NoJob]
  /\ web = [p \in People |-> NoRequest]
  /\ faults = 0

Fault(kind) == kind \in Faults /\ faults < MaxFaults /\ faults' = faults + 1

-----------------------------------------------------------------------------
(* What the rows say.                                                      *)

Received(r, outcome) == {i \in DOMAIN run[r].items : run[r].items[i] = outcome}
NewDocs(r) == {run[r].content[i] : i \in Received(r, "NEW")}
Repeated(r) == {run[r].content[i] : i \in Received(r, "DUPLICATE_HASH")}
InStatus(S, statuses) == {d \in S : doc[d].status \in statuses}
Unfinished == {"QUEUED", "PROCESSING"}

(* Mutant: documents that fail after their ingestion are not counted.        *)
IngestionFailures(r) == run[r].failures
FailedCount(r) ==
  Cardinality(InStatus(NewDocs(r), {"FAILED"})) + run[r].failures
    + Cardinality(InStatus(Repeated(r), {"FAILED"}))

Counts(r) ==
  LET N == NewDocs(r) IN
  [routed |-> Cardinality(InStatus(N, {"ROUTED"})),
   awaiting |-> Cardinality(InStatus(N, {"AWAITING_REVIEW"})),
   duplicates |-> Cardinality(Received(r, "DUPLICATE_HASH")),
   failed |-> FailedCount(r)]

(* recompute_sc04_run: the status that the documents of a run give it.       *)
Verdict(r) ==
  LET c == Counts(r) IN
  CASE c.awaiting > 0 -> "AWAITING_REVIEW"
    [] c.awaiting = 0 /\ InStatus(NewDocs(r), Unfinished) # {} -> "RUNNING"
    [] OTHER -> IF c.failed = 0 THEN "SUCCEEDED"
                ELSE IF c.routed = 0 /\ c.failed >= Cardinality(NewDocs(r)) + run[r].failures
                     THEN "FAILED" ELSE "SUCCEEDED_WITH_WARNINGS"

(* The trace: an event of a run with the key of a former one must have its   *)
(* content, or its transaction is refused (TraceabilityConflict).            *)
StatusEvent(r, t, actor) ==
  [key |-> <<run[r].status, Verdict(r), t>>, content |-> <<actor, Counts(r)>>]
TraceRefuses(r, t, actor) ==
  /\ Verdict(r) # run[r].status
  /\ \E e \in run[r].events :
       /\ e.key = StatusEvent(r, t, actor).key
       /\ e.content # StatusEvent(r, t, actor).content

Recomputed(r, t, actor) ==
  [run[r] EXCEPT !.status = Verdict(r),
                 !.events = IF Verdict(r) = run[r].status THEN @
                            ELSE @ \cup {StatusEvent(r, t, actor)}]

Fence(r) == run[r].status = "RUNNING" /\ run[r].task = job[r].task
Live(r) == job[r].pc # "none"
Requested(r) == \E p \in People : web[p].pc # "none" /\ web[p].run = r

-----------------------------------------------------------------------------
(* Interruption and recovery of the documents of a run.                    *)

(* Mutant: interrupted attempts stay open.                                   *)
KeepTry(tries) == tries
CloseTry(tries) ==
  [i \in DOMAIN tries |-> IF tries[i] = "PROCESSING" THEN "FAILED" ELSE tries[i]]

(* Mutant: the intake is forgotten.                                          *)
ReopenedDocument(d) == [doc[d] EXCEPT !.status = "QUEUED"]
Reopened(d) ==
  [doc[d] EXCEPT !.status = "QUEUED", !.intake = IF @ = "PROCESSING" THEN "QUEUED" ELSE @]

(* _reset_sc04_interrupted_items, and the resumption inside _start_run.      *)
InterruptedDoc(d) ==
  doc[d].status = "PROCESSING" /\ doc[d].decision = "none" /\ doc[d].review = "none"
ItemsReset(r) ==
  [d \in Docs |->
    IF d \notin NewDocs(r) THEN doc[d]
    ELSE [(IF InterruptedDoc(d) THEN Reopened(d) ELSE doc[d]) EXCEPT !.tries = CloseTry(@)]]

(* _close_sc04_interrupted_items (queued ones included), and its twin        *)
(* _close_interrupted_sc04_items.                                            *)
(* Mutant: only what was in processing is given up.                          *)
InProcessing(d) == doc[d].status = "PROCESSING"
Abandoned(d) == doc[d].status \in Unfinished
ItemsClosed(r) ==
  [d \in Docs |->
    IF d \notin NewDocs(r) THEN doc[d]
    ELSE [doc[d] EXCEPT !.tries = CloseTry(@),
                        !.status = IF Abandoned(d) THEN "FAILED" ELSE @,
                        !.intake = IF Abandoned(d) /\ @ \in Unfinished THEN "FAILED" ELSE @,
                        !.route = IF @ = "PENDING" THEN "FAILED" ELSE @]]

(* Mutant: one recovery too many.                                            *)
ExhaustedLate(r) == run[r].attempts > MaxAttempts
Exhausted(r) == run[r].attempts >= MaxAttempts

Requeued(r) ==
  [run[r] EXCEPT !.status = "QUEUED", !.task = run[r].issued + 1, !.issued = @ + 1,
                 !.published = FALSE]

-----------------------------------------------------------------------------
(* Requests: creation of runs.                                             *)

(* create_manual_sc04_inbox_run, prepare_scheduled_sc04_run.                 *)
RequestInbox(r) ==
  /\ r \in InboxRuns
  /\ run[r].status = "absent"
  /\ run' = [run EXCEPT ![r] = [Requeued(r) EXCEPT !.content = Inbox,
                                 !.items = [i \in DOMAIN Inbox |-> "none"]]]
  /\ UNCHANGED <<doc, stored, msg, job, web>>

(* create_manual_sc04_run, first transaction.                                *)
RequestUpload(p, r, d) ==
  /\ r \in UploadRuns
  /\ run[r].status = "absent"
  /\ web[p].pc = "none"
  /\ run' = [run EXCEPT ![r] = [@ EXCEPT !.status = "PENDING", !.content = <<d>>,
                                         !.items = <<"none">>]]
  /\ web' = [web EXCEPT ![p] = [pc |-> "ingest", run |-> r, doc |-> d, dup |-> FALSE]]
  /\ UNCHANGED <<doc, stored, msg, job>>

(* ingest_document up to the document: the content is known, or it is put in *)
(* the storage (write-once, idempotent) and its row is created QUEUED.       *)
KnownContent(d) ==
  /\ doc[d].status # "absent"
  /\ UNCHANGED <<doc, stored>>

NewContent(d) ==
  /\ doc[d].status = "absent"
  /\ stored' = [stored EXCEPT !.original = @ \cup {d}]
  /\ doc' = [doc EXCEPT ![d].status = "QUEUED"]

PutFails(d) ==
  /\ doc[d].status = "absent"
  /\ \E kept \in SUBSET {d} : stored' = [stored EXCEPT !.original = @ \cup kept]
  /\ UNCHANGED doc

(* ingest_document, its transaction: the intake and the item of the run.     *)
Enlist(r, i, dup) ==
  /\ run' = [run EXCEPT ![r].items[i] = IF dup THEN "DUPLICATE_HASH" ELSE "NEW"]
  /\ doc' = IF dup THEN doc ELSE [doc EXCEPT ![run[r].content[i]].intake = "QUEUED"]

UploadIngest(p) ==
  LET d == web[p].doc IN
  /\ web[p].pc = "ingest"
  /\ \/ KnownContent(d) /\ web' = [web EXCEPT ![p].pc = "enlist", ![p].dup = TRUE]
     \/ NewContent(d) /\ web' = [web EXCEPT ![p].pc = "enlist"]
  /\ UNCHANGED <<run, msg, job>>

(* _fail_run_before_processing.                                              *)
UploadFails(p) ==
  /\ Fault("storage")
  /\ web[p].pc = "ingest"
  /\ PutFails(web[p].doc)
  /\ run' = [run EXCEPT ![web[p].run].status = "FAILED", ![web[p].run].error = "technical"]
  /\ web' = [web EXCEPT ![p] = NoRequest]
  /\ UNCHANGED <<msg, job>>

UploadEnlist(p) ==
  /\ web[p].pc = "enlist"
  /\ Enlist(web[p].run, 1, web[p].dup)
  /\ web' = [web EXCEPT ![p].pc = IF web[p].dup THEN "recompute" ELSE "queue"]
  /\ UNCHANGED <<stored, msg, job>>

(* The last transaction of create_manual_sc04_run.                           *)
UploadQueue(p) ==
  /\ web[p].pc = "queue"
  /\ run' = [run EXCEPT ![web[p].run] = Requeued(web[p].run)]
  /\ web' = [web EXCEPT ![p] = NoRequest]
  /\ UNCHANGED <<doc, stored, msg, job>>

(* dispatch_run and the broker, see RunLifecycle.                            *)
Publish(r) ==
  /\ run[r].status = "QUEUED" /\ ~run[r].published
  /\ msg' = [msg EXCEPT ![r] = [task |-> run[r].task, redelivered |-> FALSE]]
  /\ run' = [run EXCEPT ![r].published = TRUE]
  /\ UNCHANGED <<doc, stored, job, web>>

Refuse(r) ==
  /\ Fault("refuse")
  /\ run[r].status = "QUEUED" /\ ~run[r].published /\ run[r].attempts = 0
  /\ run' = [run EXCEPT ![r].status = "FAILED", ![r].error = "dispatch"]
  /\ UNCHANGED <<doc, stored, msg, job, web>>

-----------------------------------------------------------------------------
(* The worker.                                                             *)

Advance(r, changes) == job' = [job EXCEPT ![r] = changes]
Goto(r, pc) == [job[r] EXCEPT !.pc = pc]
Leave(r, pc) == IF pc = "done" THEN NoJob ELSE [job[r] EXCEPT !.pc = pc, !.doc = NoDoc]

PendingRoutes(r) == {d \in NewDocs(r) : doc[d].route = "PENDING"}
FirstStep(r, t) ==
  IF r \in InboxRuns THEN [NoJob EXCEPT !.pc = "ingest", !.task = t, !.i = 1]
  ELSE [NoJob EXCEPT !.pc = "routes", !.task = t, !.todo = PendingRoutes(r)]

(* _start_run: a message meets its run.                                      *)
Deliver(r) ==
  /\ msg[r] # NoMessage /\ ~Live(r)
  /\ msg' = [msg EXCEPT ![r] = NoMessage]
  /\ UNCHANGED <<stored, web>>

Interrupted(r) ==
  run[r].task = msg[r].task /\ run[r].status = "RUNNING" /\ msg[r].redelivered

Start(r) ==
  /\ Deliver(r)
  /\ run[r].task = msg[r].task /\ run[r].status \in {"PENDING", "QUEUED"}
  /\ run' = [run EXCEPT ![r].status = "RUNNING"]
  /\ Advance(r, FirstStep(r, msg[r].task))
  /\ UNCHANGED doc

ResumeInterrupted(r) ==
  /\ Deliver(r) /\ Interrupted(r)
  /\ ~Exhausted(r)
  /\ doc' = ItemsReset(r)
  /\ run' = [run EXCEPT ![r].attempts = @ + 1]
  /\ Advance(r, FirstStep(r, msg[r].task))

ExhaustInterrupted(r) ==
  /\ Deliver(r) /\ Interrupted(r)
  /\ Exhausted(r)
  /\ doc' = ItemsClosed(r)
  /\ run' = [run EXCEPT ![r].status = "FAILED", ![r].task = 0]
  /\ UNCHANGED job

IgnoreDelivery(r) ==
  /\ Deliver(r)
  /\ run[r].task # msg[r].task
       \/ (run[r].status \notin {"PENDING", "QUEUED"} /\ ~Interrupted(r))
  /\ UNCHANGED <<run, doc, job>>

(* SupersededDelivery outside a document: the execution ends silently.       *)
Superseded(r) ==
  /\ job[r].pc \in {"routes", "docs"} \/ (job[r].pc = "ingest" /\ job[r].i <= Len(Inbox))
  /\ ~Fence(r)
  /\ Advance(r, Leave(r, "done"))
  /\ UNCHANGED <<run, doc, stored, msg, web>>

(* _ingest_inbox, one attachment.  On a resumption the intake of an earlier  *)
(* execution is found by its source reference and nothing is added.          *)
Attachment(r) == run[r].content[job[r].i]
NextAttachment(r) == [Goto(r, "ingest") EXCEPT !.i = @ + 1, !.dup = FALSE]

IngestAttachment(r) ==
  /\ job[r].pc = "ingest" /\ job[r].i <= Len(Inbox) /\ Fence(r)
  /\ \/ /\ run[r].items[job[r].i] # "none"
        /\ Advance(r, NextAttachment(r))
        /\ UNCHANGED <<doc, stored>>
     \/ /\ run[r].items[job[r].i] = "none"
        /\ \/ KnownContent(Attachment(r)) /\ Advance(r, [Goto(r, "enlist") EXCEPT !.dup = TRUE])
           \/ NewContent(Attachment(r)) /\ Advance(r, Goto(r, "enlist"))
  /\ UNCHANGED <<run, msg, web>>

AttachmentFails(r) ==
  /\ Fault("storage")
  /\ job[r].pc = "ingest" /\ job[r].i <= Len(Inbox) /\ Fence(r)
  /\ run[r].items[job[r].i] = "none"
  /\ PutFails(Attachment(r))
  /\ Advance(r, [NextAttachment(r) EXCEPT !.failures = @ + 1])
  /\ UNCHANGED <<run, msg, web>>

EnlistAttachment(r) ==
  /\ job[r].pc = "enlist"
  /\ Enlist(r, job[r].i, job[r].dup)
  /\ Advance(r, NextAttachment(r))
  /\ UNCHANGED <<stored, msg, web>>

(* The loops of execute_sc04 read their lists once.                          *)
EndIngestion(r) ==
  /\ job[r].pc = "ingest" /\ job[r].i > Len(Inbox)
  /\ run' = [run EXCEPT ![r].failures = IF job[r].failures > 0 THEN job[r].failures ELSE @]
  /\ Advance(r, [Goto(r, "routes") EXCEPT !.todo = PendingRoutes(r)])
  /\ UNCHANGED <<doc, stored, msg, web>>

PickRoute(r) ==
  /\ job[r].pc = "routes" /\ Fence(r)
  /\ \E d \in job[r].todo :
       Advance(r, [Goto(r, "route") EXCEPT !.doc = d, !.todo = @ \ {d}])
  /\ UNCHANGED <<run, doc, stored, msg, web>>

EndRoutes(r) ==
  /\ job[r].pc = "routes" /\ job[r].todo = {}
  /\ Advance(r, [Goto(r, "docs") EXCEPT !.phase = "docs", !.todo = NewDocs(r)])
  /\ UNCHANGED <<run, doc, stored, msg, web>>

(* _claim_document.                                                          *)
Claim(r) ==
  /\ job[r].pc = "docs" /\ Fence(r)
  /\ \E d \in job[r].todo :
       LET claimed == doc[d].status = "QUEUED" /\ doc[d].decision = "none"
                        /\ doc[d].review = "none"
       IN /\ doc' = IF claimed
                    THEN [doc EXCEPT ![d].status = "PROCESSING", ![d].intake = "PROCESSING"]
                    ELSE doc
          /\ Advance(r, [job[r] EXCEPT !.pc = IF claimed THEN "claimed" ELSE "docs",
                                       !.doc = IF claimed THEN d ELSE NoDoc,
                                       !.todo = @ \ {d}])
  /\ UNCHANGED <<run, stored, msg, web>>

(* A transaction inside a document: it is refused when the run was taken     *)
(* away, and the worker goes on with the next document.                      *)
InDocument(r, pc) ==
  /\ job[r].pc = pc
  /\ UNCHANGED <<run, stored, msg, web>>

LeaveDocument(r) ==
  /\ job[r].pc \in {"claimed", "classify", "route", "copied", "refused", "failing"}
  /\ ~Fence(r)
  /\ Advance(r, Leave(r, IF job[r].phase = "docs" THEN "docs" ELSE "done"))
  /\ UNCHANGED <<run, doc, stored, msg, web>>

(* get_bytes, extraction and _create_attempt.                                *)
CreateAttempt(r) ==
  /\ InDocument(r, "claimed") /\ Fence(r)
  /\ doc' = [doc EXCEPT ![job[r].doc].tries = Append(@, "PROCESSING")]
  /\ Advance(r, Goto(r, "classify"))

(* get_bytes or the extraction fails: _mark_document_failed.                 *)
FetchFails(r) ==
  /\ Fault("storage")
  /\ InDocument(r, "claimed") /\ Fence(r)
  /\ doc' = [doc EXCEPT ![job[r].doc].status = "FAILED", ![job[r].doc].intake = "FAILED"]
  /\ Advance(r, Leave(r, "docs"))

EndAttempt(d, verdict) ==
  [doc[d] EXCEPT !.tries = [@ EXCEPT ![Len(@)] = verdict]]

-----------------------------------------------------------------------------
(* The policy.                                                             *)

Certain == CHOOSE c \in Confidences : \A x \in Confidences : x <= c
Predictions == [type : Types, typeConfidence : Confidences, client : Clients,
                clientConfidence : Confidences, ambiguous : BOOLEAN]

(* An exact match of the document's text with one client of the catalogue    *)
(* (_exact_client_match) overrides the predicted client; a match with many   *)
(* is an ambiguity.                                                          *)
Ground(prediction, matches) ==
  [prediction EXCEPT !.client = IF matches = "one" THEN "client" ELSE @,
                     !.clientConfidence = IF matches = "one" THEN Certain ELSE @,
                     !.ambiguous = @ \/ matches = "many"]
Grounds == {Ground(prediction, matches) :
              prediction \in Predictions, matches \in {"none", "one", "many"}}

(* Mutant: one certain answer is enough.                                     *)
TooLowBoth(g) == g.typeConfidence < Threshold /\ g.clientConfidence < Threshold
TooLow(g) == g.typeConfidence < Threshold \/ g.clientConfidence < Threshold

ReviewReason(g) ==
  CASE g.ambiguous -> "AMBIGUOUS_CLIENT"
    [] ~g.ambiguous /\ g.type = "UNKNOWN" -> "UNKNOWN_TYPE"
    [] ~g.ambiguous /\ g.type = "known" /\ g.client = "none" -> "UNKNOWN_CLIENT"
    [] OTHER -> IF TooLow(g) THEN "LOW_CONFIDENCE" ELSE "none"

(* _open_review: an open or concluded review is kept.                        *)
ReviewOpened(d, verdict) ==
  [EndAttempt(d, verdict) EXCEPT
     !.review = IF @ = "none" THEN "PENDING" ELSE @,
     !.status = "AWAITING_REVIEW", !.intake = "AWAITING_REVIEW"]

(* The transaction of _process_document that follows a valid answer.  That    *)
(* the document has no decision yet is a constraint of its table; it is      *)
(* always met here (ClassifiedIsUndecided in SC04TriageDocuments_proofs).    *)
Classify(r) ==
  /\ InDocument(r, "classify") /\ Fence(r)
  /\ \E g \in Grounds :
       LET d == job[r].doc IN IF ReviewReason(g) # "none"
          THEN /\ doc' = [doc EXCEPT ![d] = ReviewOpened(d, "SUCCEEDED")]
               /\ Advance(r, Leave(r, "docs"))
          ELSE /\ doc[d].decision = "none"
               /\ doc' = [doc EXCEPT ![d] = [EndAttempt(d, "SUCCEEDED") EXCEPT
                            !.decision = "AUTOMATIC", !.ground = g, !.route = "PENDING"]]
               /\ Advance(r, Goto(r, "route"))

(* _record_classifier_failure.                                               *)
ClassifierFails(r) ==
  /\ Fault("classifier")
  /\ InDocument(r, "classify") /\ Fence(r)
  /\ doc' = [doc EXCEPT ![job[r].doc] = ReviewOpened(job[r].doc, "FAILED")]
  /\ Advance(r, Leave(r, "docs"))

(* _record_unexpected_classifier_failure; the document follows in FailDocument. *)
ClassifierBreaks(r) ==
  /\ Fault("classifier")
  /\ InDocument(r, "classify") /\ Fence(r)
  /\ doc' = [doc EXCEPT ![job[r].doc] = EndAttempt(job[r].doc, "FAILED")]
  /\ Advance(r, Goto(r, "failing"))

(* _mark_document_failed.                                                    *)
FailDocument(r) ==
  /\ InDocument(r, "failing") /\ Fence(r)
  /\ doc' = [doc EXCEPT ![job[r].doc].status = "FAILED", ![job[r].doc].intake = "FAILED"]
  /\ Advance(r, Leave(r, "docs"))

-----------------------------------------------------------------------------
(* _execute_route: read the route, copy, write the outcome.  The worker is   *)
(* fenced before and after the copy, not in it, and a request never.  A      *)
(* request reads the route in the step of its copy: nothing lies between.    *)

CopySucceeds(d) == d \in stored.original /\ stored' = [stored EXCEPT !.routed = @ \cup {d}]
CopyFails(d) ==
  /\ Fault("storage")
  /\ \E kept \in SUBSET {d} : stored' = [stored EXCEPT !.routed = @ \cup kept]

Routed(d) == [doc[d] EXCEPT !.route = "ROUTED", !.status = "ROUTED", !.intake = "ROUTED"]
RouteFailed(d) == [doc[d] EXCEPT !.route = "FAILED", !.status = "FAILED", !.intake = "FAILED"]

BeginRoute(r) ==
  /\ InDocument(r, "route")
  /\ \/ doc[job[r].doc].route = "ROUTED" /\ Advance(r, Leave(r, job[r].phase))
     \/ doc[job[r].doc].route # "ROUTED" /\ Fence(r) /\ Advance(r, Goto(r, "copy"))
  /\ UNCHANGED doc

CopyByWorker(r) ==
  /\ job[r].pc = "copy"
  /\ CopySucceeds(job[r].doc)
  /\ Advance(r, Goto(r, "copied"))
  /\ UNCHANGED <<run, doc, msg, web>>

CopyByWorkerFails(r) ==
  /\ job[r].pc = "copy"
  /\ CopyFails(job[r].doc)
  /\ Advance(r, Goto(r, "refused"))
  /\ UNCHANGED <<run, doc, msg, web>>

RouteByWorker(r) ==
  /\ InDocument(r, "copied") /\ Fence(r)
  /\ doc' = [doc EXCEPT ![job[r].doc] = Routed(job[r].doc)]
  /\ Advance(r, Leave(r, job[r].phase))

(* A failed copy of a new document goes through _mark_document_failed too.   *)
RouteFailsByWorker(r) ==
  /\ InDocument(r, "refused") /\ Fence(r)
  /\ doc' = [doc EXCEPT ![job[r].doc] = RouteFailed(job[r].doc)]
  /\ Advance(r, IF job[r].phase = "docs" THEN Goto(r, "failing") ELSE Leave(r, "routes"))

-----------------------------------------------------------------------------
(* The end of an execution.                                                *)

(* recompute_sc04_run with the delivery identifier.  When the trace refuses  *)
(* the event, _finish_unhandled_failure follows.                             *)
Finish(r) ==
  /\ job[r].pc = "docs" /\ job[r].todo = {} /\ Fence(r)
  /\ run' = [run EXCEPT ![r] =
       IF TraceRefuses(r, run[r].task, "worker")
       THEN [@ EXCEPT !.status = "FAILED", !.error = "technical"]
       ELSE [Recomputed(r, run[r].task, "worker") EXCEPT !.torn = FALSE]]
  /\ Advance(r, Leave(r, "done"))
  /\ UNCHANGED <<doc, stored, msg, web>>

(* _finish_unhandled_failure.                                                *)
FailUnhandled(r) ==
  /\ Fault("unhandled")
  /\ job[r].pc \in {"ingest", "routes", "docs"} /\ Fence(r)
  /\ run' = [run EXCEPT ![r].status = "FAILED", ![r].error = "technical"]
  /\ Advance(r, Leave(r, "done"))
  /\ UNCHANGED <<doc, stored, msg, web>>

(* The broker redelivers the message of a lost worker; a task that exceeded  *)
(* its time limit was acknowledged.                                          *)
LoseWorker(r) ==
  /\ Live(r)
  /\ \/ Fault("lost") /\ msg' = [msg EXCEPT ![r] = [task |-> job[r].task, redelivered |-> TRUE]]
     \/ Fault("timeout") /\ UNCHANGED msg
  /\ job' = [job EXCEPT ![r] = NoJob]
  /\ UNCHANGED <<run, doc, stored, web>>

-----------------------------------------------------------------------------
(* Requests: reviews and routes.                                           *)

(* resolve_document_review, its transaction: the decision is a person's and  *)
(* the route is PENDING; the document's status is left as it was.            *)
Resolve(p, r, d) ==
  /\ web[p].pc = "none"
  /\ d \in NewDocs(r)
  /\ doc[d].review = "PENDING" /\ doc[d].decision = "none"
  /\ doc' = [doc EXCEPT ![d].review = "COMPLETED", ![d].decision = "HUMAN_REVIEW",
                        ![d].route = "PENDING"]
  /\ web' = [web EXCEPT ![p] = [pc |-> "route", run |-> r, doc |-> d, dup |-> FALSE]]
  /\ UNCHANGED <<run, stored, msg, job>>

(* retry_document_route.                                                     *)
Retry(p, r, d) ==
  /\ web[p].pc = "none"
  /\ d \in NewDocs(r)
  /\ doc[d].route = "FAILED"
  /\ web' = [web EXCEPT ![p] = [pc |-> "route", run |-> r, doc |-> d, dup |-> FALSE]]
  /\ UNCHANGED <<run, doc, stored, msg, job>>

CopyByRequest(p) ==
  LET d == web[p].doc IN
  /\ web[p].pc = "route"
  /\ \/ doc[d].route = "ROUTED" /\ web' = [web EXCEPT ![p].pc = "recompute"] /\ UNCHANGED stored
     \/ doc[d].route # "ROUTED" /\ CopySucceeds(d) /\ web' = [web EXCEPT ![p].pc = "copied"]
  /\ UNCHANGED <<run, doc, msg, job>>

CopyByRequestFails(p) ==
  /\ web[p].pc = "route" /\ doc[web[p].doc].route # "ROUTED"
  /\ CopyFails(web[p].doc)
  /\ web' = [web EXCEPT ![p].pc = "refused"]
  /\ UNCHANGED <<run, doc, msg, job>>

(* Mutant: the outcome of the copy is not looked at.                         *)
RouteByRequestAlways(p) ==
  /\ web[p].pc \in {"copied", "refused"}
  /\ doc' = [doc EXCEPT ![web[p].doc] = Routed(web[p].doc)]
  /\ web' = [web EXCEPT ![p].pc = "recompute"]
  /\ UNCHANGED <<run, stored, msg, job>>
RouteByRequest(p) ==
  /\ web[p].pc \in {"copied", "refused"}
  /\ doc' = [doc EXCEPT ![web[p].doc] = IF web[p].pc = "copied" THEN Routed(web[p].doc)
                                        ELSE RouteFailed(web[p].doc)]
  /\ web' = [web EXCEPT ![p].pc = "recompute"]
  /\ UNCHANGED <<run, stored, msg, job>>

(* recompute_sc04_run without a delivery identifier: whatever the status.    *)
RecomputeByRequest(p) ==
  LET r == web[p].run IN
  /\ web[p].pc = "recompute"
  /\ run' = [run EXCEPT ![r] = IF TraceRefuses(r, 0, p) THEN [@ EXCEPT !.torn = TRUE]
                               ELSE [Recomputed(r, 0, p) EXCEPT !.torn = Live(r)]]
  /\ web' = [web EXCEPT ![p] = NoRequest]
  /\ UNCHANGED <<doc, stored, msg, job>>

WebDies(p) ==
  /\ Fault("web")
  /\ web[p].pc # "none"
  /\ run' = [run EXCEPT ![web[p].run].torn = TRUE]
  /\ web' = [web EXCEPT ![p] = NoRequest]
  /\ UNCHANGED <<doc, stored, msg, job>>

-----------------------------------------------------------------------------
(* The reconciler, which finds a run stale when nothing works on it.       *)

Claimed(r) == [Requeued(r) EXCEPT !.attempts = @ + 1]
Fenced(r) == [run[r] EXCEPT !.status = "FAILED", !.task = 0]

ReconcilePending(r) ==
  /\ run[r].status = "PENDING" /\ ~Requested(r)
  /\ run' = [run EXCEPT ![r] = IF NewDocs(r) # {} THEN Claimed(r) ELSE Fenced(r)]
  /\ UNCHANGED <<doc, stored, msg, job, web>>

ReconcileQueued(r) ==
  /\ run[r].status = "QUEUED" /\ ~run[r].published
  /\ IF Exhausted(r)
     THEN run' = [run EXCEPT ![r] = Fenced(r)] /\ doc' = ItemsClosed(r)
     ELSE run' = [run EXCEPT ![r] = Claimed(r)] /\ UNCHANGED doc
  /\ UNCHANGED <<stored, msg, job, web>>

ReconcileRunning(r) ==
  /\ run[r].status = "RUNNING" /\ ~Live(r)
  /\ IF Exhausted(r)
     THEN run' = [run EXCEPT ![r] = Fenced(r)] /\ doc' = ItemsClosed(r)
     ELSE run' = [run EXCEPT ![r] = Claimed(r)] /\ doc' = ItemsReset(r)
  /\ UNCHANGED <<stored, msg, job, web>>

-----------------------------------------------------------------------------

WorkerStep(r) ==
  /\ \/ IngestAttachment(r) \/ EnlistAttachment(r) \/ EndIngestion(r)
     \/ PickRoute(r) \/ EndRoutes(r) \/ Superseded(r)
     \/ Claim(r) \/ LeaveDocument(r) \/ CreateAttempt(r) \/ Classify(r) \/ FailDocument(r)
     \/ BeginRoute(r) \/ CopyByWorker(r) \/ RouteByWorker(r) \/ RouteFailsByWorker(r)
     \/ Finish(r)
  /\ UNCHANGED faults

Delivery(r) ==
  /\ Start(r) \/ ResumeInterrupted(r) \/ ExhaustInterrupted(r) \/ IgnoreDelivery(r)
  /\ UNCHANGED faults

RequestStep(p) ==
  /\ \/ UploadIngest(p) \/ UploadEnlist(p) \/ UploadQueue(p)
     \/ CopyByRequest(p) \/ RouteByRequest(p) \/ RecomputeByRequest(p)
  /\ UNCHANGED faults

Reconcile(r) ==
  /\ ReconcilePending(r) \/ ReconcileQueued(r) \/ ReconcileRunning(r)
  /\ UNCHANGED faults

Demand ==
  /\ \/ \E r \in Runs : RequestInbox(r) \/ Publish(r)
     \/ \E p \in People, r \in Runs, d \in Docs :
          RequestUpload(p, r, d) \/ Resolve(p, r, d) \/ Retry(p, r, d)
  /\ UNCHANGED faults

Failure ==
  \/ \E r \in Runs : \/ Refuse(r) \/ AttachmentFails(r) \/ FetchFails(r)
                     \/ ClassifierFails(r) \/ ClassifierBreaks(r) \/ CopyByWorkerFails(r)
                     \/ FailUnhandled(r) \/ LoseWorker(r)
  \/ \E p \in People : UploadFails(p) \/ CopyByRequestFails(p) \/ WebDies(p)

Next ==
  \/ \E r \in Runs : WorkerStep(r) \/ Delivery(r) \/ Reconcile(r)
  \/ \E p \in People : RequestStep(p)
  \/ Demand \/ Failure

Spec == Init /\ [][Next]_vars

RunStep(r) == WorkerStep(r) \/ Delivery(r) \/ Reconcile(r)
Answer(d) == UNCHANGED faults /\ \E p \in People, r \in Runs : Resolve(p, r, d)

(* Something works on every run as long as something can, the web server     *)
(* goes on, and people answer every review that stays open, even when they   *)
(* do much else meanwhile.                                                   *)
Fairness ==
  /\ \A r \in Runs : WF_vars(RunStep(r))
  /\ \A p \in People : WF_vars(RequestStep(p))
  /\ \A d \in Docs : SF_vars(Answer(d))

FairSpec == Spec /\ Fairness

-----------------------------------------------------------------------------
(* Properties.                                                             *)

(* A document is judged once: it has at most one successful attempt, a       *)
(* person's decision comes from a concluded review and only from one, an     *)
(* automatic one from the document's single successful attempt and without   *)
(* review, and no attempt stays open on a document that nobody is to process *)
(* again, whatever is resumed, retried or uploaded twice.                    *)
Judged(d) == doc[d].review # "none" \/ doc[d].decision # "none"
OneVerdict ==
  \A d \in Docs :
    LET tries == doc[d].tries
        successes == {i \in DOMAIN tries : tries[i] = "SUCCEEDED"}
    IN /\ Cardinality(successes) <= 1
       /\ successes # {} => Judged(d) /\ successes = {Len(tries)}
       /\ doc[d].decision = "AUTOMATIC" => doc[d].review = "none" /\ successes # {}
       /\ (doc[d].decision = "HUMAN_REVIEW") = (doc[d].review = "COMPLETED")
       /\ \A i \in DOMAIN tries :
            tries[i] = "PROCESSING" => doc[d].status = "PROCESSING" /\ ~Judged(d)

(* Only what is certain is routed without a person: the type is one of the   *)
(* routable ones, there is a client, both confidences reach the threshold    *)
(* and nothing is ambiguous (docs/day-4.md), after the exact match of the    *)
(* client has had its say.                                                   *)
AutomaticIsCertain ==
  \A d \in Docs : doc[d].decision = "AUTOMATIC" =>
    LET g == doc[d].ground IN
    /\ g.type = "known" /\ g.client # "none" /\ ~g.ambiguous
    /\ {g.typeConfidence, g.clientConfidence} \cap 0..(Threshold - 1) = {}

(* A document shown as routed lies at its destination, its original is still *)
(* there, and somebody or something decided where it goes; whatever calls to *)
(* the storage failed before or after their effect.                          *)
RoutedIsStored ==
  \A d \in Docs :
    /\ doc[d].status = "ROUTED" \/ doc[d].route = "ROUTED" =>
         d \in stored.routed /\ d \in stored.original /\ doc[d].decision # "none"
    /\ d \in stored.routed => doc[d].decision # "none"
    /\ doc[d].status # "absent" => d \in stored.original

(* The intake a person sees tells the state of its document.                 *)
IntakeMirrorsDocument ==
  \A r \in Runs : \A d \in NewDocs(r) : doc[d].intake = doc[d].status

(* A run at rest claims nothing that its documents refute: it waits for      *)
(* review only while one of them does, it has succeeded only when they all   *)
(* are routed, with warnings only when they all are routed or failed.  (A    *)
(* run that recovery gave up is FAILED and may leave a document that waits   *)
(* for review, reconciliation.py:433.)  "torn" leaves out the runs whose     *)
(* recompute is missing or came too early: the web process died, the trace   *)
(* refused the event, or a request closed the run under its worker.          *)
AtRest(r) == ~Live(r) /\ ~Requested(r) /\ ~run[r].torn
RunMirrorsDocuments ==
  \A r \in Runs : AtRest(r) =>
    /\ run[r].status = "AWAITING_REVIEW" => InStatus(NewDocs(r), {"AWAITING_REVIEW"}) # {}
    /\ run[r].status = "SUCCEEDED" => InStatus(NewDocs(r), {"ROUTED"}) = NewDocs(r)
    /\ run[r].status = "SUCCEEDED_WITH_WARNINGS" =>
         InStatus(NewDocs(r), {"ROUTED", "FAILED"}) = NewDocs(r)

(* With a fair worker pool, pulse, web server and reviewers, every document  *)
(* that a run has received ends routed or failed, unless the run has failed  *)
(* on a refused publication or an exception, was torn, or a web process died *)
(* between a person's decision and its route: then nothing continues it.     *)
Stranded(d) ==
  /\ doc[d].review = "COMPLETED" /\ doc[d].route = "PENDING"
  /\ \A p \in People : web[p].doc # d
DocumentsSettle ==
  \A d \in Docs :
    (\E r \in Runs : d \in NewDocs(r)) ~>
      \/ doc[d].status \in {"ROUTED", "FAILED"} \/ Stranded(d)
      \/ \E r \in Runs : d \in NewDocs(r) /\ (run[r].error # "none" \/ run[r].torn)
=============================================================================
