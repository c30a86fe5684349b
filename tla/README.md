# SheepContabil: models, checks and proofs

SheepContabil is a Django monolith for an accounting office.  Its automations run in a Celery
worker, are started by people, by a schedule or again by a reconciler, and act on things that no
database transaction covers: portals of third parties, e-mail, object storage.  This directory
models that machinery in TLA+, checks it with TLC and proves part of it with TLAPS.

All paths are relative to `src/core/automations` of the repository unless they say otherwise.

## 1. Inventory

| component | state | operations | hard behaviour | what makes it correct |
|---|---|---|---|---|
| dispatching (`dispatching.py`) | `dispatch_started_at`, `broker_published_at`, `task_id` of a run | start a publication, publish, confirm, record a refusal | the broker call lies between two transactions: crash, ambiguous refusal, late confirmation | a confirmation or refusal touches only the publication it belongs to |
| delivery tracking (`run_tracking.py`) | `task_id`, `heartbeat_at` | match, bind and fence a delivery, heartbeat | duplicated, redelivered and superseded messages | one delivery at most has authority over a run |
| tasks (`tasks.py`, `config/celery.py`) | the broker's queue, unacknowledged messages | receive, execute, acknowledge late, reject on worker loss, hard time limit | worker death, visibility timeout, time limit | no two live workers on one message |
| reconciliation (`reconciliation.py`) | `reconciliation_attempts`, run status, task id | claim an orphan again, close it, isolate it | runs while workers, publishers and other pulses run | repeats only what may be repeated, every accepted run ends |
| SC-05 (`sc05/`) | `SC05Client`, `SC05Operation`, `SC05PortalStep`, the portals | block, unblock, resume; inspect, apply, compensate | a saga without distributed transaction | all or nothing, or an honest PARTIAL |
| SC-05 simulator (`core/sc05_simulator`) | accounts, tasks, previous assignees | forms of three portals | faults before and after the effect | (environment of SC-05) |
| SC-20 (`sc20/`) | certificates, communications, attempts | scan, warn, retry | the provider is called between two transactions | nobody is warned twice, ambiguity is isolated |
| SC-04 (`sc04/`) | documents, intakes, reviews, decisions, routes | ingest, classify, review, route, recompute | people act while a worker processes the same run | a document is decided and routed once |
| SC-06 (`sc06/`) | template versions, briefings and answers | publish, draft, complete, cancel, clean up | answers to questions that later answers hide; late requests | a completed briefing holds what was asked and stays |
| schedules (`management/commands/dispatch_due_schedules.py`) | the cron pulse | reconcile, prepare, dispatch | overlapping pulses, missed pulses | one run per module and date |
| traceability (`traceability.py`) | an append-only event log per run | append, deduplicate | concurrent appenders, keys reused with other content | gapless numbering, first content wins |
| checks and settings (`checks.py`, `config/settings`) | time limits, cutoffs | refuse a bad configuration | the order of the durations | see DeliveryClock |
| persistence (`models.py`), web (`views.py`, `forms.py`, `admin.py`) | the rows above | requests | concurrent requests | through the services |
| identity, platform, demo commands, PDF and page layout | | | not modelled | |

**Interaction.**  A request or the pulse commits a run `QUEUED` with a fresh `task_id` and then
publishes a message that carries it.  A worker takes the message, starts the run in a transaction
that compares the identifiers, works in many small transactions that compare them again, and
finishes in one more.  The reconciler looks for runs whose publication was not confirmed or whose
heartbeat is old; it gives an SC-04 run a new identifier and message, and closes or isolates the
others.  All communication is through the run's row and the queue.

## 2. Modules

| module | models | correspondence |
|---|---|---|
| `EffectContract` | what the execution layer promises to SC-05 and SC-20 | abstract: asked, active, settled, with counters of requests and executions |
| `RunLifecycle` | dispatching, delivery tracking, tasks, reconciliation, the pulse, creation, start and end of SC-04, SC-05 and SC-20 runs | `row` is the `AutomationRun` table, `uploading` the web requests inside `create_manual_sc04_run`, `publishers` the processes between the commit of a publication and its outcome, `msgs` the queue, `worker` the pool.  One action per transaction or broker interaction; `Effects!Spec` is the refinement of EffectContract |
| `DeliveryClock` | one run, its message and the clock | `lease` is the broker's visibility timeout, `pulse` the clock value `reconcile_stale_runs` read, `Tick` is bounded by the hard time limit |
| `SC05Saga` | `sc05/services.py`, `restore` of `sc05/playwright.py`, isolation, the portals' forms | `steps` are the `SC05PortalStep` rows, `client` the `SC05Client`, `portal`/`owner` the simulator's tables, `worker` the local variables of `execute_sc05` |
| `SC20Communications` | `sc20/services.py`, `sc20/gateways.py`, isolation | `comm` is a communication with its attempts, `run[r].pc` the place of the worker between the transactions, `provider` what the outside world accepted |
| `SC04Triage` | `sc04/services.py`, `sc04/storage.py`, the SC-04 part of reconciliation, the requests for upload, inbox, review and retry | `doc` is a document with its attempts, review, decision and route, `run` the run with its items, `stored` the object storage, `job` the worker and `web` the request between their transactions, `msg` the message of a run |
| `RunTrace` | what the trace promises | abstract: an append-only sequence of events without repeated keys |
| `TraceLog` | `traceability.py` | `events` are the committed rows, `tx` an open transaction and the rows it has added, `lock` the row lock of the run; `Contract!CheckedSpec` is the refinement of RunTrace |
| `SC06Rules` | `sc06/rules.py`, `sc06/forms.py`, the visibility of `static_src/app.js` | a schema is the sequence of its lines, headers and questions, a condition the sequence of its nodes, an answer a value of a set; `Scan` is the loop over the lines, with the answers taken so far, and the other operators are named for the functions |
| `SC06Briefing` | `sc06/services.py`, the SC-06 views, `cleanup_empty_briefings`, over the rules | `versions` is the active template's history, `brief`, `run`, `log` a briefing with its run and trace, `req` a request between its read and its lock, `cleaning` the list the cleanup has read; refines RunTrace too |
| `MC*` | instances for TLC | symmetry sets, the inbox, the schemas |
| `*_proofs` | theorems and proofs | section 6 |

They compose by assumption and guarantee.  `RunLifecycle` lets `ReconcileRunning` act only on runs
nobody executes and lets the broker redeliver only messages of dead workers: `DeliveryClock`
derives both from the order of the durations that `checks.py` enforces.  `SC05Saga` has one worker
per operation, `SC20Communications` executes a run once and `SC04Triage` has one live worker per
run: `OneAuthority`, `StartsLicensed` and `SingleLive` say so.  (The duplicate copy of a message
that redelivers under a live worker is not in `DeliveryClock`; `RunLifecycle` has it as the fault
`duplicate`, and `SC20Communications` as the fault `isolate`.)  `RunLifecycle` sees of SC-04 that a
run owns a NEW item and that something waits for people; `SC04Triage` says what these are and when
a person's request closes the run.  Both `TraceLog`, as the writer, and `SC06Briefing`, as a user,
implement `RunTrace`.

**Abstractions.**  A `task_id` is the ordinal of the identifiers of its run, since UUIDs do not
repeat.  Time is abstract in `RunLifecycle`: a queued run may be stale at any moment, which covers
every value of the cutoff.  Summaries, metadata, evidence and screenshots are left out; a failing
screenshot is a failing portal call.  In `SC20Communications` the window of dates is a free choice
of certificates at the start of a scan.  In `SC04Triage` a document is its SHA-256; a lookup and
the unique constraint behind it are one step; text, OCR and the classifier's answer are a free
choice of type, client, confidences and ambiguity; superseded messages, which `RunLifecycle` shows
to be ignored, are not in the queue; of the trace it keeps the deduplication keys that recomputing
a run uses, because a key with other content rolls the recompute back.  In `TraceLog` secret,
personal or oversized data is a set of unsafe contents.  In `SC06Rules` a value stands for the texts
that `_coerce_answer` makes the same.  A format, a length or an option list is two things: `allowed`,
the values that `_coerce_answer` accepts, and `reads`, the texts that the field of the form accepts,
each with the value it makes of it.  They differ for dates (`sc06/forms.py:160-177` against
`sc06/rules.py:547`): the form decides on the raw `2024-1-5`, which the conditions refuse, and hands
over `2024-01-05`; `20240105` is a date for the conditions and none for the form.  An empty field is
`"blank"`, which the conditions of the form take for the empty text and everybody else for no
answer.  `Typed` is what the browser's widgets send in the form in which it is stored; spaces around
a text are left out (the browser compares before it trims).  The married-partner check of one
template is left out.

## 3. Runs

| run | question | result |
|---|---|---|
| `lifecycle_safety` | recovery under refused publications, lost workers, time-outs; does every accepted run end? | holds, liveness under fairness |
| `lifecycle_faults` | fencing and settled outcomes under every fault | holds |
| `lifecycle_lost` | does every run end when Redis is cleared? | **violated**, finding 1 |
| `delivery_clock` | is the order of the durations enough? | holds |
| `saga` | rollback, mirror, round trip, mendability | holds |
| `saga_resume` | does FAILED mean no residue? | **violated**, finding 2 |
| `sc20` | no double warning, honest attempts | holds |
| `sc20_timeout` | does FAILED mean refused? | **violated**, finding 3 |
| `sc04` | one verdict, certain automation, stored routes, honest runs; does every document settle? | holds, liveness under fairness |
| `trace_log` | gapless numbering, keys, the contract of the trace | holds |
| `sc06` | visible answers, form and server agree, late requests | holds |
| `sc06_blank` | is what the browser shows and a person answers kept? | **violated**, finding 4 |

**Properties.**

- `RunLifecycle`: `OneAuthority` (one writer per SC-05/SC-20 run), `LiveExecutionKeepsFence` (no
  live execution is isolated), `StartsLicensed` (recovery repeats only what it may),
  `ConfirmedIsCarried` (a confirmed publication has its message), `PartialRunKeepsClientPartial`,
  `SettledStays`, `EventuallySettled`, `ImplementsEffects`.
- `DeliveryClock`: `SingleLive`, `IsolatesOnlyTheDead`, `OrphanAfterLease`.
- `SC05Saga`: `RollbackComplete`, `ClientMirrorsRun`, `RoundTrip`, `FailureHasCause`, and
  `NoHiddenResidue`, which the code does not have.
- `SC20Communications`: `AcceptedAtMostOnce`, `CommunicationMirrorsAttempts`, `AmbiguityIsIsolated`,
  and `FailedMeansRefused`, which the code does not have.
- `SC04Triage`: `OneVerdict` (one successful attempt, one decision, no attempt left open on a
  judged document), `AutomaticIsCertain` (nothing below the threshold goes without a person),
  `RoutedIsStored` (a routed document was decided and lies where it should), `IntakeMirrorsDocument`,
  `RunMirrorsDocuments` (a run at rest claims nothing that its documents refute: it waits for review
  only while one of them does, and has succeeded only when all are routed; the converse does not hold,
  since a run that recovery gave up is `FAILED` over whatever waits for review), `DocumentsSettle`.
- `TraceLog`: `Continuous`, `OneEventPerKey`, `ImplementsRunTrace`.
- `SC06Briefing`: `RunMirrorsBriefing`, `OnlyEmptyDiscarded`, `TerminalIsFinal`,
  `ImplementsRunTrace`, `StoredIsVisible` (every stored answer belongs to a question its other answers
  ask for, and sanitising again changes nothing), `FormAgreesWithServer` (the service keeps what the
  form let through, except where `ComparedAlike` says that the two read a compared answer
  differently), and `SeenIsKept` (browser, form and service agree), which the code does not have for
  every schema it publishes.

Each property has a mutant of the model, an operator above the mutated definition, that breaks it.

**Bounds.**  `MaxGrants` bounds requests per run, `MaxAttempts` is the setting (its default is 1);
nothing else is bounded in `RunLifecycle`, identifiers are bounded by these two.  One run is enough
because no action of the execution layer reads two rows, and the theorems hold for any number; two
workers are the least with a race.  A second run would only add the order in which a worker
receives messages.  `DeliveryClock` has durations 2 < 3 < 4, the smallest strictly ordered ones,
and a clock that lets a delivery, a redelivery and a late pulse follow each other; the theorems
hold for all durations.  In `SC05Saga`, three operations make BLOCK, UNBLOCK, BLOCK; two
resumptions and three faults allow a fault in the first execution, in the resumption and in its
compensation; two tasks give different assignees.  In `SC20Communications`, three runs are a scan
and two racing retries, with one edit of the certificate and two faults.  In `SC04Triage`, an inbox
run over two contents and an upload of either of them give a duplicate inside a run's life, a run
with two documents in different states, and a person who reviews or retries while a worker goes on;
a confidence is below or at the threshold; any one fault of the seven kinds happens, at any moment
(193,537 states).  In `TraceLog`, two writers on two runs with two keys and three contents race for
a lock, repeat a key with the same, another or an unsafe content and roll back (45,751 states).  In
`SC06Briefing`, six schemas have a chain of conditions, a combined one, one that compares with the
empty text, one that compares a date, one that refers forward and one whose section does; two
versions allow a publication between the form and its submission; two people and the cleanup race for
one briefing (82,830 states).

**Deadlock** is checked in `sc06`, where somebody can always publish, open or look.  The other
systems stop when their runs have ended and nobody asks for another, or when a bound is spent.

**Fairness.**  `FairSpec` of `RunLifecycle`: cron calls the pulse every 15 minutes, and
every pulse visits every candidate: weak fairness of `Reconcile(r)`.  A publishing or uploading
process finishes or dies: weak fairness of the disjunction.  A worker that is up receives messages
and its transactions complete: weak fairness of `Receive`, `StartStep`, `EndStep`.  Workers do not
die for ever: `<>[][no LoseWorker]`.  People, the schedule and all other faults are not fair.
`FairSpec` of `SC04Triage`: weak fairness of what works on a run, worker, delivery or pulse; weak
fairness of a web request, which its server finishes; strong fairness of an answer to an open
review, because a review is for a person to answer and only people who do other things meanwhile
interrupt its being answered.  Retrying a route or uploading again is not fair.

## 4. Findings

1. `lifecycle_lost`: docs/assumptions.md:34 says Redis can be cleared and the system reconciles
   pending work.  `_is_still_stale` (`reconciliation.py:265`) skips every queued run whose
   publication was confirmed, so such a run stays `QUEUED`.
2. `saga_resume`: docs/architecture.md:276 says a run ends `FAILED` when compensation restored
   everything.  `_compensate` (`sc05/services.py:1037`) skips the steps after the failed one.  In
   a resumed run these may have been applied before; the run ends `FAILED`, the client goes back
   to its old status, and the portal keeps the change.
   A second way to the same residue needs no resumption: `_has_residual_state`
   (`sc05/services.py:1271`) does not count steps marked `FAILED`, though the failing call may have
   taken effect, and an exception in the compensation then ends `FAILED`.  (`MCSC05SagaResume.cfg`
   with `Faults = {"call", "abort"}` and `MaxResumes = 0` shows it.)
3. `sc20_timeout`: docs/architecture.md:340 promises that an ambiguous interruption leaves the
   attempt pending.  The gateway (`sc20/gateways.py:161`) answers `delivered=False` to a time-out,
   and the attempt becomes a confirmed failure that may be retried.
4. `sc06_blank`: docs/architecture.md:298 says that values without a canonical representation are
   refused when a schema is published, so that Python and the browser mean the same.
   `_validate_condition_value` (`sc06/rules.py:519`) accepts the empty text for a text question
   without minimum length.  An empty field is no answer for the browser and the empty text for the
   form: under `not_equals ""` the browser shows the dependent question, the form takes it for hidden,
   and the answer given to it is dropped without an error.

Met while modelling, kept in the models as the code has them, and not runs of their own because no
document says otherwise or the case is a variant of a finding:

- SC-04: a web process that dies between a person's decision and its route leaves the document
  `AWAITING_REVIEW` with a concluded review, which no request can continue (`Stranded` in
  `DocumentsSettle`).  After a refused publication an upload's documents stay behind, and uploading
  them again is a duplicate that ends `SUCCEEDED`.  A person's recompute compares no delivery
  identifier and may close a run under its worker (`torn`, left out by `RunMirrorsDocuments` and
  `DocumentsSettle`).  The late
  failure of one of two retries overwrites a `ROUTED` route, although the file is in place.  A
  recompute whose event repeats a key of an earlier one with other content is rolled back.
- SC-06: the view and the cleanup command report a discarded briefing without looking at what
  `discard` returned.  Two people who save one draft overwrite each other's answers.  The form
  reads `2024-1-5`, which a browser's date field does not send, but decides on that text what is active: with
  a question shown when the date is `not_equals "2024-01-05"` the form keeps the dependent answer and
  the service drops it, or the reverse for `equals`.  The models contain it (`Rewritten`), and
  `FormAgreesWithServer` leaves out the submissions that such a text or an empty compared answer
  concerns (`ComparedAlike`).  A `ValidationError` ends the whole cleanup; in the cancel view it is not caught.
- SC-20: a certificate deactivated after the scan has selected it is still warned about.

## 5. Hazards

`PROJECT.json` lists them with their lines.  Those without a property are states left to people on
purpose, manual changes inside a portal call, losses and stranded documents that the properties name
as their exception, and interleavings that the models contain and about whose outcome nothing is
promised: the late queueing of an upload, a run closed under its worker, a late failure over a routed
document.

## 6. Proofs

All theorems hold for every value of the constants that satisfies the named assumptions
(`ConstantsAssumption`; `DurationsAssumption`, `E045`, `E047`; `CandidatesAssumption`, `BoundAssumption`).

- `RunLifecycle_proofs`: `TypeCorrect`, one lemma per action group, each by rebuilding the row.
  The invariant `RowInv` is `TypeOK`, `AllSound` and `Known`.
  `Sound(rec, up)` relates the fields of one row (`up`: its upload is being served): a queued row carries its newest
  identifier, a started one is marked started, `Licensed` bounds starts by attempts or resumptions,
  with one start less while the run is queued.  `Known` says that no publisher, message or worker
  holds an identifier that was not issued.  `StartsLicensed` alone is not inductive: a start at a
  queued run needs the slack that `Licensed` keeps, and that a start happens only at a queued run
  needs the freshness of its identifier.  Lemmas `Sound...` show what each way of rewriting a row
  does.  From `RowInv` follow `StartsAreLicensed` and `ClientStaysMarked`.
  Fencing: `LeavesTerminal` lists the actions that can move a settled run, from
  which `SettledRunsStay` follows.  `OneWorkerHasAuthority` adds to `RowInv` that nobody executes
  under the identifier of a queued run and one worker at most under that of a running one.
  Carriers: a publisher that has yet to send, a message, a worker that holds it.  Unless messages
  are published twice an identifier has one carrier (`Single`), none of a pending run
  (`Undispatched`), and the live worker of a run has its identifier (`LiveFence`): from these three
  follows `LiveExecutionsAreFenced`.  `ConfirmedRunsAreCarried` needs that the publisher which is
  about to confirm has its message on the way (`AllCarried`).
  Refinement: every action rewrites one row, and every rewriting is an abstract
  `Ask`, `Begin`, `Settle` or a stutter; hence `ExecutionImplementsContract`.
- `DeliveryClock_proofs`: a live task holds the only copy of the message and its lease outlives it
  (`LiveHoldsLease`); until the first requeue the lease ends a visibility timeout after the last
  heartbeat at the latest (`FirstDelivery`).  The three properties follow by arithmetic from the
  order of the durations.
- `TraceLog_proofs`: the lock of a run belongs to the only transaction on it (`LockOK`), and what
  that transaction sees, committed rows and then its own, is numbered and without repeated keys
  (`SeenOK`); `Continuous` and `OneEventPerKey` alone are not inductive, since a commit needs the
  rows of the open transaction.  A commit appends the new rows to what was there, so it is a step
  of `RunTrace` (`WriterImplementsRunTrace`).
- `SC04Triage_proofs`: `TypeCorrect`.  `TypeInv` gives each table, message, job and request its
  domain, one lemma per group of actions; `AutomaticIsCertain` follows with the ground of a
  decision (`CertainlyAutomatic`).
  `RouteInv` is `DocSound` for each document (between its row and the
  storage) and `HandsOK` for what a job or a request holds between its transactions: only decided
  documents are copied, and a copy that succeeded lies in the storage until its row says so.
  `RoutedAndStored` needs both, because the copy and the row are two steps.
- `SC04TriageDocuments_proofs`: three invariants, each on top of the ones before.
  `OwnInv`: the row of a document and the item that lists it are two transactions, so a document
  is held in between by one job or one request (`HeldOnce`), for a place of the run that stays open
  (`Arriving`); then it is new in one run (`OwnedOnce`, the theorem `DocumentHasOneRun`), and
  whoever works on it works on a document of its own run (`AtWork`).  Without ownership a recovery
  of one run could change the documents of another.  `IntakeAlwaysMirrors` follows (`Mirrored`).
  `ToldInv`: a run under a worker tells nothing yet (`QuietUnderWork`), so what a recompute writes
  at the end is what the documents are, and nobody else moves them at rest (`TrueAtRest`):
  `RunAlwaysMirrors`, where the counts of the recompute become quantifiers over the documents.
  `VerdictInv`: `RowJudged` relates the fields of one row; it is inductive only with `WorkingOwn`
  (the document in the hands of the worker that still has the run is open, with one open attempt
  while the classifier is asked) and `Issued` (an identifier taken away from a worker does not come
  back).  `JudgedOnce` follows, and that the guard of `Classify`, which stands for the constraint of
  one decision per document, never stops a worker (`ClassifiedIsUndecided`).
- `SC05Saga_proofs`: `IInv` has five layers.  `TypeInv`; `PhaseInv`, where the execution is and what
  it has looked at; `MirrorInv`, what client and run say of each other, with what an unblocking
  needs in order to start (`ClientAlwaysMirrorsRun`); `RollbackInv`, that a first execution has not
  looked ahead and that the portals the compensation has passed are back (`FailedMeansRolledBack`);
  and, while nobody else has touched a portal (`Clean`), `CleanInv`: each portal is at its start or
  at its goal and its saved look says so (`Progress`), the tasks remember their owners, and what
  the worker has passed has advanced.  `RoundTripIsExact` and `FailureAlwaysHasCause` need the last
  layer, because a resumption inspects a portal that an earlier execution may have left at either
  end.
- `SC20Communications_proofs`: `KeySound` (a communication that may be attempted again has not
  reached the provider), `RunSound` (a run by itself) and `Holding` (a run about to send or to settle holds the
  last and open attempt of its communication, so no two runs hold the same one).
  `NobodyIsWarnedTwice`, `CommunicationShowsItsAttempts` and `AmbiguousRunsAreIsolated` follow.
- `SC06Briefing_proofs`, first part, the rules, for any schema and any answers: the loops of
  `rules.py` are one recursive function (`Scan`).  Induction comes from
  `NatLessThanWellFounded` and `WFMin` of the library, as two lemmas about sets of numbers (`Least`,
  `CountUp`); with them the function exists (`ScanExists`) and what the loop collects is the only
  set whose members are added after those before them (`ScanCollects`, `ScanOnly`).  The conditions
  of a valid schema look back (`LooksBack`), so the lines that agree with the answers read as a
  whole are the lines of the loop: `VisibilityIsDeterministic`, which is what the docstring of
  `validate_template_schema` claims.  Two sets of answers that decide every condition alike then
  show the same questions (`SameActive`).  The answers that `sanitize_answers` keeps are such a set
  for the answers it was given, hence `SanitizedIsStable`, `FormatShowsAll` and `KeptIsVisible`.  What
  the form hands over is one for the raw data of the form, unless a condition compares an answer that
  the two read differently: a text that the form has rewritten, or an empty one compared with the
  empty text.  Hence `FormIsAccepted`.  What is typed in a browser has the stored form, so there only
  the comparison with the empty text separates browser, form and service: `SeenIsKeptUnlessEmpty`,
  which is finding 4 seen from the other side.
- Second part, the briefings.  `CandidatesAssumption` says that the schemas are lists of sections
  and questions as the JSON has them (`IsTemplate`); whether they are valid is decided by `Publish`.
  `IInv` is `TypeInv`, `RowSound` (a briefing, its run and its trace are at one place of the life
  of a briefing, with the counts that belong there), `VersionSound` (the answers of a briefing are
  what `sanitize_answers` kept of a form of its own version) and `ReqSound` (a request carries what
  the form it was made for lets through, and nobody else asks for the briefing it will create).  The
  last is what `RunMirrorsBriefing` lacks to be inductive: two requests that create the same
  briefing would write its trace twice.  Every other request may be late, and its service tests the
  status again under the lock, so an action writes no briefing or one, in one of two ways
  (`Stores`, `Closes`); from these follow `RunAlwaysMirrors`, `OnlyEmptyAreDiscarded`, `TerminalStays`
  and the refinement of `RunTrace` (`BriefingImplementsRunTrace`).  `AnswersAreSanitized` is the part
  of `StoredIsVisible` that is about interleavings, and `ReqSound` that of `FormAgreesWithServer`; with
  the first part they give `StoredStaysVisible` and `FormAndServerAgree`.

Every invariant and action property of the passing runs is proved.  Only model-checked: liveness
under fairness (`EventuallySettled`, `DocumentsSettle`) and the findings' counterexamples; the prover
handles neither fairness nor `ENABLED`.  No module declares a `RECURSIVE` operator.

## 7. Not modelled

Identity and permissions, pages, PDF layout, logging and metrics, demo data, migrations, container
and deployment files.  Text extraction, OCR, format validation and LLM calls appear as results; the
comparison of checksums in the object storage, the choice of its backend and the storage of SC-05's
screenshots are left out.  The selection of due dates by the pulse is not modelled yet.

## 8. Plan

Done: the execution layer and its clock, SC-05, SC-20, SC-04, the trace, SC-06.  Left:

1. `SchedulePulse`: overlapping and missed pulses, one run per module and base date.
