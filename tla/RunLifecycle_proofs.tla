------------------------ MODULE RunLifecycle_proofs ------------------------
(***************************************************************************)
(* Types and the safety properties of RunLifecycle, for every value of its  *)
(* constants.                                                               *)
(*                                                                          *)
(* Above the types the argument has four layers.  Sound relates the columns *)
(* of one row, and Known says that every identifier in circulation was      *)
(* issued to its run: from them follow the licence of every start and the   *)
(* marking of clients.  Fencing comes next: an identifier is fresh when a   *)
(* run is queued under it, one worker at most begins the run under it, and  *)
(* nobody else may write the run's outcome.  The carriers come last: unless *)
(* a message is published twice, an identifier has one carrier, so a live   *)
(* execution keeps its fence; unless messages are lost, a confirmed         *)
(* publication of a queued run is still carried.  The refinement of          *)
(* EffectContract, at the end, only needs the types and Sound.              *)
(***************************************************************************)
EXTENDS RunLifecycle, TLAPS

-----------------------------------------------------------------------------
(* Type correctness.                                                       *)

(* The records the actions write are rows, and an idle worker is a worker.   *)
LEMMA IdleIsWorker == Idle \in Worker
BY ConstantsAssumption DEF Idle, Worker, NoTask

LEMMA BlankIsRow == Blank \in Row
BY DEF Blank, Row, Statuses, NoTask

LEMMA RequeuedIsRow == ASSUME NEW rec \in Row PROVE Requeued(rec) \in Row
<1> DEFINE n == rec.issued + 1
<1>1. n \in Nat
  BY DEF Row
<1> HIDE DEF n
<1>2. [rec EXCEPT !.status = "QUEUED", !.task = n, !.issued = n] \in Row
  BY <1>1 DEF Row, Statuses
<1> QED BY <1>2 DEF Requeued, n

LEMMA RegrantedIsRow == ASSUME NEW rec \in Row PROVE Regranted(rec) \in Row
<1> DEFINE q == Requeued(rec)
           n == rec.grants + 1
<1>1. q \in Row /\ n \in Nat
  BY RequeuedIsRow DEF Row
<1> HIDE DEF q, n
<1>2. [q EXCEPT !.dispatched = FALSE, !.published = FALSE, !.attempts = 0, !.grants = n] \in Row
  BY <1>1 DEF Row
<1> QED BY <1>2 DEF Regranted, q, n

LEMMA ExhaustedIsRow == ASSUME NEW rec \in Row PROVE Exhausted(rec) \in Row
BY DEF Row, Statuses, Terminal, NoTask, Exhausted

LEMMA QuarantinedIsRow == ASSUME NEW rec \in Row PROVE Quarantined(rec) \in Row
<1> DEFINE n == rec.attempts + 1
           b == rec.partial \/ rec.kind = "SC-05"
<1>1. n \in Nat /\ b \in BOOLEAN /\ "PARTIALLY_FAILED" \in Statuses
  BY DEF Row, Statuses, Terminal
<1> HIDE DEF n, b
<1>2. [rec EXCEPT !.status = "PARTIALLY_FAILED", !.task = 0, !.attempts = n, !.partial = b] \in Row
  BY <1>1 DEF Row
<1> QED BY <1>2 DEF Quarantined, NoTask, n, b

LEMMA ClaimedIsRow ==
  ASSUME NEW rec \in Row
  PROVE  Claimed(rec) \in Row
<1> DEFINE q == Requeued(rec)
           n == rec.attempts + 1
<1>1. q \in Row /\ n \in Nat
  BY RequeuedIsRow DEF Row
<1> HIDE DEF q, n
<1>2. [q EXCEPT !.dispatched = TRUE, !.published = FALSE, !.attempts = n] \in Row
  BY <1>1 DEF Row
<1> QED BY <1>2 DEF Claimed, q, n

LEMMA BegunIsRow == ASSUME NEW rec \in Row, NEW t \in Nat PROVE Begun(rec, t) \in Row
<1> DEFINE n == rec.starts + 1
<1>1. n \in Nat /\ "RUNNING" \in Statuses
  BY DEF Row, Statuses
<1> HIDE DEF n
<1>2. [rec EXCEPT !.status = "RUNNING", !.task = t, !.dispatched = TRUE, !.published = TRUE,
                  !.started = TRUE, !.starts = n] \in Row
  BY <1>1 DEF Row
<1> QED BY <1>2 DEF Begun, n

LEMMA ResumedIsRow == ASSUME NEW rec \in Row, NEW t \in Nat PROVE Resumed(rec, t) \in Row
<1> DEFINE n == rec.starts + 1
           a == rec.attempts + 1
<1>1. n \in Nat /\ a \in Nat
  BY DEF Row
<1> HIDE DEF n, a
<1>2. [rec EXCEPT !.task = t, !.dispatched = TRUE, !.published = TRUE,
                  !.attempts = a, !.starts = n] \in Row
  BY <1>1 DEF Row
<1> QED BY <1>2 DEF Resumed, n, a

LEMMA TypeInit == Init => TypeOK
BY BlankIsRow, IdleIsWorker DEF Init, TypeOK

(* One row is rewritten.                                                     *)
LEMMA RowStep ==
  ASSUME row \in [Runs -> Row], NEW r \in Runs, NEW rec \in Row, row' = [row EXCEPT ![r] = rec]
  PROVE  row' \in [Runs -> Row]
OBVIOUS

LEMMA TypeRequest == ASSUME TypeOK, NEW r \in Runs, Request(r) PROVE TypeOK'
<1> USE DEF TypeOK
<1>0. row[r] \in Row
  OBVIOUS
<1>1. CASE Submit(r)
  <2>1. PICK k \in Kinds, s \in BOOLEAN : row' = [row EXCEPT ![r] =
          [Requeued(row[r]) EXCEPT !.kind = k, !.scheduled = s, !.grants = 1]]
    BY <1>1 DEF Submit
  <2> DEFINE q == Requeued(row[r])
  <2>2. q \in Row
    BY <1>0, RequeuedIsRow
  <2> HIDE DEF q
  <2>3. [q EXCEPT !.kind = k, !.scheduled = s, !.grants = 1] \in Row
    BY <2>2 DEF Row
  <2>4. row' \in [Runs -> Row]
    BY <2>1, <2>3, RowStep DEF q
  <2> QED BY <1>1, <2>4 DEF Submit
<1>2. CASE Resume(r)
  <2> DEFINE q == Regranted(row[r])
             n == row[r].resumes + 1
  <2>1. q \in Row /\ n \in Nat
    BY <1>0, RegrantedIsRow DEF Row
  <2>2. row' = [row EXCEPT ![r] = [q EXCEPT !.resumes = n]]
    BY <1>2 DEF Resume
  <2> HIDE DEF q, n
  <2>3. [q EXCEPT !.resumes = n] \in Row
    BY <2>1 DEF Row
  <2>4. row' \in [Runs -> Row]
    BY <2>2, <2>3, RowStep
  <2> QED BY <1>2, <2>4 DEF Resume
<1>3. CASE Reprepare(r)
  <2> DEFINE q == Regranted(row[r])
  <2>1. q \in Row
    BY <1>0, RegrantedIsRow
  <2>2. row' = [row EXCEPT ![r] = [q EXCEPT !.dispatchError = FALSE]]
    BY <1>3 DEF Reprepare
  <2> HIDE DEF q
  <2>3. [q EXCEPT !.dispatchError = FALSE] \in Row
    BY <2>1 DEF Row
  <2>4. row' \in [Runs -> Row]
    BY <2>2, <2>3, RowStep
  <2> QED BY <1>3, <2>4 DEF Reprepare
<1>4. CASE WebRecompute(r)
  <2>1. PICK s \in Statuses : row' = [row EXCEPT ![r] = [row[r] EXCEPT !.status = s]]
    BY <1>4 DEF WebRecompute, Outcomes, Statuses, Terminal
  <2>2. [row[r] EXCEPT !.status = s] \in Row
    BY <1>0 DEF Row
  <2>3. row' \in [Runs -> Row]
    BY <2>1, <2>2, RowStep
  <2> QED BY <1>4, <2>3 DEF WebRecompute
<1> QED BY <1>1, <1>2, <1>3, <1>4 DEF Request

LEMMA TypeUpload == ASSUME TypeOK, NEW r \in Runs, UploadStep(r) PROVE TypeOK'
<1> USE DEF TypeOK
<1>0. row[r] \in Row
  OBVIOUS
<1>1. CASE Upload(r)
  <2>1. "PENDING" \in Statuses /\ "SC-04" \in Kinds
    BY <1>1 DEF Upload, Statuses
  <2>2. [row[r] EXCEPT !.kind = "SC-04", !.status = "PENDING", !.grants = 1] \in Row
    BY <1>0, <2>1 DEF Row
  <2>3. row' \in [Runs -> Row]
    BY <1>1, <2>2, RowStep DEF Upload
  <2> QED BY <1>1, <2>3 DEF Upload
<1>2. CASE IngestUpload(r)
  <2>1. [row[r] EXCEPT !.hasNew = TRUE] \in Row
    BY <1>0 DEF Row
  <2>2. row' = [row EXCEPT ![r] = [row[r] EXCEPT !.hasNew = TRUE]]
    BY <1>2 DEF IngestUpload
  <2> QED BY <1>2, <2>1, <2>2 DEF IngestUpload
<1>3. CASE EndUpload(r)
  <2>1. PICK s \in Statuses : row' = [row EXCEPT ![r] = [row[r] EXCEPT !.status = s]]
    BY <1>3 DEF EndUpload, Statuses, Terminal
  <2>2. [row[r] EXCEPT !.status = s] \in Row
    BY <1>0 DEF Row
  <2>3. row' \in [Runs -> Row]
    BY <2>1, <2>2, RowStep
  <2> QED BY <1>3, <2>3 DEF EndUpload
<1>4. CASE QueueUpload(r)
  <2> DEFINE q == Requeued(row[r])
  <2>1. q \in Row
    BY <1>0, RequeuedIsRow
  <2>2. row' = [row EXCEPT ![r] = [q EXCEPT !.dispatchError = FALSE]]
    BY <1>4 DEF QueueUpload
  <2> HIDE DEF q
  <2>3. [q EXCEPT !.dispatchError = FALSE] \in Row
    BY <2>1 DEF Row
  <2>4. row' \in [Runs -> Row]
    BY <2>2, <2>3, RowStep
  <2> QED BY <1>4, <2>4 DEF QueueUpload
<1>5. CASE AbandonUpload(r)
  BY <1>5 DEF AbandonUpload
<1> QED BY <1>1, <1>2, <1>3, <1>4, <1>5 DEF UploadStep

LEMMA TypeClaim ==
  ASSUME TypeOK, NEW r \in Runs, ClaimRecovery(r)
  PROVE  row' \in [Runs -> Row] /\ publishers' \subseteq Publisher
<1>1. row[r] \in Row
  BY DEF TypeOK
<1>2. row' \in [Runs -> Row]
  BY <1>1, ClaimedIsRow DEF ClaimRecovery, TypeOK
<1>3. Publication(r, Fresh(r), TRUE) \in Publisher
  BY <1>1 DEF Publication, Publisher, Fresh, Row
<1> QED BY <1>2, <1>3 DEF ClaimRecovery, TypeOK

LEMMA TypeReconcile == ASSUME TypeOK, NEW r \in Runs, Reconcile(r) PROVE TypeOK'
<1>1. row[r] \in Row
  BY DEF TypeOK
<1>2. Exhausted(row[r]) \in Row /\ Quarantined(row[r]) \in Row
  BY <1>1, ExhaustedIsRow, QuarantinedIsRow
<1>3. row' \in [Runs -> Row] /\ publishers' \subseteq Publisher
  <2>1. CASE ClaimRecovery(r)
    BY <2>1, TypeClaim
  <2>2. CASE row' = [row EXCEPT ![r] = Exhausted(row[r])] /\ UNCHANGED publishers
    BY <1>2, <2>2 DEF TypeOK
  <2>3. CASE row' = [row EXCEPT ![r] = Quarantined(row[r])] /\ UNCHANGED publishers
    BY <1>2, <2>3 DEF TypeOK
  <2> QED BY <2>1, <2>2, <2>3 DEF Reconcile, ReconcilePending, ReconcileQueued, ReconcileRunning
<1> QED BY <1>3 DEF TypeOK, Reconcile, ReconcilePending, ReconcileQueued, ReconcileRunning

LEMMA TypePublish ==
  ASSUME TypeOK, NEW p \in publishers, Enqueue(p) \/ EndPublication(p)
  PROVE  TypeOK'
<1> USE DEF TypeOK
<1>0. p \in Publisher /\ p.run \in Runs /\ row[p.run] \in Row
  BY DEF Publisher
<1>1. CASE Enqueue(p)
  <2>1. [run |-> p.run, task |-> p.task, redelivered |-> FALSE] \in Message
    BY <1>0 DEF Publisher, Message
  <2>2. [p EXCEPT !.phase = "enqueued"] \in Publisher
    BY <1>0 DEF Publisher
  <2> QED BY <1>1, <2>1, <2>2 DEF Enqueue
<1>2. CASE ConfirmPublication(p)
  <2> DEFINE b == row[p.run].published \/ row[p.run].task = p.task
  <2>1. b \in BOOLEAN
    BY <1>0 DEF Row
  <2>2. row' = [row EXCEPT ![p.run] = [row[p.run] EXCEPT !.published = b]]
    BY <1>2 DEF ConfirmPublication
  <2> HIDE DEF b
  <2>3. [row[p.run] EXCEPT !.published = b] \in Row
    BY <1>0, <2>1 DEF Row
  <2>4. row' \in [Runs -> Row]
    BY <1>0, <2>2, <2>3, RowStep
  <2> QED BY <1>2, <2>4 DEF ConfirmPublication
<1>3. CASE FailPublication(p)
  <2> DEFINE s == DispatchFailureStatus(p.run)
  <2>1. s \in Statuses
    BY DEF DispatchFailureStatus, Statuses, Terminal
  <2>2. \/ row' = [row EXCEPT ![p.run] = [row[p.run] EXCEPT !.status = s, !.dispatchError = TRUE]]
        \/ row' = row
    BY <1>3 DEF FailPublication
  <2> HIDE DEF s
  <2>3. [row[p.run] EXCEPT !.status = s, !.dispatchError = TRUE] \in Row
    BY <1>0, <2>1 DEF Row
  <2>4. row' \in [Runs -> Row]
    BY <1>0, <2>2, <2>3, RowStep
  <2> QED BY <1>3, <2>4 DEF FailPublication
<1>4. CASE CrashPublisher(p)
  BY <1>4 DEF CrashPublisher
<1> QED BY <1>1, <1>2, <1>3, <1>4 DEF EndPublication

LEMMA TypeStart == ASSUME TypeOK, NEW w \in Workers, StartStep(w) PROVE TypeOK'
<1> DEFINE r == worker[w].run
<1> USE DEF TypeOK, Goto
<1>0. worker[w] \in Worker /\ r \in Runs /\ row[r] \in Row
  BY DEF Worker
<1>1. CASE IgnoreDelivery(w)
  BY <1>1 DEF IgnoreDelivery, Worker
<1>2. CASE BeginRun(w)
  BY <1>0, <1>2, BegunIsRow DEF BeginRun, Worker
<1>3. CASE ResumeInterrupted(w)
  BY <1>0, <1>3, ResumedIsRow DEF ResumeInterrupted, Worker
<1>4. CASE CloseInterrupted(w)
  <2> DEFINE q == IF row[r].kind = "SC-04" THEN Exhausted(row[r]) ELSE Quarantined(row[r])
  <2>1. q \in Row
    BY <1>0, ExhaustedIsRow, QuarantinedIsRow
  <2>2. row' = [row EXCEPT ![r] = [q EXCEPT !.dispatched = TRUE, !.published = TRUE]]
    BY <1>4 DEF CloseInterrupted
  <2> HIDE DEF q, r
  <2>3. [q EXCEPT !.dispatched = TRUE, !.published = TRUE] \in Row
    BY <2>1 DEF Row
  <2>4. row' \in [Runs -> Row]
    BY <1>0, <2>2, <2>3, RowStep
  <2>5. worker' \in [Workers -> Worker]
    BY <1>0, <1>4 DEF CloseInterrupted, Worker
  <2> QED BY <1>4, <2>4, <2>5 DEF CloseInterrupted
<1> QED BY <1>1, <1>2, <1>3, <1>4 DEF StartStep

LEMMA TypeEnd == ASSUME TypeOK, NEW w \in Workers, EndStep(w) PROVE TypeOK'
<1> DEFINE r == worker[w].run
<1> USE DEF TypeOK
<1>0. worker[w] \in Worker /\ r \in Runs /\ row[r] \in Row
  BY DEF Worker
<1>1. CASE FinishRun(w)
  <2>1. PICK s \in Outcomes(row[r].kind), u \in BOOLEAN :
          row' = [row EXCEPT ![r].status = s, ![r].partial = ClientLeft(row[r].kind, s, u)]
    BY <1>1 DEF FinishRun
  <2> DEFINE b == ClientLeft(row[r].kind, s, u)
  <2>2. s \in Statuses /\ b \in BOOLEAN
    BY DEF Outcomes, ClientLeft, Statuses, Terminal
  <2>3. row' = [row EXCEPT ![r] = [row[r] EXCEPT !.status = s, !.partial = b]]
    BY <2>1
  <2> HIDE DEF b
  <2>4. [row[r] EXCEPT !.status = s, !.partial = b] \in Row
    BY <1>0, <2>2 DEF Row
  <2>5. row' \in [Runs -> Row]
    BY <1>0, <2>3, <2>4, RowStep
  <2> QED BY <1>0, <1>1, <2>5 DEF FinishRun, Goto, Worker
<1>2. CASE AbandonRun(w)
  BY <1>2 DEF AbandonRun, Goto, Worker
<1>3. CASE Ack(w)
  BY <1>3, IdleIsWorker DEF Ack, Release
<1> QED BY <1>1, <1>2, <1>3 DEF EndStep

(* Every action keeps the types.                                             *)
LEMMA TypeStep == TypeOK /\ [Next]_vars => TypeOK'
<1> SUFFICES ASSUME TypeOK, [Next]_vars PROVE TypeOK'
  OBVIOUS
<1> USE DEF TypeOK
<1>1. ASSUME NEW r \in Runs, StartDispatch(r) PROVE TypeOK'
  <2>1. [row[r] EXCEPT !.dispatched = TRUE] \in Row /\ row[r].task \in Nat
    BY DEF Row
  <2>2. row' = [row EXCEPT ![r] = [row[r] EXCEPT !.dispatched = TRUE]]
    BY <1>1 DEF StartDispatch
  <2>3. Publication(r, row[r].task, FALSE) \in Publisher
    BY <2>1 DEF Publication, Publisher
  <2> QED BY <1>1, <2>1, <2>2, <2>3 DEF StartDispatch
<1>2. ASSUME NEW w \in Workers, Receive(w) PROVE TypeOK'
  BY <1>2 DEF Receive, Message, Worker
<1>3. ASSUME NEW w \in Workers, OpenReview(w) PROVE TypeOK'
  <2>1. row[worker[w].run] \in Row /\ worker[w].run \in Runs
    BY DEF Worker
  <2>2. [row[worker[w].run] EXCEPT !.reviewable = TRUE] \in Row
    BY <2>1 DEF Row
  <2>3. row' = [row EXCEPT ![worker[w].run] = [row[worker[w].run] EXCEPT !.reviewable = TRUE]]
    BY <1>3 DEF OpenReview
  <2> QED BY <1>3, <2>1, <2>2, <2>3 DEF OpenReview
<1>4. ASSUME NEW w \in Workers, WorkerFault(w) PROVE TypeOK'
  <2>1. CASE LoseWorker(w)
    <3>1. [run |-> worker[w].run, task |-> worker[w].task, redelivered |-> TRUE] \in Message
      BY DEF Worker, Message
    <3> QED BY <2>1, <3>1, IdleIsWorker DEF LoseWorker, Release
  <2>2. CASE TimeOutRun(w) \/ DropDelivery(w)
    BY <2>2, IdleIsWorker DEF TimeOutRun, DropDelivery, Release
  <2> QED BY <1>4, <2>1, <2>2 DEF WorkerFault
<1>5. CASE PurgeBroker
  BY <1>5 DEF PurgeBroker
<1>6. CASE UNCHANGED vars
  BY <1>6 DEF vars
<1> HIDE DEF TypeOK
<1> QED
  BY <1>1, <1>2, <1>3, <1>4, <1>5, <1>6,
     TypeRequest, TypeUpload, TypeReconcile, TypePublish, TypeStart, TypeEnd DEF Next

(* Type correctness of the execution layer, whatever the numbers of runs,    *)
(* workers and recovery attempts.                                            *)
THEOREM TypeCorrect == Spec => []TypeOK
BY TypeInit, TypeStep, PTL DEF Spec

-----------------------------------------------------------------------------
(* One row; up says whether its upload request is still being served.        *)

Licensed(rec, up) ==
  /\ rec.kind = "SC-20" => /\ rec.starts <= 1
                           /\ rec.status = "QUEUED" => rec.starts = 0
  /\ rec.kind = "SC-05" => /\ rec.starts <= 1 + rec.resumes
                           /\ rec.status = "QUEUED" => rec.starts <= rec.resumes
  /\ rec.kind = "SC-04" => /\ rec.starts <= 1 + rec.attempts
                           /\ rec.status \in {"QUEUED", "PENDING"} \/ up => rec.starts <= rec.attempts
                           /\ rec.status = "QUEUED" /\ up => rec.starts + 1 <= rec.attempts

ClientMarked(rec) ==
  rec.kind = "SC-05" /\ (rec.status = "PARTIALLY_FAILED" \/ (rec.status = "QUEUED" /\ rec.resumes > 0))
    => rec.partial

Sound(rec, up) ==
  /\ rec.status = "absent" => rec = Blank
  /\ rec.status # "absent" => rec.kind \in Kinds
  /\ rec.status = "PENDING" => rec.kind = "SC-04" /\ rec.issued = 0 /\ ~rec.published
  /\ rec.status = "AWAITING_REVIEW" => rec.kind = "SC-04"
  /\ rec.status = "QUEUED" => rec.task = rec.issued /\ rec.issued > 0
  /\ rec.task <= rec.issued
  /\ ~rec.started => rec.starts = 0
  /\ rec.scheduled => rec.kind # "SC-05"
  /\ rec.reviewable => rec.issued > 0 /\ rec.started
  /\ rec.status = "RUNNING" => rec.started
  /\ rec.status = "RUNNING" /\ rec.kind # "SC-04" => rec.task = rec.issued /\ rec.issued > 0
  /\ up => rec.kind = "SC-04" /\ ~rec.scheduled
  /\ up /\ "slow_upload" \notin Faults => rec.status = "PENDING"
  /\ Licensed(rec, up)
  /\ ClientMarked(rec)

(* Identifiers in circulation.                                               *)
Known ==
  /\ \A p \in publishers : p.task \in 1..row[p.run].issued
  /\ \A m \in msgs : m.task \in 1..row[m.run].issued
  /\ \A w \in Workers : worker[w].pc # "idle" => worker[w].task \in 1..row[worker[w].run].issued

AllSound == \A r \in Runs : Sound(row[r], r \in uploading)

RowInv == TypeOK /\ AllSound /\ Known

-----------------------------------------------------------------------------
(* What each way of rewriting a row does to Sound.                           *)

LEMMA SoundSubmitted ==
  ASSUME NEW rec \in Row, Sound(rec, FALSE), rec.status = "absent",
         NEW k \in Kinds, NEW s \in BOOLEAN, s => k # "SC-05"
  PROVE  LET new == [Requeued(rec) EXCEPT !.kind = k, !.scheduled = s, !.grants = 1] IN
         Sound(new, FALSE) /\ new.issued >= rec.issued
BY ConstantsAssumption DEF Row, Requeued, Blank, NoTask, Sound, Licensed, ClientMarked

LEMMA SoundRegranted ==
  ASSUME NEW rec \in Row, NEW up \in BOOLEAN, Sound(rec, up)
  PROVE  /\ rec.kind = "SC-05" /\ rec.status = "PARTIALLY_FAILED" =>
              LET new == [Regranted(rec) EXCEPT !.resumes = rec.resumes + 1] IN
              Sound(new, up) /\ new.issued >= rec.issued
         /\ rec.scheduled /\ rec.status = "FAILED" /\ ~rec.started =>
              LET new == [Regranted(rec) EXCEPT !.dispatchError = FALSE] IN
              Sound(new, up) /\ new.issued >= rec.issued
BY DEF Row, Regranted, Requeued, Blank, NoTask, Sound, Licensed, ClientMarked

LEMMA SoundRecomputed ==
  ASSUME NEW rec \in Row, NEW up \in BOOLEAN, Sound(rec, up), rec.kind = "SC-04", rec.reviewable,
         NEW s \in Outcomes("SC-04")
  PROVE  Sound([rec EXCEPT !.status = s], up)
BY DEF Row, Outcomes, Sound, Licensed, ClientMarked

LEMMA SoundUpload ==
  ASSUME NEW rec \in Row, Sound(rec, FALSE), rec.status = "absent", "SC-04" \in Kinds
  PROVE  Sound([rec EXCEPT !.kind = "SC-04", !.status = "PENDING", !.grants = 1], TRUE)
BY DEF Row, Blank, NoTask, Sound, Licensed, ClientMarked

LEMMA SoundUploaded ==
  ASSUME NEW rec \in Row, Sound(rec, TRUE)
  PROVE  /\ Sound([rec EXCEPT !.hasNew = TRUE], TRUE)
         /\ Sound(rec, FALSE)
         /\ \A s \in {"SUCCEEDED", "FAILED"} : Sound([rec EXCEPT !.status = s], FALSE)
         /\ LET new == [Requeued(rec) EXCEPT !.dispatchError = FALSE] IN
            Sound(new, FALSE) /\ new.issued >= rec.issued
BY DEF Row, Requeued, Blank, Sound, Licensed, ClientMarked

LEMMA SoundClaimed ==
  ASSUME NEW rec \in Row, NEW up \in BOOLEAN, Sound(rec, up),
         \/ rec.status = "QUEUED"
         \/ rec.kind = "SC-04" /\ rec.status = "RUNNING"
         \/ rec.status = "PENDING" /\ (up => "slow_upload" \in Faults)
  PROVE  Sound(Claimed(rec), up) /\ Claimed(rec).issued = rec.issued + 1
BY DEF Row, Claimed, Requeued, Sound, Licensed, ClientMarked

LEMMA SoundExhausted ==
  ASSUME NEW rec \in Row, NEW up \in BOOLEAN, Sound(rec, up),
         \/ rec.status \in {"QUEUED", "RUNNING"}
         \/ rec.status = "PENDING" /\ (up => "slow_upload" \in Faults)
  PROVE  Sound(Exhausted(rec), up) /\ Exhausted(rec).issued = rec.issued
BY DEF Row, NoTask, Exhausted, Sound, Licensed, ClientMarked

LEMMA SoundQuarantined ==
  ASSUME NEW rec \in Row, NEW up \in BOOLEAN, Sound(rec, up), rec.status \in {"QUEUED", "RUNNING"}
  PROVE  Sound(Quarantined(rec), up) /\ Quarantined(rec).issued = rec.issued
<1> DEFINE b == rec.partial \/ rec.kind = "SC-05"
           new == [rec EXCEPT !.status = "PARTIALLY_FAILED", !.task = 0,
                              !.attempts = rec.attempts + 1, !.partial = b]
<1>1. b \in BOOLEAN /\ (rec.kind = "SC-05" => b)
  BY DEF Row
<1> HIDE DEF b
<1>2. Sound(new, up) /\ new.issued = rec.issued
  BY <1>1 DEF Row, Sound, Licensed, ClientMarked
<1> QED BY <1>2 DEF Quarantined, NoTask, b

(* The start transaction finds the run queued under the delivered identifier.*)
LEMMA StartableIsQueued ==
  ASSUME NEW rec \in Row, NEW up \in BOOLEAN, Sound(rec, up), rec.status \in Startable(rec.kind),
         NEW t \in 1..rec.issued, rec.task = NoTask \/ rec.task = t
  PROVE  rec.status = "QUEUED" /\ rec.task = t /\ t = rec.issued
BY DEF Row, NoTask, Startable, Sound

LEMMA SoundBegun ==
  ASSUME NEW rec \in Row, NEW up \in BOOLEAN, Sound(rec, up), rec.status = "QUEUED"
  PROVE  Sound(Begun(rec, rec.issued), up) /\ Begun(rec, rec.issued).issued = rec.issued
BY DEF Row, Begun, Sound, Licensed, ClientMarked

LEMMA SoundResumed ==
  ASSUME NEW rec \in Row, NEW up \in BOOLEAN, Sound(rec, up),
         NEW t \in 1..rec.issued, rec.status = "RUNNING", rec.kind = "SC-04"
  PROVE  Sound(Resumed(rec, t), up) /\ Resumed(rec, t).issued = rec.issued
BY DEF Row, Resumed, Sound, Licensed, ClientMarked

LEMMA SoundFinished ==
  ASSUME NEW rec \in Row, NEW up \in BOOLEAN, Sound(rec, up), rec.status = "RUNNING",
         NEW s \in Outcomes(rec.kind), NEW u \in BOOLEAN
  PROVE  Sound([rec EXCEPT !.status = s, !.partial = ClientLeft(rec.kind, s, u)], up)
<1> DEFINE b == ClientLeft(rec.kind, s, u)
<1>1. b \in BOOLEAN /\ (rec.kind = "SC-05" /\ s = "PARTIALLY_FAILED" => b)
  BY DEF ClientLeft
<1>2. s \in Terminal \/ (rec.kind = "SC-04" /\ s \in {"RUNNING", "AWAITING_REVIEW"})
  BY DEF Outcomes, Terminal
<1> HIDE DEF b
<1>3. Sound([rec EXCEPT !.status = s, !.partial = b], up)
  BY <1>1, <1>2 DEF Row, Terminal, Sound, Licensed, ClientMarked
<1> QED BY <1>3 DEF b

LEMMA SoundMarked ==
  ASSUME NEW rec \in Row, NEW up \in BOOLEAN, Sound(rec, up)
  PROVE  /\ rec.status = "QUEUED" => Sound([rec EXCEPT !.dispatched = TRUE], up)
         /\ \A b \in BOOLEAN : rec.issued > 0 => Sound([rec EXCEPT !.published = b], up)
         /\ rec.issued > 0 /\ rec.status = "RUNNING" => Sound([rec EXCEPT !.reviewable = TRUE], up)
         /\ \A s \in {"FAILED", "PARTIALLY_FAILED"} :
              rec.status = "QUEUED" /\ (rec.resumes > 0 \/ s = "FAILED") =>
                Sound([rec EXCEPT !.status = s, !.dispatchError = TRUE], up)
BY DEF Row, Blank, NoTask, Sound, Licensed, ClientMarked

-----------------------------------------------------------------------------
(* From one row to the table.                                                *)

(* Row r becomes new; only its own upload may end or begin.                  *)
Rewritten(r, new) ==
  /\ row' = [row EXCEPT ![r] = new]
  /\ \A s \in Runs \ {r} : s \in uploading' <=> s \in uploading
  /\ Sound(new, r \in uploading')
  /\ new.issued >= row[r].issued

LEMMA AllSoundRewritten ==
  ASSUME TypeOK, AllSound, NEW r \in Runs, NEW new, Rewritten(r, new)
  PROVE  AllSound'
<1>1. ASSUME NEW s \in Runs PROVE Sound(row[s], s \in uploading)'
  <2>1. CASE s = r
    <3>1. row'[s] = new /\ Sound(new, r \in uploading')
      BY <2>1 DEF TypeOK, Rewritten
    <3> QED BY <2>1, <3>1 DEF Sound, Licensed, ClientMarked
  <2>2. CASE s # r
    <3>1. row'[s] = row[s] /\ (s \in uploading' <=> s \in uploading) /\ Sound(row[s], s \in uploading)
      BY <2>2 DEF TypeOK, Rewritten, AllSound
    <3> QED BY <3>1 DEF Sound, Licensed, ClientMarked
  <2> QED BY <2>1, <2>2
<1> QED BY <1>1 DEF AllSound

LEMMA IssuedRewritten ==
  ASSUME TypeOK, NEW r \in Runs, NEW new, Rewritten(r, new)
  PROVE  \A s \in Runs : row'[s].issued >= row[s].issued
<1>1. \A s \in Runs : row[s].issued \in Nat
  BY DEF TypeOK, Row
<1> QED BY <1>1 DEF TypeOK, Rewritten

LEMMA AllSoundUnchanged == ASSUME AllSound, UNCHANGED <<row, uploading>> PROVE AllSound'
BY DEF AllSound, Sound, Licensed, ClientMarked

(* Identifiers stay known while issued grows and no carrier appears.         *)
LEMMA KnownKept ==
  ASSUME TypeOK, TypeOK', Known, \A s \in Runs : row'[s].issued >= row[s].issued,
         publishers' \subseteq publishers, msgs' \subseteq msgs,
         \A w \in Workers : \/ worker'[w].pc = "idle"
                            \/ /\ worker'[w].run = worker[w].run
                               /\ worker'[w].task = worker[w].task
                               /\ worker[w].pc # "idle"
  PROVE  Known'
<1>1. \A s \in Runs : row[s].issued \in Nat /\ row'[s].issued \in Nat
  BY DEF TypeOK, Row
<1>2. \A p \in publishers' : p.task \in 1..row'[p.run].issued
  BY <1>1 DEF TypeOK, Known, Publisher
<1>3. \A m \in msgs' : m.task \in 1..row'[m.run].issued
  BY <1>1 DEF TypeOK, Known, Message
<1>4. \A w \in Workers : worker'[w].pc # "idle" => worker'[w].task \in 1..row'[worker'[w].run].issued
  BY <1>1 DEF TypeOK, Known, Worker
<1> QED BY <1>2, <1>3, <1>4 DEF Known

LEMMA StepRewrites ==
  ASSUME RowInv, TypeOK', NEW r \in Runs, NEW new, Rewritten(r, new),
         publishers' \subseteq publishers, msgs' \subseteq msgs,
         \A w \in Workers : \/ worker'[w].pc = "idle"
                            \/ /\ worker'[w].run = worker[w].run
                               /\ worker'[w].task = worker[w].task
                               /\ worker[w].pc # "idle"
  PROVE  AllSound' /\ Known'
BY AllSoundRewritten, IssuedRewritten, KnownKept DEF RowInv

LEMMA SameWorkers ==
  ASSUME UNCHANGED worker
  PROVE  \A w \in Workers : \/ worker'[w].pc = "idle"
                            \/ /\ worker'[w].run = worker[w].run
                               /\ worker'[w].task = worker[w].task
                               /\ worker[w].pc # "idle"
OBVIOUS

-----------------------------------------------------------------------------
(* Every action keeps RowInv.                                                *)

LEMMA SoundRequest ==
  ASSUME RowInv, TypeOK', NEW r \in Runs, Request(r) PROVE AllSound' /\ Known'
<1>0. row[r] \in Row /\ Sound(row[r], r \in uploading) /\ (r \in uploading) \in BOOLEAN
  BY DEF RowInv, TypeOK, AllSound
<1>1. UNCHANGED <<uploading, publishers, msgs, worker>>
  BY DEF Request, Submit, Resume, Reprepare, WebRecompute
<1>2. ASSUME NEW new, row' = [row EXCEPT ![r] = new],
             Sound(new, r \in uploading), new.issued >= row[r].issued
      PROVE  AllSound' /\ Known'
  <2>1. Rewritten(r, new)
    BY <1>1, <1>2 DEF Rewritten
  <2> QED BY <1>1, <2>1, StepRewrites, SameWorkers
<1>3. CASE Submit(r)
  <2>1. PICK k \in Kinds, s \in BOOLEAN :
          /\ s => k # "SC-05"
          /\ row' = [row EXCEPT ![r] =
               [Requeued(row[r]) EXCEPT !.kind = k, !.scheduled = s, !.grants = 1]]
    BY <1>3 DEF Submit
  <2>2. row[r].status = "absent" /\ r \notin uploading
    BY <1>0, <1>3 DEF Submit, Sound, Blank
  <2> DEFINE new == [Requeued(row[r]) EXCEPT !.kind = k, !.scheduled = s, !.grants = 1]
  <2>3. (r \in uploading) = FALSE
    BY <2>2
  <2>4. Sound(new, FALSE) /\ new.issued >= row[r].issued
    BY <1>0, <2>1, <2>2, <2>3, SoundSubmitted
  <2> QED BY <1>2, <2>1, <2>3, <2>4
<1>4. CASE Resume(r)
  BY <1>0, <1>2, <1>4, SoundRegranted DEF Resume
<1>5. CASE Reprepare(r)
  BY <1>0, <1>2, <1>5, SoundRegranted DEF Reprepare
<1>6. CASE WebRecompute(r)
  <2>1. PICK s \in Outcomes("SC-04") : row' = [row EXCEPT ![r] = [row[r] EXCEPT !.status = s]]
    BY <1>6 DEF WebRecompute
  <2>2. [row[r] EXCEPT !.status = s].issued >= row[r].issued
    BY <1>0 DEF Row
  <2> QED BY <1>0, <1>2, <1>6, <2>1, <2>2, SoundRecomputed DEF WebRecompute
<1> QED BY <1>3, <1>4, <1>5, <1>6 DEF Request

LEMMA SoundUploadStep ==
  ASSUME RowInv, TypeOK', NEW r \in Runs, UploadStep(r) PROVE AllSound' /\ Known'
<1>0. row[r] \in Row /\ Sound(row[r], r \in uploading) /\ (r \in uploading) \in BOOLEAN
  BY DEF RowInv, TypeOK, AllSound
<1>1. UNCHANGED <<publishers, msgs, worker>>
  BY DEF UploadStep, Upload, IngestUpload, EndUpload, QueueUpload, AbandonUpload
<1>2. ASSUME NEW new, row' = [row EXCEPT ![r] = new], new.issued >= row[r].issued,
             \/ uploading' = uploading \cup {r} /\ Sound(new, TRUE)
             \/ uploading' = uploading \ {r} /\ Sound(new, FALSE)
      PROVE  AllSound' /\ Known'
  <2>1. /\ \A s \in Runs \ {r} : s \in uploading' <=> s \in uploading
        /\ Sound(new, r \in uploading')
    <3>1. CASE uploading' = uploading \cup {r} /\ Sound(new, TRUE)
      <4>1. (r \in uploading') = TRUE
        BY <3>1
      <4> QED BY <3>1, <4>1
    <3>2. CASE uploading' = uploading \ {r} /\ Sound(new, FALSE)
      <4>1. (r \in uploading') = FALSE
        BY <3>2
      <4> QED BY <3>2, <4>1
    <3> QED BY <1>2, <3>1, <3>2
  <2>2. Rewritten(r, new)
    BY <1>2, <2>1 DEF Rewritten
  <2> QED BY <1>1, <2>2, StepRewrites, SameWorkers
<1>3. row[r].issued \in Nat
  BY <1>0 DEF Row
<1>4. r \in uploading => Sound(row[r], TRUE)
  <2>1. r \in uploading => (r \in uploading) = TRUE
    OBVIOUS
  <2> QED BY <1>0, <2>1
<1>5. CASE Upload(r)
  <2> DEFINE new == [row[r] EXCEPT !.kind = "SC-04", !.status = "PENDING", !.grants = 1]
  <2>1. row[r].status = "absent" /\ "SC-04" \in Kinds /\ row' = [row EXCEPT ![r] = new]
    BY <1>5 DEF Upload
  <2>2. (r \in uploading) = FALSE
    BY <1>0, <2>1 DEF Sound, Blank
  <2>3. Sound(new, TRUE)
    BY <1>0, <2>1, <2>2, SoundUpload
  <2>4. new.issued >= row[r].issued
    BY <1>0, <1>3 DEF Row
  <2>5. uploading' = uploading \cup {r}
    BY <1>5 DEF Upload
  <2> QED BY <1>2, <2>1, <2>3, <2>4, <2>5
<1>6. CASE IngestUpload(r)
  <2> DEFINE new == [row[r] EXCEPT !.hasNew = TRUE]
  <2>1. r \in uploading /\ uploading' = uploading /\ row' = [row EXCEPT ![r] = new]
    BY <1>6 DEF IngestUpload
  <2>2. new.issued >= row[r].issued
    BY <1>0, <1>3 DEF Row
  <2>3. uploading' = uploading \cup {r}
    BY <2>1
  <2>4. Sound(new, TRUE)
    BY <1>0, <1>4, <2>1, SoundUploaded
  <2> QED BY <1>2, <2>1, <2>2, <2>3, <2>4
<1>7. CASE EndUpload(r)
  <2>1. PICK s \in {"SUCCEEDED", "FAILED"} : row' = [row EXCEPT ![r] = [row[r] EXCEPT !.status = s]]
    BY <1>7 DEF EndUpload
  <2> DEFINE new == [row[r] EXCEPT !.status = s]
  <2>2. r \in uploading /\ uploading' = uploading \ {r}
    BY <1>7 DEF EndUpload
  <2>3. new.issued >= row[r].issued
    BY <1>0, <1>3 DEF Row
  <2>4. Sound(new, FALSE)
    BY <1>0, <1>4, <2>2, SoundUploaded
  <2> QED BY <1>2, <2>1, <2>2, <2>3, <2>4
<1>8. CASE QueueUpload(r)
  <2> DEFINE new == [Requeued(row[r]) EXCEPT !.dispatchError = FALSE]
  <2>1. r \in uploading /\ uploading' = uploading \ {r} /\ row' = [row EXCEPT ![r] = new]
    BY <1>8 DEF QueueUpload
  <2>2. Sound(new, FALSE) /\ new.issued >= row[r].issued
    BY <1>0, <1>4, <2>1, SoundUploaded
  <2> QED BY <1>2, <2>1, <2>2
<1>9. CASE AbandonUpload(r)
  <2>1. r \in uploading /\ uploading' = uploading \ {r} /\ row' = row
    BY <1>9 DEF AbandonUpload
  <2>2. row' = [row EXCEPT ![r] = row[r]]
    BY <2>1 DEF RowInv, TypeOK
  <2>3. Sound(row[r], FALSE)
    BY <1>0, <1>4, <2>1, SoundUploaded
  <2>4. row[r].issued >= row[r].issued
    BY <1>3
  <2> QED BY <1>2, <2>1, <2>2, <2>3, <2>4
<1> QED BY <1>5, <1>6, <1>7, <1>8, <1>9 DEF UploadStep

(* A new publication carries the identifier its row was just given.          *)
LEMMA KnownPublished ==
  ASSUME RowInv, TypeOK', NEW r \in Runs, NEW new, Rewritten(r, new), NEW t \in 1..new.issued,
         NEW b \in BOOLEAN, publishers' = publishers \cup {Publication(r, t, b)},
         UNCHANGED <<msgs, worker>>
  PROVE  AllSound' /\ Known'
<1> USE DEF RowInv
<1>1. \A s \in Runs : /\ row[s].issued \in Nat /\ row'[s].issued \in Nat
                      /\ row'[s].issued >= row[s].issued
  BY IssuedRewritten DEF TypeOK, Row
<1>2. row'[r].issued = new.issued
  BY DEF Rewritten, TypeOK
<1>3. \A p \in publishers' : p.task \in 1..row'[p.run].issued
  BY <1>1, <1>2 DEF Known, TypeOK, Publisher, Publication
<1>4. \A m \in msgs' : m.task \in 1..row'[m.run].issued
  BY <1>1 DEF Known, TypeOK, Message
<1>5. \A w \in Workers : worker'[w].pc # "idle" => worker'[w].task \in 1..row'[worker'[w].run].issued
  BY <1>1 DEF Known, TypeOK, Worker
<1> QED BY <1>3, <1>4, <1>5, AllSoundRewritten DEF Known

LEMMA SoundReconcile ==
  ASSUME RowInv, TypeOK', NEW r \in Runs, Reconcile(r) PROVE AllSound' /\ Known'
<1>0. row[r] \in Row /\ Sound(row[r], r \in uploading) /\ (r \in uploading) \in BOOLEAN
  BY DEF RowInv, TypeOK, AllSound
<1>1. UNCHANGED <<uploading, msgs, worker>>
  BY DEF Reconcile, ReconcilePending, ReconcileQueued, ReconcileRunning
<1>2. row[r].issued \in Nat
  BY <1>0 DEF Row
<1>3. ASSUME ClaimRecovery(r),
             \/ row[r].status = "QUEUED"
             \/ row[r].kind = "SC-04" /\ row[r].status = "RUNNING"
             \/ row[r].status = "PENDING" /\ (r \in uploading => "slow_upload" \in Faults)
      PROVE  AllSound' /\ Known'
  <2>1. Sound(Claimed(row[r]), r \in uploading) /\ Claimed(row[r]).issued = row[r].issued + 1
    BY <1>0, <1>3, SoundClaimed
  <2>2. Rewritten(r, Claimed(row[r]))
    BY <1>1, <1>2, <1>3, <2>1 DEF Rewritten, ClaimRecovery
  <2>3. Fresh(r) \in 1..Claimed(row[r]).issued
    BY <1>2, <2>1 DEF Fresh
  <2>4. publishers' = publishers \cup {Publication(r, Fresh(r), TRUE)}
    BY <1>3 DEF ClaimRecovery
  <2> QED BY <1>1, <2>2, <2>3, <2>4, KnownPublished
<1>4. ASSUME row' = [row EXCEPT ![r] = Exhausted(row[r])], UNCHANGED publishers,
             \/ row[r].status \in {"QUEUED", "RUNNING"}
             \/ row[r].status = "PENDING" /\ (r \in uploading => "slow_upload" \in Faults)
      PROVE  AllSound' /\ Known'
  <2>1. Sound(Exhausted(row[r]), r \in uploading) /\ Exhausted(row[r]).issued = row[r].issued
    BY <1>0, <1>4, SoundExhausted
  <2>2. Rewritten(r, Exhausted(row[r]))
    BY <1>1, <1>2, <1>4, <2>1 DEF Rewritten
  <2> QED BY <1>1, <1>4, <2>2, StepRewrites, SameWorkers
<1>5. ASSUME row' = [row EXCEPT ![r] = Quarantined(row[r])], UNCHANGED publishers,
             row[r].status \in {"QUEUED", "RUNNING"}
      PROVE  AllSound' /\ Known'
  <2>1. Sound(Quarantined(row[r]), r \in uploading) /\ Quarantined(row[r]).issued = row[r].issued
    BY <1>0, <1>5, SoundQuarantined
  <2>2. Rewritten(r, Quarantined(row[r]))
    BY <1>1, <1>2, <1>5, <2>1 DEF Rewritten
  <2> QED BY <1>1, <1>5, <2>2, StepRewrites, SameWorkers
<1>6. CASE ReconcilePending(r)
  BY <1>3, <1>4, <1>6 DEF ReconcilePending
<1>7. CASE ReconcileQueued(r)
  BY <1>3, <1>4, <1>5, <1>7 DEF ReconcileQueued
<1>8. CASE ReconcileRunning(r)
  BY <1>3, <1>4, <1>5, <1>8 DEF ReconcileRunning
<1> QED BY <1>6, <1>7, <1>8 DEF Reconcile

LEMMA SoundPublish ==
  ASSUME RowInv, TypeOK', NEW p \in publishers, Enqueue(p) \/ EndPublication(p)
  PROVE  AllSound' /\ Known'
<1> DEFINE r == p.run
<1>0. /\ r \in Runs /\ row[r] \in Row /\ Sound(row[r], r \in uploading)
      /\ (r \in uploading) \in BOOLEAN /\ p.task \in 1..row[r].issued /\ row[r].issued \in Nat
  BY DEF RowInv, TypeOK, AllSound, Known, Publisher, Row
<1>1. ASSUME NEW new, row' = [row EXCEPT ![r] = new], Sound(new, r \in uploading),
             new.issued = row[r].issued, publishers' = publishers \ {p},
             UNCHANGED <<uploading, msgs, worker>>
      PROVE  AllSound' /\ Known'
  <2>1. Rewritten(r, new)
    BY <1>0, <1>1 DEF Rewritten
  <2> QED BY <1>0, <1>1, <2>1, StepRewrites, SameWorkers
<1>2. CASE Enqueue(p)
  <2>1. AllSound'
    BY <1>2, AllSoundUnchanged DEF RowInv, Enqueue
  <2>2. \A q \in publishers' : q.task \in 1..row'[q.run].issued
    BY <1>0, <1>2 DEF RowInv, Enqueue, Known, TypeOK, Publisher
  <2>3. \A m \in msgs' : m.task \in 1..row'[m.run].issued
    BY <1>0, <1>2 DEF RowInv, Enqueue, Known
  <2> QED BY <1>2, <2>1, <2>2, <2>3 DEF RowInv, Enqueue, Known
<1>3. CASE ConfirmPublication(p)
  <2> DEFINE b == row[r].published \/ row[r].task = p.task
             new == [row[r] EXCEPT !.published = b]
  <2>1. b \in BOOLEAN
    BY <1>0 DEF Row
  <2>2. row' = [row EXCEPT ![r] = new]
    BY <1>3 DEF ConfirmPublication
  <2> HIDE DEF b
  <2>3. Sound(new, r \in uploading)
    <3>1. row[r].issued > 0
      BY <1>0
    <3> HIDE DEF r
    <3> QED BY <1>0, <2>1, <3>1, SoundMarked
  <2>4. new.issued = row[r].issued
    BY <1>0 DEF Row
  <2> QED BY <1>1, <1>3, <2>2, <2>3, <2>4 DEF ConfirmPublication
<1>4. CASE FailPublication(p)
  <2> DEFINE s == DispatchFailureStatus(r)
             new == [row[r] EXCEPT !.status = s, !.dispatchError = TRUE]
  <2>1. CASE row[r].status = "QUEUED" /\ row' = [row EXCEPT ![r] = new]
    <3>1. s \in {"FAILED", "PARTIALLY_FAILED"} /\ (row[r].resumes > 0 \/ s = "FAILED")
      BY DEF DispatchFailureStatus
    <3> HIDE DEF s
    <3>2. Sound(new, r \in uploading)
      BY <1>0, <2>1, <3>1, SoundMarked
    <3>3. new.issued = row[r].issued
      BY <1>0 DEF Row
    <3> QED BY <1>1, <1>4, <2>1, <3>2, <3>3 DEF FailPublication
  <2>2. CASE row' = row
    <3>1. row' = [row EXCEPT ![r] = row[r]]
      BY <2>2 DEF RowInv, TypeOK
    <3> QED BY <1>0, <1>1, <1>4, <3>1 DEF FailPublication
  <2> QED BY <1>4, <2>1, <2>2 DEF FailPublication
<1>5. CASE CrashPublisher(p)
  <2>1. row' = [row EXCEPT ![r] = row[r]]
    BY <1>5 DEF CrashPublisher, RowInv, TypeOK
  <2> QED BY <1>0, <1>1, <1>5, <2>1 DEF CrashPublisher
<1> QED BY <1>2, <1>3, <1>4, <1>5 DEF EndPublication

(* Worker w goes on, keeps its delivery or gives it up, and row r becomes    *)
(* new.                                                                      *)
LEMMA WorkerRewrites ==
  ASSUME RowInv, TypeOK', NEW w \in Workers, worker[w].pc # "idle",
         NEW new, NEW s \in {"running", "done"}, Goto(w, s),
         row' = [row EXCEPT ![worker[w].run] = new],
         Sound(new, worker[w].run \in uploading), new.issued = row[worker[w].run].issued,
         UNCHANGED <<uploading, publishers, msgs>>
  PROVE  AllSound' /\ Known'
<1>1. worker[w].run \in Runs /\ row[worker[w].run].issued \in Nat
  BY DEF RowInv, TypeOK, Worker, Row
<1>2. Rewritten(worker[w].run, new)
  BY <1>1 DEF Rewritten
<1>3. \A v \in Workers : \/ worker'[v].pc = "idle"
                         \/ /\ worker'[v].run = worker[v].run
                            /\ worker'[v].task = worker[v].task
                            /\ worker[v].pc # "idle"
  BY DEF RowInv, TypeOK, Goto, Worker
<1> QED BY <1>1, <1>2, <1>3, StepRewrites

LEMMA SoundStart ==
  ASSUME RowInv, TypeOK', NEW w \in Workers, StartStep(w) PROVE AllSound' /\ Known'
<1> DEFINE r == worker[w].run
           t == worker[w].task
<1>1. worker[w].pc = "received"
  BY DEF StartStep, IgnoreDelivery, BeginRun, ResumeInterrupted, CloseInterrupted, Interrupted
<1>2. /\ r \in Runs /\ row[r] \in Row /\ Sound(row[r], r \in uploading)
      /\ (r \in uploading) \in BOOLEAN /\ t \in 1..row[r].issued
  BY <1>1 DEF RowInv, TypeOK, AllSound, Known, Worker
<1>3. CASE IgnoreDelivery(w)
  <2>1. row' = [row EXCEPT ![r] = row[r]]
    BY <1>3 DEF IgnoreDelivery, RowInv, TypeOK
  <2> QED BY <1>1, <1>2, <1>3, <2>1, WorkerRewrites DEF IgnoreDelivery
<1>4. CASE BeginRun(w)
  <2>1. row[r].status = "QUEUED" /\ t = row[r].issued
    BY <1>2, <1>4, StartableIsQueued DEF BeginRun, DeliveryMatches
  <2>2. Sound(Begun(row[r], t), r \in uploading) /\ Begun(row[r], t).issued = row[r].issued
    BY <1>2, <2>1, SoundBegun
  <2> QED BY <1>1, <1>4, <2>2, WorkerRewrites DEF BeginRun
<1>5. CASE ResumeInterrupted(w)
  <2>1. Sound(Resumed(row[r], t), r \in uploading) /\ Resumed(row[r], t).issued = row[r].issued
    BY <1>2, <1>5, SoundResumed DEF ResumeInterrupted, Interrupted
  <2> QED BY <1>1, <1>5, <2>1, WorkerRewrites DEF ResumeInterrupted
<1>6. CASE CloseInterrupted(w)
  <2> DEFINE q == IF row[r].kind = "SC-04" THEN Exhausted(row[r]) ELSE Quarantined(row[r])
             new == [q EXCEPT !.dispatched = TRUE, !.published = TRUE]
  <2>1. row[r].status = "RUNNING" /\ row' = [row EXCEPT ![r] = new]
    BY <1>6 DEF CloseInterrupted, Interrupted
  <2>2. q \in Row /\ Sound(q, r \in uploading) /\ q.issued = row[r].issued
    BY <1>2, <2>1, SoundExhausted, SoundQuarantined, ExhaustedIsRow, QuarantinedIsRow
  <2>3. q.status # "absent" /\ q.status # "PENDING"
    BY <1>2 DEF Row, Exhausted, Quarantined
  <2> HIDE DEF q
  <2>4. Sound(new, r \in uploading)
    BY <2>2, <2>3 DEF Row, Sound, Licensed, ClientMarked
  <2>5. new.issued = row[r].issued
    BY <2>2 DEF Row
  <2>6. Goto(w, "done") /\ UNCHANGED <<uploading, publishers, msgs>>
    BY <1>6 DEF CloseInterrupted
  <2> HIDE DEF new
  <2> QED BY <1>1, <2>1, <2>4, <2>5, <2>6, WorkerRewrites
<1> QED BY <1>3, <1>4, <1>5, <1>6 DEF StartStep

LEMMA SoundEnd ==
  ASSUME RowInv, TypeOK', NEW w \in Workers, EndStep(w) PROVE AllSound' /\ Known'
<1> DEFINE r == worker[w].run
<1>1. /\ r \in Runs /\ row[r] \in Row /\ Sound(row[r], r \in uploading)
      /\ (r \in uploading) \in BOOLEAN
  BY DEF RowInv, TypeOK, AllSound, Worker
<1>2. CASE FinishRun(w)
  <2>1. PICK s \in Outcomes(row[r].kind), u \in BOOLEAN :
          row' = [row EXCEPT ![r].status = s, ![r].partial = ClientLeft(row[r].kind, s, u)]
    BY <1>2 DEF FinishRun
  <2> DEFINE new == [row[r] EXCEPT !.status = s, !.partial = ClientLeft(row[r].kind, s, u)]
  <2>2. row' = [row EXCEPT ![r] = new]
    BY <2>1
  <2>3. Sound(new, r \in uploading)
    BY <1>1, <1>2, SoundFinished DEF FinishRun, HoldsFence
  <2>4. new.issued = row[r].issued
    BY <1>1 DEF Row
  <2>5. worker[w].pc = "running" /\ Goto(w, "done") /\ UNCHANGED <<uploading, publishers, msgs>>
    BY <1>2 DEF FinishRun
  <2> HIDE DEF new
  <2> QED BY <2>2, <2>3, <2>4, <2>5, WorkerRewrites
<1>3. CASE AbandonRun(w)
  <2>1. row' = [row EXCEPT ![r] = row[r]]
    BY <1>3 DEF AbandonRun, RowInv, TypeOK
  <2> QED BY <1>1, <1>3, <2>1, WorkerRewrites DEF AbandonRun
<1>4. CASE Ack(w)
  <2>1. AllSound'
    BY <1>4, AllSoundUnchanged DEF Ack, RowInv
  <2>2. \A s \in Runs : row'[s].issued >= row[s].issued
    BY <1>4 DEF Ack, RowInv, TypeOK, Row
  <2>3. \A v \in Workers : worker'[v].pc = "idle" \/ worker'[v] = worker[v]
    BY <1>4 DEF Ack, Release, Idle, RowInv, TypeOK
  <2> QED BY <1>4, <2>1, <2>2, <2>3, KnownKept DEF Ack, RowInv
<1> QED BY <1>2, <1>3, <1>4 DEF EndStep

LEMMA SoundFault ==
  ASSUME RowInv, TypeOK', NEW w \in Workers, WorkerFault(w) PROVE AllSound' /\ Known'
<1>1. UNCHANGED <<row, uploading, publishers>> /\ Release(w)
  BY DEF WorkerFault, LoseWorker, TimeOutRun, DropDelivery
<1>2. AllSound'
  BY <1>1, AllSoundUnchanged DEF RowInv
<1>3. \A v \in Workers : worker'[v].pc = "idle" \/ worker'[v] = worker[v]
  BY <1>1 DEF Release, Idle, RowInv, TypeOK
<1>4. \A m \in msgs' : m.task \in 1..row'[m.run].issued
  BY <1>1 DEF WorkerFault, LoseWorker, TimeOutRun, DropDelivery, RowInv, Known
<1> QED BY <1>1, <1>2, <1>3, <1>4 DEF Known, RowInv

LEMMA SoundElse ==
  ASSUME RowInv, TypeOK',
         \/ \E r \in Runs : StartDispatch(r)
         \/ \E w \in Workers : Receive(w) \/ OpenReview(w)
         \/ PurgeBroker
         \/ UNCHANGED vars
  PROVE  AllSound' /\ Known'
<1>1. ASSUME NEW r \in Runs, StartDispatch(r) PROVE AllSound' /\ Known'
  <2> DEFINE new == [row[r] EXCEPT !.dispatched = TRUE]
  <2>1. /\ row[r] \in Row /\ Sound(row[r], r \in uploading) /\ (r \in uploading) \in BOOLEAN
        /\ row[r].status = "QUEUED"
    BY <1>1 DEF StartDispatch, RowInv, TypeOK, AllSound
  <2>2. row[r].task \in 1..row[r].issued /\ row[r].issued \in Nat
    BY <2>1 DEF Sound, Row
  <2>3. Sound(new, r \in uploading)
    BY <2>1, SoundMarked
  <2>4. new.issued = row[r].issued
    BY <2>1 DEF Row
  <2>5. row' = [row EXCEPT ![r] = new] /\ UNCHANGED <<uploading, msgs, worker>>
    BY <1>1 DEF StartDispatch
  <2>6. publishers' = publishers \cup {Publication(r, row[r].task, FALSE)}
    BY <1>1 DEF StartDispatch
  <2> HIDE DEF new
  <2>7. Rewritten(r, new)
    BY <2>2, <2>3, <2>4, <2>5 DEF Rewritten
  <2>8. row[r].task \in 1..new.issued
    BY <2>2, <2>4
  <2> QED BY <2>5, <2>6, <2>7, <2>8, KnownPublished
<1>2. ASSUME NEW w \in Workers, Receive(w) PROVE AllSound' /\ Known'
  <2>1. AllSound'
    BY <1>2, AllSoundUnchanged DEF Receive, RowInv
  <2>2. PICK m \in msgs : worker' = [worker EXCEPT ![w] =
          [pc |-> "received", run |-> m.run, task |-> m.task, redelivered |-> m.redelivered]]
    BY <1>2 DEF Receive
  <2>3. \A v \in Workers : worker'[v].pc # "idle" =>
          worker'[v].task \in 1..row[worker'[v].run].issued
    BY <2>2 DEF RowInv, TypeOK, Known
  <2> QED BY <1>2, <2>1, <2>3 DEF Receive, RowInv, Known
<1>3. ASSUME NEW w \in Workers, OpenReview(w) PROVE AllSound' /\ Known'
  <2> DEFINE r == worker[w].run
             new == [row[r] EXCEPT !.reviewable = TRUE]
  <2>1. /\ r \in Runs /\ row[r] \in Row /\ Sound(row[r], r \in uploading)
        /\ (r \in uploading) \in BOOLEAN
    BY DEF RowInv, TypeOK, AllSound, Worker
  <2>2. row[r].status = "RUNNING" /\ row[r].issued \in Nat /\ row[r].issued > 0
    BY <1>3, <2>1 DEF OpenReview, RowInv, TypeOK, Known, Row, Worker
  <2>3. Sound(new, r \in uploading)
    <3> HIDE DEF r
    <3> QED BY <2>1, <2>2, SoundMarked
  <2>4. new.issued = row[r].issued
    BY <2>1 DEF Row
  <2>5. row' = [row EXCEPT ![r] = new] /\ UNCHANGED <<uploading, publishers, msgs, worker>>
    BY <1>3 DEF OpenReview
  <2> HIDE DEF new
  <2>6. Rewritten(r, new)
    BY <2>2, <2>3, <2>4, <2>5 DEF Rewritten
  <2> QED BY <2>1, <2>5, <2>6, StepRewrites, SameWorkers
<1>4. CASE PurgeBroker
  BY <1>4, AllSoundUnchanged DEF PurgeBroker, RowInv, Known
<1>5. CASE UNCHANGED vars
  BY <1>5, AllSoundUnchanged DEF vars, RowInv, Known
<1> QED BY <1>1, <1>2, <1>3, <1>4, <1>5

LEMMA RowInvStep == RowInv /\ [Next]_vars => RowInv'
<1> SUFFICES ASSUME RowInv, [Next]_vars PROVE RowInv'
  OBVIOUS
<1>1. TypeOK'
  BY TypeStep DEF RowInv
<1>2. AllSound' /\ Known'
  BY <1>1, SoundRequest, SoundUploadStep, SoundReconcile, SoundPublish, SoundStart, SoundEnd,
     SoundFault, SoundElse DEF Next
<1> QED BY <1>1, <1>2 DEF RowInv

LEMMA RowInvInit == Init => RowInv
<1> SUFFICES ASSUME Init PROVE RowInv
  OBVIOUS
<1>1. Sound(Blank, FALSE)
  BY DEF Blank, NoTask, Sound, Licensed, ClientMarked
<1>2. \A r \in Runs : row[r] = Blank /\ (r \in uploading) = FALSE
  BY DEF Init
<1>3. AllSound
  BY <1>1, <1>2 DEF AllSound
<1>4. Known
  BY DEF Init, Known, Idle
<1> QED BY <1>3, <1>4, TypeInit DEF RowInv

LEMMA RowInvAlways == Spec => []RowInv
BY RowInvInit, RowInvStep, PTL DEF Spec

-----------------------------------------------------------------------------
(* Consequences.                                                             *)

(* The licence of every start: one for SC-20, one per request for SC-05, one *)
(* more than its recovery attempts for SC-04, whatever deliveries, crashes   *)
(* and reconciliations have happened.                                        *)
THEOREM StartsAreLicensed == Spec => []StartsLicensed
<1>1. RowInv => StartsLicensed
  <2> SUFFICES ASSUME RowInv, NEW r \in Runs
               PROVE  row[r].starts <= CASE row[r].kind = "SC-20" -> 1
                                         [] row[r].kind = "SC-05" -> 1 + row[r].resumes
                                         [] OTHER -> 1 + row[r].attempts
    BY DEF StartsLicensed
  <2>1. row[r] \in Row /\ Sound(row[r], r \in uploading)
    BY DEF RowInv, TypeOK, AllSound
  <2>2. CASE row[r].status = "absent"
    BY <2>1, <2>2 DEF Sound, Blank
  <2>3. CASE row[r].status # "absent"
    BY <2>1, <2>3, ConstantsAssumption DEF Sound, Licensed, Row
  <2> QED BY <2>2, <2>3
<1> QED BY <1>1, RowInvAlways, PTL

(* An SC-05 client that a run left half-way stays marked while the run waits *)
(* to be resumed.                                                            *)
THEOREM ClientStaysMarked == Spec => []PartialRunKeepsClientPartial
<1>1. RowInv => PartialRunKeepsClientPartial
  BY DEF RowInv, AllSound, Sound, ClientMarked, PartialRunKeepsClientPartial
<1> QED BY <1>1, RowInvAlways, PTL

-----------------------------------------------------------------------------
(* Settled runs.                                                             *)

(* The only actions that move a run out of a terminal status.                *)
LEMMA LeavesTerminal ==
  ASSUME RowInv, [Next]_vars, NEW r \in Runs, row[r].status \in Terminal,
         row'[r].status # row[r].status
  PROVE  Resume(r) \/ Reprepare(r) \/ WebRecompute(r) \/ EndUpload(r) \/ QueueUpload(r)
<1> USE DEF Terminal
<1>0. row \in [Runs -> Row] /\ row[r] \in Row
  BY DEF RowInv, TypeOK
<1>1. ASSUME NEW s \in Runs, Request(s) \/ UploadStep(s) \/ StartDispatch(s) \/ Reconcile(s)
      PROVE  s = r /\ (Resume(r) \/ Reprepare(r) \/ WebRecompute(r) \/ EndUpload(r) \/ QueueUpload(r))
  <2>1. s = r
    BY <1>0, <1>1 DEF Request, Submit, Resume, Reprepare, WebRecompute, UploadStep, Upload,
       IngestUpload, EndUpload, QueueUpload, AbandonUpload, StartDispatch, Reconcile,
       ReconcilePending, ReconcileQueued, ReconcileRunning, ClaimRecovery
  <2>2. ~IngestUpload(r) /\ ~AbandonUpload(r)
    BY <1>0 DEF IngestUpload, AbandonUpload, Row
  <2>3. ~Submit(r) /\ ~Upload(r) /\ ~StartDispatch(r) /\ ~Reconcile(r)
    BY <1>0 DEF Submit, Upload, StartDispatch, Reconcile, ReconcilePending, ReconcileQueued,
       ReconcileRunning
  <2> QED BY <1>1, <2>1, <2>2, <2>3 DEF Request, UploadStep
<1>2. ASSUME NEW p \in publishers, Enqueue(p) \/ EndPublication(p) PROVE FALSE
  <2>1. p.run \in Runs /\ row[p.run] \in Row
    BY DEF RowInv, TypeOK, Publisher
  <2>2. CASE ConfirmPublication(p)
    <3>1. row' = [row EXCEPT ![p.run] = [row[p.run] EXCEPT !.published = row'[p.run].published]]
      BY <1>0, <2>1, <2>2 DEF ConfirmPublication, Row
    <3> QED BY <1>0, <2>1, <3>1 DEF Row
  <2>3. CASE FailPublication(p) /\ row' # row
    BY <1>0, <2>1, <2>3 DEF FailPublication
  <2>4. row' = row \/ ConfirmPublication(p) \/ (FailPublication(p) /\ row' # row)
    BY <1>2 DEF Enqueue, EndPublication, CrashPublisher
  <2> QED BY <2>2, <2>3, <2>4
<1>3. ASSUME NEW w \in Workers,
             Receive(w) \/ StartStep(w) \/ OpenReview(w) \/ EndStep(w) \/ WorkerFault(w)
      PROVE  FALSE
  <2>1. worker[w].run \in Runs /\ row[worker[w].run] \in Row
    BY DEF RowInv, TypeOK, Worker
  <2>2. \/ UNCHANGED row
        \/ BeginRun(w)
        \/ ResumeInterrupted(w) \/ CloseInterrupted(w) \/ OpenReview(w) \/ FinishRun(w)
    BY <1>3 DEF Receive, StartStep, IgnoreDelivery, EndStep, AbandonRun, Ack, WorkerFault,
       LoseWorker, TimeOutRun, DropDelivery
  <2>3. CASE UNCHANGED row
    BY <2>3
  <2>4. CASE BeginRun(w)
    BY <1>0, <2>1, <2>4 DEF BeginRun, Startable
  <2>5. CASE ResumeInterrupted(w) \/ CloseInterrupted(w) \/ OpenReview(w) \/ FinishRun(w)
    BY <1>0, <2>1, <2>5 DEF ResumeInterrupted, CloseInterrupted, Interrupted, OpenReview, FinishRun,
       HoldsFence
  <2> QED BY <2>2, <2>3, <2>4, <2>5
<1>4. CASE PurgeBroker \/ UNCHANGED vars
  BY <1>4 DEF PurgeBroker, vars
<1> QED BY <1>1, <1>2, <1>3, <1>4 DEF Next

(* Late workers, late confirmations, late refusals and overlapping pulses    *)
(* never rewrite the outcome of a settled run.                               *)
THEOREM SettledRunsStay == Spec => SettledStays
<1>1. ASSUME RowInv, [Next]_vars, NEW r \in Runs, row[r].status \in Terminal,
             Guarded(r) \/ ~(row[r].reviewable \/ "slow_upload" \in Faults)
      PROVE  \/ row'[r].status = row[r].status
             \/ row'[r].status = "QUEUED" /\ row'[r].grants > row[r].grants
  <2>0. row \in [Runs -> Row] /\ row[r] \in Row /\ Sound(row[r], r \in uploading)
    BY <1>1 DEF RowInv, TypeOK, AllSound
  <2>1. CASE Resume(r)
    BY <2>0, <2>1 DEF Resume, Regranted, Requeued, Row
  <2>2. CASE Reprepare(r)
    BY <2>0, <2>2 DEF Reprepare, Regranted, Requeued, Row
  <2>3. ~WebRecompute(r)
    BY <1>1 DEF WebRecompute, Guarded
  <2>4. ~EndUpload(r) /\ ~QueueUpload(r)
    BY <1>1, <2>0 DEF EndUpload, QueueUpload, Guarded, Sound, Terminal
  <2> QED BY <1>1, <2>1, <2>2, <2>3, <2>4, LeavesTerminal
<1>2. RowInv /\ [Next]_vars =>
        [\A r \in Runs :
           /\ row[r].status \in Terminal
           /\ Guarded(r) \/ ~(row[r].reviewable \/ "slow_upload" \in Faults)
           => \/ row'[r].status = row[r].status
              \/ row'[r].status = "QUEUED" /\ row'[r].grants > row[r].grants]_vars
  BY <1>1
<1> QED BY <1>2, RowInvAlways, PTL DEF Spec, SettledStays

-----------------------------------------------------------------------------
(* One authority.                                                            *)

Holder(w, r) == Running(w, r) /\ worker[w].task = row[r].issued

(* Nobody executes under the identifier of a queued run, and one worker at   *)
(* most under that of a running one.                                         *)
OneHolder(r) ==
  Guarded(r) =>
    /\ row[r].status = "QUEUED" => \A w \in Workers : ~Holder(w, r)
    /\ row[r].status = "RUNNING" => \A w1, w2 \in Workers : Holder(w1, r) /\ Holder(w2, r) => w1 = w2

FenceInv == RowInv /\ \A r \in Runs : OneHolder(r)

(* A row rewritten without a start: it keeps its identifier, or is queued    *)
(* under a fresh one, or is no longer live.                                  *)
NoNewStart(old, new) ==
  \/ new.kind = old.kind /\ new.status = old.status /\ new.issued = old.issued
  \/ new.status = "QUEUED" /\ new.issued = old.issued + 1
  \/ new.status \notin {"QUEUED", "RUNNING"}
  \/ new.kind = "SC-04"

(* No worker begins an execution.                                            *)
NobodyStarts == \A w \in Workers : worker'[w].pc = "running" => worker'[w] = worker[w]

LEMMA HolderKept ==
  ASSUME FenceInv, NobodyStarts, \A r \in Runs : NoNewStart(row[r], row'[r])
  PROVE  \A r \in Runs : OneHolder(r)'
<1> SUFFICES ASSUME NEW r \in Runs, Guarded(r)' PROVE OneHolder(r)'
  BY DEF OneHolder
<1>0. row[r].issued \in Nat /\ row'[r].kind # "SC-04"
  BY DEF FenceInv, RowInv, TypeOK, Row, Guarded
<1>1. \A w \in Workers : Running(w, r) => worker[w].task \in 1..row[r].issued
  BY DEF FenceInv, RowInv, Known, Running
<1>2. \A w \in Workers : Running(w, r)' => Running(w, r) /\ worker'[w].task = worker[w].task
  BY DEF NobodyStarts, Running
<1>3. CASE row'[r].kind = row[r].kind /\ row'[r].status = row[r].status /\ row'[r].issued = row[r].issued
  BY <1>2, <1>3 DEF FenceInv, OneHolder, Guarded, Holder
<1>4. CASE row'[r].status = "QUEUED" /\ row'[r].issued = row[r].issued + 1
  BY <1>0, <1>1, <1>2, <1>4 DEF OneHolder, Holder
<1>5. CASE row'[r].status \notin {"QUEUED", "RUNNING"}
  BY <1>5 DEF OneHolder
<1> QED BY <1>0, <1>3, <1>4, <1>5 DEF NoNewStart

(* A start of one run leaves the holders of the others alone.                *)
LEMMA OthersKeepHolder ==
  ASSUME FenceInv, NEW w \in Workers, NEW q \in Runs, NEW r \in Runs, r # q,
         row'[r] = row[r], worker'[w].run = q,
         \A v \in Workers \ {w} : worker'[v] = worker[v]
  PROVE  OneHolder(r)'
<1>1. \A v \in Workers : Holder(v, r)' => Holder(v, r)
  BY DEF Holder, Running
<1>2. Guarded(r)' = Guarded(r)
  BY DEF Guarded
<1>3. OneHolder(r)
  BY DEF FenceInv
<1> QED BY <1>1, <1>2, <1>3 DEF OneHolder

LEMMA StartKeepsHolder ==
  ASSUME FenceInv, NEW w \in Workers, BeginRun(w)
  PROVE  \A r \in Runs : OneHolder(r)'
<1> PICK q \in Runs : q = worker[w].run
  BY DEF FenceInv, RowInv, TypeOK, Worker
<1>0. /\ row[q] \in Row /\ Sound(row[q], q \in uploading)
      /\ (q \in uploading) \in BOOLEAN /\ worker[w].task \in 1..row[q].issued
  BY DEF FenceInv, RowInv, TypeOK, AllSound, Worker, Known, BeginRun
<1>1. row[q].status = "QUEUED" /\ worker[w].task = row[q].issued
  BY <1>0, StartableIsQueued DEF BeginRun, DeliveryMatches
<1>2. row' = [row EXCEPT ![q] = Begun(row[q], worker[w].task)] /\ Goto(w, "running")
  BY DEF BeginRun
<1>3. /\ row'[q].status = "RUNNING" /\ row'[q].kind = row[q].kind /\ row'[q].issued = row[q].issued
      /\ \A r \in Runs \ {q} : row'[r] = row[r]
  BY <1>0, <1>2 DEF Begun, Row, FenceInv, RowInv, TypeOK
<1>4. /\ worker'[w].run = q
      /\ \A v \in Workers \ {w} : worker'[v] = worker[v]
  BY <1>2 DEF Goto, FenceInv, RowInv, TypeOK, Worker
<1>5. ASSUME NEW r \in Runs, r # q PROVE OneHolder(r)'
  BY <1>3, <1>4, <1>5, OthersKeepHolder
<1>6. OneHolder(q)'
  <2>1. Guarded(q)' = Guarded(q)
    BY <1>3 DEF Guarded
  <2>2. Guarded(q) => \A v \in Workers : ~Holder(v, q)
    BY <1>1 DEF FenceInv, OneHolder
  <2>3. Guarded(q) => \A v \in Workers : Holder(v, q)' => v = w
    BY <1>3, <1>4, <2>2 DEF Holder, Running
  <2> QED BY <1>3, <2>1, <2>3 DEF OneHolder
<1> QED BY <1>5, <1>6

LEMMA ResumeKeepsHolder ==
  ASSUME FenceInv, NEW w \in Workers, ResumeInterrupted(w)
  PROVE  \A r \in Runs : OneHolder(r)'
<1> PICK q \in Runs : q = worker[w].run
  BY DEF FenceInv, RowInv, TypeOK, Worker
<1>0. row[q] \in Row /\ row[q].kind = "SC-04"
  BY DEF FenceInv, RowInv, TypeOK, Worker, ResumeInterrupted
<1>1. row' = [row EXCEPT ![q] = Resumed(row[q], worker[w].task)] /\ Goto(w, "running")
  BY DEF ResumeInterrupted
<1>2. row'[q].kind = "SC-04" /\ \A r \in Runs \ {q} : row'[r] = row[r]
  BY <1>0, <1>1 DEF Resumed, Row, FenceInv, RowInv, TypeOK
<1>3. worker'[w].run = q /\ \A v \in Workers \ {w} : worker'[v] = worker[v]
  BY <1>1 DEF Goto, FenceInv, RowInv, TypeOK, Worker
<1>4. ASSUME NEW r \in Runs, r # q PROVE OneHolder(r)'
  BY <1>2, <1>3, <1>4, OthersKeepHolder
<1>5. OneHolder(q)'
  BY <1>2 DEF OneHolder, Guarded
<1> QED BY <1>4, <1>5

(* Requests, uploads and the reconciler: a row is queued afresh, closed, or  *)
(* belongs to SC-04.                                                         *)
LEMMA RowStepsStartNothing ==
  ASSUME FenceInv, NEW q \in Runs, Request(q) \/ UploadStep(q) \/ StartDispatch(q) \/ Reconcile(q)
  PROVE  worker' = worker /\ \A r \in Runs : NoNewStart(row[r], row'[r])
<1>0. row \in [Runs -> Row] /\ row[q] \in Row /\ Sound(row[q], q \in uploading)
  BY DEF FenceInv, RowInv, TypeOK, AllSound
<1>1. worker' = worker
  BY DEF Request, Submit, Resume, Reprepare, WebRecompute, UploadStep, Upload, IngestUpload,
     EndUpload, QueueUpload, AbandonUpload, StartDispatch, Reconcile, ReconcilePending,
     ReconcileQueued, ReconcileRunning
<1>2. \A r \in Runs \ {q} : row'[r] = row[r]
  BY <1>0 DEF Request, Submit, Resume, Reprepare, WebRecompute, UploadStep, Upload, IngestUpload,
     EndUpload, QueueUpload, AbandonUpload, StartDispatch, Reconcile, ReconcilePending,
     ReconcileQueued, ReconcileRunning, ClaimRecovery
<1>3. NoNewStart(row[q], row'[q])
  <2>1. CASE Submit(q)
    BY <1>0, <2>1 DEF Submit, Requeued, Row, NoNewStart
  <2>2. CASE Resume(q)
    BY <1>0, <2>2 DEF Resume, Regranted, Requeued, Row, NoNewStart
  <2>3. CASE Reprepare(q)
    BY <1>0, <2>3 DEF Reprepare, Regranted, Requeued, Row, NoNewStart
  <2>4. CASE WebRecompute(q)
    BY <1>0, <2>4 DEF WebRecompute, Row, NoNewStart
  <2>5. CASE UploadStep(q)
    <3>1. CASE Upload(q) \/ IngestUpload(q) \/ AbandonUpload(q)
      BY <1>0, <3>1 DEF Upload, IngestUpload, AbandonUpload, Row, NoNewStart
    <3>2. CASE EndUpload(q)
      BY <1>0, <3>2 DEF EndUpload, Row, NoNewStart
    <3>3. CASE QueueUpload(q)
      BY <1>0, <3>3 DEF QueueUpload, Requeued, Row, NoNewStart
    <3> QED BY <2>5, <3>1, <3>2, <3>3 DEF UploadStep
  <2>6. CASE StartDispatch(q)
    BY <1>0, <2>6 DEF StartDispatch, Row, NoNewStart
  <2>7. CASE Reconcile(q)
    <3>1. CASE row' = [row EXCEPT ![q] = Claimed(row[q])]
      BY <1>0, <3>1 DEF Claimed, Requeued, Row, NoNewStart
    <3>2. CASE row' = [row EXCEPT ![q] = Exhausted(row[q])]
      BY <1>0, <3>2 DEF Exhausted, Row, NoNewStart
    <3>3. CASE row' = [row EXCEPT ![q] = Quarantined(row[q])]
      <4>1. row'[q].status = "PARTIALLY_FAILED"
        BY <1>0, <3>3 DEF Quarantined, Row
      <4> QED BY <4>1 DEF NoNewStart
    <3> QED BY <2>7, <3>1, <3>2, <3>3 DEF Reconcile, ReconcilePending, ReconcileQueued,
            ReconcileRunning, ClaimRecovery
  <2> QED BY <2>1, <2>2, <2>3, <2>4, <2>5, <2>6, <2>7 DEF Request
<1>4. \A r \in Runs \ {q} : NoNewStart(row[r], row'[r])
  BY <1>2 DEF NoNewStart
<1> QED BY <1>1, <1>3, <1>4

(* Publishers start nothing either.                                          *)
LEMMA PublishersStartNothing ==
  ASSUME FenceInv, NEW p \in publishers, Enqueue(p) \/ EndPublication(p)
  PROVE  worker' = worker /\ \A r \in Runs : NoNewStart(row[r], row'[r])
<1> PICK q \in Runs : q = p.run
  BY DEF FenceInv, RowInv, TypeOK, Publisher
<1>0. row \in [Runs -> Row] /\ row[q] \in Row
  BY DEF FenceInv, RowInv, TypeOK
<1>1. worker' = worker
  BY DEF Enqueue, EndPublication, ConfirmPublication, FailPublication, CrashPublisher
<1>2. CASE ConfirmPublication(p)
  <2>1. row' = [row EXCEPT ![q] = [row[q] EXCEPT !.published = row'[q].published]]
    BY <1>0, <1>2 DEF ConfirmPublication, Row
  <2> QED BY <1>0, <1>1, <2>1 DEF Row, NoNewStart
<1>3. CASE FailPublication(p) /\ row' # row
  <2>1. row'[q].status \in {"PARTIALLY_FAILED", "FAILED"} /\ \A r \in Runs \ {q} : row'[r] = row[r]
    BY <1>0, <1>3 DEF FailPublication, DispatchFailureStatus, Row
  <2> QED BY <1>1, <2>1 DEF NoNewStart
<1>4. CASE row' = row
  BY <1>1, <1>4 DEF NoNewStart
<1> QED BY <1>2, <1>3, <1>4 DEF Enqueue, EndPublication, CrashPublisher

(* What a worker does besides beginning an execution.                        *)
LEMMA WorkersKeepHolders ==
  ASSUME FenceInv, NEW w \in Workers,
         \/ Receive(w) \/ IgnoreDelivery(w) \/ CloseInterrupted(w)
         \/ OpenReview(w) \/ EndStep(w) \/ WorkerFault(w)
  PROVE  NobodyStarts /\ \A r \in Runs : NoNewStart(row[r], row'[r])
<1> PICK q \in Runs : q = worker[w].run
  BY DEF FenceInv, RowInv, TypeOK, Worker
<1>0. row \in [Runs -> Row] /\ row[q] \in Row /\ worker \in [Workers -> Worker] /\ worker[w] \in Worker
  BY DEF FenceInv, RowInv, TypeOK
<1>1. NobodyStarts
  <2>1. \/ worker' = worker
        \/ /\ \A v \in Workers \ {w} : worker'[v] = worker[v]
           /\ worker'[w].pc # "running"
    <3>1. CASE Receive(w) \/ OpenReview(w)
      BY <1>0, <3>1 DEF Receive, OpenReview
    <3>2. CASE Release(w)
      BY <1>0, <3>2 DEF Release, Idle
    <3>3. CASE Goto(w, "done")
      BY <1>0, <3>3 DEF Goto, Worker
    <3> QED BY <3>1, <3>2, <3>3 DEF IgnoreDelivery, CloseInterrupted, EndStep, FinishRun, AbandonRun,
            Ack, WorkerFault, LoseWorker, TimeOutRun, DropDelivery
  <2> QED BY <1>0, <2>1 DEF NobodyStarts
<1>2. CASE CloseInterrupted(w)
  <2>1. row'[q].status \in {"PARTIALLY_FAILED", "FAILED"} /\ \A r \in Runs \ {q} : row'[r] = row[r]
    BY <1>0, <1>2 DEF CloseInterrupted, Exhausted, Quarantined, Row
  <2> QED BY <1>1, <2>1 DEF NoNewStart
<1>3. CASE OpenReview(w)
  BY <1>0, <1>1, <1>3 DEF OpenReview, Row, NoNewStart
<1>4. CASE FinishRun(w)
  <2>1. /\ row'[q].kind = row[q].kind
        /\ row[q].kind = "SC-04" \/ row'[q].status \notin {"QUEUED", "RUNNING"}
        /\ \A r \in Runs \ {q} : row'[r] = row[r]
    BY <1>0, <1>4 DEF FinishRun, Outcomes, Row
  <2> QED BY <1>1, <2>1 DEF NoNewStart
<1>5. CASE row' = row
  BY <1>1, <1>5 DEF NoNewStart
<1> QED BY <1>2, <1>3, <1>4, <1>5 DEF Receive, IgnoreDelivery, EndStep, AbandonRun, Ack,
        WorkerFault, LoseWorker, TimeOutRun, DropDelivery

(* Whatever is delivered twice, redelivered or recovered, one worker at most *)
(* passes the fence of an SC-05 or SC-20 run.                                *)
THEOREM OneWorkerHasAuthority == Spec => []OneAuthority
<1>1. Init => \A r \in Runs : OneHolder(r)
  BY DEF Init, Blank, OneHolder, Guarded
<1>2. ASSUME FenceInv, [Next]_vars PROVE \A r \in Runs : OneHolder(r)'
  <2>1. ASSUME NEW q \in Runs, Request(q) \/ UploadStep(q) \/ StartDispatch(q) \/ Reconcile(q)
        PROVE  \A r \in Runs : OneHolder(r)'
    BY <1>2, <2>1, RowStepsStartNothing, HolderKept DEF NobodyStarts
  <2>2. ASSUME NEW p \in publishers, Enqueue(p) \/ EndPublication(p)
        PROVE  \A r \in Runs : OneHolder(r)'
    BY <1>2, <2>2, PublishersStartNothing, HolderKept DEF NobodyStarts
  <2>3. ASSUME NEW w \in Workers,
               Receive(w) \/ StartStep(w) \/ OpenReview(w) \/ EndStep(w) \/ WorkerFault(w)
        PROVE  \A r \in Runs : OneHolder(r)'
    BY <1>2, <2>3, WorkersKeepHolders, StartKeepsHolder, ResumeKeepsHolder, HolderKept DEF StartStep
  <2>4. CASE PurgeBroker \/ UNCHANGED vars
    BY <1>2, <2>4, HolderKept DEF PurgeBroker, vars, NobodyStarts, NoNewStart
  <2> QED BY <1>2, <2>1, <2>2, <2>3, <2>4 DEF Next
<1>3. FenceInv => OneAuthority
  <2> SUFFICES ASSUME FenceInv, NEW r \in Runs, NEW w1 \in Workers, NEW w2 \in Workers, Guarded(r),
                      Running(w1, r), HoldsFence(w1), Running(w2, r), HoldsFence(w2)
               PROVE  w1 = w2
    BY DEF OneAuthority
  <2>1. row[r].status = "RUNNING" /\ row[r].task = row[r].issued /\ row[r].issued > 0
    BY DEF FenceInv, RowInv, AllSound, Sound, Running, HoldsFence, Guarded, TypeOK, Row
  <2>2. Holder(w1, r) /\ Holder(w2, r)
    BY <2>1 DEF FenceInv, RowInv, TypeOK, Row, Running, HoldsFence, DeliveryMatches, NoTask, Holder
  <2> QED BY <2>1, <2>2 DEF FenceInv, OneHolder
<1>4. FenceInv /\ [Next]_vars => (\A r \in Runs : OneHolder(r))'
  BY <1>2
<1> QED BY <1>1, <1>3, <1>4, RowInvAlways, PTL DEF Spec, FenceInv

-----------------------------------------------------------------------------
(* Carriers of an identifier: a publisher that has yet to send it, a message *)
(* in the broker, a worker that holds the message.                           *)

Same(a, b) == a.run = b.run /\ a.task = b.task
Sending(p) == p.phase = "sending"
Busy(w) == worker[w].pc # "idle"

(* Without duplication an identifier has one carrier at most.                *)
Single ==
  /\ \A p, q \in publishers : Sending(p) /\ Sending(q) /\ Same(p, q) => p = q
  /\ \A m, n \in msgs : Same(m, n) => m = n
  /\ \A v, w \in Workers : Busy(v) /\ Busy(w) /\ Same(worker[v], worker[w]) => v = w
  /\ \A p \in publishers, m \in msgs : Sending(p) => ~Same(p, m)
  /\ \A p \in publishers, w \in Workers : Sending(p) /\ Busy(w) => ~Same(p, worker[w])
  /\ \A m \in msgs, w \in Workers : Busy(w) => ~Same(m, worker[w])

NoCarrier(r, t) ==
  LET id == [run |-> r, task |-> t] IN
  /\ \A p \in publishers : Sending(p) => ~Same(p, id)
  /\ \A m \in msgs : ~Same(m, id)
  /\ \A w \in Workers : Busy(w) => ~Same(worker[w], id)

(* Nobody carries the identifier of a run whose publication has not begun.   *)
Undispatched(r) ==
  row[r].status = "QUEUED" /\ ~row[r].dispatched => NoCarrier(r, row[r].task)

LiveFence == \A w \in Workers : worker[w].pc = "running" /\ Guarded(worker[w].run) => HoldsFence(w)

CarrierParts == Single /\ (\A r \in Runs : Undispatched(r)) /\ LiveFence

(* Carriers only disappear.                                                  *)
NoNewCarrier ==
  /\ \A p \in publishers' : Sending(p) => p \in publishers
  /\ msgs' \subseteq msgs
  /\ \A w \in Workers : \/ worker'[w].pc = "idle"
                        \/ Busy(w) /\ Same(worker'[w], worker[w])

LEMMA SingleShrinks ==
  ASSUME Single, NoNewCarrier
  PROVE  Single'
<1>1. ASSUME NEW w \in Workers, Busy(w)' PROVE Busy(w) /\ Same(worker'[w], worker[w])
  BY <1>1 DEF NoNewCarrier, Busy
<1>2. \A p, q \in publishers' : Sending(p) /\ Sending(q) /\ Same(p, q) => p = q
  BY DEF NoNewCarrier, Single
<1>3. \A m, n \in msgs' : Same(m, n) => m = n
  BY DEF NoNewCarrier, Single
<1>4. \A v, w \in Workers : Busy(v)' /\ Busy(w)' /\ Same(worker'[v], worker'[w]) => v = w
  BY <1>1 DEF Single, Same
<1>5. \A p \in publishers', m \in msgs' : Sending(p) => ~Same(p, m)
  BY DEF NoNewCarrier, Single
<1>6. \A p \in publishers', w \in Workers : Sending(p) /\ Busy(w)' => ~Same(p, worker'[w])
  BY <1>1 DEF NoNewCarrier, Single, Same
<1>7. \A m \in msgs', w \in Workers : Busy(w)' => ~Same(m, worker'[w])
  BY <1>1 DEF NoNewCarrier, Single, Same
<1> QED BY <1>2, <1>3, <1>4, <1>5, <1>6, <1>7 DEF Single, Sending, Same

LEMMA NoCarrierShrinks ==
  ASSUME NoNewCarrier, NEW r, NEW t, NoCarrier(r, t)
  PROVE  NoCarrier(r, t)'
<1>1. ASSUME NEW w \in Workers, Busy(w)' PROVE Busy(w) /\ Same(worker'[w], worker[w])
  BY <1>1 DEF NoNewCarrier, Busy
<1> QED BY <1>1 DEF NoNewCarrier, NoCarrier, Sending, Same

(* A fresh identifier has no carrier.                                        *)
LEMMA FreshNotCarried ==
  ASSUME RowInv, NEW r \in Runs
  PROVE  NoCarrier(r, row[r].issued + 1)
<1>1. row[r].issued \in Nat
  BY DEF RowInv, TypeOK, Row
<1>2. \A p \in publishers : p.run = r => p.task \in 1..row[r].issued
  BY DEF RowInv, Known
<1>3. \A m \in msgs : m.run = r => m.task \in 1..row[r].issued
  BY DEF RowInv, Known
<1>4. \A w \in Workers : Busy(w) /\ worker[w].run = r => worker[w].task \in 1..row[r].issued
  BY DEF RowInv, Known, Busy
<1> DEFINE id == [run |-> r, task |-> row[r].issued + 1]
<1>5. id.run = r /\ id.task \notin 1..row[r].issued
  BY <1>1
<1>6. NoCarrier(r, row[r].issued + 1) <=>
        /\ \A p \in publishers : Sending(p) => ~Same(p, id)
        /\ \A m \in msgs : ~Same(m, id)
        /\ \A w \in Workers : Busy(w) => ~Same(worker[w], id)
  BY DEF NoCarrier
<1> HIDE DEF id
<1> QED BY <1>2, <1>3, <1>4, <1>5, <1>6 DEF Same

(* What a row may become without anybody carrying its identifier yet.        *)
QueuedAfresh(old, new) ==
  new.status = "QUEUED" /\ ~new.dispatched =>
    \/ old.status = "QUEUED" /\ ~old.dispatched /\ new.task = old.task
    \/ new.task = old.issued + 1

LEMMA UndispatchedKept ==
  ASSUME RowInv, NoNewCarrier, NEW r \in Runs, Undispatched(r), QueuedAfresh(row[r], row'[r])
  PROVE  Undispatched(r)'
<1> SUFFICES ASSUME row'[r].status = "QUEUED", ~row'[r].dispatched,
                    NEW t, t = row'[r].task
             PROVE  NoCarrier(r, t)'
  BY DEF Undispatched
<1>1. NoCarrier(r, t)
  BY FreshNotCarried DEF QueuedAfresh, Undispatched
<1> QED BY <1>1, NoCarrierShrinks

(* A publisher takes up an identifier nobody carries.                        *)
LEMMA SinglePublishes ==
  ASSUME Single, NEW r \in Runs, NEW t, NEW b, NoCarrier(r, t),
         publishers' = publishers \cup {Publication(r, t, b)}, UNCHANGED <<msgs, worker>>
  PROVE  /\ Single'
         /\ \A s \in Runs : \A u : (s # r /\ NoCarrier(s, u)) => NoCarrier(s, u)'
<1> DEFINE new == Publication(r, t, b)
           id == [run |-> r, task |-> t]
<1>1. new.run = r /\ new.task = t /\ id.run = r /\ id.task = t
  BY DEF Publication
<1>2. /\ \A p \in publishers : Sending(p) => ~Same(p, id)
      /\ \A m \in msgs : ~Same(m, id)
      /\ \A w \in Workers : Busy(w) => ~Same(worker[w], id)
  BY DEF NoCarrier
<1>3. publishers' = publishers \cup {new}
  OBVIOUS
<1> HIDE DEF new, id
<1>4. \A p, q \in publishers' : Sending(p) /\ Sending(q) /\ Same(p, q) => p = q
  BY <1>1, <1>2, <1>3 DEF Single, Same
<1>5. \A p \in publishers', m \in msgs' : Sending(p) => ~Same(p, m)
  BY <1>1, <1>2, <1>3 DEF Single, Same
<1>6. \A p \in publishers', w \in Workers : Sending(p) /\ Busy(w) => ~Same(p, worker[w])
  BY <1>1, <1>2, <1>3 DEF Single, Same
<1>7. Single'
  BY <1>4, <1>5, <1>6 DEF Single, Same, Sending, Busy
<1>8. ASSUME NEW s \in Runs, NEW u, s # r, NoCarrier(s, u) PROVE NoCarrier(s, u)'
  <2> DEFINE other == [run |-> s, task |-> u]
  <2>1. other.run = s /\ other.task = u
    OBVIOUS
  <2>2. /\ \A p \in publishers : Sending(p) => ~Same(p, other)
        /\ \A m \in msgs : ~Same(m, other)
        /\ \A w \in Workers : Busy(w) => ~Same(worker[w], other)
    BY <1>8 DEF NoCarrier
  <2>3. NoCarrier(s, u)' <=> /\ \A p \in publishers' : Sending(p) => ~Same(p, other)
                             /\ \A m \in msgs' : ~Same(m, other)
                             /\ \A w \in Workers : Busy(w)' => ~Same(worker'[w], other)
    BY DEF NoCarrier, Sending, Same, Busy
  <2> HIDE DEF other
  <2> QED BY <1>1, <1>3, <1>8, <2>1, <2>2, <2>3 DEF Same, Busy
<1> QED BY <1>7, <1>8

(* The message takes the place of the publisher that sent it.                *)
LEMMA SingleEnqueues ==
  ASSUME Single, NEW p \in publishers, Enqueue(p), Sending(p)
  PROVE  /\ Single'
         /\ \A r, t : NoCarrier(r, t) => NoCarrier(r, t)'
<1> DEFINE m == [run |-> p.run, task |-> p.task, redelivered |-> FALSE]
           q == [p EXCEPT !.phase = "enqueued"]
<1>1. Same(m, p) /\ ~Sending(q)
  BY DEF Same, Sending
<1>2. publishers' = (publishers \ {p}) \cup {q} /\ msgs' = msgs \cup {m} /\ worker' = worker
  BY DEF Enqueue
<1> HIDE DEF m, q
<1>3. \A a \in publishers' : Sending(a) => a \in publishers /\ a # p
  BY <1>1, <1>2
<1>4. \A a, b \in publishers' : Sending(a) /\ Sending(b) /\ Same(a, b) => a = b
  BY <1>3 DEF Single
<1>5. \A a, b \in msgs' : Same(a, b) => a = b
  BY <1>1, <1>2 DEF Single, Same
<1>6. \A a \in publishers', b \in msgs' : Sending(a) => ~Same(a, b)
  BY <1>1, <1>2, <1>3 DEF Single, Same
<1>7. \A a \in publishers', w \in Workers : Sending(a) /\ Busy(w) => ~Same(a, worker[w])
  BY <1>3 DEF Single
<1>8. \A a \in msgs', w \in Workers : Busy(w) => ~Same(a, worker[w])
  BY <1>1, <1>2 DEF Single, Same
<1>9. Single'
  BY <1>2, <1>4, <1>5, <1>6, <1>7, <1>8 DEF Single, Same, Sending, Busy
<1>10. ASSUME NEW r, NEW t, NoCarrier(r, t) PROVE NoCarrier(r, t)'
  <2> DEFINE id == [run |-> r, task |-> t]
  <2>1. /\ \A a \in publishers : Sending(a) => ~Same(a, id)
        /\ \A a \in msgs : ~Same(a, id)
        /\ \A w \in Workers : Busy(w) => ~Same(worker[w], id)
    BY <1>10 DEF NoCarrier
  <2>2. NoCarrier(r, t)' <=> /\ \A a \in publishers' : Sending(a) => ~Same(a, id)
                             /\ \A a \in msgs' : ~Same(a, id)
                             /\ \A w \in Workers : Busy(w)' => ~Same(worker'[w], id)
    BY DEF NoCarrier, Sending, Same, Busy
  <2> HIDE DEF id
  <2>3. \A a \in msgs' : ~Same(a, id)
    BY <1>1, <1>2, <2>1 DEF Same
  <2> QED BY <1>2, <1>3, <2>1, <2>2, <2>3 DEF Busy
<1> QED BY <1>9, <1>10

(* The worker takes the place of the message it received.                    *)
LEMMA SingleReceives ==
  ASSUME Single, TypeOK, NEW w \in Workers, Receive(w)
  PROVE  /\ Single'
         /\ \A r, t : NoCarrier(r, t) => NoCarrier(r, t)'
<1>1. PICK m \in msgs : /\ msgs' = msgs \ {m}
                        /\ worker' = [worker EXCEPT ![w] = [pc |-> "received", run |-> m.run,
                                        task |-> m.task, redelivered |-> m.redelivered]]
  BY DEF Receive
<1>2. Same(worker'[w], m) /\ \A v \in Workers \ {w} : worker'[v] = worker[v]
  BY <1>1 DEF TypeOK, Same
<1>3. publishers' = publishers
  BY DEF Receive
<1>4. \A v \in Workers \ {w} : Busy(v)' <=> Busy(v)
  BY <1>2 DEF Busy
<1>5. \A u, v \in Workers : Busy(u)' /\ Busy(v)' /\ Same(worker'[u], worker'[v]) => u = v
  BY <1>2, <1>4 DEF Single, Same
<1>6. \A a \in publishers, v \in Workers : Sending(a) /\ Busy(v)' => ~Same(a, worker'[v])
  BY <1>2, <1>4 DEF Single, Same
<1>7. \A a \in msgs', v \in Workers : Busy(v)' => ~Same(a, worker'[v])
  BY <1>1, <1>2, <1>4 DEF Single, Same
<1>8. Single'
  BY <1>1, <1>3, <1>5, <1>6, <1>7 DEF Single, Sending, Same
<1>9. ASSUME NEW r, NEW t, NoCarrier(r, t) PROVE NoCarrier(r, t)'
  <2> DEFINE id == [run |-> r, task |-> t]
  <2>1. /\ \A a \in publishers : Sending(a) => ~Same(a, id)
        /\ \A a \in msgs : ~Same(a, id)
        /\ \A v \in Workers : Busy(v) => ~Same(worker[v], id)
    BY <1>9 DEF NoCarrier
  <2>2. NoCarrier(r, t)' <=> /\ \A a \in publishers' : Sending(a) => ~Same(a, id)
                             /\ \A a \in msgs' : ~Same(a, id)
                             /\ \A v \in Workers : Busy(v)' => ~Same(worker'[v], id)
    BY DEF NoCarrier, Sending, Same
  <2> HIDE DEF id
  <2>3. \A v \in Workers : Busy(v)' => ~Same(worker'[v], id)
    BY <1>1, <1>2, <1>4, <2>1 DEF Same
  <2> QED BY <1>1, <1>3, <2>1, <2>2, <2>3
<1> QED BY <1>8, <1>9

(* The message comes back when its worker dies.                              *)
LEMMA SingleLoses ==
  ASSUME Single, TypeOK, NEW w \in Workers, LoseWorker(w)
  PROVE  /\ Single'
         /\ \A r, t : NoCarrier(r, t) => NoCarrier(r, t)'
<1> DEFINE m == [run |-> worker[w].run, task |-> worker[w].task, redelivered |-> TRUE]
<1>1. Busy(w) /\ Same(m, worker[w]) /\ msgs' = msgs \cup {m} /\ publishers' = publishers
  BY DEF LoseWorker, Same, Busy
<1>2. ~Busy(w)' /\ \A v \in Workers \ {w} : worker'[v] = worker[v]
  BY DEF LoseWorker, Release, Idle, TypeOK, Busy
<1>3. \A v \in Workers : Busy(v)' => Busy(v) /\ v # w /\ worker'[v] = worker[v]
  BY <1>2 DEF Busy
<1> HIDE DEF m
<1>4. \A a, b \in msgs' : Same(a, b) => a = b
  BY <1>1 DEF Single, Same
<1>5. \A u, v \in Workers : Busy(u)' /\ Busy(v)' /\ Same(worker'[u], worker'[v]) => u = v
  BY <1>3 DEF Single, Same
<1>6. \A a \in publishers, b \in msgs' : Sending(a) => ~Same(a, b)
  BY <1>1 DEF Single, Same
<1>7. \A a \in publishers, v \in Workers : Sending(a) /\ Busy(v)' => ~Same(a, worker'[v])
  BY <1>3 DEF Single
<1>8. \A a \in msgs', v \in Workers : Busy(v)' => ~Same(a, worker'[v])
  BY <1>1, <1>3 DEF Single, Same
<1>9. Single'
  BY <1>1, <1>4, <1>5, <1>6, <1>7, <1>8 DEF Single, Sending, Same
<1>10. ASSUME NEW r, NEW t, NoCarrier(r, t) PROVE NoCarrier(r, t)'
  <2> DEFINE id == [run |-> r, task |-> t]
  <2>1. /\ \A a \in publishers : Sending(a) => ~Same(a, id)
        /\ \A a \in msgs : ~Same(a, id)
        /\ \A v \in Workers : Busy(v) => ~Same(worker[v], id)
    BY <1>10 DEF NoCarrier
  <2>2. NoCarrier(r, t)' <=> /\ \A a \in publishers' : Sending(a) => ~Same(a, id)
                             /\ \A a \in msgs' : ~Same(a, id)
                             /\ \A v \in Workers : Busy(v)' => ~Same(worker'[v], id)
    BY DEF NoCarrier, Sending, Same
  <2> HIDE DEF id
  <2>3. \A a \in msgs' : ~Same(a, id)
    BY <1>1, <2>1 DEF Same
  <2> QED BY <1>1, <1>3, <2>1, <2>2, <2>3
<1> QED BY <1>9, <1>10

(* A rewriting that leaves a live SC-05 or SC-20 run as it is.               *)
StaysLive(old, new) ==
  new.kind \in {"SC-05", "SC-20"} =>
    /\ new.kind = old.kind
    /\ old.status = "RUNNING" => new.status = "RUNNING" /\ new.task = old.task

(* ... or that nobody goes on executing.                                     *)
LeavesLive(r) ==
  StaysLive(row[r], row'[r]) \/ \A w \in Workers : ~Running(w, r) \/ worker'[w].pc # "running"

LEMMA LiveFenceKept ==
  ASSUME RowInv, LiveFence, NobodyStarts, \A r \in Runs : LeavesLive(r)
  PROVE  LiveFence'
<1> SUFFICES ASSUME NEW w \in Workers, worker'[w].pc = "running", Guarded(worker[w].run)'
             PROVE  HoldsFence(w)'
  BY DEF LiveFence
<1>1. worker'[w] = worker[w]
  BY DEF NobodyStarts
<1> DEFINE r == worker[w].run
<1>2. r \in Runs /\ Running(w, r)
  BY <1>1 DEF RowInv, TypeOK, Worker, Running
<1>3. StaysLive(row[r], row'[r]) /\ row'[r].kind \in {"SC-05", "SC-20"}
  BY <1>1, <1>2 DEF LeavesLive, Guarded
<1>4. row'[r].kind = row[r].kind
  BY <1>3 DEF StaysLive
<1>5. HoldsFence(w)
  <2>1. worker[w].pc = "running" /\ Guarded(r)
    BY <1>1, <1>3, <1>4 DEF Guarded
  <2> QED BY <2>1 DEF LiveFence
<1>6. row'[r].status = "RUNNING" /\ row'[r].task = row[r].task
  BY <1>3, <1>5 DEF StaysLive, HoldsFence
<1> QED BY <1>1, <1>4, <1>5, <1>6 DEF HoldsFence, DeliveryMatches

(* The part of CarrierInv a step keeps when carriers only disappear.         *)
LEMMA QuietStep ==
  ASSUME RowInv, Single, \A r \in Runs : Undispatched(r), LiveFence,
         NoNewCarrier, NobodyStarts,
         \A r \in Runs : QueuedAfresh(row[r], row'[r]) /\ LeavesLive(r)
  PROVE  Single' /\ (\A r \in Runs : Undispatched(r)') /\ LiveFence'
BY SingleShrinks, UndispatchedKept, LiveFenceKept

(* A run nobody has been given an identifier of is executed by nobody.       *)
LEMMA UnissuedNotRunning ==
  ASSUME RowInv, NEW r \in Runs, row[r].issued = 0
  PROVE  \A w \in Workers : ~Running(w, r)
BY DEF RowInv, Known, Running

(* A guarded run that is executed is RUNNING.                                *)
LEMMA ExecutedIsRunning ==
  ASSUME RowInv, LiveFence, NEW r \in Runs, Guarded(r), row[r].status # "RUNNING"
  PROVE  \A w \in Workers : ~Running(w, r)
BY DEF LiveFence, Running, HoldsFence

LEMMA UnchangedRow ==
  ASSUME NEW r \in Runs, row'[r] = row[r]
  PROVE  QueuedAfresh(row[r], row'[r]) /\ LeavesLive(r)
BY DEF QueuedAfresh, LeavesLive, StaysLive

(* Requests and uploads.                                                     *)
LEMMA RequestsCarryNothing ==
  ASSUME RowInv, LiveFence, NEW q \in Runs, Request(q) \/ UploadStep(q)
  PROVE  NoNewCarrier /\ NobodyStarts /\ \A r \in Runs : QueuedAfresh(row[r], row'[r]) /\ LeavesLive(r)
<1>0. row \in [Runs -> Row] /\ row[q] \in Row /\ Sound(row[q], q \in uploading)
  BY DEF RowInv, TypeOK, AllSound
<1>1. UNCHANGED <<publishers, msgs, worker>>
  BY DEF Request, Submit, Resume, Reprepare, WebRecompute, UploadStep, Upload, IngestUpload,
     EndUpload, QueueUpload, AbandonUpload
<1>2. \A r \in Runs \ {q} : row'[r] = row[r]
  BY <1>0 DEF Request, Submit, Resume, Reprepare, WebRecompute, UploadStep, Upload, IngestUpload,
     EndUpload, QueueUpload, AbandonUpload
<1>3. NoNewCarrier /\ NobodyStarts
  BY <1>1 DEF NoNewCarrier, NobodyStarts, Busy, Same
<1>4. CASE Submit(q)
  <2>1. row[q].issued = 0
    BY <1>0, <1>4 DEF Submit, Sound, Blank
  <2>2. row'[q].task = row[q].issued + 1
    BY <1>0, <1>4 DEF Submit, Requeued, Row
  <2>3. QueuedAfresh(row[q], row'[q]) /\ LeavesLive(q)
    BY <2>1, <2>2, UnissuedNotRunning DEF QueuedAfresh, LeavesLive
  <2> QED BY <1>2, <1>3, <2>3, UnchangedRow
<1>5. CASE Resume(q)
  <2>1. row'[q].task = row[q].issued + 1
    BY <1>0, <1>5 DEF Resume, Regranted, Requeued, Row
  <2>2. Guarded(q) /\ row[q].status # "RUNNING"
    BY <1>5 DEF Resume, Guarded
  <2>3. QueuedAfresh(row[q], row'[q]) /\ LeavesLive(q)
    BY <2>1, <2>2, ExecutedIsRunning DEF QueuedAfresh, LeavesLive
  <2> QED BY <1>2, <1>3, <2>3, UnchangedRow
<1>6. CASE Reprepare(q)
  <2>1. row'[q].task = row[q].issued + 1 /\ row'[q].kind = row[q].kind /\ row[q].status = "FAILED"
    BY <1>0, <1>6 DEF Reprepare, Regranted, Requeued, Row
  <2>2. QueuedAfresh(row[q], row'[q]) /\ LeavesLive(q)
    BY <2>1 DEF QueuedAfresh, LeavesLive, StaysLive
  <2> QED BY <1>2, <1>3, <2>2, UnchangedRow
<1>7. CASE WebRecompute(q)
  <2>1. row'[q].kind = "SC-04" /\ row'[q].status # "QUEUED"
    BY <1>0, <1>7 DEF WebRecompute, Outcomes, Row
  <2>2. QueuedAfresh(row[q], row'[q]) /\ LeavesLive(q)
    BY <2>1 DEF QueuedAfresh, LeavesLive, StaysLive
  <2> QED BY <1>2, <1>3, <2>2, UnchangedRow
<1>8. CASE UploadStep(q)
  <2>1. CASE Upload(q) \/ EndUpload(q)
    <3>1. row'[q].kind = "SC-04" /\ row'[q].status # "QUEUED"
      <4>1. CASE Upload(q)
        BY <1>0, <4>1 DEF Upload, Row
      <4>2. CASE EndUpload(q)
        BY <1>0, <4>2 DEF EndUpload, Sound, Row
      <4> QED BY <2>1, <4>1, <4>2
    <3> QED BY <3>1, <1>2, <1>3, UnchangedRow DEF QueuedAfresh, LeavesLive, StaysLive
  <2>2. CASE IngestUpload(q)
    <3>1. /\ row'[q].kind = row[q].kind /\ row'[q].status = row[q].status
          /\ row'[q].task = row[q].task /\ row'[q].dispatched = row[q].dispatched
      BY <1>0, <2>2 DEF IngestUpload, Row
    <3>2. QueuedAfresh(row[q], row'[q]) /\ LeavesLive(q)
      BY <3>1 DEF QueuedAfresh, LeavesLive, StaysLive
    <3> QED BY <1>2, <1>3, <3>2, UnchangedRow
  <2>3. CASE QueueUpload(q)
    <3>1. row'[q].kind = "SC-04" /\ row'[q].task = row[q].issued + 1
      BY <1>0, <2>3 DEF QueueUpload, Requeued, Sound, Row
    <3>2. QueuedAfresh(row[q], row'[q]) /\ LeavesLive(q)
      BY <3>1 DEF QueuedAfresh, LeavesLive, StaysLive
    <3> QED BY <1>2, <1>3, <3>2, UnchangedRow
  <2>4. CASE AbandonUpload(q)
    BY <2>4, <1>3, UnchangedRow DEF AbandonUpload
  <2> QED BY <1>8, <2>1, <2>2, <2>3, <2>4 DEF UploadStep
<1> QED BY <1>4, <1>5, <1>6, <1>7, <1>8 DEF Request

(* A run is taken up by a publisher: under the identifier of a publication   *)
(* that has not begun, or under a fresh one.                                 *)
LEMMA PublicationCarries ==
  ASSUME RowInv, Single, \A r \in Runs : Undispatched(r), LiveFence,
         NEW q \in Runs, NEW t, NEW b, NoCarrier(q, t),
         publishers' = publishers \cup {Publication(q, t, b)}, UNCHANGED <<msgs, worker>>,
         \A r \in Runs \ {q} : row'[r] = row[r], row'[q].dispatched, LeavesLive(q)
  PROVE  Single' /\ (\A r \in Runs : Undispatched(r)') /\ LiveFence'
<1>1. Single' /\ \A s \in Runs : \A u : (s # q /\ NoCarrier(s, u)) => NoCarrier(s, u)'
  BY SinglePublishes
<1>2. ASSUME NEW r \in Runs PROVE Undispatched(r)'
  <2>1. CASE r = q
    BY <2>1 DEF Undispatched
  <2>2. CASE r # q
    <3> SUFFICES ASSUME row'[r].status = "QUEUED", ~row'[r].dispatched, NEW u, u = row'[r].task
                 PROVE  NoCarrier(r, u)'
      BY DEF Undispatched
    <3>1. NoCarrier(r, u)
      BY <2>2 DEF Undispatched
    <3> QED BY <1>1, <2>2, <3>1
  <2> QED BY <2>1, <2>2
<1>3. NobodyStarts /\ \A r \in Runs : LeavesLive(r)
  BY UnchangedRow DEF NobodyStarts
<1> QED BY <1>1, <1>2, <1>3, LiveFenceKept

LEMMA DispatchKeepsCarriers ==
  ASSUME RowInv, CarrierParts, NEW q \in Runs, StartDispatch(q)
  PROVE  CarrierParts'
<1>0. row \in [Runs -> Row] /\ row[q] \in Row
  BY DEF RowInv, TypeOK
<1>1. NoCarrier(q, row[q].task)
  BY DEF StartDispatch, CarrierParts, Undispatched
<1>2. /\ row' = [row EXCEPT ![q] = [row[q] EXCEPT !.dispatched = TRUE]]
      /\ publishers' = publishers \cup {Publication(q, row[q].task, FALSE)}
      /\ UNCHANGED <<msgs, worker>>
  BY <1>0 DEF StartDispatch
<1>3. /\ row'[q].dispatched /\ row'[q].kind = row[q].kind
      /\ row'[q].status = row[q].status /\ row'[q].task = row[q].task
  BY <1>0, <1>2 DEF Row
<1>4. LeavesLive(q) /\ \A r \in Runs \ {q} : row'[r] = row[r]
  BY <1>0, <1>2, <1>3 DEF LeavesLive, StaysLive
<1> QED BY <1>1, <1>2, <1>3, <1>4, PublicationCarries DEF CarrierParts

LEMMA ReconcileKeepsCarriers ==
  ASSUME RowInv, CarrierParts, NEW q \in Runs, Reconcile(q)
  PROVE  CarrierParts'
<1>0. row \in [Runs -> Row] /\ row[q] \in Row /\ Sound(row[q], q \in uploading)
  BY DEF RowInv, TypeOK, AllSound
<1>1. UNCHANGED <<msgs, worker>> /\ \A r \in Runs \ {q} : row'[r] = row[r]
  BY <1>0 DEF Reconcile, ReconcilePending, ReconcileQueued, ReconcileRunning, ClaimRecovery
<1>2. LeavesLive(q)
  <2>1. CASE row[q].status = "RUNNING"
    <3>1. \A w \in Workers : ~Running(w, q)
      BY <2>1 DEF Reconcile, ReconcilePending, ReconcileQueued, ReconcileRunning, Running
    <3> QED BY <3>1 DEF LeavesLive
  <2>2. CASE row[q].status # "RUNNING"
    <3>1. row'[q].kind = row[q].kind
      <4>1. row'[q] \in {Claimed(row[q]), Exhausted(row[q]), Quarantined(row[q])}
        BY <1>0 DEF Reconcile, ReconcilePending, ReconcileQueued, ReconcileRunning, ClaimRecovery
      <4>2. /\ Claimed(row[q]).kind = row[q].kind /\ Exhausted(row[q]).kind = row[q].kind
            /\ Quarantined(row[q]).kind = row[q].kind
        BY <1>0 DEF Claimed, Requeued, Exhausted, Quarantined, Row
      <4> QED BY <4>1, <4>2
    <3> QED BY <2>2, <3>1 DEF LeavesLive, StaysLive
  <2> QED BY <2>1, <2>2
<1>3. CASE ClaimRecovery(q)
  <2>1. row' = [row EXCEPT ![q] = Claimed(row[q])]
        /\ publishers' = publishers \cup {Publication(q, row[q].issued + 1, TRUE)}
    BY <1>3 DEF ClaimRecovery, Fresh
  <2>2. row'[q].dispatched
    BY <1>0, <2>1 DEF Claimed, Requeued, Row
  <2>3. NoCarrier(q, row[q].issued + 1)
    BY FreshNotCarried
  <2> QED BY <1>1, <1>2, <2>1, <2>2, <2>3, PublicationCarries DEF CarrierParts
<1>4. CASE UNCHANGED publishers /\ row'[q].status \in {"FAILED", "PARTIALLY_FAILED"}
  <2>1. NoNewCarrier /\ NobodyStarts
    BY <1>1, <1>4 DEF NoNewCarrier, NobodyStarts, Busy, Same
  <2>2. QueuedAfresh(row[q], row'[q])
    BY <1>4 DEF QueuedAfresh
  <2> QED BY <1>1, <1>2, <2>1, <2>2, UnchangedRow, QuietStep DEF CarrierParts
<1>5. ClaimRecovery(q) \/ (UNCHANGED publishers /\ row'[q] \in {Exhausted(row[q]), Quarantined(row[q])})
  BY <1>0 DEF Reconcile, ReconcilePending, ReconcileQueued, ReconcileRunning
<1>6. Exhausted(row[q]).status = "FAILED" /\ Quarantined(row[q]).status = "PARTIALLY_FAILED"
  BY <1>0 DEF Exhausted, Quarantined, Row
<1> QED BY <1>3, <1>4, <1>5, <1>6

(* Carriers move, rows stay.                                                 *)
LEMMA MoveKeepsCarriers ==
  ASSUME RowInv, CarrierParts, Single', UNCHANGED row, NobodyStarts,
         \A r, t : NoCarrier(r, t) => NoCarrier(r, t)'
  PROVE  CarrierParts'
<1>1. ASSUME NEW r \in Runs PROVE Undispatched(r)'
  <2> SUFFICES ASSUME row[r].status = "QUEUED", ~row[r].dispatched, NEW u, u = row[r].task
               PROVE  NoCarrier(r, u)'
    BY DEF Undispatched
  <2>1. NoCarrier(r, u)
    BY DEF CarrierParts, Undispatched
  <2> QED BY <2>1
<1>2. \A r \in Runs : LeavesLive(r)
  BY UnchangedRow
<1> QED BY <1>1, <1>2, LiveFenceKept DEF CarrierParts

LEMMA PublishKeepsCarriers ==
  ASSUME "duplicate" \notin Faults, RowInv, CarrierParts, NEW p \in publishers,
         Enqueue(p) \/ EndPublication(p)
  PROVE  CarrierParts'
<1> PICK q \in Runs : q = p.run
  BY DEF RowInv, TypeOK, Publisher
<1>0. row \in [Runs -> Row] /\ row[q] \in Row
  BY DEF RowInv, TypeOK
<1>1. CASE Enqueue(p)
  <2>1. Sending(p) /\ UNCHANGED row /\ NobodyStarts
    BY <1>1 DEF Enqueue, Sending, NobodyStarts
  <2> QED BY <1>1, <2>1, SingleEnqueues, MoveKeepsCarriers DEF CarrierParts
<1>2. CASE EndPublication(p)
  <2>1. NoNewCarrier /\ NobodyStarts
    BY <1>2 DEF EndPublication, ConfirmPublication, FailPublication, CrashPublisher,
       NoNewCarrier, NobodyStarts, Busy, Same
  <2>2. \A r \in Runs \ {q} : row'[r] = row[r]
    BY <1>0, <1>2 DEF EndPublication, ConfirmPublication, FailPublication, CrashPublisher
  <2>3. QueuedAfresh(row[q], row'[q]) /\ LeavesLive(q)
    <3>1. CASE ConfirmPublication(p)
      <4>1. row' = [row EXCEPT ![q] = [row[q] EXCEPT !.published = row'[q].published]]
        BY <1>0, <3>1 DEF ConfirmPublication, Row
      <4>2. /\ row'[q].kind = row[q].kind /\ row'[q].status = row[q].status
            /\ row'[q].task = row[q].task /\ row'[q].dispatched = row[q].dispatched
        BY <1>0, <4>1 DEF Row
      <4> QED BY <4>2 DEF QueuedAfresh, LeavesLive, StaysLive
    <3>2. CASE FailPublication(p) /\ row' # row
      <4>1. /\ row[q].status = "QUEUED" /\ row'[q].kind = row[q].kind
            /\ row'[q].status \in {"FAILED", "PARTIALLY_FAILED"}
        BY <1>0, <3>2 DEF FailPublication, DispatchFailureStatus, Row
      <4> QED BY <4>1 DEF QueuedAfresh, LeavesLive, StaysLive
    <3>3. CASE row' = row
      BY <3>3, UnchangedRow
    <3> QED BY <1>2, <3>1, <3>2, <3>3 DEF EndPublication, CrashPublisher
  <2> QED BY <2>1, <2>2, <2>3, UnchangedRow, QuietStep DEF CarrierParts
<1> QED BY <1>1, <1>2

(* Two workers with the message of one run are one.                          *)
LEMMA OneHandler ==
  ASSUME RowInv, CarrierParts, NEW v \in Workers, NEW w \in Workers, v # w, Busy(w),
         NEW q \in Runs, worker[w].run = q, Running(v, q), Guarded(q), row[q].status = "RUNNING",
         DeliveryMatches(q, worker[w].task)
  PROVE  FALSE
<1>1. HoldsFence(v)
  BY DEF CarrierParts, LiveFence, Running
<1>2. row[q].task = row[q].issued /\ row[q].issued > 0
  BY DEF RowInv, AllSound, Sound, Guarded
<1>3. row[q].issued \in Nat
  BY DEF RowInv, TypeOK, Row
<1>4. worker[v].task = row[q].task /\ worker[w].task = row[q].task
  BY <1>1, <1>2, <1>3 DEF HoldsFence, DeliveryMatches, NoTask, Running
<1>5. Same(worker[v], worker[w]) /\ Busy(v)
  BY <1>4 DEF Same, Busy, Running
<1> QED BY <1>5 DEF CarrierParts, Single

(* The starts: the worker's own fence is up, and nobody else executed the    *)
(* run.                                                                      *)
LEMMA StartKeepsCarriers ==
  ASSUME RowInv, CarrierParts, NEW w \in Workers, BeginRun(w) \/ ResumeInterrupted(w)
  PROVE  CarrierParts'
<1> PICK q \in Runs : q = worker[w].run
  BY DEF RowInv, TypeOK, Worker
<1>0. /\ row \in [Runs -> Row] /\ row[q] \in Row
      /\ worker \in [Workers -> Worker] /\ worker[w] \in Worker /\ worker[w].pc = "received"
  BY DEF RowInv, TypeOK, BeginRun, ResumeInterrupted, Interrupted
<1>1. /\ \A v \in Workers \ {w} : worker'[v] = worker[v]
      /\ worker'[w].run = q /\ worker'[w].task = worker[w].task
      /\ \A r \in Runs \ {q} : row'[r] = row[r]
      /\ UNCHANGED <<publishers, msgs>>
  BY <1>0 DEF BeginRun, ResumeInterrupted, Goto, Worker
<1>2. /\ row'[q].kind = row[q].kind /\ row'[q].task = worker[w].task
      /\ row'[q].status = "RUNNING" /\ row'[q].dispatched
  <2>1. CASE BeginRun(w)
    BY <1>0, <2>1 DEF BeginRun, Begun, Row, Worker
  <2>2. CASE ResumeInterrupted(w)
    BY <1>0, <2>2 DEF ResumeInterrupted, Interrupted, Resumed, Row, Worker
  <2> QED BY <2>1, <2>2
<1>3. NoNewCarrier
  BY <1>0, <1>1 DEF NoNewCarrier, Busy, Same
<1>4. \A r \in Runs : QueuedAfresh(row[r], row'[r])
  BY <1>1, <1>2 DEF QueuedAfresh
<1>5. Single' /\ \A r \in Runs : Undispatched(r)'
  BY <1>3, <1>4, SingleShrinks, UndispatchedKept DEF CarrierParts
<1>6. Guarded(q) => row[q].status # "RUNNING"
  BY DEF BeginRun, ResumeInterrupted, Startable, Guarded
<1>7. LiveFence'
  <2> SUFFICES ASSUME NEW v \in Workers, worker'[v].pc = "running", Guarded(worker[v].run)'
               PROVE  HoldsFence(v)'
    <3>1. \A v \in Workers : worker'[v].run = worker[v].run
      BY <1>1
    <3> QED BY <3>1 DEF LiveFence, Guarded
  <2>1. CASE v = w
    BY <1>1, <1>2, <2>1 DEF HoldsFence, DeliveryMatches
  <2>2. CASE v # w /\ worker[v].run = q
    <3>1. worker[v].pc = "running" /\ Guarded(q)
      BY <1>1, <1>2, <2>2 DEF Guarded
    <3>2. HoldsFence(v)
      BY <2>2, <3>1 DEF CarrierParts, LiveFence
    <3> QED BY <1>6, <2>2, <3>1, <3>2 DEF HoldsFence
  <2>3. CASE v # w /\ worker[v].run # q
    <3>1. worker'[v] = worker[v] /\ worker[v].run \in Runs /\ row'[worker[v].run] = row[worker[v].run]
      BY <1>0, <1>1, <2>3 DEF Worker
    <3>2. HoldsFence(v)
      BY <3>1 DEF CarrierParts, LiveFence, Guarded
    <3> QED BY <3>1, <3>2 DEF HoldsFence, DeliveryMatches
  <2> QED BY <2>1, <2>2, <2>3
<1> QED BY <1>5, <1>7 DEF CarrierParts

LEMMA WorkersKeepCarriers ==
  ASSUME RowInv, CarrierParts, NEW w \in Workers,
         \/ IgnoreDelivery(w) \/ CloseInterrupted(w) \/ OpenReview(w) \/ EndStep(w)
         \/ TimeOutRun(w) \/ DropDelivery(w)
  PROVE  CarrierParts'
<1> PICK q \in Runs : q = worker[w].run
  BY DEF RowInv, TypeOK, Worker
<1>0. row \in [Runs -> Row] /\ row[q] \in Row /\ worker \in [Workers -> Worker] /\ worker[w] \in Worker
  BY DEF RowInv, TypeOK
<1>1. /\ UNCHANGED <<publishers, msgs>>
      /\ \A r \in Runs \ {q} : row'[r] = row[r]
      /\ \A v \in Workers \ {w} : worker'[v] = worker[v]
      /\ \/ worker'[w] = worker[w]
         \/ worker'[w].pc # "running" /\ (worker'[w].pc = "idle" \/ (Busy(w) /\ Same(worker'[w], worker[w])))
  <2>1. CASE Release(w)
    BY <1>0, <2>1 DEF IgnoreDelivery, CloseInterrupted, OpenReview, EndStep, FinishRun, AbandonRun,
       Ack, TimeOutRun, DropDelivery, Release, Idle
  <2>2. CASE Goto(w, "done") /\ worker[w].pc # "idle"
    BY <1>0, <2>2 DEF IgnoreDelivery, CloseInterrupted, OpenReview, EndStep, FinishRun, AbandonRun,
       Ack, TimeOutRun, DropDelivery, Goto, Worker, Busy, Same
  <2>3. CASE OpenReview(w)
    BY <1>0, <2>3 DEF OpenReview
  <2> QED BY <2>1, <2>2, <2>3 DEF IgnoreDelivery, CloseInterrupted, Interrupted, EndStep, FinishRun,
          AbandonRun, Ack, TimeOutRun, DropDelivery
<1>2. NoNewCarrier /\ NobodyStarts
  BY <1>1 DEF NoNewCarrier, NobodyStarts, Busy, Same
<1>3. QueuedAfresh(row[q], row'[q]) /\ LeavesLive(q)
  <2>1. CASE CloseInterrupted(w)
    <3>1. row'[q].kind = row[q].kind /\ row'[q].status \in {"FAILED", "PARTIALLY_FAILED"}
      BY <1>0, <2>1 DEF CloseInterrupted, Exhausted, Quarantined, Row
    <3>2. row[q].status = "RUNNING" /\ DeliveryMatches(q, worker[w].task) /\ worker[w].pc = "received"
      BY <2>1 DEF CloseInterrupted, Interrupted
    <3>3. ASSUME Guarded(q), NEW v \in Workers PROVE ~Running(v, q)
      <4>1. CASE v = w
        BY <3>2, <4>1 DEF Running
      <4>2. CASE v # w
        BY <3>2, <3>3, <4>2, OneHandler DEF Busy
      <4> QED BY <4>1, <4>2
    <3> QED BY <3>1, <3>3 DEF QueuedAfresh, LeavesLive, StaysLive, Guarded
  <2>2. CASE FinishRun(w)
    <3>1. row'[q].kind = row[q].kind /\ row'[q].status # "QUEUED"
      BY <1>0, <2>2 DEF FinishRun, Outcomes, Row
    <3>2. row[q].status = "RUNNING" /\ DeliveryMatches(q, worker[w].task)
            /\ worker[w].pc = "running" /\ worker'[w].pc = "done"
      BY <1>0, <2>2 DEF FinishRun, HoldsFence, DeliveryMatches, Goto, Worker
    <3>3. ASSUME Guarded(q), NEW v \in Workers PROVE ~Running(v, q) \/ worker'[v].pc # "running"
      <4>1. CASE v = w
        BY <3>2, <4>1
      <4>2. CASE v # w
        BY <3>2, <3>3, <4>2, OneHandler DEF Busy
      <4> QED BY <4>1, <4>2
    <3> QED BY <3>1, <3>3 DEF QueuedAfresh, LeavesLive, StaysLive, Guarded
  <2>3. CASE OpenReview(w)
    <3>1. row'[q].kind = "SC-04" /\ row'[q].status = "RUNNING"
      BY <1>0, <2>3 DEF OpenReview, Row
    <3> QED BY <3>1 DEF QueuedAfresh, LeavesLive, StaysLive
  <2>4. CASE row' = row
    BY <2>4, UnchangedRow
  <2> QED BY <2>1, <2>2, <2>3, <2>4 DEF IgnoreDelivery, EndStep, AbandonRun, Ack, TimeOutRun, DropDelivery
<1> QED BY <1>1, <1>2, <1>3, UnchangedRow, QuietStep DEF CarrierParts

LEMMA CarriersStep ==
  ASSUME "duplicate" \notin Faults, RowInv, CarrierParts, [Next]_vars
  PROVE  CarrierParts'
<1>0. TypeOK
  BY DEF RowInv
<1>1. ASSUME NEW q \in Runs, Request(q) \/ UploadStep(q) PROVE CarrierParts'
  BY <1>1, RequestsCarryNothing, QuietStep DEF CarrierParts
<1>2. ASSUME NEW q \in Runs, StartDispatch(q) \/ Reconcile(q) PROVE CarrierParts'
  BY <1>2, DispatchKeepsCarriers, ReconcileKeepsCarriers
<1>3. ASSUME NEW p \in publishers, Enqueue(p) \/ EndPublication(p) PROVE CarrierParts'
  BY <1>3, PublishKeepsCarriers
<1>4. ASSUME NEW w \in Workers, Receive(w) PROVE CarrierParts'
  <2>1. UNCHANGED row /\ NobodyStarts
    BY <1>0, <1>4 DEF Receive, NobodyStarts, TypeOK
  <2> QED BY <1>0, <1>4, <2>1, SingleReceives, MoveKeepsCarriers DEF CarrierParts
<1>5. ASSUME NEW w \in Workers, LoseWorker(w) PROVE CarrierParts'
  <2>1. UNCHANGED row /\ NobodyStarts
    BY <1>0, <1>5 DEF LoseWorker, Release, Idle, NobodyStarts, TypeOK
  <2> QED BY <1>0, <1>5, <2>1, SingleLoses, MoveKeepsCarriers DEF CarrierParts
<1>6. ASSUME NEW w \in Workers, BeginRun(w) \/ ResumeInterrupted(w) PROVE CarrierParts'
  BY <1>6, StartKeepsCarriers
<1>7. ASSUME NEW w \in Workers,
             \/ IgnoreDelivery(w) \/ CloseInterrupted(w) \/ OpenReview(w) \/ EndStep(w)
             \/ TimeOutRun(w) \/ DropDelivery(w)
      PROVE  CarrierParts'
  BY <1>7, WorkersKeepCarriers
<1>8. CASE PurgeBroker \/ UNCHANGED vars
  <2>1. NoNewCarrier /\ NobodyStarts /\ UNCHANGED row
    BY <1>8 DEF PurgeBroker, vars, NoNewCarrier, NobodyStarts, Busy, Same
  <2> QED BY <2>1, UnchangedRow, QuietStep DEF CarrierParts
<1> QED BY <1>1, <1>2, <1>3, <1>4, <1>5, <1>6, <1>7, <1>8 DEF Next, StartStep, WorkerFault

(* Unless a message is published twice, a worker that executes an SC-05 or   *)
(* SC-20 run keeps its fence to the end.                                     *)
THEOREM LiveExecutionsAreFenced == Spec => []LiveExecutionKeepsFence
<1>1. Init => ("duplicate" \notin Faults => CarrierParts)
  BY DEF Init, Blank, Idle, CarrierParts, Single, Undispatched, LiveFence, Busy
<1>2. RowInv /\ ("duplicate" \notin Faults => CarrierParts) /\ [Next]_vars
        => ("duplicate" \notin Faults => CarrierParts)'
  BY CarriersStep
<1>3. ("duplicate" \notin Faults => CarrierParts) => LiveExecutionKeepsFence
  BY DEF CarrierParts, LiveFence, LiveExecutionKeepsFence
<1> QED BY <1>1, <1>2, <1>3, RowInvAlways, PTL DEF Spec

-----------------------------------------------------------------------------
(* Confirmed publications.                                                   *)

(* Somebody has the message of the run and has yet to start it.              *)
Carried(r) ==
  \/ \E m \in msgs : m.run = r /\ m.task = row[r].task
  \/ \E w \in Workers : worker[w].pc = "received" /\ worker[w].run = r
                          /\ worker[w].task = row[r].task

(* The publication is confirmed, or its publisher is about to confirm it.    *)
Confirmable(r) ==
  \/ row[r].published
  \/ \E p \in publishers : p.phase = "enqueued" /\ p.run = r /\ p.task = row[r].task

AllCarried == \A r \in Runs : row[r].status = "QUEUED" /\ Confirmable(r) => Carried(r)

Reliable == Faults \cap {"purge", "drop", "slow_upload"} = {}

(* A row that was queued and keeps its identifier, or whose publication is   *)
(* still unconfirmed.                                                        *)
StaysQueued(old, new) ==
  new.status = "QUEUED" =>
    \/ old.status = "QUEUED" /\ new.task = old.task /\ new.published = old.published
    \/ new.task = old.issued + 1 /\ ~new.published

(* Nobody loses a message, and who sends one has it on its way.              *)
LEMMA CarriedKept ==
  ASSUME RowInv, AllCarried, NEW r \in Runs, StaysQueued(row[r], row'[r]),
         \A p \in publishers' : p.phase = "enqueued" /\ p.run = r => p \in publishers,
         msgs \subseteq msgs',
         \A w \in Workers : worker[w].pc = "received" /\ worker[w].run = r => worker'[w] = worker[w]
  PROVE  (row[r].status = "QUEUED" /\ Confirmable(r) => Carried(r))'
<1> SUFFICES ASSUME row'[r].status = "QUEUED", Confirmable(r)' PROVE Carried(r)'
  OBVIOUS
<1>0. row[r].issued \in Nat /\ \A p \in publishers : p.run = r => p.task \in 1..row[r].issued
  BY DEF RowInv, TypeOK, Row, Known
<1>1. CASE row[r].status = "QUEUED" /\ row'[r].task = row[r].task /\ row'[r].published = row[r].published
  <2>1. Confirmable(r)
    BY <1>1 DEF Confirmable
  <2>2. Carried(r)
    BY <1>1, <2>1 DEF AllCarried
  <2> QED BY <1>1, <2>2 DEF Carried
<1>2. CASE row'[r].task = row[r].issued + 1 /\ ~row'[r].published
  <2>1. PICK p \in publishers' : p.phase = "enqueued" /\ p.run = r /\ p.task = row'[r].task
    BY <1>2 DEF Confirmable
  <2>2. p.task \in 1..row[r].issued
    BY <1>0, <2>1
  <2> QED BY <1>0, <1>2, <2>1, <2>2
<1> QED BY <1>1, <1>2 DEF StaysQueued

LEMMA SameRowCarried ==
  ASSUME NEW r \in Runs, row'[r] = row[r] PROVE StaysQueued(row[r], row'[r])
BY DEF StaysQueued

(* Requests, uploads, dispatches and the reconciler.                         *)
LEMMA RowStepsCarry ==
  ASSUME Reliable, RowInv, AllCarried, NEW q \in Runs,
         Request(q) \/ UploadStep(q) \/ StartDispatch(q) \/ Reconcile(q)
  PROVE  AllCarried'
<1>0. row \in [Runs -> Row] /\ row[q] \in Row /\ Sound(row[q], q \in uploading)
  BY DEF RowInv, TypeOK, AllSound
<1>1. UNCHANGED <<msgs, worker>> /\ \A r \in Runs \ {q} : row'[r] = row[r]
  BY <1>0 DEF Request, Submit, Resume, Reprepare, WebRecompute, UploadStep, Upload, IngestUpload,
     EndUpload, QueueUpload, AbandonUpload, StartDispatch, Reconcile, ReconcilePending,
     ReconcileQueued, ReconcileRunning, ClaimRecovery
<1>2. \A p \in publishers' : p.phase = "enqueued" => p \in publishers
  <2>1. \/ publishers' = publishers
        \/ \E t, b : publishers' = publishers \cup {Publication(q, t, b)}
    BY DEF Request, Submit, Resume, Reprepare, WebRecompute, UploadStep, Upload, IngestUpload,
       EndUpload, QueueUpload, AbandonUpload, StartDispatch, Reconcile, ReconcilePending,
       ReconcileQueued, ReconcileRunning, ClaimRecovery
  <2> QED BY <2>1 DEF Publication
<1>3. StaysQueued(row[q], row'[q])
  <2>1. CASE Submit(q)
    <3>1. ~row[q].published
      BY <1>0, <2>1 DEF Submit, Sound, Blank
    <3>2. row'[q].task = row[q].issued + 1 /\ row'[q].published = row[q].published
      BY <1>0, <2>1 DEF Submit, Requeued, Row
    <3> QED BY <3>1, <3>2 DEF StaysQueued
  <2>2. CASE Resume(q)
    BY <1>0, <2>2 DEF Resume, Regranted, Requeued, Row, StaysQueued
  <2>3. CASE Reprepare(q)
    BY <1>0, <2>3 DEF Reprepare, Regranted, Requeued, Row, StaysQueued
  <2>4. CASE WebRecompute(q)
    <3>1. row'[q].status # "QUEUED"
      BY <1>0, <2>4 DEF WebRecompute, Outcomes, Row
    <3> QED BY <3>1 DEF StaysQueued
  <2>5. CASE UploadStep(q)
    <3>1. CASE Upload(q)
      BY <1>0, <3>1 DEF Upload, Row, StaysQueued
    <3>2. CASE EndUpload(q)
      BY <1>0, <3>2 DEF EndUpload, Row, StaysQueued
    <3>3. CASE IngestUpload(q)
      BY <1>0, <3>3 DEF IngestUpload, Row, StaysQueued
    <3>4. CASE QueueUpload(q)
      <4>1. row[q].status = "PENDING"
        BY <1>0, <3>4 DEF QueueUpload, Sound, Reliable
      <4>2. ~row[q].published
        BY <1>0, <4>1 DEF Sound
      <4>3. row'[q].task = row[q].issued + 1 /\ row'[q].published = row[q].published
        BY <1>0, <3>4 DEF QueueUpload, Requeued, Row
      <4> QED BY <4>2, <4>3 DEF StaysQueued
    <3>5. CASE AbandonUpload(q)
      BY <3>5, SameRowCarried DEF AbandonUpload
    <3> QED BY <2>5, <3>1, <3>2, <3>3, <3>4, <3>5 DEF UploadStep
  <2>6. CASE StartDispatch(q)
    BY <1>0, <2>6 DEF StartDispatch, Row, StaysQueued
  <2>7. CASE Reconcile(q)
    <3>1. row'[q] \in {Claimed(row[q]), Exhausted(row[q]), Quarantined(row[q])}
      BY <1>0, <2>7 DEF Reconcile, ReconcilePending, ReconcileQueued, ReconcileRunning, ClaimRecovery
    <3>2. Claimed(row[q]).task = row[q].issued + 1 /\ ~Claimed(row[q]).published
      BY <1>0 DEF Claimed, Requeued, Row
    <3>3. Exhausted(row[q]).status # "QUEUED" /\ Quarantined(row[q]).status # "QUEUED"
      BY <1>0 DEF Exhausted, Quarantined, Row
    <3> QED BY <3>1, <3>2, <3>3 DEF StaysQueued
  <2> QED BY <2>1, <2>2, <2>3, <2>4, <2>5, <2>6, <2>7 DEF Request
<1> QED BY <1>1, <1>2, <1>3, SameRowCarried, CarriedKept DEF AllCarried

LEMMA PublishersCarry ==
  ASSUME RowInv, AllCarried, NEW p \in publishers, Enqueue(p) \/ EndPublication(p)
  PROVE  AllCarried'
<1> PICK q \in Runs : q = p.run
  BY DEF RowInv, TypeOK, Publisher
<1>0. row \in [Runs -> Row] /\ row[q] \in Row
  BY DEF RowInv, TypeOK
<1>1. CASE Enqueue(p)
  <2> DEFINE m == [run |-> p.run, task |-> p.task, redelivered |-> FALSE]
             e == [p EXCEPT !.phase = "enqueued"]
  <2>1. /\ msgs' = msgs \cup {m} /\ m.run = p.run /\ m.task = p.task
        /\ publishers' = (publishers \ {p}) \cup {e} /\ UNCHANGED <<row, worker>>
        /\ e.run = p.run /\ e.task = p.task
    BY <1>1 DEF Enqueue, RowInv, TypeOK, Publisher
  <2> HIDE DEF m, e
  <2> SUFFICES ASSUME NEW r \in Runs, row[r].status = "QUEUED", Confirmable(r)'
               PROVE  Carried(r)'
    BY <2>1 DEF AllCarried
  <2>2. CASE Confirmable(r)
    BY <2>1, <2>2 DEF AllCarried, Carried
  <2>3. CASE r = p.run /\ row[r].task = p.task
    BY <2>1, <2>3 DEF Carried
  <2> QED BY <2>1, <2>2, <2>3 DEF Confirmable
<1>2. CASE ConfirmPublication(p)
  <2>1. /\ row' = [row EXCEPT ![q] = [row[q] EXCEPT !.published = row[q].published \/ row[q].task = p.task]]
        /\ publishers' \subseteq publishers /\ UNCHANGED <<msgs, worker>> /\ p.phase = "enqueued"
    BY <1>0, <1>2 DEF ConfirmPublication, Row
  <2>2. /\ row'[q].status = row[q].status /\ row'[q].task = row[q].task
        /\ row'[q].published => row[q].published \/ row[q].task = p.task
        /\ \A r \in Runs \ {q} : row'[r] = row[r]
    BY <1>0, <2>1 DEF Row
  <2> SUFFICES ASSUME NEW r \in Runs, row'[r].status = "QUEUED", Confirmable(r)'
               PROVE  Carried(r)'
    BY DEF AllCarried
  <2>3. row[r].status = "QUEUED" /\ row'[r].task = row[r].task /\ Confirmable(r)
    <3>1. CASE r = q
      BY <2>1, <2>2, <3>1 DEF Confirmable
    <3>2. CASE r # q
      BY <2>1, <2>2, <3>2 DEF Confirmable
    <3> QED BY <3>1, <3>2
  <2>4. Carried(r)
    BY <2>3 DEF AllCarried
  <2> QED BY <2>1, <2>3, <2>4 DEF Carried
<1>3. CASE FailPublication(p) \/ CrashPublisher(p)
  <2>1. /\ publishers' \subseteq publishers /\ UNCHANGED <<msgs, worker>>
        /\ \A r \in Runs \ {q} : row'[r] = row[r]
        /\ row'[q] = row[q] \/ row'[q].status \in {"FAILED", "PARTIALLY_FAILED"}
    BY <1>0, <1>3 DEF FailPublication, CrashPublisher, DispatchFailureStatus, Row
  <2>2. \A r \in Runs : StaysQueued(row[r], row'[r])
    BY <2>1, SameRowCarried DEF StaysQueued
  <2> QED BY <2>1, <2>2, CarriedKept DEF AllCarried
<1> QED BY <1>1, <1>2, <1>3 DEF EndPublication

LEMMA WorkersCarry ==
  ASSUME Reliable, RowInv, AllCarried, NEW w \in Workers,
         Receive(w) \/ StartStep(w) \/ OpenReview(w) \/ EndStep(w) \/ WorkerFault(w)
  PROVE  AllCarried'
<1> PICK q \in Runs : q = worker[w].run
  BY DEF RowInv, TypeOK, Worker
<1>0. row \in [Runs -> Row] /\ row[q] \in Row /\ worker \in [Workers -> Worker] /\ worker[w] \in Worker
  BY DEF RowInv, TypeOK
<1>1. CASE Receive(w)
  <2>1. PICK m \in msgs : /\ msgs' = msgs \ {m}
                          /\ worker' = [worker EXCEPT ![w] = [pc |-> "received", run |-> m.run,
                                          task |-> m.task, redelivered |-> m.redelivered]]
    BY <1>1 DEF Receive
  <2>2. /\ worker'[w].pc = "received" /\ worker'[w].run = m.run /\ worker'[w].task = m.task
        /\ \A v \in Workers \ {w} : worker'[v] = worker[v]
        /\ worker[w].pc = "idle" /\ UNCHANGED <<row, publishers>>
    BY <1>0, <1>1, <2>1 DEF Receive
  <2> SUFFICES ASSUME NEW r \in Runs, row[r].status = "QUEUED", Confirmable(r) PROVE Carried(r)'
    BY <2>2 DEF AllCarried, Confirmable
  <2>3. Carried(r)
    BY DEF AllCarried
  <2> QED BY <2>1, <2>2, <2>3 DEF Carried
<1>2. CASE LoseWorker(w)
  <2> DEFINE m == [run |-> worker[w].run, task |-> worker[w].task, redelivered |-> TRUE]
  <2>1. /\ msgs' = msgs \cup {m} /\ m.run = worker[w].run /\ m.task = worker[w].task
        /\ \A v \in Workers \ {w} : worker'[v] = worker[v]
        /\ UNCHANGED <<row, publishers>>
    BY <1>0, <1>2 DEF LoseWorker, Release
  <2> HIDE DEF m
  <2> SUFFICES ASSUME NEW r \in Runs, row[r].status = "QUEUED", Confirmable(r) PROVE Carried(r)'
    BY <2>1 DEF AllCarried, Confirmable
  <2>2. Carried(r)
    BY DEF AllCarried
  <2> QED BY <2>1, <2>2 DEF Carried
<1>3. CASE StartStep(w)
  <2>1. /\ UNCHANGED <<publishers, msgs>> /\ worker[w].pc = "received"
        /\ \A v \in Workers \ {w} : worker'[v] = worker[v]
        /\ \A r \in Runs \ {q} : row'[r] = row[r]
    BY <1>0, <1>3 DEF StartStep, IgnoreDelivery, BeginRun, ResumeInterrupted, CloseInterrupted,
       Interrupted, Goto
  <2>2. ASSUME NEW r \in Runs, r # q PROVE (row[r].status = "QUEUED" /\ Confirmable(r) => Carried(r))'
    <3>1. \A v \in Workers : worker[v].pc = "received" /\ worker[v].run = r => worker'[v] = worker[v]
      BY <2>1, <2>2
    <3> QED BY <2>1, <2>2, <3>1, SameRowCarried, CarriedKept
  <2>3. CASE row'[q].status # "QUEUED"
    BY <2>2, <2>3 DEF AllCarried
  <2>4. CASE IgnoreDelivery(w) /\ row[q].status = "QUEUED"
    <3>1. row[q].kind \in {"SC-04", "SC-05", "SC-20"}
      BY <1>0, <2>4, ConstantsAssumption DEF RowInv, AllSound, Sound
    <3>2. ~DeliveryMatches(q, worker[w].task)
      BY <2>4, <3>1 DEF IgnoreDelivery, Startable
    <3>3. row[q].task # worker[w].task /\ UNCHANGED row
      BY <2>4, <3>2 DEF DeliveryMatches, IgnoreDelivery
    <3>4. ASSUME row[q].status = "QUEUED", Confirmable(q) PROVE Carried(q)'
      <4>1. Carried(q)
        BY <3>4 DEF AllCarried
      <4> QED BY <2>1, <3>3, <4>1 DEF Carried
    <3>5. Confirmable(q)' <=> Confirmable(q)
      BY <2>1, <3>3 DEF Confirmable
    <3> QED BY <2>2, <3>3, <3>4, <3>5 DEF AllCarried
  <2>5. BeginRun(w) \/ ResumeInterrupted(w) \/ CloseInterrupted(w) => row'[q].status # "QUEUED"
    <3>1. CASE BeginRun(w)
      BY <1>0, <3>1 DEF BeginRun, Begun, Row
    <3>2. CASE ResumeInterrupted(w)
      <4>1. row[q].status = "RUNNING" /\ row'[q] = Resumed(row[q], worker[w].task)
        BY <1>0, <3>2 DEF ResumeInterrupted, Interrupted
      <4>2. row'[q].status = "RUNNING"
        BY <1>0, <4>1 DEF Resumed, Row
      <4> QED BY <4>2
    <3>3. CASE CloseInterrupted(w)
      <4>1. PICK rec : /\ rec = Exhausted(row[q]) \/ rec = Quarantined(row[q])
                       /\ row'[q] = [rec EXCEPT !.dispatched = TRUE, !.published = TRUE]
        BY <1>0, <3>3 DEF CloseInterrupted
      <4>2. CASE rec = Exhausted(row[q])
        BY <1>0, <4>1, <4>2 DEF Exhausted, Row
      <4>3. CASE rec = Quarantined(row[q])
        BY <1>0, <4>1, <4>3 DEF Quarantined, Row
      <4> QED BY <4>1, <4>2, <4>3
    <3> QED BY <3>1, <3>2, <3>3
  <2> QED BY <1>3, <2>3, <2>4, <2>5 DEF StartStep, IgnoreDelivery
<1>4. CASE OpenReview(w) \/ EndStep(w) \/ TimeOutRun(w)
  <2>1. /\ UNCHANGED <<publishers, msgs>> /\ worker[w].pc \in {"running", "done"}
        /\ \A v \in Workers \ {w} : worker'[v] = worker[v]
        /\ \A r \in Runs \ {q} : row'[r] = row[r]
        /\ row'[q] = row[q] \/ row'[q].status # "QUEUED"
    <3>1. CASE OpenReview(w)
      BY <1>0, <3>1 DEF OpenReview, Row
    <3>2. CASE FinishRun(w)
      <4>1. row'[q].status # "QUEUED"
        BY <1>0, <3>2 DEF FinishRun, Outcomes, Row
      <4> QED BY <1>0, <3>2, <4>1 DEF FinishRun, Goto
    <3>3. CASE AbandonRun(w)
      BY <1>0, <3>3 DEF AbandonRun, Goto
    <3>4. CASE Ack(w) \/ TimeOutRun(w)
      BY <1>0, <3>4 DEF Ack, TimeOutRun, Release
    <3> QED BY <1>4, <3>1, <3>2, <3>3, <3>4 DEF EndStep
  <2>2. \A r \in Runs : StaysQueued(row[r], row'[r])
    BY <2>1, SameRowCarried DEF StaysQueued
  <2>3. \A v \in Workers : worker[v].pc = "received" => worker'[v] = worker[v]
    BY <2>1
  <2> QED BY <2>1, <2>2, <2>3, CarriedKept DEF AllCarried
<1>5. ~DropDelivery(w)
  BY DEF Reliable, DropDelivery
<1> QED BY <1>1, <1>2, <1>3, <1>4, <1>5 DEF WorkerFault

(* While Redis keeps its messages and no delivery fails before its start     *)
(* transaction, the message of a queued run whose publication was confirmed  *)
(* exists, which is why reconciliation may skip such runs.                   *)
THEOREM ConfirmedRunsAreCarried == Spec => []ConfirmedIsCarried
<1>1. Init => (Reliable => AllCarried)
  BY DEF Init, Blank, AllCarried
<1>2. ASSUME Reliable, RowInv, AllCarried, [Next]_vars PROVE AllCarried'
  <2>1. ~PurgeBroker
    BY <1>2 DEF Reliable, PurgeBroker
  <2>2. CASE UNCHANGED vars
    BY <1>2, <2>2 DEF vars, AllCarried, Confirmable, Carried
  <2> QED BY <1>2, <2>1, <2>2, RowStepsCarry, PublishersCarry, WorkersCarry DEF Next
<1>3. RowInv /\ (Reliable => AllCarried) /\ [Next]_vars => (Reliable => AllCarried)'
  BY <1>2 DEF Reliable
<1>4. (Reliable => AllCarried) => ConfirmedIsCarried
  BY DEF Reliable, AllCarried, Confirmable, Carried, ConfirmedIsCarried
<1> QED BY <1>1, <1>3, <1>4, RowInvAlways, PTL DEF Spec

-----------------------------------------------------------------------------
(* The execution layer implements EffectContract: every step asks for,       *)
(* begins or settles one run, or is a stutter of the contract.               *)

GrantsOf(rec) == IF Phase(rec) = "none" THEN 0 ELSE rec.grants
StartsOf(rec) == IF Phase(rec) = "none" THEN 0 ELSE rec.starts

(* What a step of the contract may do to one run.                            *)
Asks(old, new) ==
  /\ Phase(old) \in {"none", "settled"} /\ Phase(new) = "asked"
  /\ GrantsOf(new) = GrantsOf(old) + 1 /\ StartsOf(new) = StartsOf(old)
Begins(old, new) ==
  /\ Phase(old) = "asked" /\ Phase(new) = "active"
  /\ GrantsOf(new) = GrantsOf(old) /\ StartsOf(new) = StartsOf(old) + 1
Settles(old, new) ==
  /\ Phase(old) \in {"asked", "active"} /\ Phase(new) = "settled"
  /\ GrantsOf(new) = GrantsOf(old) /\ StartsOf(new) = StartsOf(old)
Stutters(old, new) ==
  Phase(new) = Phase(old) /\ GrantsOf(new) = GrantsOf(old) /\ StartsOf(new) = StartsOf(old)

Abstract(old, new) ==
  Asks(old, new) \/ Begins(old, new) \/ Settles(old, new) \/ Stutters(old, new)

-----------------------------------------------------------------------------
(* One row.                                                                  *)

LEMMA PhaseOf ==
  ASSUME NEW rec
  PROVE  /\ rec.kind \notin {"SC-05", "SC-20"} => Phase(rec) = "none"
         /\ rec.kind \in {"SC-05", "SC-20"} =>
              /\ rec.status = "QUEUED" => Phase(rec) = "asked"
              /\ rec.status = "RUNNING" => Phase(rec) = "active"
              /\ rec.status \notin {"QUEUED", "RUNNING"} => Phase(rec) = "settled"
<1>1. CASE rec.kind \notin {"SC-05", "SC-20"}
  BY <1>1 DEF Phase
<1>2. CASE rec.kind \in {"SC-05", "SC-20"} /\ rec.status = "QUEUED"
  BY <1>2 DEF Phase
<1>3. CASE rec.kind \in {"SC-05", "SC-20"} /\ rec.status = "RUNNING"
  BY <1>3 DEF Phase
<1>4. CASE rec.kind \in {"SC-05", "SC-20"} /\ rec.status \notin {"QUEUED", "RUNNING"}
  BY <1>4 DEF Phase
<1> QED BY <1>1, <1>2, <1>3, <1>4

(* The columns that decide which step of the contract a rewriting is.        *)
LEMMA AbstractColumns ==
  ASSUME NEW old, NEW new, new.kind = old.kind
  PROVE  /\ old.kind \notin {"SC-05", "SC-20"} => Abstract(old, new)
         /\ new.starts = old.starts /\ new.grants = old.grants =>
              /\ new.status = old.status => Abstract(old, new)
              /\ old.status \in {"QUEUED", "RUNNING"} /\ new.status \notin {"QUEUED", "RUNNING"} =>
                   Abstract(old, new)
         /\ /\ old.status = "QUEUED" /\ new.status = "RUNNING"
            /\ new.starts = old.starts + 1 /\ new.grants = old.grants
            => Abstract(old, new)
         /\ /\ old.status \notin {"QUEUED", "RUNNING"} /\ new.status = "QUEUED"
            /\ new.starts = old.starts /\ new.grants = old.grants + 1
            => Abstract(old, new)
<1>1. CASE old.kind \notin {"SC-05", "SC-20"}
  <2>1. Phase(old) = "none" /\ Phase(new) = "none"
    BY <1>1, PhaseOf
  <2> QED BY <2>1 DEF Abstract, Stutters, GrantsOf, StartsOf
<1>2. CASE old.kind \in {"SC-05", "SC-20"}
  <2>1. /\ old.status = "QUEUED" => Phase(old) = "asked"
        /\ old.status = "RUNNING" => Phase(old) = "active"
        /\ old.status \notin {"QUEUED", "RUNNING"} => Phase(old) = "settled"
    BY <1>2, PhaseOf
  <2>2. /\ new.status = "QUEUED" => Phase(new) = "asked"
        /\ new.status = "RUNNING" => Phase(new) = "active"
        /\ new.status \notin {"QUEUED", "RUNNING"} => Phase(new) = "settled"
    BY <1>2, PhaseOf
  <2> QED
    BY <1>2, <2>1, <2>2 DEF Abstract, Asks, Begins, Settles, Stutters, GrantsOf, StartsOf
<1> QED BY <1>1, <1>2

LEMMA AbstractSubmitted ==
  ASSUME NEW rec \in Row, NEW up \in BOOLEAN, Sound(rec, up), rec.status = "absent",
         NEW k \in Kinds, NEW s \in BOOLEAN
  PROVE  Abstract(rec, [Requeued(rec) EXCEPT !.kind = k, !.scheduled = s, !.grants = 1])
<1> DEFINE new == [Requeued(rec) EXCEPT !.kind = k, !.scheduled = s, !.grants = 1]
<1>1. rec = Blank /\ rec.kind = "none" /\ rec.starts = 0 /\ rec.grants = 0
  BY DEF Sound, Blank
<1>2. new.kind = k /\ new.status = "QUEUED" /\ new.starts = 0 /\ new.grants = 1
  BY <1>1 DEF Row, Requeued
<1> HIDE DEF new
<1>3. Phase(rec) = "none"
  BY <1>1, PhaseOf
<1>4. Phase(new) \in {"none", "asked"}
  BY <1>2, PhaseOf
<1>5. Abstract(rec, new)
  BY <1>2, <1>3, <1>4 DEF Abstract, Asks, Stutters, GrantsOf, StartsOf
<1> QED BY <1>5 DEF new

LEMMA AbstractRequest ==
  ASSUME NEW rec \in Row
  PROVE  /\ rec.kind = "SC-05" /\ rec.status = "PARTIALLY_FAILED" =>
              Abstract(rec, [Regranted(rec) EXCEPT !.resumes = rec.resumes + 1])
         /\ rec.status = "FAILED" => Abstract(rec, [Regranted(rec) EXCEPT !.dispatchError = FALSE])
         /\ \A s \in Statuses : rec.kind = "SC-04" => Abstract(rec, [rec EXCEPT !.status = s])
<1> DEFINE a == [Regranted(rec) EXCEPT !.resumes = rec.resumes + 1]
           b == [Regranted(rec) EXCEPT !.dispatchError = FALSE]
<1>1. /\ a.kind = rec.kind /\ a.status = "QUEUED"
      /\ a.starts = rec.starts /\ a.grants = rec.grants + 1
  BY DEF Row, Regranted, Requeued
<1>2. /\ b.kind = rec.kind /\ b.status = "QUEUED"
      /\ b.starts = rec.starts /\ b.grants = rec.grants + 1
  BY DEF Row, Regranted, Requeued
<1>3. \A s \in Statuses : [rec EXCEPT !.status = s].kind = rec.kind
  BY DEF Row
<1> HIDE DEF a, b
<1>4. rec.status \in {"PARTIALLY_FAILED", "FAILED"} => Abstract(rec, a) /\ Abstract(rec, b)
  BY <1>1, <1>2, AbstractColumns
<1>5. \A s \in Statuses : rec.kind = "SC-04" => Abstract(rec, [rec EXCEPT !.status = s])
  BY <1>3, AbstractColumns
<1> QED BY <1>4, <1>5 DEF a, b

LEMMA AbstractClosed ==
  ASSUME NEW rec \in Row, NEW up \in BOOLEAN, Sound(rec, up)
  PROVE  /\ rec.status = "QUEUED" \/ rec.kind = "SC-04" => Abstract(rec, Claimed(rec))
         /\ rec.status \in {"QUEUED", "RUNNING", "PENDING"} => Abstract(rec, Exhausted(rec))
         /\ rec.status \in {"QUEUED", "RUNNING"} => Abstract(rec, Quarantined(rec))
<1>1. /\ Claimed(rec).kind = rec.kind /\ Claimed(rec).status = "QUEUED"
      /\ Claimed(rec).starts = rec.starts /\ Claimed(rec).grants = rec.grants
  BY DEF Row, Claimed, Requeued
<1>2. /\ Exhausted(rec).kind = rec.kind /\ Exhausted(rec).status = "FAILED"
      /\ Exhausted(rec).starts = rec.starts /\ Exhausted(rec).grants = rec.grants
  BY DEF Row, Exhausted
<1>3. /\ Quarantined(rec).kind = rec.kind /\ Quarantined(rec).status = "PARTIALLY_FAILED"
      /\ Quarantined(rec).starts = rec.starts /\ Quarantined(rec).grants = rec.grants
  BY DEF Row, Quarantined
<1>4. rec.status = "PENDING" => rec.kind = "SC-04"
  BY DEF Sound
<1> QED BY <1>1, <1>2, <1>3, <1>4, AbstractColumns

LEMMA AbstractExecuted ==
  ASSUME NEW rec \in Row, NEW t \in Nat
  PROVE  /\ rec.status = "QUEUED" => Abstract(rec, Begun(rec, t))
         /\ rec.kind = "SC-04" => Abstract(rec, Resumed(rec, t))
         /\ \A s \in Outcomes(rec.kind), b \in BOOLEAN : rec.status = "RUNNING" =>
              Abstract(rec, [rec EXCEPT !.status = s, !.partial = b])
         /\ \A s \in {"FAILED", "PARTIALLY_FAILED"} : rec.status = "QUEUED" =>
              Abstract(rec, [rec EXCEPT !.status = s, !.dispatchError = TRUE])
<1>1. /\ Begun(rec, t).kind = rec.kind /\ Begun(rec, t).status = "RUNNING"
      /\ Begun(rec, t).starts = rec.starts + 1 /\ Begun(rec, t).grants = rec.grants
  BY DEF Row, Begun
<1>2. Resumed(rec, t).kind = rec.kind
  BY DEF Row, Resumed
<1>3. ASSUME NEW s \in Outcomes(rec.kind), NEW b \in BOOLEAN, rec.status = "RUNNING"
      PROVE  Abstract(rec, [rec EXCEPT !.status = s, !.partial = b])
  <2> DEFINE new == [rec EXCEPT !.status = s, !.partial = b]
  <2>1. /\ new.kind = rec.kind /\ new.status = s
        /\ new.starts = rec.starts /\ new.grants = rec.grants
    BY DEF Row
  <2>2. s \notin {"QUEUED", "RUNNING"} \/ rec.kind = "SC-04"
    BY DEF Outcomes
  <2> HIDE DEF new
  <2>3. Abstract(rec, new)
    BY <1>3, <2>1, <2>2, AbstractColumns
  <2> QED BY <2>3 DEF new
<1>4. ASSUME NEW s \in {"FAILED", "PARTIALLY_FAILED"}, rec.status = "QUEUED"
      PROVE  Abstract(rec, [rec EXCEPT !.status = s, !.dispatchError = TRUE])
  <2> DEFINE new == [rec EXCEPT !.status = s, !.dispatchError = TRUE]
  <2>1. /\ new.kind = rec.kind /\ new.status = s
        /\ new.starts = rec.starts /\ new.grants = rec.grants
    BY DEF Row
  <2> HIDE DEF new
  <2>2. Abstract(rec, new)
    BY <1>4, <2>1, AbstractColumns
  <2> QED BY <2>2 DEF new
<1> QED BY <1>1, <1>2, <1>3, <1>4, AbstractColumns

LEMMA AbstractMarked ==
  ASSUME NEW rec \in Row, NEW b \in BOOLEAN
  PROVE  /\ Abstract(rec, [rec EXCEPT !.hasNew = TRUE])
         /\ Abstract(rec, [rec EXCEPT !.dispatched = TRUE])
         /\ Abstract(rec, [rec EXCEPT !.published = b])
         /\ Abstract(rec, [rec EXCEPT !.reviewable = TRUE])
<1>1. \A new \in {[rec EXCEPT !.hasNew = TRUE], [rec EXCEPT !.dispatched = TRUE],
                  [rec EXCEPT !.published = b], [rec EXCEPT !.reviewable = TRUE]} :
        /\ new.kind = rec.kind /\ new.status = rec.status
        /\ new.starts = rec.starts /\ new.grants = rec.grants
  BY DEF Row
<1> QED BY <1>1, AbstractColumns

-----------------------------------------------------------------------------
(* Every step.                                                               *)

(* The row changes at one run at most, by a step of the contract.            *)
RowStepIsAbstract ==
  \/ row' = row
  \/ \E r \in Runs, new \in Row : row' = [row EXCEPT ![r] = new] /\ Abstract(row[r], new)

LEMMA RequestIsAbstract ==
  ASSUME RowInv, NEW r \in Runs, Request(r) \/ UploadStep(r) \/ StartDispatch(r), TypeOK'
  PROVE  RowStepIsAbstract
<1>0. row[r] \in Row /\ Sound(row[r], r \in uploading) /\ (r \in uploading) \in BOOLEAN
  BY DEF RowInv, TypeOK, AllSound
<1>1. ASSUME NEW new, row' = [row EXCEPT ![r] = new], Abstract(row[r], new) PROVE RowStepIsAbstract
  <2>1. new \in Row
    BY <1>1 DEF RowInv, TypeOK
  <2> QED BY <1>1, <2>1 DEF RowStepIsAbstract
<1>2. CASE Submit(r)
  <2>1. PICK k \in Kinds, s \in BOOLEAN : row' = [row EXCEPT ![r] =
          [Requeued(row[r]) EXCEPT !.kind = k, !.scheduled = s, !.grants = 1]]
    BY <1>2 DEF Submit
  <2>2. row[r].status = "absent"
    BY <1>2 DEF Submit
  <2>3. Abstract(row[r], [Requeued(row[r]) EXCEPT !.kind = k, !.scheduled = s, !.grants = 1])
    BY <1>0, <2>2, AbstractSubmitted
  <2> QED BY <1>1, <2>1, <2>3
<1>3. CASE Resume(r)
  BY <1>0, <1>1, <1>3, AbstractRequest DEF Resume
<1>4. CASE Reprepare(r)
  BY <1>0, <1>1, <1>4, AbstractRequest DEF Reprepare
<1>5. CASE WebRecompute(r)
  <2>1. PICK s \in Outcomes("SC-04") : row' = [row EXCEPT ![r] = [row[r] EXCEPT !.status = s]]
    BY <1>5 DEF WebRecompute
  <2>2. s \in Statuses /\ row[r].kind = "SC-04"
    BY <1>5 DEF WebRecompute, Outcomes, Statuses, Terminal
  <2>3. Abstract(row[r], [row[r] EXCEPT !.status = s])
    BY <1>0, <2>2, AbstractRequest
  <2> QED BY <1>1, <2>1, <2>3
<1>6. CASE Upload(r)
  <2> DEFINE new == [row[r] EXCEPT !.kind = "SC-04", !.status = "PENDING", !.grants = 1]
  <2>1. row[r] = Blank /\ row' = [row EXCEPT ![r] = new]
    BY <1>0, <1>6 DEF Upload, Sound
  <2>2. row[r].kind = "none" /\ new.kind = "SC-04"
    BY <1>0, <2>1 DEF Row, Blank
  <2> HIDE DEF new
  <2>3. Phase(row[r]) = "none" /\ Phase(new) = "none"
    BY <2>2, PhaseOf
  <2>4. Abstract(row[r], new)
    BY <2>3 DEF Abstract, Stutters, GrantsOf, StartsOf
  <2> QED BY <1>1, <2>1, <2>4
<1>7. CASE IngestUpload(r)
  <2>1. Abstract(row[r], [row[r] EXCEPT !.hasNew = TRUE])
    BY <1>0, AbstractMarked
  <2> QED BY <1>1, <1>7, <2>1 DEF IngestUpload
<1>8. CASE EndUpload(r)
  <2>1. PICK s \in {"SUCCEEDED", "FAILED"} : row' = [row EXCEPT ![r] = [row[r] EXCEPT !.status = s]]
    BY <1>8 DEF EndUpload
  <2>2. s \in Statuses /\ row[r].kind = "SC-04"
    BY <1>0, <1>8 DEF EndUpload, Sound, Statuses, Terminal
  <2>3. Abstract(row[r], [row[r] EXCEPT !.status = s])
    BY <1>0, <2>2, AbstractRequest
  <2> QED BY <1>1, <2>1, <2>3
<1>9. CASE QueueUpload(r)
  <2> DEFINE new == [Requeued(row[r]) EXCEPT !.dispatchError = FALSE]
  <2>1. row[r].kind = "SC-04" /\ row' = [row EXCEPT ![r] = new]
    BY <1>0, <1>9 DEF QueueUpload, Sound
  <2>2. new.kind = row[r].kind
    BY <1>0 DEF Row, Requeued
  <2> HIDE DEF new
  <2>3. Abstract(row[r], new)
    BY <2>1, <2>2, AbstractColumns
  <2> QED BY <1>1, <2>1, <2>3
<1>10. CASE AbandonUpload(r)
  BY <1>10 DEF AbandonUpload, RowStepIsAbstract
<1>11. CASE StartDispatch(r)
  <2>1. Abstract(row[r], [row[r] EXCEPT !.dispatched = TRUE])
    BY <1>0, AbstractMarked
  <2> QED BY <1>1, <1>11, <2>1 DEF StartDispatch
<1> QED
  BY <1>2, <1>3, <1>4, <1>5, <1>6, <1>7, <1>8, <1>9, <1>10, <1>11 DEF Request, UploadStep

LEMMA ReconcileIsAbstract ==
  ASSUME RowInv, NEW r \in Runs, Reconcile(r), TypeOK' PROVE RowStepIsAbstract
<1>0. row[r] \in Row /\ Sound(row[r], r \in uploading) /\ (r \in uploading) \in BOOLEAN
  BY DEF RowInv, TypeOK, AllSound
<1>1. ASSUME NEW new, row' = [row EXCEPT ![r] = new], Abstract(row[r], new) PROVE RowStepIsAbstract
  <2>1. new \in Row
    BY <1>1 DEF RowInv, TypeOK
  <2> QED BY <1>1, <2>1 DEF RowStepIsAbstract
<1>2. row[r].status = "QUEUED" \/ row[r].kind = "SC-04" => Abstract(row[r], Claimed(row[r]))
  BY <1>0, AbstractClosed
<1>3. row[r].status \in {"QUEUED", "RUNNING", "PENDING"} => Abstract(row[r], Exhausted(row[r]))
  BY <1>0, AbstractClosed
<1>4. row[r].status \in {"QUEUED", "RUNNING"} => Abstract(row[r], Quarantined(row[r]))
  BY <1>0, AbstractClosed
<1>5. CASE ReconcilePending(r)
  BY <1>1, <1>2, <1>3, <1>5 DEF ReconcilePending, ClaimRecovery
<1>6. CASE ReconcileQueued(r)
  BY <1>1, <1>2, <1>3, <1>4, <1>6 DEF ReconcileQueued, ClaimRecovery
<1>7. CASE ReconcileRunning(r)
  BY <1>1, <1>2, <1>3, <1>4, <1>7 DEF ReconcileRunning, ClaimRecovery
<1> QED BY <1>5, <1>6, <1>7 DEF Reconcile

LEMMA PublishIsAbstract ==
  ASSUME RowInv, NEW p \in publishers, Enqueue(p) \/ EndPublication(p), TypeOK'
  PROVE  RowStepIsAbstract
<1> DEFINE r == p.run
<1>0. r \in Runs /\ row[r] \in Row
  BY DEF RowInv, TypeOK, Publisher
<1>1. ASSUME NEW new, row' = [row EXCEPT ![r] = new], Abstract(row[r], new) PROVE RowStepIsAbstract
  <2>1. new \in Row
    BY <1>0, <1>1 DEF RowInv, TypeOK
  <2> QED BY <1>0, <1>1, <2>1 DEF RowStepIsAbstract
<1>2. CASE row' = row
  BY <1>2 DEF RowStepIsAbstract
<1>3. CASE ConfirmPublication(p)
  <2> DEFINE b == row[r].published \/ row[r].task = p.task
  <2>1. b \in BOOLEAN
    BY <1>0 DEF Row
  <2>2. row' = [row EXCEPT ![r] = [row[r] EXCEPT !.published = b]]
    BY <1>3 DEF ConfirmPublication
  <2> HIDE DEF b, r
  <2>3. Abstract(row[r], [row[r] EXCEPT !.published = b])
    BY <1>0, <2>1, AbstractMarked
  <2> QED BY <1>1, <2>2, <2>3
<1>4. CASE FailPublication(p) /\ row' # row
  <2> DEFINE s == DispatchFailureStatus(r)
  <2>1. s \in {"FAILED", "PARTIALLY_FAILED"}
    BY DEF DispatchFailureStatus
  <2>2. /\ row[r].status = "QUEUED"
        /\ row' = [row EXCEPT ![r] = [row[r] EXCEPT !.status = s, !.dispatchError = TRUE]]
    BY <1>4 DEF FailPublication
  <2> HIDE DEF s, r
  <2>3. Abstract(row[r], [row[r] EXCEPT !.status = s, !.dispatchError = TRUE])
    BY <1>0, <2>1, <2>2, AbstractExecuted
  <2> QED BY <1>1, <2>2, <2>3
<1> QED BY <1>2, <1>3, <1>4 DEF Enqueue, EndPublication, CrashPublisher

LEMMA WorkerIsAbstract ==
  ASSUME RowInv, NEW w \in Workers, TypeOK',
         Receive(w) \/ StartStep(w) \/ OpenReview(w) \/ EndStep(w) \/ WorkerFault(w)
  PROVE  RowStepIsAbstract
<1> DEFINE r == worker[w].run
           t == worker[w].task
<1>0. r \in Runs /\ row[r] \in Row /\ t \in Nat /\ Sound(row[r], r \in uploading)
      /\ (r \in uploading) \in BOOLEAN
  BY DEF RowInv, TypeOK, Worker, AllSound
<1>1. ASSUME NEW new, row' = [row EXCEPT ![r] = new], Abstract(row[r], new) PROVE RowStepIsAbstract
  <2>1. new \in Row
    BY <1>0, <1>1 DEF RowInv, TypeOK
  <2> QED BY <1>0, <1>1, <2>1 DEF RowStepIsAbstract
<1>2. CASE row' = row
  BY <1>2 DEF RowStepIsAbstract
<1>3. CASE BeginRun(w)
  <2>1. t \in 1..row[r].issued
    BY <1>3 DEF BeginRun, RowInv, Known
  <2>2. row[r].status = "QUEUED"
    BY <1>0, <1>3, <2>1, StartableIsQueued DEF BeginRun, DeliveryMatches
  <2> QED BY <1>0, <1>1, <1>3, <2>2, AbstractExecuted DEF BeginRun
<1>4. CASE ResumeInterrupted(w)
  BY <1>0, <1>1, <1>4, AbstractExecuted DEF ResumeInterrupted
<1>5. CASE CloseInterrupted(w)
  <2> DEFINE q == IF row[r].kind = "SC-04" THEN Exhausted(row[r]) ELSE Quarantined(row[r])
             new == [q EXCEPT !.dispatched = TRUE, !.published = TRUE]
  <2>1. row[r].status = "RUNNING" /\ row' = [row EXCEPT ![r] = new]
    BY <1>5 DEF CloseInterrupted, Interrupted
  <2>2. /\ q \in Row /\ q.kind = row[r].kind /\ q.status \in {"FAILED", "PARTIALLY_FAILED"}
        /\ q.starts = row[r].starts /\ q.grants = row[r].grants
    <3> HIDE DEF r
    <3>1. CASE row[r].kind = "SC-04"
      BY <1>0, <3>1, ExhaustedIsRow DEF Row, Exhausted
    <3>2. CASE row[r].kind # "SC-04"
      BY <1>0, <3>2, QuarantinedIsRow DEF Row, Quarantined
    <3> QED BY <3>1, <3>2
  <2> HIDE DEF q
  <2>3. /\ new.kind = row[r].kind /\ new.status \in {"FAILED", "PARTIALLY_FAILED"}
        /\ new.starts = row[r].starts /\ new.grants = row[r].grants
    BY <2>2 DEF Row
  <2> HIDE DEF new
  <2>4. Abstract(row[r], new)
    BY <2>1, <2>3, AbstractColumns
  <2> QED BY <1>1, <2>1, <2>4
<1>6. CASE OpenReview(w)
  <2>1. Abstract(row[r], [row[r] EXCEPT !.reviewable = TRUE])
    BY <1>0, AbstractMarked
  <2> QED BY <1>1, <1>6, <2>1 DEF OpenReview
<1>7. CASE FinishRun(w)
  <2>1. PICK s \in Outcomes(row[r].kind), u \in BOOLEAN :
          row' = [row EXCEPT ![r].status = s, ![r].partial = ClientLeft(row[r].kind, s, u)]
    BY <1>7 DEF FinishRun
  <2> DEFINE b == ClientLeft(row[r].kind, s, u)
  <2>2. b \in BOOLEAN /\ row[r].status = "RUNNING"
    BY <1>7 DEF ClientLeft, FinishRun, HoldsFence
  <2>3. row' = [row EXCEPT ![r] = [row[r] EXCEPT !.status = s, !.partial = b]]
    BY <2>1
  <2> HIDE DEF b, r
  <2>4. Abstract(row[r], [row[r] EXCEPT !.status = s, !.partial = b])
    BY <1>0, <2>1, <2>2, AbstractExecuted
  <2> QED BY <1>1, <2>3, <2>4
<1>8. UNCHANGED row \/ BeginRun(w) \/ ResumeInterrupted(w) \/ CloseInterrupted(w)
      \/ OpenReview(w) \/ FinishRun(w)
  BY DEF Receive, StartStep, IgnoreDelivery, EndStep, AbandonRun, Ack, WorkerFault, LoseWorker,
         TimeOutRun, DropDelivery
<1> QED BY <1>2, <1>3, <1>4, <1>5, <1>6, <1>7, <1>8

LEMMA StepIsAbstract == ASSUME RowInv, [Next]_vars PROVE RowStepIsAbstract
<1>1. TypeOK'
  BY TypeStep DEF RowInv
<1>2. CASE PurgeBroker \/ UNCHANGED vars
  BY <1>2 DEF PurgeBroker, vars, RowStepIsAbstract
<1> QED
  BY <1>1, <1>2, RequestIsAbstract, ReconcileIsAbstract, PublishIsAbstract, WorkerIsAbstract
  DEF Next

-----------------------------------------------------------------------------
(* The execution layer implements EffectContract: SC-05 and SC-20 are        *)
(* executed at most once per request, and never without one.                 *)
THEOREM ExecutionImplementsContract == Spec => ImplementsEffects
<1> DEFINE P == [r \in Runs |-> Phase(row[r])]
           G == [r \in Runs |-> IF Phase(row[r]) = "none" THEN 0 ELSE row[r].grants]
           S == [r \in Runs |-> IF Phase(row[r]) = "none" THEN 0 ELSE row[r].starts]
<1>1. Init => Effects!Init
  <2>1. Phase(Blank) = "none"
    BY PhaseOf DEF Blank
  <2> QED BY <2>1 DEF Init, Effects!Init
<1>2. RowInv /\ [Next]_vars => [Effects!Next]_(Effects!vars)
  <2> SUFFICES ASSUME RowInv, [Next]_vars PROVE [Effects!Next]_(Effects!vars)
    OBVIOUS
  <2>1. CASE row' = row
    <3>1. P' = P /\ G' = G /\ S' = S
      BY <2>1 DEF Phase
    <3> QED BY <3>1 DEF Effects!vars
  <2>2. ASSUME NEW r \in Runs, NEW new \in Row, row' = [row EXCEPT ![r] = new],
               Abstract(row[r], new)
        PROVE  [Effects!Next]_(Effects!vars)
    <3>1. /\ P' = [P EXCEPT ![r] = Phase(new)]
          /\ G' = [G EXCEPT ![r] = GrantsOf(new)]
          /\ S' = [S EXCEPT ![r] = StartsOf(new)]
      BY <2>2 DEF RowInv, TypeOK, Phase, GrantsOf, StartsOf
    <3>2. P[r] = Phase(row[r]) /\ G[r] = GrantsOf(row[r]) /\ S[r] = StartsOf(row[r])
      BY DEF GrantsOf, StartsOf
    <3>3. P = [P EXCEPT ![r] = P[r]] /\ G = [G EXCEPT ![r] = G[r]] /\ S = [S EXCEPT ![r] = S[r]]
      OBVIOUS
    <3> HIDE DEF P, G, S
    <3>4. CASE Asks(row[r], new)
      <4>1. Effects!Ask(r)
        BY <3>1, <3>2, <3>3, <3>4 DEF Effects!Ask, Asks, P, G, S
      <4> QED BY <4>1 DEF Effects!Next
    <3>5. CASE Begins(row[r], new)
      <4>1. Effects!Begin(r)
        BY <3>1, <3>2, <3>3, <3>5 DEF Effects!Begin, Begins, P, G, S
      <4> QED BY <4>1 DEF Effects!Next
    <3>6. CASE Settles(row[r], new)
      <4>1. Effects!Settle(r)
        BY <3>1, <3>2, <3>3, <3>6 DEF Effects!Settle, Settles, P, G, S
      <4> QED BY <4>1 DEF Effects!Next
    <3>7. CASE Stutters(row[r], new)
      <4>1. P' = P /\ G' = G /\ S' = S
        BY <3>1, <3>2, <3>3, <3>7 DEF Stutters
      <4> QED BY <4>1 DEF Effects!vars, P, G, S
    <3> QED BY <2>2, <3>4, <3>5, <3>6, <3>7 DEF Abstract
  <2> QED BY <2>1, <2>2, StepIsAbstract DEF RowStepIsAbstract
<1> QED BY <1>1, <1>2, RowInvAlways, PTL DEF Spec, Effects!Spec, ImplementsEffects
=============================================================================
