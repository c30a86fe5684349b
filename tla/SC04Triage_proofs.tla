------------------------- MODULE SC04Triage_proofs -------------------------
(***************************************************************************)
(* Types, automatic decisions and routes of SC04Triage, for every value of  *)
(* its constants.                                                          *)
(***************************************************************************)
EXTENDS SC04Triage, SequenceTheorems, TLAPS

-----------------------------------------------------------------------------
(* The rows.  The events of a run are left open: E is a set that holds them. *)

Outcomes == {"none", "NEW", "DUPLICATE_HASH"}
Tried == {"PROCESSING"} \cup Verdicts
RunRow(E) ==
  [status : Statuses, task : Nat, attempts : 0..MaxAttempts, published : BOOLEAN,
   content : Seq(Docs), items : Seq(Outcomes), failures : Nat,
   error : {"none", "technical", "dispatch"}, torn : BOOLEAN, issued : Nat, events : E]

(* A run carries an identifier that was issued, has an outcome for each of   *)
(* its contents, and has received nothing before it was requested and spent  *)
(* no recovery before it was first queued.                                   *)
RunSane(r, rec) ==
  /\ rec.task <= rec.issued
  /\ DOMAIN rec.items = DOMAIN rec.content
  /\ rec.status \in {"absent", "PENDING"} => rec.attempts = 0
  /\ rec.status = "absent" => rec.items = <<>>
  /\ r \in InboxRuns /\ rec.status # "absent" => rec.content = Inbox

(* A document decided automatically was decided on grounds that ask for no   *)
(* review.                                                                   *)
AnyDoc ==
  [status : {"absent"} \cup DocStatuses, intake : {"none"} \cup DocStatuses,
   tries : Seq(Tried), review : {"none", "PENDING", "COMPLETED"},
   decision : {"none", "AUTOMATIC", "HUMAN_REVIEW"}, ground : Grounds \cup {NoGround},
   route : {"none", "PENDING", "ROUTED", "FAILED"}]
DocRow == {rec \in AnyDoc : rec.decision = "AUTOMATIC" => ReviewReason(rec.ground) = "none"}

MsgRow == [task : Nat, redelivered : BOOLEAN]

JobPlaces == {"none", "ingest", "enlist", "routes", "docs", "claimed", "classify",
              "route", "copy", "copied", "refused", "failing"}
JobRow ==
  [pc : JobPlaces, task : Nat, i : Nat, failures : Nat, dup : BOOLEAN,
   todo : SUBSET Docs, doc : Docs \cup {NoDoc}, phase : {"routes", "docs"}]

(* A worker ingests at a place of the inbox, and has a document in hand      *)
(* between its claim and its end.                                            *)
JobSane(r, rec) ==
  /\ rec.pc \in {"ingest", "enlist"} => r \in InboxRuns /\ rec.i >= 1
  /\ rec.pc \in {"claimed", "classify", "route", "copy", "copied", "refused", "failing"} =>
       rec.doc \in Docs

WebPlaces == {"none", "ingest", "enlist", "queue", "route", "copied", "refused", "recompute"}
WebRow == [pc : WebPlaces, run : Runs \cup {NoRunId}, doc : Docs \cup {NoDoc}, dup : BOOLEAN]
WebSane(w) == w.pc # "none" => w.run \in Runs /\ w.doc \in Docs

RunsOK == (\E E : run \in [Runs -> RunRow(E)]) /\ \A r \in Runs : RunSane(r, run[r])
DocsOK == doc \in [Docs -> DocRow]
MsgsOK == msg \in [Runs -> MsgRow] /\ \A r \in Runs : msg[r].task <= run[r].issued
JobsOK ==
  /\ job \in [Runs -> JobRow]
  /\ \A r \in Runs : /\ JobSane(r, job[r])
                     /\ job[r].task <= run[r].issued
                     /\ job[r].pc # "none" => run[r].status # "absent"
WebOK ==
  /\ web \in [People -> WebRow]
  /\ \A p \in People : WebSane(web[p]) /\ (web[p].pc # "none" => run[web[p].run].status # "absent")
StoredOK == stored \in [original : SUBSET Docs, routed : SUBSET Docs]
FaultsOK == faults \in 0..MaxFaults

TypeInv == RunsOK /\ DocsOK /\ MsgsOK /\ JobsOK /\ WebOK /\ StoredOK /\ FaultsOK

-----------------------------------------------------------------------------
(* Sequences.                                                              *)

LEMMA SeqReplace ==
  ASSUME NEW S, NEW s \in Seq(S), NEW v \in S, NEW i
  PROVE  [s EXCEPT ![i] = v] \in Seq(S) /\ DOMAIN [s EXCEPT ![i] = v] = DOMAIN s
<1> DEFINE t == [s EXCEPT ![i] = v]
<1>1. Len(s) \in Nat /\ DOMAIN s = 1..Len(s) /\ s \in [1..Len(s) -> S]
  OBVIOUS
<1>2. t \in [1..Len(s) -> S]
  BY <1>1
<1>3. t \in Seq(S)
  BY <1>1, <1>2, SeqDef
<1> QED BY <1>1, <1>2, <1>3

LEMMA SeqMapped ==
  ASSUME NEW S, NEW T, NEW s \in Seq(S), NEW t, DOMAIN t = DOMAIN s,
         t = [i \in DOMAIN s |-> t[i]], \A i \in DOMAIN s : t[i] \in T
  PROVE  t \in Seq(T)
OBVIOUS

LEMMA ClosedTries ==
  ASSUME NEW s \in Seq(Tried)
  PROVE  CloseTry(s) \in Seq(Tried)
<1>1. \A i \in DOMAIN s : s[i] \in Tried
  OBVIOUS
<1> QED BY <1>1, SeqMapped DEF CloseTry, Tried, Verdicts

-----------------------------------------------------------------------------
(* Initially.                                                              *)

LEMMA TypeInvImpliesTypeOK == TypeInv => TypeOK
<1> SUFFICES ASSUME TypeInv PROVE TypeOK
  OBVIOUS
<1> PICK E : run \in [Runs -> RunRow(E)]
  BY DEF TypeInv, RunsOK
<1>1. ASSUME NEW r \in Runs
      PROVE /\ run[r].status \in Statuses /\ run[r].task \in 0..run[r].issued
            /\ run[r].content \in Seq(Docs) /\ run[r].failures \in Nat
            /\ run[r].items \in [DOMAIN run[r].content -> {"none", "NEW", "DUPLICATE_HASH"}]
            /\ run[r].attempts \in 0..MaxAttempts
  <2>1. run[r] \in RunRow(E) /\ RunSane(r, run[r])
    BY DEF TypeInv, RunsOK
  <2>2. run[r].items \in Seq(Outcomes) /\ DOMAIN run[r].items = DOMAIN run[r].content
    BY <2>1 DEF RunRow, RunSane
  <2> QED BY <2>1, <2>2 DEF RunRow, RunSane, Outcomes
<1>2. ASSUME NEW r \in Runs
      PROVE /\ msg[r].task \in 0..run[r].issued
            /\ job[r].pc \in {"none", "ingest", "enlist", "routes", "docs", "claimed", "classify",
                              "route", "copy", "copied", "refused", "failing"}
            /\ job[r].todo \subseteq Docs
  <2>1. msg[r] \in MsgRow /\ job[r] \in JobRow /\ run[r] \in RunRow(E)
    BY DEF TypeInv, MsgsOK, JobsOK
  <2> QED BY <2>1 DEF TypeInv, MsgsOK, MsgRow, JobRow, JobPlaces, RunRow
<1>3. ASSUME NEW d \in Docs
      PROVE /\ doc[d].status \in {"absent"} \cup DocStatuses
            /\ doc[d].intake \in {"none"} \cup DocStatuses
            /\ doc[d].tries \in Seq({"PROCESSING"} \cup Verdicts)
            /\ doc[d].review \in {"none", "PENDING", "COMPLETED"}
            /\ doc[d].decision \in {"none", "AUTOMATIC", "HUMAN_REVIEW"}
            /\ doc[d].route \in {"none", "PENDING", "ROUTED", "FAILED"}
  BY DEF TypeInv, DocsOK, DocRow, AnyDoc, Tried
<1>4. \A p \in People :
        web[p].pc \in {"none", "ingest", "enlist", "queue", "route", "copied", "refused", "recompute"}
  BY DEF TypeInv, WebOK, WebRow, WebPlaces
<1> QED BY <1>1, <1>2, <1>3, <1>4 DEF TypeOK, TypeInv, StoredOK, FaultsOK

LEMMA BlankRows ==
  /\ NoJob \in JobRow /\ NoRequest \in WebRow /\ NoMessage \in MsgRow /\ NoDocument \in DocRow
  /\ \E E : NoRun \in RunRow(E)
  /\ \A r : RunSane(r, NoRun)
<1>1. <<>> \in Seq(Outcomes) /\ <<>> \in Seq(Docs) /\ <<>> \in Seq(Tried)
  OBVIOUS
<1>2. NoRun \in RunRow({{}})
  BY <1>1, ConstantsAssumption DEF NoRun, RunRow, Statuses, Closed
<1>3. NoDocument \in DocRow
  BY <1>1 DEF NoDocument, DocRow, AnyDoc
<1>4. \A r : RunSane(r, NoRun)
  BY DEF RunSane, NoRun
<1>5. NoJob \in JobRow
  BY DEF NoJob, JobRow, JobPlaces
<1>6. NoRequest \in WebRow /\ NoMessage \in MsgRow
  BY DEF NoRequest, WebRow, WebPlaces, NoMessage, MsgRow
<1> QED BY <1>2, <1>3, <1>4, <1>5, <1>6

LEMMA TypeInit == Init => TypeInv
<1> SUFFICES ASSUME Init PROVE TypeInv
  OBVIOUS
<1>1. RunsOK
  <2> PICK E : NoRun \in RunRow(E)
    BY BlankRows
  <2>1. run \in [Runs -> RunRow(E)]
    BY DEF Init
  <2>2. \A r \in Runs : run[r] = NoRun
    BY DEF Init
  <2>3. \A r \in Runs : RunSane(r, run[r])
    BY <2>2, BlankRows
  <2> QED BY <2>1, <2>3 DEF RunsOK
<1>2. MsgsOK /\ JobsOK
  <2>1. \A r \in Runs : run[r].issued = 0 /\ msg[r].task = 0 /\ job[r].task = 0 /\ job[r].pc = "none"
    BY DEF Init, NoRun, NoMessage, NoJob
  <2>2. msg \in [Runs -> MsgRow] /\ job \in [Runs -> JobRow]
    BY BlankRows DEF Init
  <2> QED BY <2>1, <2>2 DEF MsgsOK, JobsOK, JobSane
<1>3. WebOK
  <2>1. \A p \in People : web[p].pc = "none"
    BY DEF Init, NoRequest
  <2> QED BY <2>1, BlankRows DEF WebOK, WebSane, Init
<1>4. DocsOK /\ StoredOK /\ FaultsOK
  BY BlankRows, ConstantsAssumption DEF Init, DocsOK, StoredOK, FaultsOK
<1> QED BY <1>1, <1>2, <1>3, <1>4 DEF TypeInv

-----------------------------------------------------------------------------
(* Documents: which actions write them, and what each writes.               *)

DocumentWork(r) ==
  \/ IngestAttachment(r) \/ EnlistAttachment(r) \/ Claim(r) \/ CreateAttempt(r) \/ Classify(r)
  \/ FailDocument(r) \/ RouteByWorker(r) \/ RouteFailsByWorker(r)
  \/ ResumeInterrupted(r) \/ ExhaustInterrupted(r) \/ ReconcileQueued(r) \/ ReconcileRunning(r)
  \/ FetchFails(r) \/ ClassifierFails(r) \/ ClassifierBreaks(r)
DocumentRequest(p) ==
  \/ UploadIngest(p) \/ UploadEnlist(p) \/ RouteByRequest(p)
  \/ \E r \in Runs, d \in Docs : Resolve(p, r, d)

LEMMA WhoWritesDocuments ==
  Next => \/ UNCHANGED doc
          \/ \E r \in Runs : DocumentWork(r)
          \/ \E p \in People : DocumentRequest(p)
<1> SUFFICES ASSUME Next
             PROVE  \/ UNCHANGED doc
                    \/ \E r \in Runs : DocumentWork(r)
                    \/ \E p \in People : DocumentRequest(p)
  OBVIOUS
<1>1. ASSUME NEW r \in Runs, WorkerStep(r)
      PROVE  UNCHANGED doc \/ DocumentWork(r)
  BY <1>1 DEF WorkerStep, DocumentWork, EndIngestion, PickRoute, EndRoutes, Superseded, LeaveDocument,
    BeginRoute, CopyByWorker, Finish
<1>2. ASSUME NEW r \in Runs, Delivery(r) \/ Reconcile(r)
      PROVE  UNCHANGED doc \/ DocumentWork(r)
  BY <1>2 DEF Delivery, Reconcile, DocumentWork, Start, IgnoreDelivery, ReconcilePending
<1>3. ASSUME NEW p \in People, RequestStep(p)
      PROVE  UNCHANGED doc \/ DocumentRequest(p)
  BY <1>3 DEF RequestStep, DocumentRequest, UploadQueue, CopyByRequest, RecomputeByRequest
<1>4. ASSUME Demand
      PROVE  UNCHANGED doc \/ \E p \in People : DocumentRequest(p)
  BY <1>4 DEF Demand, DocumentRequest, RequestInbox, Publish, RequestUpload, Retry
<1>5. ASSUME Failure
      PROVE  UNCHANGED doc \/ \E r \in Runs : DocumentWork(r)
  BY <1>5 DEF Failure, DocumentWork, Refuse, AttachmentFails, CopyByWorkerFails, FailUnhandled,
    LoseWorker, UploadFails, CopyByRequestFails, WebDies, PutFails
<1> QED BY <1>1, <1>2, <1>3, <1>4, <1>5 DEF Next

(* A row that keeps its decision and grounds keeps what they say.            *)
LEMMA RowKept ==
  ASSUME NEW old \in DocRow, NEW rec \in AnyDoc,
         rec.decision = old.decision /\ rec.ground = old.ground
  PROVE  rec \in DocRow
BY DEF DocRow

(* What the actions write into a document, part by part.                     *)
LEMMA FieldsWritten ==
  ASSUME NEW old \in DocRow
  PROVE  /\ \A s \in DocStatuses : [old EXCEPT !.status = s] \in DocRow
         /\ \A s \in DocStatuses : [old EXCEPT !.intake = s] \in DocRow
         /\ \A t \in Seq(Tried) : [old EXCEPT !.tries = t] \in DocRow
         /\ \A v \in {"none", "PENDING", "COMPLETED"} : [old EXCEPT !.review = v] \in DocRow
         /\ \A v \in {"none", "PENDING", "ROUTED", "FAILED"} : [old EXCEPT !.route = v] \in DocRow
         /\ [old EXCEPT !.decision = "HUMAN_REVIEW"] \in DocRow
         /\ \A g \in Grounds : ReviewReason(g) = "none" =>
              [old EXCEPT !.decision = "AUTOMATIC", !.ground = g] \in DocRow
<1>0. old \in AnyDoc
  BY DEF DocRow
<1>1. ASSUME NEW s \in DocStatuses
      PROVE  [old EXCEPT !.status = s] \in DocRow /\ [old EXCEPT !.intake = s] \in DocRow
  <2>1. [old EXCEPT !.status = s] \in AnyDoc /\ [old EXCEPT !.intake = s] \in AnyDoc
    BY <1>0 DEF AnyDoc
  <2> QED BY <1>0, <2>1, RowKept DEF AnyDoc
<1>2. ASSUME NEW t \in Seq(Tried) PROVE [old EXCEPT !.tries = t] \in DocRow
  <2>1. [old EXCEPT !.tries = t] \in AnyDoc
    BY <1>0 DEF AnyDoc
  <2> QED BY <1>0, <2>1, RowKept DEF AnyDoc
<1>3. ASSUME NEW v \in {"none", "PENDING", "COMPLETED"} PROVE [old EXCEPT !.review = v] \in DocRow
  <2>1. [old EXCEPT !.review = v] \in AnyDoc
    BY <1>0 DEF AnyDoc
  <2> QED BY <1>0, <2>1, RowKept DEF AnyDoc
<1>4. ASSUME NEW v \in {"none", "PENDING", "ROUTED", "FAILED"}
      PROVE  [old EXCEPT !.route = v] \in DocRow
  <2>1. [old EXCEPT !.route = v] \in AnyDoc
    BY <1>0 DEF AnyDoc
  <2> QED BY <1>0, <2>1, RowKept DEF AnyDoc
<1>5. [old EXCEPT !.decision = "HUMAN_REVIEW"] \in DocRow
  <2>1. [old EXCEPT !.decision = "HUMAN_REVIEW"] \in AnyDoc
    BY <1>0 DEF AnyDoc
  <2>2. [old EXCEPT !.decision = "HUMAN_REVIEW"].decision = "HUMAN_REVIEW"
    BY <1>0 DEF AnyDoc
  <2> QED BY <2>1, <2>2 DEF DocRow
<1>6. ASSUME NEW g \in Grounds, ReviewReason(g) = "none"
      PROVE  [old EXCEPT !.decision = "AUTOMATIC", !.ground = g] \in DocRow
  <2> DEFINE rec == [old EXCEPT !.decision = "AUTOMATIC", !.ground = g]
  <2>1. rec \in AnyDoc /\ rec.ground = g
    BY <1>0 DEF AnyDoc
  <2> QED BY <1>6, <2>1 DEF DocRow
<1> QED BY <1>1, <1>2, <1>3, <1>4, <1>5, <1>6

LEMMA DocumentRows ==
  ASSUME DocsOK, NEW d \in Docs
  PROVE  /\ doc[d] \in DocRow
         /\ \A verdict \in Verdicts : /\ EndAttempt(d, verdict) \in DocRow
                                      /\ ReviewOpened(d, verdict) \in DocRow
         /\ Routed(d) \in DocRow /\ RouteFailed(d) \in DocRow
         /\ \A r : ItemsReset(r)[d] \in DocRow /\ ItemsClosed(r)[d] \in DocRow
<1>1. doc[d] \in DocRow
  BY DEF DocsOK
<1>2. /\ doc[d].tries \in Seq(Tried) /\ doc[d].intake \in {"none"} \cup DocStatuses
      /\ doc[d].review \in {"none", "PENDING", "COMPLETED"}
  BY <1>1 DEF DocRow, AnyDoc
<1>3. ASSUME NEW verdict \in Verdicts
      PROVE  EndAttempt(d, verdict) \in DocRow
  <2>1. [doc[d].tries EXCEPT ![Len(doc[d].tries)] = verdict] \in Seq(Tried)
    BY <1>2, SeqReplace DEF Tried
  <2> QED BY <1>1, <2>1, FieldsWritten DEF EndAttempt
<1>4. ASSUME NEW verdict \in Verdicts
      PROVE  ReviewOpened(d, verdict) \in DocRow
  <2> DEFINE a == EndAttempt(d, verdict)
             b == [a EXCEPT !.review = IF a.review = "none" THEN "PENDING" ELSE a.review]
             c == [b EXCEPT !.status = "AWAITING_REVIEW"]
  <2>1. a \in DocRow
    BY <1>3
  <2>2. b \in DocRow
    <3>1. a.review \in {"none", "PENDING", "COMPLETED"}
      BY <2>1 DEF DocRow, AnyDoc
    <3> QED BY <2>1, <3>1, FieldsWritten
  <2>3. c \in DocRow
    BY <2>2, FieldsWritten DEF DocStatuses
  <2>4. [c EXCEPT !.intake = "AWAITING_REVIEW"] \in DocRow
    BY <2>3, FieldsWritten DEF DocStatuses
  <2>5. ReviewOpened(d, verdict) = [c EXCEPT !.intake = "AWAITING_REVIEW"]
    BY DEF ReviewOpened
  <2> QED BY <2>4, <2>5
<1>5. ASSUME NEW s \in {"ROUTED", "FAILED"}
      PROVE  [doc[d] EXCEPT !.route = s, !.status = s, !.intake = s] \in DocRow
  <2> DEFINE a == [doc[d] EXCEPT !.route = s]
             b == [a EXCEPT !.status = s]
  <2>1. a \in DocRow
    BY <1>1, FieldsWritten
  <2>2. b \in DocRow
    BY <2>1, FieldsWritten DEF DocStatuses
  <2>3. [b EXCEPT !.intake = s] \in DocRow
    BY <2>2, FieldsWritten DEF DocStatuses
  <2> QED BY <2>3
<1>6. ASSUME NEW r PROVE ItemsReset(r)[d] \in DocRow
  <2>1. [doc[d] EXCEPT !.status = "QUEUED"] \in DocRow
    BY <1>1, FieldsWritten DEF DocStatuses
  <2>2. Reopened(d) \in DocRow
    BY <1>2, <2>1, FieldsWritten DEF Reopened, DocStatuses
  <2>3. ASSUME NEW rec \in DocRow PROVE [rec EXCEPT !.tries = CloseTry(@)] \in DocRow
    <3>1. CloseTry(rec.tries) \in Seq(Tried)
      BY ClosedTries DEF DocRow, AnyDoc
    <3> QED BY <3>1, FieldsWritten
  <2> QED BY <1>1, <2>2, <2>3 DEF ItemsReset
<1>7. ASSUME NEW r PROVE ItemsClosed(r)[d] \in DocRow
  <2> DEFINE a == [doc[d] EXCEPT !.tries = CloseTry(@)]
             b == [a EXCEPT !.status = IF Abandoned(d) THEN "FAILED" ELSE @]
             c == [b EXCEPT !.intake = IF Abandoned(d) /\ @ \in Unfinished THEN "FAILED" ELSE @]
             e == [c EXCEPT !.route = IF @ = "PENDING" THEN "FAILED" ELSE @]
  <2>1. a \in DocRow
    BY <1>1, <1>2, ClosedTries, FieldsWritten
  <2>2. b \in DocRow
    <3>1. CASE Abandoned(d)
      BY <2>1, <3>1, FieldsWritten DEF DocStatuses
    <3>2. CASE ~Abandoned(d)
      BY <2>1, <3>2 DEF DocRow, AnyDoc
    <3> QED BY <3>1, <3>2
  <2>3. c \in DocRow
    <3>1. CASE Abandoned(d) /\ b.intake \in Unfinished
      BY <2>2, <3>1, FieldsWritten DEF DocStatuses
    <3>2. CASE ~(Abandoned(d) /\ b.intake \in Unfinished)
      BY <2>2, <3>2 DEF DocRow, AnyDoc
    <3> QED BY <3>1, <3>2
  <2>4. e \in DocRow
    <3>1. c.route \in {"none", "PENDING", "ROUTED", "FAILED"}
      BY <2>3 DEF DocRow, AnyDoc
    <3> QED BY <2>3, <3>1, FieldsWritten
  <2>5. ItemsClosed(r)[d] \in {doc[d], e}
    BY <1>1 DEF ItemsClosed, DocRow, AnyDoc
  <2> QED BY <1>1, <2>4, <2>5
<1> QED BY <1>1, <1>3, <1>4, <1>5, <1>6, <1>7 DEF Routed, RouteFailed

LEMMA DocumentWritten ==
  ASSUME DocsOK, NEW d, NEW rec, d \in Docs => rec \in DocRow, doc' = [doc EXCEPT ![d] = rec]
  PROVE  DocsOK'
BY DEF DocsOK

(* The same for the places that assign the fields one by one.                *)
LEMMA DocumentMarked ==
  ASSUME DocsOK, NEW d, NEW s \in DocStatuses,
         \/ doc' = [doc EXCEPT ![d].status = s]
         \/ doc' = [doc EXCEPT ![d].intake = s]
         \/ doc' = [doc EXCEPT ![d].status = s, ![d].intake = s]
  PROVE  DocsOK'
<1> DEFINE a == [doc[d] EXCEPT !.status = s]
           b == [doc[d] EXCEPT !.intake = s]
           c == [a EXCEPT !.intake = s]
<1>1. CASE d \notin Docs
  BY <1>1 DEF DocsOK
<1>2. CASE d \in Docs
  <2>1. a \in DocRow /\ b \in DocRow /\ c \in DocRow
    BY <1>2, DocumentRows, FieldsWritten
  <2>2. \/ doc' = [doc EXCEPT ![d] = a] \/ doc' = [doc EXCEPT ![d] = b]
        \/ doc' = [doc EXCEPT ![d] = c]
    BY <1>2 DEF DocsOK
  <2> QED BY <2>1, <2>2, DocumentWritten
<1> QED BY <1>1, <1>2

(* The decision of a document is written with its grounds: every action      *)
(* leaves the rows in DocRow.                                                *)
LEMMA DocumentsStep == DocsOK /\ [Next]_vars => DocsOK'
<1> SUFFICES ASSUME DocsOK, [Next]_vars PROVE DocsOK'
  OBVIOUS
<1>1. CASE UNCHANGED doc
  BY <1>1 DEF DocsOK
<1>2. ASSUME NEW r \in Runs, DocumentWork(r) PROVE DocsOK'
  <2>1. CASE IngestAttachment(r)
    BY <2>1, <1>1, DocumentMarked DEF IngestAttachment, KnownContent, NewContent, DocStatuses
  <2>2. CASE EnlistAttachment(r)
    BY <2>2, <1>1, DocumentMarked DEF EnlistAttachment, Enlist, DocStatuses
  <2>3. CASE Claim(r)
    BY <2>3, <1>1, DocumentMarked DEF Claim, DocStatuses
  <2>4. CASE CreateAttempt(r)
    <3> DEFINE d == job[r].doc
    <3>1. doc' = [doc EXCEPT ![d] = [doc[d] EXCEPT !.tries = Append(@, "PROCESSING")]]
      BY <2>4 DEF CreateAttempt
    <3>2. ASSUME d \in Docs
          PROVE  [doc[d] EXCEPT !.tries = Append(@, "PROCESSING")] \in DocRow
      <4>1. doc[d].tries \in Seq(Tried)
        BY <3>2, DocumentRows DEF DocRow, AnyDoc
      <4>2. Append(doc[d].tries, "PROCESSING") \in Seq(Tried)
        BY <4>1 DEF Tried
      <4> QED BY <3>2, <4>2, DocumentRows, FieldsWritten
    <3> QED BY <3>1, <3>2, DocumentWritten
  <2>5. CASE Classify(r)
    <3> DEFINE d == job[r].doc
               a == EndAttempt(d, "SUCCEEDED")
    <3> PICK g \in Grounds :
          \/ doc' = [doc EXCEPT ![d] = ReviewOpened(d, "SUCCEEDED")]
          \/ /\ ReviewReason(g) = "none"
             /\ doc' = [doc EXCEPT ![d] = [a EXCEPT
                            !.decision = "AUTOMATIC", !.ground = g, !.route = "PENDING"]]
      BY <2>5 DEF Classify
    <3>1. CASE doc' = [doc EXCEPT ![d] = ReviewOpened(d, "SUCCEEDED")]
      BY <3>1, DocumentRows, DocumentWritten DEF Verdicts
    <3>2. CASE /\ ReviewReason(g) = "none"
               /\ doc' = [doc EXCEPT ![d] = [a EXCEPT
                            !.decision = "AUTOMATIC", !.ground = g, !.route = "PENDING"]]
      <4>1. ASSUME d \in Docs
            PROVE  [a EXCEPT
                      !.decision = "AUTOMATIC", !.ground = g, !.route = "PENDING"] \in DocRow
        <5>1. a \in DocRow
          BY <4>1, DocumentRows DEF Verdicts
        <5> HIDE DEF a
        <5> DEFINE b == [a EXCEPT !.decision = "AUTOMATIC", !.ground = g]
        <5>2. b \in DocRow
          BY <5>1, <3>2, FieldsWritten
        <5>3. [b EXCEPT !.route = "PENDING"] \in DocRow
          BY <5>2, FieldsWritten
        <5> QED BY <5>3
      <4> QED BY <4>1, <3>2, DocumentWritten
    <3> QED BY <3>1, <3>2
  <2>6. CASE FailDocument(r) \/ FetchFails(r)
    BY <2>6, DocumentMarked DEF FailDocument, FetchFails, DocStatuses
  <2>7. CASE RouteByWorker(r) \/ RouteFailsByWorker(r)
    BY <2>7, DocumentRows, DocumentWritten DEF RouteByWorker, RouteFailsByWorker
  <2>8. CASE ResumeInterrupted(r) \/ ExhaustInterrupted(r)
    <3>1. doc' = ItemsReset(r) \/ doc' = ItemsClosed(r)
      BY <2>8 DEF ResumeInterrupted, ExhaustInterrupted
    <3> QED BY <3>1, DocumentRows DEF DocsOK, ItemsReset, ItemsClosed
  <2>9. CASE ReconcileQueued(r) \/ ReconcileRunning(r)
    <3>1. doc' = ItemsReset(r) \/ doc' = ItemsClosed(r) \/ UNCHANGED doc
      BY <2>9 DEF ReconcileQueued, ReconcileRunning
    <3> QED BY <3>1, <1>1, DocumentRows DEF DocsOK, ItemsReset, ItemsClosed
  <2>10. CASE ClassifierFails(r) \/ ClassifierBreaks(r)
    BY <2>10, DocumentRows, DocumentWritten DEF ClassifierFails, ClassifierBreaks, Verdicts
  <2> QED BY <1>2, <2>1, <2>2, <2>3, <2>4, <2>5, <2>6, <2>7, <2>8, <2>9, <2>10 DEF DocumentWork
<1>3. ASSUME NEW p \in People, DocumentRequest(p) PROVE DocsOK'
  <2>1. CASE UploadIngest(p)
    BY <2>1, <1>1, DocumentMarked DEF UploadIngest, KnownContent, NewContent, DocStatuses
  <2>2. CASE UploadEnlist(p)
    BY <2>2, <1>1, DocumentMarked DEF UploadEnlist, Enlist, DocStatuses
  <2>3. CASE RouteByRequest(p)
    BY <2>3, DocumentRows, DocumentWritten DEF RouteByRequest
  <2>4. ASSUME NEW r \in Runs, NEW d \in Docs, Resolve(p, r, d) PROVE DocsOK'
    <3> DEFINE a == [doc[d] EXCEPT !.review = "COMPLETED"]
               b == [a EXCEPT !.decision = "HUMAN_REVIEW"]
               c == [b EXCEPT !.route = "PENDING"]
    <3>1. a \in DocRow
      BY DocumentRows, FieldsWritten
    <3>2. b \in DocRow
      BY <3>1, FieldsWritten
    <3>3. c \in DocRow
      BY <3>2, FieldsWritten
    <3>4. doc' = [doc EXCEPT ![d] = c]
      BY <2>4 DEF Resolve, DocsOK
    <3> QED BY <3>3, <3>4, DocumentWritten
  <2> QED BY <1>3, <2>1, <2>2, <2>3, <2>4 DEF DocumentRequest
<1> QED BY <1>1, <1>2, <1>3, WhoWritesDocuments DEF vars

(* Only what is certain is routed without a person.  The confidence of an    *)
(* exact match is the highest of all, but nothing depends on that.           *)
THEOREM CertainlyAutomatic == Spec => []AutomaticIsCertain
<1>1. Init => DocsOK
  BY TypeInit DEF TypeInv
<1>2. DocsOK => AutomaticIsCertain
  <2> SUFFICES ASSUME DocsOK, NEW d \in Docs, doc[d].decision = "AUTOMATIC"
               PROVE  LET g == doc[d].ground IN
                      /\ g.type = "known" /\ g.client # "none" /\ ~g.ambiguous
                      /\ {g.typeConfidence, g.clientConfidence} \cap 0..(Threshold - 1) = {}
    BY DEF AutomaticIsCertain
  <2> DEFINE g == doc[d].ground
  <2>1. ReviewReason(g) = "none" /\ g \in Grounds \cup {NoGround}
    BY DEF DocsOK, DocRow, AnyDoc
  <2>2. g.type \in Types
    <3>1. ASSUME NEW prediction \in Predictions, NEW matches
          PROVE  Ground(prediction, matches).type \in Types
      BY DEF Ground, Predictions
    <3> QED BY <2>1, <3>1 DEF Grounds, NoGround, Types
  <2>3. g.type = "known" /\ g.client # "none" /\ ~g.ambiguous /\ ~TooLow(g)
    BY <2>1, <2>2 DEF ReviewReason, Types
  <2> QED BY <2>3, ConstantsAssumption DEF TooLow
<1> QED BY <1>1, <1>2, DocumentsStep, PTL DEF Spec

-----------------------------------------------------------------------------
(* Runs.                                                                   *)

(* A row that run r may be given.                                            *)
GoodRun(r, rec) ==
  /\ \E E : rec \in RunRow(E)
  /\ RunSane(r, rec)
  /\ rec.issued >= run[r].issued
  /\ run[r].status # "absent" => rec.status # "absent"

Grown ==
  /\ RunsOK'
  /\ \A r \in Runs : /\ run'[r].issued >= run[r].issued
                     /\ run[r].status # "absent" => run'[r].status # "absent"

LEMMA SameRuns == RunsOK /\ UNCHANGED run => Grown
<1> SUFFICES ASSUME RunsOK, UNCHANGED run PROVE Grown
  OBVIOUS
<1>1. \A r \in Runs : run[r].issued \in Nat
  BY DEF RunsOK, RunRow
<1> QED BY <1>1 DEF Grown, RunsOK

LEMMA RunWritten ==
  ASSUME RunsOK, NEW r, NEW rec, r \in Runs => GoodRun(r, rec), run' = [run EXCEPT ![r] = rec]
  PROVE  Grown
<1> PICK E : run \in [Runs -> RunRow(E)]
  BY DEF RunsOK
<1> PICK F : r \in Runs => rec \in RunRow(F)
  BY DEF GoodRun
<1>1. RunRow(E) \subseteq RunRow(E \cup F) /\ RunRow(F) \subseteq RunRow(E \cup F)
  BY DEF RunRow
<1>2. run' \in [Runs -> RunRow(E \cup F)]
  BY <1>1
<1>3. ASSUME NEW q \in Runs
      PROVE  /\ RunSane(q, run'[q]) /\ run'[q].issued >= run[q].issued
             /\ run[q].status # "absent" => run'[q].status # "absent"
  <2>1. run[q].issued \in Nat
    BY DEF RunRow
  <2> QED BY <2>1 DEF GoodRun, RunsOK
<1> QED BY <1>2, <1>3 DEF Grown, RunsOK

LEMMA Verdicts5 ==
  \A r : Verdict(r) \in {"AWAITING_REVIEW", "RUNNING", "SUCCEEDED", "FAILED", "SUCCEEDED_WITH_WARNINGS"}
BY DEF Verdict

(* What the actions write into the row of a run that exists.                 *)
LEMMA RunRows ==
  ASSUME RunsOK, NEW r \in Runs, run[r].status # "absent"
  PROVE  /\ GoodRun(r, run[r])
         /\ GoodRun(r, Requeued(r))
         /\ (run[r].attempts + 1 <= MaxAttempts) => GoodRun(r, Claimed(r))
         /\ GoodRun(r, Fenced(r))
         /\ \A s \in {"RUNNING", "FAILED"} : GoodRun(r, [run[r] EXCEPT !.status = s])
         /\ \A e \in {"technical", "dispatch"} :
              GoodRun(r, [run[r] EXCEPT !.status = "FAILED", !.error = e])
         /\ \A b \in BOOLEAN : /\ GoodRun(r, [run[r] EXCEPT !.torn = b])
                               /\ GoodRun(r, [run[r] EXCEPT !.published = b])
         /\ \A n \in Nat : GoodRun(r, [run[r] EXCEPT !.failures = n])
         /\ \A i : \A o \in Outcomes : GoodRun(r, [run[r] EXCEPT !.items = [@ EXCEPT ![i] = o]])
         /\ \A t, actor : \A b \in BOOLEAN : GoodRun(r, [Recomputed(r, t, actor) EXCEPT !.torn = b])
<1> PICK E : run \in [Runs -> RunRow(E)]
  BY DEF RunsOK
<1>1. run[r] \in RunRow(E) /\ RunSane(r, run[r])
  BY DEF RunsOK
<1> USE DEF GoodRun
<1>2. GoodRun(r, run[r])
  BY <1>1 DEF RunRow
<1>3. Requeued(r) \in RunRow(E) /\ RunSane(r, Requeued(r)) /\ Requeued(r).issued >= run[r].issued
      /\ Requeued(r).status = "QUEUED" /\ Requeued(r).attempts = run[r].attempts
  <2>1. run[r].issued \in Nat /\ run[r].issued + 1 \in Nat
    BY <1>1 DEF RunRow
  <2>2. Requeued(r) \in RunRow(E)
    BY <1>1, <2>1 DEF Requeued, RunRow, Statuses
  <2>3. /\ Requeued(r).status = "QUEUED" /\ Requeued(r).attempts = run[r].attempts
        /\ Requeued(r).issued = run[r].issued + 1 /\ Requeued(r).task = run[r].issued + 1
        /\ Requeued(r).items = run[r].items /\ Requeued(r).content = run[r].content
    BY <1>1 DEF Requeued, RunRow
  <2> QED BY <1>1, <2>1, <2>2, <2>3 DEF RunSane
<1>4. ASSUME run[r].attempts + 1 <= MaxAttempts PROVE GoodRun(r, Claimed(r))
  <2>1. run[r].attempts + 1 \in 0..MaxAttempts
    BY <1>1, <1>4, ConstantsAssumption DEF RunRow
  <2>2. Claimed(r) \in RunRow(E)
    BY <1>3, <2>1 DEF Claimed, RunRow
  <2> QED BY <1>3, <2>2 DEF Claimed, RunRow, RunSane
<1>5. GoodRun(r, Fenced(r))
  <2>1. Fenced(r) \in RunRow(E)
    BY <1>1 DEF Fenced, RunRow, Statuses, Closed
  <2>2. /\ Fenced(r).status = "FAILED" /\ Fenced(r).task = 0 /\ Fenced(r).issued = run[r].issued
        /\ Fenced(r).items = run[r].items /\ Fenced(r).content = run[r].content
        /\ run[r].issued \in Nat
    BY <1>1 DEF Fenced, RunRow
  <2> QED BY <1>1, <2>1, <2>2 DEF RunSane
<1>6. ASSUME NEW s \in {"RUNNING", "FAILED"} PROVE GoodRun(r, [run[r] EXCEPT !.status = s])
  <2>1. [run[r] EXCEPT !.status = s] \in RunRow(E)
    BY <1>1 DEF RunRow, Statuses, Closed
  <2> QED BY <1>1, <2>1 DEF RunRow, RunSane
<1>7. ASSUME NEW e \in {"technical", "dispatch"}
      PROVE  GoodRun(r, [run[r] EXCEPT !.status = "FAILED", !.error = e])
  <2>1. [run[r] EXCEPT !.status = "FAILED", !.error = e] \in RunRow(E)
    BY <1>1 DEF RunRow, Statuses, Closed
  <2> QED BY <1>1, <2>1 DEF RunRow, RunSane
<1>8. ASSUME NEW b \in BOOLEAN
      PROVE  GoodRun(r, [run[r] EXCEPT !.torn = b]) /\ GoodRun(r, [run[r] EXCEPT !.published = b])
  <2>1. [run[r] EXCEPT !.torn = b] \in RunRow(E) /\ [run[r] EXCEPT !.published = b] \in RunRow(E)
    BY <1>1 DEF RunRow
  <2> QED BY <1>1, <2>1 DEF RunRow, RunSane
<1>9. ASSUME NEW n \in Nat PROVE GoodRun(r, [run[r] EXCEPT !.failures = n])
  <2>1. [run[r] EXCEPT !.failures = n] \in RunRow(E)
    BY <1>1 DEF RunRow
  <2> QED BY <1>1, <2>1 DEF RunRow, RunSane
<1>10. ASSUME NEW i, NEW o \in Outcomes
       PROVE  GoodRun(r, [run[r] EXCEPT !.items = [@ EXCEPT ![i] = o]])
  <2> DEFINE items == [run[r].items EXCEPT ![i] = o]
  <2>1. items \in Seq(Outcomes) /\ DOMAIN items = DOMAIN run[r].content
    BY <1>1, SeqReplace DEF RunRow, RunSane
  <2> HIDE DEF items
  <2>2. [run[r] EXCEPT !.items = items] \in RunRow(E)
    BY <1>1, <2>1 DEF RunRow
  <2>3. GoodRun(r, [run[r] EXCEPT !.items = items])
    BY <1>1, <2>1, <2>2 DEF RunRow, RunSane
  <2> QED BY <2>3 DEF items
<1>11. ASSUME NEW t, NEW actor, NEW b \in BOOLEAN
       PROVE  GoodRun(r, [Recomputed(r, t, actor) EXCEPT !.torn = b])
  <2> DEFINE v == Verdict(r)
             events == IF v = run[r].status THEN run[r].events
                       ELSE run[r].events \cup {StatusEvent(r, t, actor)}
             rec == [run[r] EXCEPT !.status = v, !.events = events, !.torn = b]
  <2>1. v \in Statuses \ {"absent", "PENDING"}
    BY Verdicts5 DEF Statuses, Closed
  <2> HIDE DEF v, events
  <2>2. rec \in RunRow({events})
    BY <1>1, <2>1 DEF RunRow
  <2>3. /\ rec.status = v /\ rec.task = run[r].task /\ rec.issued = run[r].issued
        /\ rec.items = run[r].items /\ rec.content = run[r].content /\ run[r].issued \in Nat
    BY <1>1 DEF RunRow
  <2> HIDE DEF rec
  <2>5. GoodRun(r, rec)
    BY <1>1, <2>1, <2>2, <2>3 DEF RunSane
  <2>4. rec = [Recomputed(r, t, actor) EXCEPT !.torn = b]
    BY <1>1 DEF Recomputed, rec, v, events, RunRow
  <2> QED BY <2>4, <2>5
<1> QED BY <1>2, <1>3, <1>4, <1>5, <1>6, <1>7, <1>8, <1>9, <1>10, <1>11

RunWork(r) ==
  \/ RequestInbox(r) \/ Publish(r) \/ Refuse(r) \/ Start(r) \/ ResumeInterrupted(r)
  \/ ExhaustInterrupted(r) \/ EnlistAttachment(r) \/ EndIngestion(r) \/ Finish(r)
  \/ FailUnhandled(r) \/ ReconcilePending(r) \/ ReconcileQueued(r) \/ ReconcileRunning(r)
RunRequest(p) ==
  \/ UploadFails(p) \/ UploadEnlist(p) \/ UploadQueue(p) \/ RecomputeByRequest(p) \/ WebDies(p)
  \/ \E r \in Runs, d \in Docs : RequestUpload(p, r, d)

LEMMA WhoWritesRuns ==
  Next => \/ UNCHANGED run
          \/ \E r \in Runs : RunWork(r)
          \/ \E p \in People : RunRequest(p)
<1> SUFFICES ASSUME Next
             PROVE  \/ UNCHANGED run
                    \/ \E r \in Runs : RunWork(r)
                    \/ \E p \in People : RunRequest(p)
  OBVIOUS
<1>1. ASSUME NEW r \in Runs, WorkerStep(r)
      PROVE  UNCHANGED run \/ RunWork(r)
  BY <1>1 DEF WorkerStep, RunWork, IngestAttachment, PickRoute, EndRoutes, Superseded, Claim,
    LeaveDocument, CreateAttempt, Classify, FailDocument, BeginRoute, CopyByWorker, RouteByWorker,
    RouteFailsByWorker, InDocument
<1>2. ASSUME NEW r \in Runs, Delivery(r) \/ Reconcile(r)
      PROVE  UNCHANGED run \/ RunWork(r)
  BY <1>2 DEF Delivery, Reconcile, RunWork, IgnoreDelivery
<1>3. ASSUME NEW p \in People, RequestStep(p)
      PROVE  UNCHANGED run \/ RunRequest(p)
  BY <1>3 DEF RequestStep, RunRequest, UploadIngest, CopyByRequest, RouteByRequest
<1>4. ASSUME Demand
      PROVE  UNCHANGED run \/ (\E r \in Runs : RunWork(r)) \/ \E p \in People : RunRequest(p)
  BY <1>4 DEF Demand, RunRequest, RunWork, Resolve, Retry
<1>5. ASSUME Failure
      PROVE  UNCHANGED run \/ (\E r \in Runs : RunWork(r)) \/ \E p \in People : RunRequest(p)
  BY <1>5 DEF Failure, RunRequest, RunWork, AttachmentFails, FetchFails, ClassifierFails,
    ClassifierBreaks, CopyByWorkerFails, LoseWorker, CopyByRequestFails, InDocument
<1> QED BY <1>1, <1>2, <1>3, <1>4, <1>5 DEF Next

(* Between an execution and its run: what is executed was requested.          *)
LEMMA Executed ==
  ASSUME JobsOK, NEW r \in Runs, Live(r)
  PROVE  run[r].status # "absent"
BY DEF JobsOK, Live

LEMMA RunsStep == TypeInv /\ [Next]_vars => Grown
<1> SUFFICES ASSUME TypeInv, [Next]_vars PROVE Grown
  OBVIOUS
<1> USE DEF TypeInv
<1>1. CASE UNCHANGED run
  BY <1>1, SameRuns
<1>2. ASSUME NEW r \in Runs, RunWork(r) PROVE Grown
  <2>1. CASE RequestInbox(r)
    <3> DEFINE rec == [Requeued(r) EXCEPT !.content = Inbox,
                                          !.items = [i \in DOMAIN Inbox |-> "none"]]
    <3> PICK E : run \in [Runs -> RunRow(E)]
      BY DEF RunsOK
    <3>1. run[r] \in RunRow(E) /\ run[r].issued \in Nat /\ run[r].issued + 1 \in Nat
      BY DEF RunRow
    <3>2. [i \in DOMAIN Inbox |-> "none"] \in Seq(Outcomes)
      BY ConstantsAssumption DEF Outcomes
    <3>3. rec \in RunRow(E)
      BY <3>1, <3>2, ConstantsAssumption DEF Requeued, RunRow, Statuses
    <3>4. /\ rec.status = "QUEUED" /\ rec.issued = run[r].issued + 1 /\ rec.task = rec.issued
          /\ rec.content = Inbox /\ rec.items = [i \in DOMAIN Inbox |-> "none"]
      BY <3>1 DEF Requeued, RunRow
    <3>5. run' = [run EXCEPT ![r] = rec]
      BY <2>1 DEF RequestInbox
    <3> HIDE DEF rec
    <3>6. GoodRun(r, rec)
      BY <3>1, <3>3, <3>4 DEF GoodRun, RunSane
    <3> QED BY <3>5, <3>6, RunWritten
  <2>2. CASE Publish(r) \/ Refuse(r)
    <3>1. run[r].status # "absent"
      BY <2>2 DEF Publish, Refuse
    <3>2. GoodRun(r, [run[r] EXCEPT !.published = TRUE])
          /\ GoodRun(r, [run[r] EXCEPT !.status = "FAILED", !.error = "dispatch"])
      BY <3>1, RunRows
    <3>3. \/ run' = [run EXCEPT ![r] = [run[r] EXCEPT !.published = TRUE]]
          \/ run' = [run EXCEPT ![r] = [run[r] EXCEPT !.status = "FAILED", !.error = "dispatch"]]
      BY <2>2 DEF Publish, Refuse, RunsOK
    <3> QED BY <3>2, <3>3, RunWritten
  <2>3. CASE Start(r) \/ ExhaustInterrupted(r)
    <3>1. run[r].status # "absent"
      BY <2>3 DEF Start, ExhaustInterrupted, Interrupted
    <3>2. \/ run' = [run EXCEPT ![r] = [run[r] EXCEPT !.status = "RUNNING"]]
          \/ run' = [run EXCEPT ![r] = Fenced(r)]
      BY <2>3 DEF Start, ExhaustInterrupted, Fenced, RunsOK
    <3> QED BY <3>1, <3>2, RunRows, RunWritten
  <2>4. CASE ResumeInterrupted(r)
    <3> PICK E : run \in [Runs -> RunRow(E)]
      BY DEF RunsOK
    <3> DEFINE rec == [run[r] EXCEPT !.attempts = @ + 1]
    <3>1. run[r] \in RunRow(E) /\ run[r].status = "RUNNING" /\ RunSane(r, run[r])
      BY <2>4 DEF ResumeInterrupted, Interrupted, RunsOK
    <3>2. run[r].attempts + 1 \in 0..MaxAttempts /\ run[r].issued \in Nat
      BY <2>4, <3>1, ConstantsAssumption DEF ResumeInterrupted, Exhausted, RunRow
    <3>3. rec \in RunRow(E)
      BY <3>1, <3>2 DEF RunRow
    <3>4. /\ rec.status = run[r].status /\ rec.issued = run[r].issued /\ rec.task = run[r].task
          /\ rec.content = run[r].content /\ rec.items = run[r].items
      BY <3>1 DEF RunRow
    <3>5. run' = [run EXCEPT ![r] = rec]
      BY <2>4 DEF ResumeInterrupted
    <3> HIDE DEF rec
    <3>6. GoodRun(r, rec)
      BY <3>1, <3>2, <3>3, <3>4 DEF GoodRun, RunSane
    <3> QED BY <3>5, <3>6, RunWritten
  <2>5. CASE EnlistAttachment(r)
    <3>1. run[r].status # "absent"
      BY <2>5, Executed DEF EnlistAttachment, Live
    <3>2. PICK o \in Outcomes :
            run' = [run EXCEPT ![r] = [run[r] EXCEPT !.items = [@ EXCEPT ![job[r].i] = o]]]
      BY <2>5 DEF EnlistAttachment, Enlist, Outcomes
    <3>3. GoodRun(r, [run[r] EXCEPT !.items = [@ EXCEPT ![job[r].i] = o]])
      BY <3>1, RunRows
    <3> QED BY <3>2, <3>3, RunWritten
  <2>6. CASE EndIngestion(r)
    <3>1. run[r].status # "absent"
      BY <2>6, Executed DEF EndIngestion, Live
    <3>2. job[r].failures \in Nat /\ run[r].failures \in Nat
      BY DEF JobsOK, JobRow, RunsOK, RunRow
    <3>3. PICK n \in Nat : run' = [run EXCEPT ![r] = [run[r] EXCEPT !.failures = n]]
      BY <2>6, <3>2 DEF EndIngestion
    <3> QED BY <3>1, <3>3, RunRows, RunWritten
  <2>7. CASE Finish(r) \/ FailUnhandled(r)
    <3>1. run[r].status # "absent"
      BY <2>7 DEF Finish, FailUnhandled, Fence
    <3>2. \/ run' = [run EXCEPT ![r] = [run[r] EXCEPT !.status = "FAILED", !.error = "technical"]]
          \/ run' = [run EXCEPT ![r] = [Recomputed(r, run[r].task, "worker") EXCEPT !.torn = FALSE]]
      BY <2>7 DEF Finish, FailUnhandled, RunsOK
    <3>3. GoodRun(r, [run[r] EXCEPT !.status = "FAILED", !.error = "technical"])
      BY <3>1, RunRows
    <3>4. GoodRun(r, [Recomputed(r, run[r].task, "worker") EXCEPT !.torn = FALSE])
      BY <3>1, RunRows
    <3> QED BY <3>2, <3>3, <3>4, RunWritten
  <2>8. CASE ReconcilePending(r) \/ ReconcileQueued(r) \/ ReconcileRunning(r)
    <3> PICK E : run \in [Runs -> RunRow(E)]
      BY DEF RunsOK
    <3>1. run[r].status # "absent" /\ RunSane(r, run[r]) /\ run[r].attempts \in Nat
      BY <2>8 DEF ReconcilePending, ReconcileQueued, ReconcileRunning, RunsOK, RunRow
    <3>2. \/ run' = [run EXCEPT ![r] = Fenced(r)]
          \/ /\ run' = [run EXCEPT ![r] = Claimed(r)]
             /\ run[r].status = "PENDING" \/ ~Exhausted(r)
      BY <2>8 DEF ReconcilePending, ReconcileQueued, ReconcileRunning
    <3>3. run[r].status = "PENDING" \/ ~Exhausted(r) => run[r].attempts + 1 <= MaxAttempts
      BY <3>1, ConstantsAssumption DEF RunSane, Exhausted
    <3> QED BY <3>1, <3>2, <3>3, RunRows, RunWritten
  <2> QED BY <1>2, <2>1, <2>2, <2>3, <2>4, <2>5, <2>6, <2>7, <2>8 DEF RunWork
<1>3. ASSUME NEW p \in People, RunRequest(p) PROVE Grown
  <2> DEFINE r == web[p].run
  <2>1. ASSUME web[p].pc # "none" PROVE r \in Runs /\ run[r].status # "absent"
    BY <2>1 DEF WebOK, WebSane
  <2>2. CASE UploadFails(p) \/ UploadQueue(p) \/ WebDies(p)
    <3>1. r \in Runs /\ run[r].status # "absent"
      BY <2>1, <2>2 DEF UploadFails, UploadQueue, WebDies
    <3>2. \/ run' = [run EXCEPT ![r] = [run[r] EXCEPT !.status = "FAILED", !.error = "technical"]]
          \/ run' = [run EXCEPT ![r] = Requeued(r)]
          \/ run' = [run EXCEPT ![r] = [run[r] EXCEPT !.torn = TRUE]]
      BY <2>2 DEF UploadFails, UploadQueue, WebDies, RunsOK
    <3>3. GoodRun(r, [run[r] EXCEPT !.status = "FAILED", !.error = "technical"])
      BY <3>1, RunRows
    <3>4. GoodRun(r, Requeued(r)) /\ GoodRun(r, [run[r] EXCEPT !.torn = TRUE])
      BY <3>1, RunRows
    <3> HIDE DEF r
    <3> QED BY <3>2, <3>3, <3>4, RunWritten
  <2>3. CASE UploadEnlist(p)
    <3>1. r \in Runs /\ run[r].status # "absent"
      BY <2>1, <2>3 DEF UploadEnlist
    <3>2. PICK o \in Outcomes :
            run' = [run EXCEPT ![r] = [run[r] EXCEPT !.items = [@ EXCEPT ![1] = o]]]
      BY <2>3 DEF UploadEnlist, Enlist, Outcomes
    <3> HIDE DEF r
    <3>3. GoodRun(r, [run[r] EXCEPT !.items = [@ EXCEPT ![1] = o]])
      BY <3>1, RunRows
    <3> QED BY <3>2, <3>3, RunWritten
  <2>4. CASE RecomputeByRequest(p)
    <3>1. r \in Runs /\ run[r].status # "absent"
      BY <2>1, <2>4 DEF RecomputeByRequest
    <3>2. \/ run' = [run EXCEPT ![r] = [run[r] EXCEPT !.torn = TRUE]]
          \/ run' = [run EXCEPT ![r] = [Recomputed(r, 0, p) EXCEPT !.torn = Live(r)]]
      BY <2>4 DEF RecomputeByRequest
    <3>3. Live(r) \in BOOLEAN
      BY DEF Live
    <3> HIDE DEF r
    <3>4. GoodRun(r, [run[r] EXCEPT !.torn = TRUE])
      BY <3>1, RunRows
    <3>5. GoodRun(r, [Recomputed(r, 0, p) EXCEPT !.torn = Live(r)])
      BY <3>1, <3>3, RunRows
    <3> QED BY <3>2, <3>4, <3>5, RunWritten
  <2>5. ASSUME NEW q \in Runs, NEW d \in Docs, RequestUpload(p, q, d) PROVE Grown
    <3> DEFINE rec == [run[q] EXCEPT !.status = "PENDING", !.content = <<d>>, !.items = <<"none">>]
    <3> PICK E : run \in [Runs -> RunRow(E)]
      BY DEF RunsOK
    <3>1. run[q] \in RunRow(E) /\ RunSane(q, run[q]) /\ run[q].issued \in Nat
      BY DEF RunsOK, RunRow
    <3>2. <<d>> \in Seq(Docs) /\ <<"none">> \in Seq(Outcomes) /\ DOMAIN <<d>> = DOMAIN <<"none">>
      BY DEF Outcomes
    <3>3. rec \in RunRow(E)
      BY <3>1, <3>2 DEF RunRow, Statuses
    <3>4. /\ rec.status = "PENDING" /\ rec.issued = run[q].issued /\ rec.task = run[q].task
          /\ rec.content = <<d>> /\ rec.items = <<"none">> /\ rec.attempts = run[q].attempts
      BY <3>1 DEF RunRow
    <3>5. run' = [run EXCEPT ![q] = rec]
      BY <2>5 DEF RequestUpload
    <3> HIDE DEF rec
    <3>6. GoodRun(q, rec)
      BY <2>5, <3>1, <3>2, <3>3, <3>4, ConstantsAssumption DEF GoodRun, RunSane, RequestUpload
    <3> QED BY <3>5, <3>6, RunWritten
  <2> QED BY <1>3, <2>2, <2>3, <2>4, <2>5 DEF RunRequest
<1> QED BY <1>1, <1>2, <1>3, WhoWritesRuns DEF vars

-----------------------------------------------------------------------------
(* Messages, jobs, requests, storage.                                      *)

LEMMA Identifiers ==
  ASSUME RunsOK, NEW r \in Runs
  PROVE  run[r].issued \in Nat /\ run[r].task \in Nat /\ run[r].task <= run[r].issued
BY DEF RunsOK, RunRow, RunSane

LEMMA NewDocsAreDocs ==
  ASSUME RunsOK, NEW r \in Runs
  PROVE  NewDocs(r) \subseteq Docs
<1>1. run[r].content \in Seq(Docs) /\ DOMAIN run[r].items = DOMAIN run[r].content
  BY DEF RunsOK, RunRow, RunSane
<1>2. \A i \in DOMAIN run[r].content : run[r].content[i] \in Docs
  BY <1>1
<1> QED BY <1>1, <1>2 DEF NewDocs, Received

GoodMessage(r, m) == m \in MsgRow /\ m.task <= run[r].issued

LEMMA MessagesWritten ==
  ASSUME TypeInv, Grown, NEW r \in Runs, NEW m,
         UNCHANGED msg \/ (GoodMessage(r, m) /\ msg' = [msg EXCEPT ![r] = m])
  PROVE  MsgsOK'
<1>1. msg' \in [Runs -> MsgRow]
  BY DEF TypeInv, MsgsOK, GoodMessage
<1>2. \A q \in Runs : msg'[q].task <= run[q].issued
  BY DEF TypeInv, MsgsOK, GoodMessage
<1>3. \A q \in Runs : /\ run[q].issued \in Nat /\ run'[q].issued \in Nat
                      /\ run'[q].issued >= run[q].issued
  BY DEF TypeInv, RunsOK, Grown, RunRow
<1>4. \A q \in Runs : msg'[q].task \in Nat
  BY <1>1 DEF MsgRow
<1> QED BY <1>1, <1>2, <1>3, <1>4 DEF MsgsOK

LEMMA WhoWritesMessages ==
  Next => UNCHANGED msg \/ \E r \in Runs : Publish(r) \/ Deliver(r) \/ LoseWorker(r)
<1> SUFFICES ASSUME Next
             PROVE  \/ UNCHANGED msg
                    \/ \E r \in Runs : Publish(r) \/ Deliver(r) \/ LoseWorker(r)
  OBVIOUS
<1>1. ASSUME NEW r \in Runs, WorkerStep(r) PROVE UNCHANGED msg
  BY <1>1 DEF WorkerStep, IngestAttachment, EnlistAttachment, EndIngestion, PickRoute, EndRoutes,
    Superseded, Claim, LeaveDocument, CreateAttempt, Classify, FailDocument, BeginRoute, CopyByWorker,
    RouteByWorker, RouteFailsByWorker, Finish, InDocument
<1>2. ASSUME NEW r \in Runs, Delivery(r) \/ Reconcile(r) PROVE UNCHANGED msg \/ Deliver(r)
  BY <1>2 DEF Delivery, Reconcile, Start, ResumeInterrupted, ExhaustInterrupted, IgnoreDelivery,
    ReconcilePending, ReconcileQueued, ReconcileRunning
<1>3. ASSUME NEW p \in People, RequestStep(p) PROVE UNCHANGED msg
  BY <1>3 DEF RequestStep, UploadIngest, UploadEnlist, UploadQueue, CopyByRequest, RouteByRequest,
    RecomputeByRequest
<1>4. ASSUME Demand PROVE UNCHANGED msg \/ \E r \in Runs : Publish(r)
  BY <1>4 DEF Demand, RequestInbox, RequestUpload, Resolve, Retry
<1>5. ASSUME Failure PROVE UNCHANGED msg \/ \E r \in Runs : LoseWorker(r)
  BY <1>5 DEF Failure, Refuse, AttachmentFails, FetchFails, ClassifierFails, ClassifierBreaks,
    CopyByWorkerFails, FailUnhandled, UploadFails, CopyByRequestFails, WebDies, InDocument
<1> QED BY <1>1, <1>2, <1>3, <1>4, <1>5 DEF Next

LEMMA MessagesStep == TypeInv /\ [Next]_vars => MsgsOK'
<1> SUFFICES ASSUME TypeInv, [Next]_vars PROVE MsgsOK'
  OBVIOUS
<1>1. Grown
  BY RunsStep
<1>2. ASSUME NEW r \in Runs, Publish(r) \/ Deliver(r) \/ LoseWorker(r) PROVE MsgsOK'
  <2>1. GoodMessage(r, NoMessage)
    BY Identifiers, BlankRows DEF TypeInv, GoodMessage, NoMessage
  <2>2. GoodMessage(r, [task |-> run[r].task, redelivered |-> FALSE])
    BY Identifiers DEF TypeInv, GoodMessage, MsgRow
  <2>3. GoodMessage(r, [task |-> job[r].task, redelivered |-> TRUE])
    BY DEF TypeInv, JobsOK, JobRow, GoodMessage, MsgRow
  <2> QED BY <1>1, <1>2, <2>1, <2>2, <2>3, MessagesWritten DEF Publish, Deliver, LoseWorker
<1>3. CASE UNCHANGED msg
  <2>1. ASSUME Runs = {} PROVE MsgsOK'
    BY <1>3, <2>1 DEF TypeInv, MsgsOK
  <2>2. ASSUME NEW r \in Runs PROVE MsgsOK'
    BY <1>1, <1>3, MessagesWritten
  <2> QED BY <2>1, <2>2
<1> QED BY <1>2, <1>3, WhoWritesMessages DEF vars

GoodJob(r, rec) ==
  /\ rec \in JobRow /\ JobSane(r, rec)
  /\ rec.task <= run[r].issued
  /\ rec.pc # "none" => run[r].status # "absent"

LEMMA JobsWritten ==
  ASSUME TypeInv, Grown,
         \/ UNCHANGED job
         \/ \E r \in Runs : \E rec : GoodJob(r, rec) /\ job' = [job EXCEPT ![r] = rec]
  PROVE  JobsOK'
<1>1. \A q \in Runs : GoodJob(q, job[q])
  BY DEF TypeInv, JobsOK, GoodJob
<1>2. job' \in [Runs -> JobRow] /\ \A q \in Runs : GoodJob(q, job'[q])
  BY <1>1 DEF TypeInv, JobsOK, GoodJob
<1>3. \A q \in Runs : /\ run[q].issued \in Nat /\ run'[q].issued \in Nat
                      /\ run'[q].issued >= run[q].issued
                      /\ run[q].status # "absent" => run'[q].status # "absent"
  BY DEF TypeInv, RunsOK, Grown, RunRow
<1>4. \A q \in Runs : job'[q].task \in Nat
  BY <1>2 DEF JobRow
<1>5. \A q \in Runs : JobSane(q, job'[q])
  BY <1>2 DEF GoodJob, JobSane
<1>6. ASSUME NEW q \in Runs
      PROVE  /\ JobSane(q, job'[q]) /\ job'[q].task <= run'[q].issued
             /\ job'[q].pc # "none" => run'[q].status # "absent"
  <2> DEFINE rec == job'[q]
  <2>1. GoodJob(q, rec) /\ rec.task \in Nat /\ JobSane(q, rec)
    BY <1>2, <1>4, <1>5
  <2>2. rec.task <= run[q].issued /\ (rec.pc # "none" => run[q].status # "absent")
    BY <2>1 DEF GoodJob
  <2> HIDE DEF rec
  <2>3. rec.task <= run'[q].issued /\ (rec.pc # "none" => run'[q].status # "absent")
    BY <1>3, <2>1, <2>2
  <2> QED BY <2>1, <2>3 DEF rec
<1>7. JobsOK' = /\ job' \in [Runs -> JobRow]
                /\ \A q \in Runs : /\ JobSane(q, job'[q]) /\ job'[q].task <= run'[q].issued
                                   /\ job'[q].pc # "none" => run'[q].status # "absent"
  BY DEF JobsOK, JobSane, JobRow
<1> QED BY <1>2, <1>6, <1>7

(* What the actions write into the job of a run that is executed.            *)
LEMMA JobRows ==
  ASSUME TypeInv, NEW r \in Runs
  PROVE  /\ GoodJob(r, NoJob)
         /\ Live(r) => \A pc \in {"routes", "docs"} : GoodJob(r, Goto(r, pc)) /\ GoodJob(r, Leave(r, pc))
         /\ Live(r) => GoodJob(r, Leave(r, "done"))
         /\ Live(r) /\ job[r].doc \in Docs =>
              \A pc \in {"claimed", "classify", "route", "copy", "copied", "refused", "failing"} :
                GoodJob(r, Goto(r, pc))
         /\ \A t \in Nat : t <= run[r].issued /\ run[r].status # "absent" => GoodJob(r, FirstStep(r, t))
<1>1. job[r] \in JobRow /\ GoodJob(r, job[r]) /\ job[r].task \in Nat
  BY DEF TypeInv, JobsOK, GoodJob, JobRow
<1>2. GoodJob(r, NoJob)
  BY BlankRows, Identifiers DEF TypeInv, GoodJob, JobSane, NoJob
<1>3. ASSUME Live(r), NEW pc \in {"routes", "docs"}
      PROVE  GoodJob(r, Goto(r, pc)) /\ GoodJob(r, Leave(r, pc))
  <2>1. Goto(r, pc) \in JobRow /\ Leave(r, pc) \in JobRow
    BY <1>1 DEF Goto, Leave, JobRow, JobPlaces, NoDoc
  <2>2. /\ Goto(r, pc).pc = pc /\ Goto(r, pc).task = job[r].task
        /\ Leave(r, pc).pc = pc /\ Leave(r, pc).task = job[r].task
    BY <1>1 DEF Goto, Leave, JobRow
  <2> QED BY <1>1, <1>3, <2>1, <2>2 DEF GoodJob, JobSane, Live
<1>4. GoodJob(r, Leave(r, "done"))
  BY <1>2 DEF Leave
<1>5. ASSUME Live(r), job[r].doc \in Docs,
             NEW pc \in {"claimed", "classify", "route", "copy", "copied", "refused", "failing"}
      PROVE  GoodJob(r, Goto(r, pc))
  <2>1. Goto(r, pc) \in JobRow
    BY <1>1 DEF Goto, JobRow, JobPlaces
  <2>2. /\ Goto(r, pc).pc = pc /\ Goto(r, pc).task = job[r].task /\ Goto(r, pc).doc = job[r].doc
    BY <1>1 DEF Goto, JobRow
  <2> QED BY <1>1, <1>5, <2>1, <2>2 DEF GoodJob, JobSane, Live
<1>6. ASSUME NEW t \in Nat, t <= run[r].issued, run[r].status # "absent"
      PROVE  GoodJob(r, FirstStep(r, t))
  <2>1. PendingRoutes(r) \subseteq Docs
    BY NewDocsAreDocs DEF PendingRoutes, TypeInv
  <2>2. FirstStep(r, t) \in JobRow
    BY <2>1 DEF FirstStep, NoJob, JobRow, JobPlaces
  <2>3. /\ FirstStep(r, t).task = t /\ FirstStep(r, t).pc \in {"ingest", "routes"}
        /\ FirstStep(r, t).pc = "ingest" => r \in InboxRuns /\ FirstStep(r, t).i = 1
    BY DEF FirstStep, NoJob
  <2> QED BY <1>6, <2>2, <2>3 DEF GoodJob, JobSane
<1> QED BY <1>2, <1>3, <1>4, <1>5, <1>6

JobWork(r) ==
  \/ WorkerStep(r) \/ Start(r) \/ ResumeInterrupted(r) \/ AttachmentFails(r) \/ FetchFails(r)
  \/ ClassifierFails(r) \/ ClassifierBreaks(r) \/ CopyByWorkerFails(r) \/ FailUnhandled(r)
  \/ LoseWorker(r)

LEMMA WhoWritesJobs == Next => UNCHANGED job \/ \E r \in Runs : JobWork(r)
<1> SUFFICES ASSUME Next PROVE UNCHANGED job \/ \E r \in Runs : JobWork(r)
  OBVIOUS
<1>1. ASSUME NEW r \in Runs, Delivery(r) \/ Reconcile(r) PROVE UNCHANGED job \/ JobWork(r)
  BY <1>1 DEF Delivery, Reconcile, JobWork, ExhaustInterrupted, IgnoreDelivery, ReconcilePending,
    ReconcileQueued, ReconcileRunning
<1>2. ASSUME NEW p \in People, RequestStep(p) PROVE UNCHANGED job
  BY <1>2 DEF RequestStep, UploadIngest, UploadEnlist, UploadQueue, CopyByRequest, RouteByRequest,
    RecomputeByRequest
<1>3. ASSUME Demand PROVE UNCHANGED job
  BY <1>3 DEF Demand, RequestInbox, RequestUpload, Publish, Resolve, Retry
<1>4. ASSUME Failure PROVE UNCHANGED job \/ \E r \in Runs : JobWork(r)
  BY <1>4 DEF Failure, JobWork, Refuse, UploadFails, CopyByRequestFails, WebDies
<1> QED BY <1>1, <1>2, <1>3, <1>4 DEF Next, JobWork

LEMMA JobsStep == TypeInv /\ [Next]_vars => JobsOK'
<1> SUFFICES ASSUME TypeInv, [Next]_vars PROVE JobsOK'
  OBVIOUS
<1>0. Grown
  BY RunsStep
<1>1. CASE UNCHANGED job
  BY <1>0, <1>1, JobsWritten
<1>2. ASSUME NEW r \in Runs, JobWork(r) PROVE JobsOK'
  <2>0. job[r] \in JobRow /\ GoodJob(r, job[r]) /\ job[r].task \in Nat /\ job[r].i \in Nat
    BY DEF TypeInv, JobsOK, GoodJob, JobRow
  <2> SUFFICES ASSUME job' # job PROVE \E rec : GoodJob(r, rec) /\ Advance(r, rec)
    BY <1>0, <1>1, JobsWritten DEF Advance
  <2>1. CASE IngestAttachment(r) \/ EnlistAttachment(r) \/ AttachmentFails(r)
    <3>1. Live(r) /\ r \in InboxRuns /\ job[r].i >= 1
      BY <2>0, <2>1 DEF IngestAttachment, EnlistAttachment, AttachmentFails, Live, GoodJob, JobSane
    <3>2. GoodJob(r, NextAttachment(r)) /\ GoodJob(r, [NextAttachment(r) EXCEPT !.failures = @ + 1])
      <4> DEFINE a == NextAttachment(r)
                 b == [NextAttachment(r) EXCEPT !.failures = @ + 1]
      <4>1. a \in JobRow /\ b \in JobRow
        <5>1. job[r].i + 1 \in Nat /\ job[r].failures + 1 \in Nat
          BY <2>0 DEF JobRow
        <5>2. a \in JobRow
          BY <2>0, <5>1 DEF NextAttachment, Goto, JobRow, JobPlaces
        <5>3. a.failures = job[r].failures
          BY <2>0 DEF NextAttachment, Goto, JobRow
        <5> QED BY <5>1, <5>2, <5>3 DEF JobRow
      <4>2. /\ a.pc = "ingest" /\ a.i = job[r].i + 1 /\ a.task = job[r].task
            /\ b.pc = "ingest" /\ b.i = job[r].i + 1 /\ b.task = job[r].task
        BY <2>0 DEF NextAttachment, Goto, JobRow
      <4> QED BY <2>0, <3>1, <4>1, <4>2 DEF GoodJob, JobSane, Live
    <3>3. GoodJob(r, Goto(r, "enlist")) /\ GoodJob(r, [Goto(r, "enlist") EXCEPT !.dup = TRUE])
      <4> DEFINE a == Goto(r, "enlist")
                 b == [Goto(r, "enlist") EXCEPT !.dup = TRUE]
      <4>1. a \in JobRow /\ b \in JobRow
        BY <2>0 DEF Goto, JobRow, JobPlaces
      <4>2. /\ a.pc = "enlist" /\ a.i = job[r].i /\ a.task = job[r].task
            /\ b.pc = "enlist" /\ b.i = job[r].i /\ b.task = job[r].task
        BY <2>0 DEF Goto, JobRow
      <4> QED BY <2>0, <3>1, <4>1, <4>2 DEF GoodJob, JobSane, Live
    <3> QED BY <2>1, <3>2, <3>3 DEF IngestAttachment, EnlistAttachment, AttachmentFails
  <2>2. CASE EndIngestion(r) \/ EndRoutes(r)
    <3> DEFINE a == [Goto(r, "routes") EXCEPT !.todo = PendingRoutes(r)]
               b == [Goto(r, "docs") EXCEPT !.phase = "docs", !.todo = NewDocs(r)]
    <3>1. NewDocs(r) \subseteq Docs /\ PendingRoutes(r) \subseteq Docs
      BY NewDocsAreDocs DEF TypeInv, PendingRoutes
    <3>2. a \in JobRow /\ b \in JobRow
      BY <2>0, <3>1 DEF Goto, JobRow, JobPlaces
    <3>3. a.pc = "routes" /\ a.task = job[r].task /\ b.pc = "docs" /\ b.task = job[r].task
      BY <2>0 DEF Goto, JobRow
    <3>4. Live(r)
      BY <2>2 DEF EndIngestion, EndRoutes, Live
    <3>5. GoodJob(r, a) /\ GoodJob(r, b)
      BY <2>0, <3>2, <3>3, <3>4 DEF GoodJob, JobSane, Live
    <3> QED BY <2>2, <3>5 DEF EndIngestion, EndRoutes
  <2>3. CASE PickRoute(r)
    <3> PICK d \in job[r].todo : Advance(r, [Goto(r, "route") EXCEPT !.doc = d, !.todo = @ \ {d}])
      BY <2>3 DEF PickRoute
    <3> DEFINE a == [Goto(r, "route") EXCEPT !.doc = d, !.todo = @ \ {d}]
    <3>1. a \in JobRow /\ d \in Docs
      BY <2>0 DEF Goto, JobRow, JobPlaces
    <3>2. a.pc = "route" /\ a.task = job[r].task /\ a.doc = d
      BY <2>0 DEF Goto, JobRow
    <3>3. GoodJob(r, a)
      BY <2>0, <2>3, <3>1, <3>2 DEF GoodJob, JobSane, PickRoute
    <3> QED BY <3>3
  <2>4. CASE Claim(r)
    <3> PICK d \in job[r].todo, claimed \in BOOLEAN :
          Advance(r, [job[r] EXCEPT !.pc = IF claimed THEN "claimed" ELSE "docs",
                                    !.doc = IF claimed THEN d ELSE NoDoc,
                                    !.todo = @ \ {d}])
      BY <2>4 DEF Claim
    <3> DEFINE a == [job[r] EXCEPT !.pc = IF claimed THEN "claimed" ELSE "docs",
                                   !.doc = IF claimed THEN d ELSE NoDoc,
                                   !.todo = @ \ {d}]
    <3>1. a \in JobRow /\ d \in Docs
      BY <2>0 DEF JobRow, JobPlaces
    <3>2. a.pc = (IF claimed THEN "claimed" ELSE "docs") /\ a.task = job[r].task
          /\ a.doc = (IF claimed THEN d ELSE NoDoc)
      BY <2>0 DEF JobRow
    <3>3. GoodJob(r, a)
      BY <2>0, <2>4, <3>1, <3>2 DEF GoodJob, JobSane, Claim
    <3> QED BY <3>3
  <2>5. CASE Superseded(r) \/ LeaveDocument(r) \/ FailDocument(r) \/ FetchFails(r) \/ RouteByWorker(r)
    <3>1. Live(r) /\ job[r].phase \in {"routes", "docs"}
      BY <2>0, <2>5 DEF Superseded, LeaveDocument, FailDocument, FetchFails, RouteByWorker, InDocument,
        Live, JobRow
    <3>2. \E pc \in {"routes", "docs", "done"} : Advance(r, Leave(r, pc))
      BY <2>5, <3>1 DEF Superseded, LeaveDocument, FailDocument, FetchFails, RouteByWorker
    <3> QED BY <3>1, <3>2, JobRows
  <2>6. CASE CreateAttempt(r) \/ ClassifierBreaks(r) \/ CopyByWorkerFails(r)
    <3>1. Live(r) /\ job[r].doc \in Docs
      BY <2>0, <2>6 DEF CreateAttempt, ClassifierBreaks, CopyByWorkerFails, InDocument, Live, GoodJob,
        JobSane
    <3>2. \E pc \in {"classify", "failing", "refused"} : Advance(r, Goto(r, pc))
      BY <2>6 DEF CreateAttempt, ClassifierBreaks, CopyByWorkerFails
    <3> QED BY <3>1, <3>2, JobRows
  <2>7. CASE Classify(r) \/ ClassifierFails(r)
    <3>1. Live(r) /\ job[r].doc \in Docs
      BY <2>0, <2>7 DEF Classify, ClassifierFails, InDocument, Live, GoodJob, JobSane
    <3>2. Advance(r, Leave(r, "docs")) \/ Advance(r, Goto(r, "route"))
      BY <2>7 DEF Classify, ClassifierFails
    <3> QED BY <3>1, <3>2, JobRows
  <2>8. CASE BeginRoute(r) \/ CopyByWorker(r) \/ RouteFailsByWorker(r)
    <3>1. Live(r) /\ job[r].doc \in Docs /\ job[r].phase \in {"routes", "docs"}
      BY <2>0, <2>8 DEF BeginRoute, CopyByWorker, RouteFailsByWorker, InDocument, Live, GoodJob, JobSane, JobRow
    <3>2. \/ \E pc \in {"copy", "copied", "failing"} : Advance(r, Goto(r, pc))
          \/ \E pc \in {"routes", "docs"} : Advance(r, Leave(r, pc))
      BY <2>8, <3>1 DEF BeginRoute, CopyByWorker, RouteFailsByWorker
    <3> QED BY <3>1, <3>2, JobRows
  <2>9. CASE Finish(r) \/ FailUnhandled(r) \/ LoseWorker(r)
    <3>1. GoodJob(r, NoJob) /\ Leave(r, "done") = NoJob
      BY JobRows DEF Leave
    <3>2. Advance(r, NoJob)
      BY <2>9, <3>1 DEF Finish, FailUnhandled, LoseWorker, Advance
    <3> QED BY <3>1, <3>2
  <2>10. CASE Start(r) \/ ResumeInterrupted(r)
    <3>1. /\ run[r].status # "absent" /\ msg[r].task = run[r].task
          /\ Advance(r, FirstStep(r, msg[r].task))
      BY <2>10 DEF Start, ResumeInterrupted, Interrupted
    <3> QED BY <3>1, Identifiers, JobRows DEF TypeInv
  <2> QED BY <1>2, <2>1, <2>2, <2>3, <2>4, <2>5, <2>6, <2>7, <2>8, <2>9, <2>10 DEF JobWork, WorkerStep
<1> QED BY <1>1, <1>2, WhoWritesJobs DEF vars

RequestWork(p) ==
  \/ RequestStep(p) \/ UploadFails(p) \/ CopyByRequestFails(p) \/ WebDies(p)
  \/ \E r \in Runs, d \in Docs : RequestUpload(p, r, d) \/ Resolve(p, r, d) \/ Retry(p, r, d)

LEMMA WhoWritesRequests == Next => UNCHANGED web \/ \E p \in People : RequestWork(p)
<1> SUFFICES ASSUME Next PROVE UNCHANGED web \/ \E p \in People : RequestWork(p)
  OBVIOUS
<1>1. ASSUME NEW r \in Runs, WorkerStep(r) PROVE UNCHANGED web
  BY <1>1 DEF WorkerStep, IngestAttachment, EnlistAttachment, EndIngestion, PickRoute, EndRoutes,
    Superseded, Claim, LeaveDocument, CreateAttempt, Classify, FailDocument, BeginRoute, CopyByWorker,
    RouteByWorker, RouteFailsByWorker, Finish, InDocument
<1>2. ASSUME NEW r \in Runs, Delivery(r) \/ Reconcile(r) PROVE UNCHANGED web
  BY <1>2 DEF Delivery, Reconcile, Start, ResumeInterrupted, ExhaustInterrupted, IgnoreDelivery,
    Deliver, ReconcilePending, ReconcileQueued, ReconcileRunning
<1>3. ASSUME Demand PROVE UNCHANGED web \/ \E p \in People : RequestWork(p)
  BY <1>3 DEF Demand, RequestWork, RequestInbox, Publish
<1>4. ASSUME Failure PROVE UNCHANGED web \/ \E p \in People : RequestWork(p)
  BY <1>4 DEF Failure, RequestWork, Refuse, AttachmentFails, FetchFails, ClassifierFails,
    ClassifierBreaks, CopyByWorkerFails, FailUnhandled, LoseWorker, InDocument
<1> QED BY <1>1, <1>2, <1>3, <1>4 DEF Next, RequestWork

LEMMA RequestsStep == TypeInv /\ [Next]_vars => WebOK'
<1> SUFFICES ASSUME TypeInv, [Next]_vars PROVE WebOK'
  OBVIOUS
<1>0. Grown
  BY RunsStep
<1>1. CASE UNCHANGED web
  <2>1. \A p \in People : web[p].pc # "none" => web[p].run \in Runs /\ run[web[p].run].status # "absent"
    BY DEF TypeInv, WebOK, WebSane
  <2>2. \A p \in People : web[p].pc # "none" => run'[web[p].run].status # "absent"
    BY <1>0, <2>1 DEF Grown
  <2> QED BY <1>1, <2>2 DEF TypeInv, WebOK, WebSane
<1>2. ASSUME NEW p \in People, RequestWork(p) PROVE WebOK'
  <2>1. web[p] \in WebRow /\ (web[p].pc # "none" => web[p].run \in Runs /\ web[p].doc \in Docs)
    BY DEF TypeInv, WebOK, WebSane
  <2>2. ASSUME NEW rec \in WebRow, WebSane(rec), rec.pc # "none" => run'[rec.run].status # "absent",
               web' = [web EXCEPT ![p] = rec]
        PROVE  WebOK'
    <3>1. ASSUME NEW q \in People, q # p
          PROVE  WebSane(web[q]) /\ (web[q].pc # "none" => run'[web[q].run].status # "absent")
      BY <1>0 DEF TypeInv, WebOK, WebSane, Grown
    <3>2. web' \in [People -> WebRow] /\ \A q \in People : web'[q] = IF q = p THEN rec ELSE web[q]
      BY <2>2 DEF TypeInv, WebOK
    <3>3. \A q \in People : WebSane(web'[q]) /\ (web'[q].pc # "none" => run'[web'[q].run].status # "absent")
      BY <2>2, <3>1, <3>2
    <3> QED BY <3>2, <3>3 DEF WebOK, WebSane
  <2>3. ASSUME web' = [web EXCEPT ![p] = NoRequest] PROVE WebOK'
    BY <2>2, <2>3, BlankRows DEF NoRequest, WebSane
  <2>4. ASSUME web[p].pc # "none", NEW pc \in WebPlaces, NEW dup \in BOOLEAN,
               web' = [web EXCEPT ![p] = [web[p] EXCEPT !.pc = pc, !.dup = dup]]
        PROVE  WebOK'
    <3> DEFINE rec == [web[p] EXCEPT !.pc = pc, !.dup = dup]
    <3>1. rec \in WebRow /\ rec.run = web[p].run /\ rec.doc = web[p].doc
      BY <2>1 DEF WebRow
    <3>2. web[p].run \in Runs /\ run'[web[p].run].status # "absent"
      BY <1>0, <2>1, <2>4 DEF Grown, TypeInv, WebOK
    <3> QED BY <2>1, <2>2, <2>4, <3>1, <3>2 DEF WebSane
  <2>5. ASSUME NEW r \in Runs, NEW d \in Docs, NEW pc \in WebPlaces, run'[r].status # "absent",
               web' = [web EXCEPT ![p] = [pc |-> pc, run |-> r, doc |-> d, dup |-> FALSE]]
        PROVE  WebOK'
    BY <2>2, <2>5 DEF WebRow, WebSane
  <2>6. web[p].dup \in BOOLEAN /\ web[p] = [web[p] EXCEPT !.dup = web[p].dup]
    BY <2>1 DEF WebRow
  <2>7. CASE UploadIngest(p) \/ UploadEnlist(p) \/ CopyByRequest(p) \/ CopyByRequestFails(p)
               \/ RouteByRequest(p)
    <3>1. web[p].pc # "none"
      BY <2>7 DEF UploadIngest, UploadEnlist, CopyByRequest, CopyByRequestFails, RouteByRequest
    <3>2. ASSUME NEW pc
          PROVE  [web[p] EXCEPT !.pc = pc, !.dup = web[p].dup] = [web[p] EXCEPT !.pc = pc]
      BY <2>1 DEF WebRow
    <3>3. ASSUME NEW pc \in WebPlaces, web' = [web EXCEPT ![p].pc = pc] PROVE WebOK'
      <4>1. web' = [web EXCEPT ![p] = [web[p] EXCEPT !.pc = pc, !.dup = web[p].dup]]
        BY <3>2, <3>3 DEF TypeInv, WebOK
      <4> QED BY <2>4, <2>6, <3>1, <4>1
    <3>4. ASSUME web' = [web EXCEPT ![p].pc = "enlist", ![p].dup = TRUE] PROVE WebOK'
      <4>1. web' = [web EXCEPT ![p] = [web[p] EXCEPT !.pc = "enlist", !.dup = TRUE]]
        BY <3>4 DEF TypeInv, WebOK
      <4> QED BY <2>4, <3>1, <4>1 DEF WebPlaces
    <3> QED BY <2>7, <3>3, <3>4 DEF UploadIngest, UploadEnlist, CopyByRequest, CopyByRequestFails,
          RouteByRequest, WebPlaces
  <2>8. CASE UploadQueue(p) \/ RecomputeByRequest(p) \/ UploadFails(p) \/ WebDies(p)
    BY <2>3, <2>8 DEF UploadQueue, RecomputeByRequest, UploadFails, WebDies
  <2>9. ASSUME NEW r \in Runs, NEW d \in Docs,
               RequestUpload(p, r, d) \/ Resolve(p, r, d) \/ Retry(p, r, d)
        PROVE  WebOK'
    <3>1. run'[r].status # "absent"
      <4>1. CASE RequestUpload(p, r, d)
        BY <4>1 DEF RequestUpload, TypeInv, RunsOK, RunRow
      <4>2. CASE Resolve(p, r, d) \/ Retry(p, r, d)
        <5>1. NewDocs(r) # {}
          BY <4>2 DEF Resolve, Retry
        <5>2. run[r].items # <<>>
          BY <5>1 DEF NewDocs, Received
        <5> QED BY <1>0, <5>2 DEF TypeInv, RunsOK, RunSane, Grown
      <4> QED BY <2>9, <4>1, <4>2
    <3>2. \E pc \in WebPlaces :
            web' = [web EXCEPT ![p] = [pc |-> pc, run |-> r, doc |-> d, dup |-> FALSE]]
      BY <2>9 DEF RequestUpload, Resolve, Retry, WebPlaces
    <3> QED BY <2>5, <3>1, <3>2
  <2> QED BY <1>2, <2>7, <2>8, <2>9 DEF RequestWork, RequestStep
<1> QED BY <1>1, <1>2, WhoWritesRequests DEF vars

(* Calls to the storage add contents; only those of the program's documents.  *)
LEMMA StorageStep ==
  TypeInv /\ [Next]_vars =>
    /\ StoredOK'
    /\ stored.original \subseteq stored'.original /\ stored.routed \subseteq stored'.routed
    /\ \A d \in stored'.routed \ stored.routed :
         \/ \E r \in Runs : job[r].pc = "copy" /\ d = job[r].doc
         \/ \E p \in People : web[p].pc = "route" /\ d = web[p].doc
<1> DEFINE Goal ==
      /\ StoredOK'
      /\ stored.original \subseteq stored'.original /\ stored.routed \subseteq stored'.routed
      /\ \A d \in stored'.routed \ stored.routed :
           \/ \E r \in Runs : job[r].pc = "copy" /\ d = job[r].doc
           \/ \E p \in People : web[p].pc = "route" /\ d = web[p].doc
<1> SUFFICES ASSUME TypeInv, [Next]_vars PROVE Goal
  OBVIOUS
<1>0. stored \in [original : SUBSET Docs, routed : SUBSET Docs]
  BY DEF TypeInv, StoredOK
<1>1. CASE UNCHANGED stored
  BY <1>0, <1>1 DEF StoredOK
<1>2. ASSUME NEW d \in Docs,
             \/ stored' = [stored EXCEPT !.original = @ \cup {d}]
             \/ \E kept \in SUBSET {d} : stored' = [stored EXCEPT !.original = @ \cup kept]
      PROVE  Goal
  BY <1>0, <1>2 DEF StoredOK
<1>3. ASSUME NEW d \in Docs,
             \/ stored' = [stored EXCEPT !.routed = @ \cup {d}]
             \/ \E kept \in SUBSET {d} : stored' = [stored EXCEPT !.routed = @ \cup kept],
             \/ \E r \in Runs : job[r].pc = "copy" /\ d = job[r].doc
             \/ \E p \in People : web[p].pc = "route" /\ d = web[p].doc
      PROVE  Goal
  BY <1>0, <1>3 DEF StoredOK
<1>4. ASSUME NEW r \in Runs, IngestAttachment(r) \/ AttachmentFails(r) PROVE Goal
  <2> DEFINE d == Attachment(r)
  <2>1. d \in Docs
    <3>1. job[r].i \in 1..Len(Inbox) /\ r \in InboxRuns /\ run[r].status # "absent"
      BY <1>4 DEF IngestAttachment, AttachmentFails, TypeInv, JobsOK, JobSane, JobRow
    <3>2. run[r].content = Inbox
      BY <3>1 DEF TypeInv, RunsOK, RunSane
    <3> QED BY <3>1, <3>2, ConstantsAssumption DEF Attachment
  <2>2. \/ UNCHANGED stored
        \/ stored' = [stored EXCEPT !.original = @ \cup {d}]
        \/ \E kept \in SUBSET {d} : stored' = [stored EXCEPT !.original = @ \cup kept]
    BY <1>4 DEF IngestAttachment, AttachmentFails, KnownContent, NewContent, PutFails
  <2> HIDE DEF d
  <2> QED BY <1>1, <1>2, <2>1, <2>2
<1>5. ASSUME NEW r \in Runs, CopyByWorker(r) \/ CopyByWorkerFails(r) PROVE Goal
  <2>1. job[r].doc \in Docs /\ job[r].pc = "copy"
    BY <1>5 DEF CopyByWorker, CopyByWorkerFails, TypeInv, JobsOK, JobSane
  <2>2. \/ UNCHANGED stored
        \/ stored' = [stored EXCEPT !.routed = @ \cup {job[r].doc}]
        \/ \E kept \in SUBSET {job[r].doc} : stored' = [stored EXCEPT !.routed = @ \cup kept]
    BY <1>5 DEF CopyByWorker, CopyByWorkerFails, CopySucceeds, CopyFails
  <2> QED BY <1>1, <1>3, <2>1, <2>2
<1>6. ASSUME NEW p \in People, UploadIngest(p) \/ UploadFails(p) PROVE Goal
  <2>1. web[p].doc \in Docs
    BY <1>6 DEF UploadIngest, UploadFails, TypeInv, WebOK, WebSane
  <2>2. \/ UNCHANGED stored
        \/ stored' = [stored EXCEPT !.original = @ \cup {web[p].doc}]
        \/ \E kept \in SUBSET {web[p].doc} : stored' = [stored EXCEPT !.original = @ \cup kept]
    BY <1>6 DEF UploadIngest, UploadFails, KnownContent, NewContent, PutFails
  <2> QED BY <1>1, <1>2, <2>1, <2>2
<1>7. ASSUME NEW p \in People, CopyByRequest(p) \/ CopyByRequestFails(p) PROVE Goal
  <2>1. web[p].doc \in Docs /\ web[p].pc = "route"
    BY <1>7 DEF CopyByRequest, CopyByRequestFails, TypeInv, WebOK, WebSane
  <2>2. \/ UNCHANGED stored
        \/ stored' = [stored EXCEPT !.routed = @ \cup {web[p].doc}]
        \/ \E kept \in SUBSET {web[p].doc} : stored' = [stored EXCEPT !.routed = @ \cup kept]
    BY <1>7 DEF CopyByRequest, CopyByRequestFails, CopySucceeds, CopyFails
  <2> QED BY <1>1, <1>3, <2>1, <2>2
<1>8. Next => \/ UNCHANGED stored
              \/ \E r \in Runs : \/ IngestAttachment(r) \/ AttachmentFails(r)
                                \/ CopyByWorker(r) \/ CopyByWorkerFails(r)
              \/ \E p \in People : \/ UploadIngest(p) \/ UploadFails(p)
                                  \/ CopyByRequest(p) \/ CopyByRequestFails(p)
  <2>1. ASSUME NEW r \in Runs, WorkerStep(r)
        PROVE  UNCHANGED stored \/ IngestAttachment(r) \/ CopyByWorker(r)
    BY <2>1 DEF WorkerStep, EnlistAttachment, EndIngestion, PickRoute, EndRoutes,
      Superseded, Claim, LeaveDocument, CreateAttempt, Classify, FailDocument, BeginRoute,
      RouteByWorker, RouteFailsByWorker, Finish, InDocument
  <2>2. ASSUME NEW r \in Runs, Delivery(r) \/ Reconcile(r) PROVE UNCHANGED stored
    BY <2>2 DEF Delivery, Reconcile, Start, ResumeInterrupted, ExhaustInterrupted, IgnoreDelivery,
      Deliver, ReconcilePending, ReconcileQueued, ReconcileRunning
  <2>3. ASSUME NEW p \in People, RequestStep(p)
        PROVE  UNCHANGED stored \/ UploadIngest(p) \/ CopyByRequest(p)
    BY <2>3 DEF RequestStep, UploadEnlist, UploadQueue, RouteByRequest, RecomputeByRequest
  <2>4. ASSUME Demand PROVE UNCHANGED stored
    BY <2>4 DEF Demand, RequestInbox, RequestUpload, Publish, Resolve, Retry
  <2>5. ASSUME Failure
        PROVE  \/ UNCHANGED stored
               \/ \E r \in Runs : AttachmentFails(r) \/ CopyByWorkerFails(r)
               \/ \E p \in People : UploadFails(p) \/ CopyByRequestFails(p)
    BY <2>5 DEF Failure, Refuse, FetchFails, ClassifierFails, ClassifierBreaks, FailUnhandled,
      LoseWorker, WebDies, InDocument
  <2> QED BY <2>1, <2>2, <2>3, <2>4, <2>5 DEF Next
<1> HIDE DEF Goal
<1> QED BY <1>1, <1>4, <1>5, <1>6, <1>7, <1>8 DEF vars

LEMMA FaultsStep == FaultsOK /\ [Next]_vars => FaultsOK'
<1> SUFFICES ASSUME FaultsOK, [Next]_vars PROVE FaultsOK'
  OBVIOUS
<1>1. ASSUME NEW kind, Fault(kind) PROVE FaultsOK'
  BY <1>1, ConstantsAssumption DEF Fault, FaultsOK
<1>2. CASE UNCHANGED faults
  BY <1>2 DEF FaultsOK
<1>3. Next => UNCHANGED faults \/ \E kind : Fault(kind)
  <2>1. Failure => \E kind : Fault(kind)
    BY DEF Failure, Refuse, AttachmentFails, FetchFails, ClassifierFails, ClassifierBreaks,
      CopyByWorkerFails, CopyFails, FailUnhandled, LoseWorker, UploadFails, CopyByRequestFails, WebDies
  <2> QED BY <2>1 DEF Next, WorkerStep, Delivery, Reconcile, RequestStep, Demand
<1> QED BY <1>1, <1>2, <1>3 DEF vars

LEMMA TypeStep == TypeInv /\ [Next]_vars => TypeInv'
BY RunsStep, DocumentsStep, MessagesStep, JobsStep, RequestsStep, StorageStep, FaultsStep
   DEF TypeInv, Grown

(* Every row stays in its type: no recovery beyond the limit, an identifier   *)
(* that was issued, an outcome per content, work on documents only.           *)
THEOREM TypeCorrect == Spec => []TypeOK
BY TypeInit, TypeStep, TypeInvImpliesTypeOK, PTL DEF Spec

-----------------------------------------------------------------------------
(* Routing: what is shown as routed was decided and lies in the storage,    *)
(* whatever calls fail and whoever dies.                                     *)

Exists(d) == doc[d].status # "absent"
Decided(d) == Exists(d) /\ doc[d].decision # "none"

(* Between the row of a document and the storage.                            *)
DocSound(d) ==
  /\ Exists(d) => d \in stored.original
  /\ doc[d].review # "none" => Exists(d)
  /\ doc[d].route # "none" => Decided(d)
  /\ doc[d].status = "ROUTED" \/ doc[d].route = "ROUTED" => d \in stored.routed
  /\ d \in stored.routed => Decided(d)

(* Between a job or a request and the document it has in hand: only what was *)
(* decided is copied, and a copy that succeeded lies in the storage.         *)
InHand(pc, d) ==
  /\ pc \in {"claimed", "classify", "failing"} => Exists(d)
  /\ pc \in {"route", "copy", "copied", "refused"} => Decided(d)
  /\ pc = "copied" => d \in stored.routed

(* The first loop of a job holds what is to be routed and was decided.       *)
HandsOK ==
  /\ \A r \in Runs :
       /\ InHand(job[r].pc, job[r].doc)
       /\ job[r].pc \in {"ingest", "enlist", "routes"} => job[r].phase = "routes"
       /\ job[r].phase = "routes" => \A d \in job[r].todo : Decided(d)
  /\ \A p \in People : InHand(web[p].pc, web[p].doc)

RouteInv == (\A d \in Docs : DocSound(d)) /\ HandsOK

LEMMA RouteInit == Init => RouteInv
<1> SUFFICES ASSUME Init PROVE RouteInv
  OBVIOUS
<1>1. \A d \in Docs : DocSound(d)
  BY DEF Init, NoDocument, DocSound, Exists
<1>2. HandsOK
  BY DEF Init, NoJob, NoRequest, HandsOK, InHand
<1> QED BY <1>1, <1>2 DEF RouteInv

LEMMA RouteInvImpliesRoutedIsStored == RouteInv => RoutedIsStored
BY DEF RouteInv, DocSound, Decided, Exists, RoutedIsStored

-----------------------------------------------------------------------------
(* Documents.  What an action leaves in a document that existed.            *)

(* old became new without losing its decision or its existence; what it has  *)
(* gained is in the storage.                                                 *)
Kept(old, new) ==
  /\ new.status # "absent"
  /\ new.decision = old.decision
  /\ new.status = "ROUTED" => old.status = "ROUTED"
  /\ new.route = "ROUTED" => old.route = "ROUTED"
  /\ new.route # "none" => old.route # "none"

LEMMA KeptRows ==
  ASSUME DocsOK, NEW d \in Docs, Exists(d)
  PROVE  /\ Kept(doc[d], doc[d])
         /\ \A v \in Verdicts : Kept(doc[d], EndAttempt(d, v)) /\ Kept(doc[d], ReviewOpened(d, v))
         /\ \A r : Kept(doc[d], ItemsReset(r)[d]) /\ Kept(doc[d], ItemsClosed(r)[d])
<1>1. doc[d] \in AnyDoc
  BY DEF DocsOK, DocRow
<1>2. ASSUME NEW v \in Verdicts
      PROVE  Kept(doc[d], EndAttempt(d, v)) /\ Kept(doc[d], ReviewOpened(d, v))
  BY <1>1 DEF EndAttempt, ReviewOpened, AnyDoc, Kept, Exists
<1>3. ASSUME NEW r PROVE Kept(doc[d], ItemsReset(r)[d])
  <2>1. CASE InterruptedDoc(d)
    BY <1>1, <2>1 DEF ItemsReset, Reopened, AnyDoc, Kept, Exists
  <2>2. CASE ~InterruptedDoc(d)
    BY <1>1, <2>2 DEF ItemsReset, AnyDoc, Kept, Exists
  <2> QED BY <2>1, <2>2
<1>4. ASSUME NEW r PROVE Kept(doc[d], ItemsClosed(r)[d])
  BY <1>1 DEF ItemsClosed, AnyDoc, Kept, Exists
<1> QED BY <1>1, <1>2, <1>3, <1>4 DEF Kept, Exists

(* What a step may do to a document.                                         *)
Progress(d) ==
  /\ DocSound(d)'
  /\ Exists(d) => Exists(d)'
  /\ Decided(d) => Decided(d)'

Untouched(d) ==
  /\ doc'[d].status = doc[d].status /\ doc'[d].review = doc[d].review
  /\ doc'[d].decision = doc[d].decision /\ doc'[d].route = doc[d].route
Entered(d) ==
  /\ doc'[d].status # "absent" /\ doc'[d].status # "ROUTED" /\ d \in stored'.original
  /\ doc'[d].review = doc[d].review /\ doc'[d].decision = doc[d].decision
  /\ doc'[d].route = doc[d].route
JudgedNow(d) ==
  /\ doc'[d].status = doc[d].status
  /\ doc'[d].decision # "none" /\ doc'[d].route # "ROUTED"
RoutedNow(d) ==
  /\ d \in stored'.routed
  /\ doc'[d].status = "ROUTED" /\ doc'[d].decision = doc[d].decision
RefusedNow(d) ==
  /\ doc'[d].status = "FAILED" /\ doc'[d].route = "FAILED" /\ doc'[d].decision = doc[d].decision

LEMMA ProgressOf ==
  ASSUME NEW d \in Docs, DocSound(d),
         d \in stored.original => d \in stored'.original,
         d \in stored.routed => d \in stored'.routed,
         d \in stored'.routed => d \in stored.routed \/ Decided(d),
         \/ Untouched(d) \/ Entered(d)
         \/ Exists(d) /\ Kept(doc[d], doc'[d])
         \/ Exists(d) /\ JudgedNow(d)
         \/ Decided(d) /\ RoutedNow(d)
         \/ Decided(d) /\ RefusedNow(d)
  PROVE  Progress(d)
<1>1. CASE Untouched(d)
  BY <1>1 DEF DocSound, Exists, Decided, Progress, Untouched
<1>2. CASE Entered(d)
  BY <1>2 DEF DocSound, Exists, Decided, Progress, Entered
<1>3. CASE Exists(d) /\ Kept(doc[d], doc'[d])
  BY <1>3 DEF DocSound, Exists, Decided, Progress, Kept
<1>4. CASE Exists(d) /\ JudgedNow(d)
  BY <1>4 DEF DocSound, Exists, Decided, Progress, JudgedNow
<1>5. CASE Decided(d) /\ RoutedNow(d)
  BY <1>5 DEF DocSound, Exists, Decided, Progress, RoutedNow
<1>6. CASE Decided(d) /\ RefusedNow(d)
  BY <1>6 DEF DocSound, Exists, Decided, Progress, RefusedNow
<1> QED BY <1>1, <1>2, <1>3, <1>4, <1>5, <1>6

(* The storage grows by what was decided.                                    *)
LEMMA StorageGrows ==
  ASSUME TypeInv, RouteInv, [Next]_vars, NEW d \in Docs
  PROVE  /\ d \in stored.original => d \in stored'.original
         /\ d \in stored.routed => d \in stored'.routed
         /\ d \in stored'.routed => d \in stored.routed \/ Decided(d)
<1>1. (\E r \in Runs : job[r].pc = "copy" /\ d = job[r].doc) => Decided(d)
  BY DEF RouteInv, HandsOK, InHand
<1>2. (\E p \in People : web[p].pc = "route" /\ d = web[p].doc) => Decided(d)
  BY DEF RouteInv, HandsOK, InHand
<1> QED BY <1>1, <1>2, StorageStep

LEMMA Changed ==
  ASSUME DocsOK, NEW d \in Docs, NEW e, NEW rec, doc' = [doc EXCEPT ![e] = rec]
  PROVE  (d # e => Untouched(d)) /\ (d = e => doc'[d] = rec)
BY DEF DocsOK, Untouched

LEMMA Marked ==
  ASSUME DocsOK, NEW d \in Docs, NEW e, NEW s \in DocStatuses, s # "ROUTED", Exists(e),
         \/ doc' = [doc EXCEPT ![e].status = s]
         \/ doc' = [doc EXCEPT ![e].intake = s]
         \/ doc' = [doc EXCEPT ![e].status = s, ![e].intake = s]
  PROVE  Untouched(d) \/ (Exists(d) /\ Kept(doc[d], doc'[d]))
<1>1. doc[d] \in AnyDoc
  BY DEF DocsOK, DocRow
<1>2. CASE d # e
  <2>1. doc'[d] = doc[d]
    BY <1>2 DEF DocsOK
  <2>2. Untouched(d)
    BY <2>1 DEF Untouched
  <2> QED BY <2>2
<1>3. CASE d = e
  BY <1>1, <1>3 DEF DocsOK, Kept, Exists, AnyDoc, DocStatuses
<1> QED BY <1>2, <1>3

LEMMA DocumentsProgress ==
  ASSUME TypeInv, RouteInv, [Next]_vars, NEW d \in Docs
  PROVE  Progress(d)
<1> DEFINE Goal == \/ Untouched(d) \/ Entered(d)
                   \/ Exists(d) /\ Kept(doc[d], doc'[d])
                   \/ Exists(d) /\ JudgedNow(d)
                   \/ Decided(d) /\ RoutedNow(d)
                   \/ Decided(d) /\ RefusedNow(d)
<1> SUFFICES Goal
  BY StorageGrows, ProgressOf DEF RouteInv
<1>0. DocsOK /\ doc[d] \in AnyDoc
  BY DEF TypeInv, DocsOK, DocRow
<1>1. CASE UNCHANGED doc
  BY <1>1 DEF Untouched
<1>2. ASSUME NEW r \in Runs, DocumentWork(r) PROVE Goal
  <2> DEFINE e == job[r].doc
  <2>0. InHand(job[r].pc, e)
    BY DEF RouteInv, HandsOK
  <2>1. CASE IngestAttachment(r)
    <3> DEFINE x == Attachment(r)
    <3>1. UNCHANGED doc \/ (doc' = [doc EXCEPT ![x].status = "QUEUED"] /\ x \in stored'.original)
      BY <2>1, StorageStep DEF IngestAttachment, KnownContent, NewContent, TypeInv, StoredOK
    <3> HIDE DEF x
    <3> QED BY <1>0, <1>1, <3>1 DEF DocsOK, Untouched, Entered, AnyDoc
  <2>2. CASE EnlistAttachment(r)
    <3>1. \E x : UNCHANGED doc \/ doc' = [doc EXCEPT ![x].intake = "QUEUED"]
      BY <2>2 DEF EnlistAttachment, Enlist
    <3> QED BY <1>0, <3>1 DEF DocsOK, Untouched, AnyDoc
  <2>3. CASE Claim(r)
    <3>1. \/ UNCHANGED doc
          \/ \E x \in job[r].todo : /\ doc[x].status = "QUEUED"
                                    /\ doc' = [doc EXCEPT ![x].status = "PROCESSING",
                                                          ![x].intake = "PROCESSING"]
      BY <2>3 DEF Claim
    <3> QED BY <1>0, <1>1, <3>1, Marked DEF Exists, DocStatuses
  <2>4. CASE CreateAttempt(r)
    <3>1. \E t : doc' = [doc EXCEPT ![e].tries = t]
      BY <2>4 DEF CreateAttempt
    <3> QED BY <1>0, <3>1 DEF DocsOK, Untouched, AnyDoc
  <2>5. CASE Classify(r)
    <3>1. Exists(e) /\ e \in Docs
      BY <2>0, <2>5 DEF Classify, InDocument, InHand, TypeInv, JobsOK, JobSane
    <3>2. PICK g \in Grounds :
            \/ doc' = [doc EXCEPT ![e] = ReviewOpened(e, "SUCCEEDED")]
            \/ doc' = [doc EXCEPT ![e] = [EndAttempt(e, "SUCCEEDED") EXCEPT
                            !.decision = "AUTOMATIC", !.ground = g, !.route = "PENDING"]]
      BY <2>5 DEF Classify
    <3>3. Kept(doc[e], ReviewOpened(e, "SUCCEEDED"))
      BY <1>0, <3>1, KeptRows DEF Verdicts
    <3>4. ASSUME d = e
          PROVE  LET new == [EndAttempt(e, "SUCCEEDED") EXCEPT
                               !.decision = "AUTOMATIC", !.ground = g, !.route = "PENDING"]
                 IN new.status = doc[e].status /\ new.decision = "AUTOMATIC" /\ new.route = "PENDING"
      BY <1>0, <3>4 DEF EndAttempt, AnyDoc
    <3>5. CASE d # e
      BY <1>0, <3>2, <3>5, Changed
    <3>6. CASE d = e
      <4>1. CASE doc' = [doc EXCEPT ![e] = ReviewOpened(e, "SUCCEEDED")]
        <5>1. doc'[d] = ReviewOpened(e, "SUCCEEDED")
          BY <1>0, <3>6, <4>1 DEF DocsOK
        <5>2. Exists(d) /\ Kept(doc[d], doc'[d])
          BY <3>1, <3>3, <3>6, <5>1
        <5> QED BY <5>2
      <4>2. CASE doc' = [doc EXCEPT ![e] = [EndAttempt(e, "SUCCEEDED") EXCEPT
                            !.decision = "AUTOMATIC", !.ground = g, !.route = "PENDING"]]
        <5>1. doc'[d] = [EndAttempt(e, "SUCCEEDED") EXCEPT
                            !.decision = "AUTOMATIC", !.ground = g, !.route = "PENDING"]
          BY <1>0, <3>6, <4>2 DEF DocsOK
        <5>2. JudgedNow(d)
          BY <3>4, <3>6, <5>1 DEF JudgedNow
        <5> QED BY <3>1, <3>6, <5>2
      <4> QED BY <3>2, <4>1, <4>2
    <3> QED BY <3>5, <3>6
  <2>6. CASE FailDocument(r) \/ FetchFails(r)
    <3>1. Exists(e)
      BY <2>0, <2>6 DEF FailDocument, FetchFails, InDocument, InHand
    <3> QED BY <1>0, <2>6, <3>1, Marked DEF FailDocument, FetchFails, DocStatuses
  <2>7. CASE RouteByWorker(r) \/ RouteFailsByWorker(r)
    <3>1. Decided(e) /\ (RouteByWorker(r) => e \in stored.routed)
      BY <2>0, <2>7 DEF RouteByWorker, RouteFailsByWorker, InDocument, InHand
    <3>2. ASSUME d = e
          PROVE  /\ Routed(e).status = "ROUTED" /\ Routed(e).decision = doc[e].decision
                 /\ RouteFailed(e).status = "FAILED" /\ RouteFailed(e).route = "FAILED"
                 /\ RouteFailed(e).decision = doc[e].decision
      BY <1>0, <3>2 DEF Routed, RouteFailed, AnyDoc
    <3>3. CASE RouteByWorker(r)
      <4>1. doc' = [doc EXCEPT ![e] = Routed(e)]
        BY <3>3 DEF RouteByWorker
      <4>2. CASE d # e
        BY <1>0, <4>1, <4>2, Changed
      <4>3. CASE d = e
        <5>1. doc'[d] = Routed(e) /\ d \in stored'.routed
          BY <1>0, <3>1, <3>3, <4>1, <4>3, StorageGrows DEF DocsOK
        <5> QED BY <3>1, <3>2, <4>3, <5>1 DEF RoutedNow
      <4> QED BY <4>2, <4>3
    <3>4. CASE RouteFailsByWorker(r)
      <4>1. doc' = [doc EXCEPT ![e] = RouteFailed(e)]
        BY <3>4 DEF RouteFailsByWorker
      <4> QED BY <1>0, <3>1, <3>2, <4>1, Changed DEF RefusedNow
    <3> QED BY <2>7, <3>3, <3>4
  <2>8. CASE \/ ResumeInterrupted(r) \/ ExhaustInterrupted(r)
             \/ ReconcileQueued(r) \/ ReconcileRunning(r)
    <3>1. doc' = ItemsReset(r) \/ doc' = ItemsClosed(r) \/ UNCHANGED doc
      BY <2>8 DEF ResumeInterrupted, ExhaustInterrupted, ReconcileQueued, ReconcileRunning
    <3>2. CASE Exists(d)
      BY <1>0, <1>1, <3>1, <3>2, KeptRows
    <3>3. CASE ~Exists(d)
      <4>1. doc[d].status = "absent" /\ doc[d].route # "PENDING" /\ ~InterruptedDoc(d) /\ ~Abandoned(d)
        BY <3>3 DEF Exists, InterruptedDoc, Abandoned, Unfinished, RouteInv, DocSound, Decided
      <4>2. CASE doc' = ItemsReset(r)
        BY <1>0, <4>1, <4>2 DEF Untouched, ItemsReset, AnyDoc
      <4>3. CASE doc' = ItemsClosed(r)
        BY <1>0, <4>1, <4>3 DEF Untouched, ItemsClosed, AnyDoc
      <4> QED BY <1>1, <3>1, <4>2, <4>3
    <3> QED BY <3>2, <3>3
  <2>9. CASE ClassifierFails(r) \/ ClassifierBreaks(r)
    <3>1. Exists(e) /\ e \in Docs
      BY <2>0, <2>9 DEF ClassifierFails, ClassifierBreaks, InDocument, InHand, TypeInv, JobsOK, JobSane
    <3>2. Kept(doc[e], ReviewOpened(e, "FAILED")) /\ Kept(doc[e], EndAttempt(e, "FAILED"))
      BY <1>0, <3>1, KeptRows DEF Verdicts
    <3>3. \/ doc' = [doc EXCEPT ![e] = ReviewOpened(e, "FAILED")]
          \/ doc' = [doc EXCEPT ![e] = EndAttempt(e, "FAILED")]
      BY <2>9 DEF ClassifierFails, ClassifierBreaks
    <3> QED BY <1>0, <3>1, <3>2, <3>3, Changed
  <2> QED BY <1>2, <2>1, <2>2, <2>3, <2>4, <2>5, <2>6, <2>7, <2>8, <2>9 DEF DocumentWork
<1>3. ASSUME NEW p \in People, DocumentRequest(p) PROVE Goal
  <2> DEFINE e == web[p].doc
  <2>1. CASE UploadIngest(p)
    <3>1. UNCHANGED doc \/ (doc' = [doc EXCEPT ![e].status = "QUEUED"] /\ e \in stored'.original)
      BY <2>1, StorageStep DEF UploadIngest, KnownContent, NewContent, TypeInv, StoredOK
    <3> HIDE DEF e
    <3> QED BY <1>0, <1>1, <3>1 DEF DocsOK, Untouched, Entered, AnyDoc
  <2>2. CASE UploadEnlist(p)
    <3>1. \E x : UNCHANGED doc \/ doc' = [doc EXCEPT ![x].intake = "QUEUED"]
      BY <2>2 DEF UploadEnlist, Enlist
    <3> QED BY <1>0, <3>1 DEF DocsOK, Untouched, AnyDoc
  <2>3. CASE RouteByRequest(p)
    <3>1. Decided(e) /\ (web[p].pc = "copied" => e \in stored.routed)
      BY <2>3 DEF RouteByRequest, RouteInv, HandsOK, InHand
    <3>2. ASSUME d = e
          PROVE  /\ Routed(e).status = "ROUTED" /\ Routed(e).decision = doc[e].decision
                 /\ RouteFailed(e).status = "FAILED" /\ RouteFailed(e).route = "FAILED"
                 /\ RouteFailed(e).decision = doc[e].decision
      BY <1>0, <3>2 DEF Routed, RouteFailed, AnyDoc
    <3>3. CASE web[p].pc = "copied"
      <4>1. doc' = [doc EXCEPT ![e] = Routed(e)]
        BY <2>3, <3>3 DEF RouteByRequest
      <4>2. CASE d # e
        BY <1>0, <4>1, <4>2, Changed
      <4>3. CASE d = e
        <5>1. doc'[d] = Routed(e) /\ d \in stored'.routed
          BY <1>0, <3>1, <3>3, <4>1, <4>3, StorageGrows DEF DocsOK
        <5> QED BY <3>1, <3>2, <4>3, <5>1 DEF RoutedNow
      <4> QED BY <4>2, <4>3
    <3>4. CASE web[p].pc # "copied"
      <4>1. doc' = [doc EXCEPT ![e] = RouteFailed(e)]
        BY <2>3, <3>4 DEF RouteByRequest
      <4> QED BY <1>0, <3>1, <3>2, <4>1, Changed DEF RefusedNow
    <3> QED BY <3>3, <3>4
  <2>4. ASSUME NEW r \in Runs, NEW x \in Docs, Resolve(p, r, x) PROVE Goal
    <3>1. Exists(x)
      BY <2>4 DEF Resolve, RouteInv, DocSound
    <3>2. doc' = [doc EXCEPT ![x].review = "COMPLETED", ![x].decision = "HUMAN_REVIEW",
                             ![x].route = "PENDING"]
      BY <2>4 DEF Resolve
    <3>3. CASE d = x
      BY <1>0, <3>1, <3>2, <3>3 DEF DocsOK, JudgedNow, AnyDoc
    <3>4. CASE d # x
      BY <1>0, <3>2, <3>4 DEF DocsOK, Untouched, AnyDoc
    <3> QED BY <3>3, <3>4
  <2> QED BY <1>3, <2>1, <2>2, <2>3, <2>4 DEF DocumentRequest
<1> HIDE DEF Goal
<1> QED BY <1>1, <1>2, <1>3, WhoWritesDocuments DEF vars

-----------------------------------------------------------------------------
(* What jobs and requests have in hand.                                    *)

ExistsAfter(d) == doc'[d].status # "absent"
DecidedAfter(d) == ExistsAfter(d) /\ doc'[d].decision # "none"
InHandAfter(pc, d) ==
  /\ pc \in {"claimed", "classify", "failing"} => ExistsAfter(d)
  /\ pc \in {"route", "copy", "copied", "refused"} => DecidedAfter(d)
  /\ pc = "copied" => d \in stored'.routed
JobAfter(rec) ==
  /\ InHandAfter(rec.pc, rec.doc)
  /\ rec.pc \in {"ingest", "enlist", "routes"} => rec.phase = "routes"
  /\ rec.phase = "routes" => \A d \in rec.todo : DecidedAfter(d)

(* Existence, decisions and copies are never undone.                         *)
LEMMA NeverUndone ==
  ASSUME TypeInv, RouteInv, [Next]_vars, NEW d \in Docs
  PROVE  /\ Exists(d) => ExistsAfter(d)
         /\ Decided(d) => DecidedAfter(d)
         /\ d \in stored.routed => d \in stored'.routed
BY DocumentsProgress, StorageGrows DEF Progress, Exists, Decided, ExistsAfter, DecidedAfter

LEMMA StillInHand ==
  ASSUME TypeInv, RouteInv, [Next]_vars, NEW pc, NEW d, InHand(pc, d),
         pc \in {"claimed", "classify", "route", "copy", "copied", "refused", "failing"} => d \in Docs
  PROVE  InHandAfter(pc, d)
<1>1. CASE d \in Docs
  BY <1>1, NeverUndone DEF InHand, InHandAfter
<1>2. CASE pc \notin {"claimed", "classify", "route", "copy", "copied", "refused", "failing"}
  BY <1>2 DEF InHandAfter
<1> QED BY <1>1, <1>2

LEMMA JobStays ==
  ASSUME TypeInv, RouteInv, [Next]_vars, NEW r \in Runs
  PROVE  JobAfter(job[r])
<1>1. job[r] \in JobRow /\ JobSane(r, job[r])
  BY DEF TypeInv, JobsOK
<1>2. InHandAfter(job[r].pc, job[r].doc)
  <2>1. InHand(job[r].pc, job[r].doc)
    BY DEF RouteInv, HandsOK
  <2>2. job[r].pc \in {"claimed", "classify", "route", "copy", "copied", "refused", "failing"} =>
          job[r].doc \in Docs
    BY <1>1 DEF JobSane
  <2> QED BY <2>1, <2>2, StillInHand
<1>3. ASSUME job[r].phase = "routes" PROVE \A d \in job[r].todo : DecidedAfter(d)
  <2>1. \A d \in job[r].todo : d \in Docs /\ Decided(d)
    BY <1>1, <1>3 DEF JobRow, RouteInv, HandsOK
  <2> QED BY <2>1, NeverUndone
<1> QED BY <1>2, <1>3 DEF JobAfter, RouteInv, HandsOK

LEMMA HandsOfJobs ==
  ASSUME TypeInv, RouteInv, [Next]_vars, NEW r \in Runs
  PROVE  JobAfter(job'[r])
<1>1. CASE job'[r] = job[r]
  BY <1>1, JobStays
<1>2. ASSUME JobWork(r) PROVE JobAfter(job'[r])
  <2>0. job[r] \in JobRow /\ JobSane(r, job[r]) /\ JobAfter(job[r]) /\ job \in [Runs -> JobRow]
    BY JobStays DEF TypeInv, JobsOK
  <2>1. InHand(job[r].pc, job[r].doc)
    BY DEF RouteInv, HandsOK
  <2>2. ASSUME NEW rec, Advance(r, rec) PROVE job'[r] = rec
    BY <2>0, <2>2 DEF Advance
  <2>3. JobAfter(NoJob)
    BY DEF JobAfter, InHandAfter, NoJob
  <2>4. ASSUME NEW pc \in {"routes", "docs"}, pc = "routes" => job[r].phase = "routes"
        PROVE  JobAfter(Leave(r, pc))
    <3>1. /\ Leave(r, pc).pc = pc /\ Leave(r, pc).phase = job[r].phase
          /\ Leave(r, pc).todo = job[r].todo
      BY <2>0 DEF Leave, JobRow
    <3> QED BY <2>0, <2>4, <3>1 DEF JobAfter, InHandAfter
  <2>5. ASSUME NEW pc \in {"claimed", "classify", "route", "copy", "copied", "refused", "failing"},
               InHandAfter(pc, job[r].doc)
        PROVE  JobAfter(Goto(r, pc))
    <3>1. /\ Goto(r, pc).pc = pc /\ Goto(r, pc).phase = job[r].phase
          /\ Goto(r, pc).todo = job[r].todo /\ Goto(r, pc).doc = job[r].doc
      BY <2>0 DEF Goto, JobRow
    <3> QED BY <2>0, <2>5, <3>1 DEF JobAfter
  <2>6. CASE IngestAttachment(r) \/ EnlistAttachment(r) \/ AttachmentFails(r)
    <3>1. job'[r].pc \in {"ingest", "enlist"} /\ job'[r].phase = job[r].phase /\ job'[r].todo = job[r].todo
      <4> DEFINE a == NextAttachment(r)
                 b == [NextAttachment(r) EXCEPT !.failures = @ + 1]
                 c == Goto(r, "enlist")
                 e == [Goto(r, "enlist") EXCEPT !.dup = TRUE]
      <4>1. \E rec \in {a, b, c, e} : Advance(r, rec)
        BY <2>6 DEF IngestAttachment, EnlistAttachment, AttachmentFails
      <4>2. \A rec \in {a, b, c, e} :
              rec.pc \in {"ingest", "enlist"} /\ rec.phase = job[r].phase /\ rec.todo = job[r].todo
        BY <2>0 DEF NextAttachment, Goto, JobRow
      <4> HIDE DEF a, b, c, e
      <4> QED BY <2>2, <4>1, <4>2
    <3>2. job[r].phase = "routes"
      BY <2>6 DEF IngestAttachment, EnlistAttachment, AttachmentFails, RouteInv, HandsOK
    <3> QED BY <2>0, <3>1, <3>2 DEF JobAfter, InHandAfter
  <2>7. CASE EndIngestion(r)
    <3>1. /\ job'[r].pc = "routes" /\ job'[r].phase = job[r].phase
          /\ job'[r].todo = PendingRoutes(r)
      BY <2>0, <2>7 DEF EndIngestion, Advance, Goto, JobRow
    <3>2. job[r].phase = "routes"
      BY <2>7 DEF EndIngestion, RouteInv, HandsOK
    <3>3. \A d \in PendingRoutes(r) : d \in Docs /\ Decided(d)
      BY NewDocsAreDocs DEF PendingRoutes, TypeInv, RouteInv, DocSound
    <3> QED BY <3>1, <3>2, <3>3, NeverUndone DEF JobAfter, InHandAfter
  <2>8. CASE EndRoutes(r)
    <3>1. job'[r].pc = "docs" /\ job'[r].phase = "docs"
      BY <2>0, <2>8 DEF EndRoutes, Advance, Goto, JobRow
    <3> QED BY <3>1 DEF JobAfter, InHandAfter
  <2>9. CASE PickRoute(r)
    <3> PICK d \in job[r].todo : Advance(r, [Goto(r, "route") EXCEPT !.doc = d, !.todo = @ \ {d}])
      BY <2>9 DEF PickRoute
    <3>1. /\ job'[r].pc = "route" /\ job'[r].phase = job[r].phase /\ job'[r].doc = d
          /\ job'[r].todo = job[r].todo \ {d}
      BY <2>0, <2>2 DEF Goto, JobRow
    <3>2. job[r].phase = "routes"
      BY <2>9 DEF PickRoute, RouteInv, HandsOK
    <3>3. DecidedAfter(d) /\ \A x \in job[r].todo : DecidedAfter(x)
      BY <2>0, <3>2 DEF JobAfter
    <3> QED BY <3>1, <3>3 DEF JobAfter, InHandAfter
  <2>10. CASE Claim(r)
    <3> PICK d \in job[r].todo, claimed \in BOOLEAN :
          /\ claimed => doc[d].status = "QUEUED"
          /\ Advance(r, [job[r] EXCEPT !.pc = IF claimed THEN "claimed" ELSE "docs",
                                       !.doc = IF claimed THEN d ELSE NoDoc,
                                       !.todo = @ \ {d}])
      BY <2>10 DEF Claim
    <3>1. /\ job'[r].pc = (IF claimed THEN "claimed" ELSE "docs")
          /\ job'[r].doc = (IF claimed THEN d ELSE NoDoc)
          /\ job'[r].phase = job[r].phase /\ job'[r].todo = job[r].todo \ {d}
      BY <2>0, <2>2 DEF JobRow
    <3>2. claimed => ExistsAfter(d)
      BY <2>0, NeverUndone DEF JobRow, Exists
    <3> QED BY <2>0, <3>1, <3>2 DEF JobAfter, InHandAfter
  <2>11. CASE Superseded(r) \/ LeaveDocument(r) \/ FailDocument(r) \/ FetchFails(r) \/ RouteByWorker(r)
    <3>1. \/ \E pc \in {"routes", "docs"} : /\ pc = "routes" => job[r].phase = "routes"
                                            /\ Advance(r, Leave(r, pc))
          \/ Advance(r, NoJob)
      BY <2>0, <2>11 DEF Superseded, LeaveDocument, FailDocument, FetchFails, RouteByWorker, JobRow, Leave
    <3> QED BY <2>2, <2>3, <2>4, <3>1
  <2>12. CASE CreateAttempt(r) \/ ClassifierBreaks(r) \/ CopyByWorkerFails(r)
    <3>1. \/ Advance(r, Goto(r, "classify")) /\ job[r].pc = "claimed"
          \/ Advance(r, Goto(r, "failing")) /\ job[r].pc = "classify"
          \/ Advance(r, Goto(r, "refused")) /\ job[r].pc = "copy"
      BY <2>12 DEF CreateAttempt, ClassifierBreaks, CopyByWorkerFails, InDocument
    <3> QED BY <2>0, <2>2, <2>5, <3>1 DEF JobAfter, InHandAfter
  <2>13. CASE Classify(r) \/ ClassifierFails(r)
    <3>1. CASE Advance(r, Leave(r, "docs"))
      BY <2>2, <2>4, <3>1
    <3>2. CASE ~Advance(r, Leave(r, "docs"))
      <4> DEFINE d == job[r].doc
      <4> PICK g \in Grounds :
            /\ doc' = [doc EXCEPT ![d] = [EndAttempt(d, "SUCCEEDED") EXCEPT
                            !.decision = "AUTOMATIC", !.ground = g, !.route = "PENDING"]]
            /\ Advance(r, Goto(r, "route"))
        BY <2>13, <3>2 DEF Classify, ClassifierFails
      <4>1. job[r].pc = "classify"
        BY <2>13 DEF Classify, ClassifierFails, InDocument
      <4>2. d \in Docs /\ ExistsAfter(d)
        BY <2>0, <4>1 DEF JobSane, JobAfter, InHandAfter
      <4>3. doc[d] \in AnyDoc
        BY <4>2 DEF TypeInv, DocsOK, DocRow
      <4>4. EndAttempt(d, "SUCCEEDED") \in AnyDoc
        BY <4>2, DocumentRows DEF TypeInv, DocRow, Verdicts
      <4>5. doc'[d] = [EndAttempt(d, "SUCCEEDED") EXCEPT
                            !.decision = "AUTOMATIC", !.ground = g, !.route = "PENDING"]
        BY <4>2 DEF TypeInv, DocsOK
      <4>6. doc'[d].decision = "AUTOMATIC"
        BY <4>4, <4>5 DEF AnyDoc
      <4> QED BY <2>2, <2>5, <4>2, <4>6 DEF InHandAfter, DecidedAfter
    <3> QED BY <3>1, <3>2
  <2>14. CASE BeginRoute(r) \/ CopyByWorker(r) \/ RouteFailsByWorker(r)
    <3>1. \/ \E pc \in {"routes", "docs"} : /\ pc = "routes" => job[r].phase = "routes"
                                            /\ Advance(r, Leave(r, pc))
          \/ Advance(r, Goto(r, "failing")) /\ job[r].pc = "refused"
          \/ Advance(r, Goto(r, "copy")) /\ job[r].pc = "route"
          \/ Advance(r, Goto(r, "copied")) /\ job[r].pc = "copy" /\ CopySucceeds(job[r].doc)
      BY <2>0, <2>14 DEF BeginRoute, CopyByWorker, RouteFailsByWorker, InDocument, JobRow
    <3>2. CopySucceeds(job[r].doc) => job[r].doc \in stored'.routed
      BY DEF CopySucceeds, TypeInv, StoredOK
    <3> QED BY <2>0, <2>2, <2>4, <2>5, <3>1, <3>2 DEF JobAfter, InHandAfter, DecidedAfter
  <2>15. CASE Finish(r) \/ FailUnhandled(r) \/ LoseWorker(r)
    <3>1. Advance(r, NoJob)
      BY <2>15 DEF Finish, FailUnhandled, LoseWorker, Leave, Advance
    <3> QED BY <2>2, <2>3, <3>1
  <2>16. CASE Start(r) \/ ResumeInterrupted(r)
    <3> DEFINE rec == FirstStep(r, msg[r].task)
    <3>1. job'[r] = rec
      BY <2>2, <2>16 DEF Start, ResumeInterrupted
    <3>2. /\ rec.pc \in {"ingest", "routes"} /\ rec.phase = "routes"
          /\ rec.todo \subseteq PendingRoutes(r)
      BY DEF FirstStep, NoJob
    <3>3. \A d \in PendingRoutes(r) : d \in Docs /\ Decided(d)
      BY NewDocsAreDocs DEF PendingRoutes, TypeInv, RouteInv, DocSound
    <3> HIDE DEF rec
    <3> QED BY <3>1, <3>2, <3>3, NeverUndone DEF JobAfter, InHandAfter
  <2> QED BY <1>2, <2>6, <2>7, <2>8, <2>9, <2>10, <2>11, <2>12, <2>13, <2>14, <2>15, <2>16
          DEF JobWork, WorkerStep
<1>3. job'[r] = job[r] \/ JobWork(r)
  <2>1. ASSUME NEW q \in Runs, JobWork(q), q # r PROVE job'[r] = job[r]
    <3>1. \E rec : job' = [job EXCEPT ![q] = rec]
      BY <2>1 DEF JobWork, WorkerStep, Advance, IngestAttachment, EnlistAttachment, AttachmentFails,
        EndIngestion, PickRoute, EndRoutes, Superseded, Claim, LeaveDocument, CreateAttempt, Classify,
        FailDocument, FetchFails, ClassifierFails, ClassifierBreaks, BeginRoute, CopyByWorker, CopyByWorkerFails,
        RouteByWorker, RouteFailsByWorker, Finish, FailUnhandled, LoseWorker, Start, ResumeInterrupted
    <3> QED BY <2>1, <3>1 DEF TypeInv, JobsOK
  <2> QED BY <2>1, WhoWritesJobs DEF vars
<1> QED BY <1>1, <1>2, <1>3

LEMMA HandsOfRequests ==
  ASSUME TypeInv, RouteInv, [Next]_vars, NEW p \in People
  PROVE  InHandAfter(web'[p].pc, web'[p].doc)
<1>0. web[p] \in WebRow /\ WebSane(web[p]) /\ web \in [People -> WebRow]
  BY DEF TypeInv, WebOK
<1>1. InHand(web[p].pc, web[p].doc)
  BY DEF RouteInv, HandsOK
<1>2. InHandAfter(web[p].pc, web[p].doc)
  BY <1>0, <1>1, StillInHand DEF WebSane
<1>3. ASSUME web'[p].pc \in {"none", "ingest", "enlist", "queue", "recompute"}
      PROVE  InHandAfter(web'[p].pc, web'[p].doc)
  BY <1>3 DEF InHandAfter
<1>4. ASSUME RequestWork(p) PROVE InHandAfter(web'[p].pc, web'[p].doc)
  <2>1. CASE UploadIngest(p) \/ UploadEnlist(p) \/ RouteByRequest(p)
    BY <1>0, <1>3, <2>1 DEF UploadIngest, UploadEnlist, RouteByRequest, WebRow
  <2>2. CASE UploadQueue(p) \/ RecomputeByRequest(p) \/ UploadFails(p) \/ WebDies(p)
    <3>1. web'[p] = NoRequest
      BY <1>0, <2>2 DEF UploadQueue, RecomputeByRequest, UploadFails, WebDies
    <3> QED BY <1>3, <3>1 DEF NoRequest
  <2>3. CASE CopyByRequest(p) \/ CopyByRequestFails(p)
    <3>1. web[p].pc = "route" /\ web[p].doc \in Docs
      BY <1>0, <2>3 DEF CopyByRequest, CopyByRequestFails, WebSane
    <3>2. web'[p].doc = web[p].doc
      BY <1>0, <2>3 DEF CopyByRequest, CopyByRequestFails, WebRow
    <3>3. \/ web'[p].pc = "recompute" \/ web'[p].pc = "refused"
          \/ web'[p].pc = "copied" /\ CopySucceeds(web[p].doc)
      BY <1>0, <2>3 DEF CopyByRequest, CopyByRequestFails, WebRow
    <3>4. CopySucceeds(web[p].doc) => web[p].doc \in stored'.routed
      BY DEF CopySucceeds, TypeInv, StoredOK
    <3> QED BY <1>2, <3>1, <3>2, <3>3, <3>4 DEF InHandAfter
  <2>4. ASSUME NEW r \in Runs, NEW d \in Docs, RequestUpload(p, r, d)
        PROVE  InHandAfter(web'[p].pc, web'[p].doc)
    BY <1>0, <1>3, <2>4 DEF RequestUpload
  <2>5. ASSUME NEW r \in Runs, NEW d \in Docs, Resolve(p, r, d)
        PROVE  InHandAfter(web'[p].pc, web'[p].doc)
    <3>1. web'[p].pc = "route" /\ web'[p].doc = d
      BY <1>0, <2>5 DEF Resolve
    <3>2. ExistsAfter(d)
      BY <2>5, NeverUndone DEF Resolve, RouteInv, DocSound
    <3>3. doc[d] \in AnyDoc
      BY DEF TypeInv, DocsOK, DocRow
    <3>4. doc'[d].decision = "HUMAN_REVIEW"
      BY <2>5, <3>3 DEF Resolve, TypeInv, DocsOK, AnyDoc
    <3> QED BY <3>1, <3>2, <3>4 DEF InHandAfter, DecidedAfter
  <2>6. ASSUME NEW r \in Runs, NEW d \in Docs, Retry(p, r, d)
        PROVE  InHandAfter(web'[p].pc, web'[p].doc)
    <3>1. web'[p].pc = "route" /\ web'[p].doc = d
      BY <1>0, <2>6 DEF Retry
    <3>2. Decided(d)
      BY <2>6 DEF Retry, RouteInv, DocSound
    <3> QED BY <3>1, <3>2, NeverUndone DEF InHandAfter
  <2> QED BY <1>4, <2>1, <2>2, <2>3, <2>4, <2>5, <2>6 DEF RequestWork, RequestStep
<1>5. web'[p] = web[p] \/ RequestWork(p)
  <2>1. ASSUME NEW q \in People, RequestWork(q), q # p PROVE web'[p] = web[p]
    <3>1. \/ \E rec : web' = [web EXCEPT ![q] = rec]
          \/ \E pc : web' = [web EXCEPT ![q].pc = pc]
          \/ \E pc, dup : web' = [web EXCEPT ![q].pc = pc, ![q].dup = dup]
      BY <2>1 DEF RequestWork, RequestStep, UploadIngest, UploadEnlist, RouteByRequest, UploadQueue,
        RecomputeByRequest, UploadFails, WebDies, CopyByRequest, CopyByRequestFails, RequestUpload,
        Resolve, Retry
    <3> QED BY <1>0, <2>1, <3>1
  <2> QED BY <2>1, WhoWritesRequests DEF vars
<1> QED BY <1>2, <1>4, <1>5

LEMMA RouteStep == TypeInv /\ RouteInv /\ [Next]_vars => RouteInv'
<1> SUFFICES ASSUME TypeInv, RouteInv, [Next]_vars PROVE RouteInv'
  OBVIOUS
<1>1. \A d \in Docs : DocSound(d)'
  BY DocumentsProgress DEF Progress
<1>2. HandsOK'
  BY HandsOfJobs, HandsOfRequests DEF HandsOK, JobAfter, InHandAfter, InHand, DecidedAfter,
    ExistsAfter, Decided, Exists
<1> QED BY <1>1, <1>2 DEF RouteInv

(* A document shown as routed lies at its destination, its original is still *)
(* there, and nothing is copied to a destination that was not decided.       *)
THEOREM RoutedAndStored == Spec => []RoutedIsStored
BY TypeInit, TypeStep, RouteInit, RouteStep, RouteInvImpliesRoutedIsStored, PTL DEF Spec
=============================================================================
