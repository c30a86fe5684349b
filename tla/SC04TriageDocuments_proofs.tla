--------------------- MODULE SC04TriageDocuments_proofs ---------------------
(***************************************************************************)
(* SC04Triage: a document belongs to one run, its intake and its run tell   *)
(* what became of it, and it is judged once, for every value of the         *)
(* constants.                                                              *)
(***************************************************************************)
EXTENDS SC04Triage_proofs, FiniteSetTheorems

-----------------------------------------------------------------------------
(* Who owns a document.  Between its row and the item that lists it, a       *)
(* document is held by the job or the request that created the row.          *)

JobHolds(r, d) == job[r].pc = "enlist" /\ ~job[r].dup /\ d = Attachment(r)
WebHolds(p, d) == web[p].pc = "enlist" /\ ~web[p].dup /\ d = web[p].doc
Fresh(d) == doc[d].status = "QUEUED" /\ \A s \in Runs : d \notin NewDocs(s)

(* A document is new in one run at most.                                     *)
OwnedOnce == \A d \in Docs : \A r, s \in Runs : d \in NewDocs(r) /\ d \in NewDocs(s) => r = s

(* What a run has received exists, and its intake tells its state.           *)
Mirrored == \A r \in Runs : \A d \in NewDocs(r) : Exists(d) /\ doc[d].intake = doc[d].status

(* What is held waits, in no run yet, and has one holder.                    *)
HeldOnce ==
  /\ \A d \in Docs, r \in Runs : JobHolds(r, d) =>
       /\ Fresh(d)
       /\ \A s \in Runs : JobHolds(s, d) => s = r
       /\ \A p \in People : ~WebHolds(p, d)
  /\ \A d \in Docs, p \in People : WebHolds(p, d) =>
       Fresh(d) /\ \A q \in People : WebHolds(q, d) => q = p

(* The place that a holder is about to fill is still open.                   *)
Uploading == {"ingest", "enlist"}
ArrivingJob(r) == job[r].pc = "enlist" =>
  job[r].i \in DOMAIN run[r].items /\ run[r].items[job[r].i] = "none"
ArrivingWeb(p) == web[p].pc \in Uploading =>
  /\ web[p].run \in UploadRuns
  /\ run[web[p].run].content = <<web[p].doc>> /\ run[web[p].run].items = <<"none">>
  /\ \A q \in People : web[q].pc \in Uploading /\ web[q].run = web[p].run => q = p
Arriving == (\A r \in Runs : ArrivingJob(r)) /\ \A p \in People : ArrivingWeb(p)

(* A job and a request work on the documents of their run.                   *)
InWork == {"claimed", "classify", "route", "copy", "copied", "refused", "failing"}
InRouting == {"route", "copy", "copied", "refused"}
AtWorkJob(r) ==
  /\ job[r].todo \subseteq NewDocs(r)
  /\ job[r].pc \in InWork => job[r].doc \in NewDocs(r)
AtWorkWeb(p) == web[p].pc \in InRouting => web[p].doc \in NewDocs(web[p].run)
AtWork == (\A r \in Runs : AtWorkJob(r)) /\ \A p \in People : AtWorkWeb(p)

OwnInv == OwnedOnce /\ Mirrored /\ HeldOnce /\ Arriving /\ AtWork

LEMMA OwnInvImpliesIntake == OwnInv => IntakeMirrorsDocument
BY DEF OwnInv, Mirrored, IntakeMirrorsDocument

LEMMA OwnInit == Init => OwnInv
<1> SUFFICES ASSUME Init PROVE OwnInv
  OBVIOUS
<1>1. \A r \in Runs : NewDocs(r) = {}
  BY DEF Init, NoRun, NewDocs, Received
<1>2. \A r \in Runs : job[r].pc = "none" /\ job[r].todo = {}
  BY DEF Init, NoJob
<1>3. \A p \in People : web[p].pc = "none"
  BY DEF Init, NoRequest
<1>4. OwnedOnce /\ Mirrored
  BY <1>1 DEF OwnedOnce, Mirrored
<1>5. HeldOnce /\ Arriving
  BY <1>2, <1>3 DEF HeldOnce, JobHolds, WebHolds, Arriving, ArrivingJob, ArrivingWeb, Uploading
<1>6. AtWork
  BY <1>1, <1>2, <1>3 DEF AtWork, AtWorkJob, AtWorkWeb, InWork, InRouting
<1> QED BY <1>4, <1>5, <1>6 DEF OwnInv

-----------------------------------------------------------------------------
(* Items: which steps write them.                                          *)

SameItems(s) == run'[s].items = run[s].items /\ run'[s].content = run[s].content
Opened(s) ==
  /\ run[s].status = "absent" /\ run[s].items = <<>>
  /\ \A i \in DOMAIN run'[s].items : run'[s].items[i] = "none"

LEMMA RunWorkWrites ==
  ASSUME NEW r \in Runs, RunWork(r)
  PROVE  \E rec : run' = [run EXCEPT ![r] = rec]
BY DEF RunWork, RequestInbox, Publish, Refuse, Start, ResumeInterrupted, ExhaustInterrupted,
  EnlistAttachment, Enlist, EndIngestion, Finish, FailUnhandled, ReconcilePending, ReconcileQueued,
  ReconcileRunning

LEMMA RunRequestWrites ==
  ASSUME NEW p \in People, RunRequest(p)
  PROVE  \/ \E rec : run' = [run EXCEPT ![web[p].run] = rec]
         \/ \E r \in Runs, d \in Docs : RequestUpload(p, r, d)
BY DEF RunRequest, UploadFails, UploadEnlist, Enlist, UploadQueue, RecomputeByRequest, WebDies

(* What the other writers of a run leave alone.                              *)
LEMMA ItemsKept ==
  ASSUME RunsOK, NEW s \in Runs
  PROVE  /\ Requeued(s).items = run[s].items /\ Requeued(s).content = run[s].content
         /\ Claimed(s).items = run[s].items /\ Claimed(s).content = run[s].content
         /\ Fenced(s).items = run[s].items /\ Fenced(s).content = run[s].content
         /\ \A t, actor : /\ Recomputed(s, t, actor).items = run[s].items
                          /\ Recomputed(s, t, actor).content = run[s].content
         /\ \A t, actor, b : LET rec == [Recomputed(s, t, actor) EXCEPT !.torn = b] IN
              rec.items = run[s].items /\ rec.content = run[s].content
<1> PICK E : run[s] \in RunRow(E)
  BY DEF RunsOK
<1> QED BY DEF Requeued, Claimed, Fenced, Recomputed, RunRow

LEMMA RunItems ==
  ASSUME TypeInv, [Next]_vars, NEW s \in Runs
  PROVE  \/ SameItems(s) \/ Opened(s) \/ EnlistAttachment(s)
         \/ \E p \in People : UploadEnlist(p) /\ web[p].run = s
<1> DEFINE Goal == \/ SameItems(s) \/ Opened(s) \/ EnlistAttachment(s)
                   \/ \E p \in People : UploadEnlist(p) /\ web[p].run = s
<1> SUFFICES Goal
  OBVIOUS
<1> PICK E : run \in [Runs -> RunRow(E)]
  BY DEF TypeInv, RunsOK
<1>0. run[s] \in RunRow(E) /\ RunSane(s, run[s]) /\ RunsOK
  BY DEF TypeInv, RunsOK
<1>1. ASSUME run'[s] = run[s] PROVE Goal
  BY <1>1 DEF SameItems
<1>2. ASSUME NEW r \in Runs, RunWork(r) PROVE Goal
  <2>1. CASE r # s
    <3>1. run'[s] = run[s]
      BY <1>2, <2>1, RunWorkWrites
    <3> QED BY <1>1, <3>1
  <2>2. CASE r = s
    <3>1. CASE RequestInbox(s)
      <4>1. run'[s] = [Requeued(s) EXCEPT !.content = Inbox, !.items = [i \in DOMAIN Inbox |-> "none"]]
        BY <3>1 DEF RequestInbox
      <4>2. run'[s].items = [i \in DOMAIN Inbox |-> "none"]
        BY <1>0, <4>1 DEF Requeued, RunRow
      <4>3. run[s].status = "absent" /\ run[s].items = <<>>
        BY <1>0, <3>1 DEF RequestInbox, RunSane
      <4> QED BY <4>2, <4>3 DEF Opened
    <3>2. CASE Publish(s) \/ Refuse(s) \/ Start(s) \/ ResumeInterrupted(s) \/ ExhaustInterrupted(s)
                \/ EndIngestion(s) \/ FailUnhandled(s)
      <4>1. \/ run'[s] = [run[s] EXCEPT !.published = TRUE]
            \/ \E e : run'[s] = [run[s] EXCEPT !.status = "FAILED", !.error = e]
            \/ run'[s] = [run[s] EXCEPT !.status = "RUNNING"]
            \/ \E n : run'[s] = [run[s] EXCEPT !.attempts = n]
            \/ \E n : run'[s] = [run[s] EXCEPT !.failures = n]
            \/ run'[s] = [run[s] EXCEPT !.status = "FAILED", !.task = 0]
        BY <3>2 DEF Publish, Refuse, Start, ResumeInterrupted, ExhaustInterrupted, EndIngestion,
          FailUnhandled
      <4> QED BY <1>0, <4>1 DEF SameItems, RunRow
    <3>3. CASE Finish(s)
      <4>1. \/ run'[s] = [run[s] EXCEPT !.status = "FAILED", !.error = "technical"]
            \/ run'[s] = [Recomputed(s, run[s].task, "worker") EXCEPT !.torn = FALSE]
        BY <3>3 DEF Finish
      <4>2. CASE run'[s] = [run[s] EXCEPT !.status = "FAILED", !.error = "technical"]
        BY <1>0, <4>2 DEF SameItems, RunRow
      <4>3. CASE run'[s] = [Recomputed(s, run[s].task, "worker") EXCEPT !.torn = FALSE]
        <5> DEFINE rec == [Recomputed(s, run[s].task, "worker") EXCEPT !.torn = FALSE]
        <5>1. rec.items = run[s].items /\ rec.content = run[s].content
          BY <1>0, ItemsKept
        <5> QED BY <4>3, <5>1 DEF SameItems
      <4> QED BY <4>1, <4>2, <4>3
    <3>4. CASE ReconcilePending(s) \/ ReconcileQueued(s) \/ ReconcileRunning(s)
      <4>1. run'[s] = Claimed(s) \/ run'[s] = Fenced(s)
        BY <3>4 DEF ReconcilePending, ReconcileQueued, ReconcileRunning
      <4> QED BY <1>0, <4>1, ItemsKept DEF SameItems
    <3> QED BY <1>2, <2>2, <3>1, <3>2, <3>3, <3>4 DEF RunWork
  <2> QED BY <2>1, <2>2
<1>3. ASSUME NEW p \in People, RunRequest(p) PROVE Goal
  <2> DEFINE r == web[p].run
  <2>1. ASSUME NEW q \in Runs, NEW d \in Docs, RequestUpload(p, q, d) PROVE Goal
    <3>1. run' = [run EXCEPT ![q] = [run[q] EXCEPT !.status = "PENDING", !.content = <<d>>,
                                                   !.items = <<"none">>]]
      BY <2>1 DEF RequestUpload
    <3>2. CASE q = s
      <4>1. run'[s].items = <<"none">>
        BY <1>0, <3>1, <3>2 DEF RunRow
      <4>2. run[s].status = "absent" /\ run[s].items = <<>>
        BY <1>0, <2>1, <3>2 DEF RequestUpload, RunSane
      <4>3. \A i \in DOMAIN <<"none">> : <<"none">>[i] = "none"
        OBVIOUS
      <4> QED BY <4>1, <4>2, <4>3 DEF Opened
    <3> QED BY <1>1, <3>1, <3>2
  <2>2. CASE \E rec : run' = [run EXCEPT ![r] = rec]
    <3>1. CASE r # s
      BY <1>1, <2>2, <3>1
    <3>2. CASE r = s
      <4>1. CASE UploadFails(p) \/ WebDies(p)
        <5>1. \/ run'[s] = [run[s] EXCEPT !.status = "FAILED", !.error = "technical"]
              \/ run'[s] = [run[s] EXCEPT !.torn = TRUE]
          BY <3>2, <4>1 DEF UploadFails, WebDies
        <5> QED BY <1>0, <5>1 DEF SameItems, RunRow
      <4>2. CASE UploadQueue(p)
        BY <1>0, <3>2, <4>2, ItemsKept DEF UploadQueue, SameItems
      <4>3. CASE RecomputeByRequest(p)
        <5>1. CASE run'[s] = [run[s] EXCEPT !.torn = TRUE]
          BY <1>0, <5>1 DEF SameItems, RunRow
        <5>2. CASE run'[s] = [Recomputed(s, 0, p) EXCEPT !.torn = Live(s)]
          <6> DEFINE rec == [Recomputed(s, 0, p) EXCEPT !.torn = Live(s)]
          <6>1. rec.items = run[s].items /\ rec.content = run[s].content
            BY <1>0, ItemsKept
          <6> QED BY <5>2, <6>1 DEF SameItems
        <5> QED BY <3>2, <4>3, <5>1, <5>2 DEF RecomputeByRequest
      <4> QED BY <1>3, <2>1, <3>2, <4>1, <4>2, <4>3 DEF RunRequest
    <3> QED BY <3>1, <3>2
  <2> QED BY <1>3, <2>1, <2>2, RunRequestWrites
<1> HIDE DEF Goal
<1> QED BY <1>1, <1>2, <1>3, WhoWritesRuns DEF vars

(* An item that is filled adds its content to what the run has received, or  *)
(* nothing.                                                                  *)
Filled(r, i, o) == run' = [run EXCEPT ![r].items[i] = o]

LEMMA ItemFilled ==
  ASSUME RunsOK, NEW r \in Runs, NEW i, NEW o, Filled(r, i, o),
         i \in DOMAIN run[r].items, run[r].items[i] = "none"
  PROVE  /\ run'[r].items = [run[r].items EXCEPT ![i] = o]
         /\ run'[r].content = run[r].content
         /\ o = "NEW" => NewDocs(r)' = NewDocs(r) \cup {run[r].content[i]}
         /\ o # "NEW" => NewDocs(r)' = NewDocs(r)
<1> PICK E : run \in [Runs -> RunRow(E)]
  BY DEF RunsOK
<1> DEFINE items == [run[r].items EXCEPT ![i] = o]
<1>1. run'[r] = [run[r] EXCEPT !.items = items]
  BY DEF Filled
<1>2. run'[r].items = items /\ run'[r].content = run[r].content
  BY <1>1 DEF RunRow
<1>3. DOMAIN items = DOMAIN run[r].items /\ \A j \in DOMAIN run[r].items :
        items[j] = IF j = i THEN o ELSE run[r].items[j]
  OBVIOUS
<1> HIDE DEF items
<1>4. NewDocs(r)' = {run[r].content[j] : j \in {k \in DOMAIN items : items[k] = "NEW"}}
  BY <1>2 DEF NewDocs, Received
<1>5. CASE o # "NEW"
  <2>1. {k \in DOMAIN items : items[k] = "NEW"} = Received(r, "NEW")
    BY <1>3, <1>5 DEF Received
  <2> QED BY <1>2, <1>4, <1>5, <2>1 DEF NewDocs, items
<1>6. CASE o = "NEW"
  <2>1. {k \in DOMAIN items : items[k] = "NEW"} = Received(r, "NEW") \cup {i}
    BY <1>3, <1>6 DEF Received
  <2>2. NewDocs(r)' = NewDocs(r) \cup {run[r].content[i]}
    BY <1>4, <2>1 DEF NewDocs
  <2> QED BY <1>2, <1>6, <2>2 DEF items
<1> QED BY <1>5, <1>6

(* The enlistments, with what their job or request is known to have.         *)
LEMMA JobEnlists ==
  ASSUME TypeInv, Arriving, NEW r \in Runs, EnlistAttachment(r)
  PROVE  /\ job[r].pc = "enlist" /\ job[r].i \in DOMAIN run[r].items
         /\ run[r].items[job[r].i] = "none"
         /\ Attachment(r) = run[r].content[job[r].i] /\ Attachment(r) \in Docs
         /\ (Filled(r, job[r].i, "NEW") /\ ~job[r].dup) \/ Filled(r, job[r].i, "DUPLICATE_HASH")
<1>1. run[r].content \in Seq(Docs) /\ DOMAIN run[r].items = DOMAIN run[r].content
  BY DEF TypeInv, RunsOK, RunRow, RunSane
<1>2. job[r].pc = "enlist" /\ Enlist(r, job[r].i, job[r].dup)
  BY DEF EnlistAttachment
<1>3. job[r].i \in DOMAIN run[r].items /\ run[r].items[job[r].i] = "none"
  BY <1>2 DEF Arriving, ArrivingJob
<1>4. (Filled(r, job[r].i, "NEW") /\ ~job[r].dup) \/ Filled(r, job[r].i, "DUPLICATE_HASH")
  BY <1>2 DEF Enlist, Filled
<1> QED BY <1>1, <1>2, <1>3, <1>4 DEF Attachment

LEMMA WebEnlists ==
  ASSUME TypeInv, Arriving, NEW p \in People, UploadEnlist(p)
  PROVE  /\ web[p].run \in UploadRuns /\ web[p].run \in Runs /\ web[p].doc \in Docs
         /\ web[p].pc = "enlist"
         /\ 1 \in DOMAIN run[web[p].run].items /\ run[web[p].run].items[1] = "none"
         /\ run[web[p].run].content[1] = web[p].doc
         /\ \/ Filled(web[p].run, 1, "NEW") /\ ~web[p].dup
            \/ Filled(web[p].run, 1, "DUPLICATE_HASH")
<1>1. web[p].pc = "enlist" /\ Enlist(web[p].run, 1, web[p].dup)
  BY DEF UploadEnlist
<1>2. /\ web[p].run \in UploadRuns /\ run[web[p].run].content = <<web[p].doc>>
      /\ run[web[p].run].items = <<"none">>
  BY <1>1 DEF Arriving, ArrivingWeb, Uploading
<1>3. web[p].doc \in Docs
  BY <1>1 DEF TypeInv, WebOK, WebSane
<1>4. (Filled(web[p].run, 1, "NEW") /\ ~web[p].dup) \/ Filled(web[p].run, 1, "DUPLICATE_HASH")
  BY <1>1 DEF Enlist, Filled
<1> QED BY <1>1, <1>2, <1>3, <1>4 DEF Runs

(* What a run has received grows by what is held for it.                     *)
LEMMA NewDocsGrow ==
  ASSUME TypeInv, Arriving, [Next]_vars, NEW s \in Runs
  PROVE  /\ NewDocs(s) \subseteq NewDocs(s)'
         /\ \A d \in NewDocs(s)' : \/ d \in NewDocs(s)
                                   \/ EnlistAttachment(s) /\ JobHolds(s, d)
                                   \/ \E p \in People : /\ UploadEnlist(p) /\ web[p].run = s
                                                        /\ WebHolds(p, d)
<1>0. RunsOK
  BY DEF TypeInv
<1>1. CASE SameItems(s)
  BY <1>1 DEF SameItems, NewDocs, Received
<1>2. CASE Opened(s)
  <2>1. NewDocs(s) = {}
    BY <1>2 DEF Opened, NewDocs, Received
  <2>2. NewDocs(s)' = {}
    BY <1>2 DEF Opened, NewDocs, Received
  <2> QED BY <2>1, <2>2
<1>3. CASE EnlistAttachment(s)
  <2>1. NewDocs(s)' = NewDocs(s) \/ (~job[s].dup /\ NewDocs(s)' = NewDocs(s) \cup {Attachment(s)})
    BY <1>0, <1>3, JobEnlists, ItemFilled
  <2> QED BY <1>3, <2>1, JobEnlists DEF JobHolds
<1>4. ASSUME NEW p \in People, UploadEnlist(p), web[p].run = s
      PROVE  /\ NewDocs(s) \subseteq NewDocs(s)'
             /\ \A d \in NewDocs(s)' : d \in NewDocs(s) \/ WebHolds(p, d)
  <2>1. /\ 1 \in DOMAIN run[s].items /\ run[s].items[1] = "none" /\ run[s].content[1] = web[p].doc
        /\ (Filled(s, 1, "NEW") /\ ~web[p].dup) \/ Filled(s, 1, "DUPLICATE_HASH")
    BY <1>4, WebEnlists
  <2>2. NewDocs(s)' = NewDocs(s) \/ (~web[p].dup /\ NewDocs(s)' = NewDocs(s) \cup {web[p].doc})
    BY <1>0, <2>1, ItemFilled
  <2> QED BY <1>4, <2>2, WebEnlists DEF WebHolds
<1> QED BY <1>1, <1>2, <1>3, <1>4, RunItems

(* At most one run grows in a step.                                          *)
LEMMA OneGrows ==
  ASSUME TypeInv, Arriving, [Next]_vars, NEW s \in Runs, NEW d, d \in NewDocs(s)', d \notin NewDocs(s)
  PROVE  \A t \in Runs : t # s => NewDocs(t)' = NewDocs(t)
<1> SUFFICES ASSUME NEW t \in Runs, t # s PROVE NewDocs(t)' = NewDocs(t)
  OBVIOUS
<1>1. \E rec : run' = [run EXCEPT ![s] = rec]
  <2>1. CASE EnlistAttachment(s)
    BY <2>1 DEF EnlistAttachment, Enlist
  <2>2. ASSUME NEW p \in People, UploadEnlist(p), web[p].run = s
        PROVE  \E rec : run' = [run EXCEPT ![s] = rec]
    BY <2>2 DEF UploadEnlist, Enlist
  <2> QED BY <2>1, <2>2, NewDocsGrow
<1>2. run'[t] = run[t]
  BY <1>1 DEF TypeInv, RunsOK
<1> QED BY <1>2 DEF NewDocs, Received

-----------------------------------------------------------------------------
(* Documents: what a step does to a document, and for whom.                  *)

Arrives(d) == ~Exists(d) /\ doc'[d] = [doc[d] EXCEPT !.status = "QUEUED"]
Listed(d) ==
  /\ \/ \E r \in Runs : EnlistAttachment(r) /\ JobHolds(r, d)
     \/ \E p \in People : UploadEnlist(p) /\ WebHolds(p, d)
  /\ doc'[d] = [doc[d] EXCEPT !.intake = "QUEUED"]
ClaimDeed(r, d) ==
  /\ Claim(r) /\ d \in job[r].todo /\ doc[d].status = "QUEUED" /\ ~Judged(d)
  /\ doc'[d] = [doc[d] EXCEPT !.status = "PROCESSING", !.intake = "PROCESSING"]
JudgedAutomatically(d, g) ==
  [EndAttempt(d, "SUCCEEDED") EXCEPT !.decision = "AUTOMATIC", !.ground = g, !.route = "PENDING"]
WorkDeed(r, d) ==
  /\ d = job[r].doc
  /\ \/ CreateAttempt(r) /\ doc'[d] = [doc[d] EXCEPT !.tries = Append(@, "PROCESSING")]
     \/ FetchFails(r) /\ doc'[d] = [doc[d] EXCEPT !.status = "FAILED", !.intake = "FAILED"]
     \/ FailDocument(r) /\ doc'[d] = [doc[d] EXCEPT !.status = "FAILED", !.intake = "FAILED"]
     \/ Classify(r) /\ doc'[d] = ReviewOpened(d, "SUCCEEDED")
     \/ /\ Classify(r) /\ doc[d].decision = "none"
        /\ \E g \in Grounds : doc'[d] = JudgedAutomatically(d, g)
     \/ ClassifierFails(r) /\ doc'[d] = ReviewOpened(d, "FAILED")
     \/ ClassifierBreaks(r) /\ doc'[d] = EndAttempt(d, "FAILED")
     \/ RouteByWorker(r) /\ doc'[d] = Routed(d)
     \/ RouteFailsByWorker(r) /\ doc'[d] = RouteFailed(d)
Recovery(r) ==
  ResumeInterrupted(r) \/ ExhaustInterrupted(r) \/ ReconcileQueued(r) \/ ReconcileRunning(r)
RecoveryDeed(r, d) ==
  Recovery(r) /\ d \in NewDocs(r) /\ (doc'[d] = ItemsReset(r)[d] \/ doc'[d] = ItemsClosed(r)[d])
RouteDeed(p, d) ==
  /\ RouteByRequest(p) /\ d = web[p].doc
  /\ doc'[d] = Routed(d) \/ doc'[d] = RouteFailed(d)
ResolveDeed(p, r, d) ==
  /\ Resolve(p, r, d)
  /\ doc'[d] = [doc[d] EXCEPT !.review = "COMPLETED", !.decision = "HUMAN_REVIEW", !.route = "PENDING"]

LEMMA DocumentDeeds ==
  ASSUME TypeInv, Arriving, [Next]_vars, NEW d \in Docs
  PROVE  \/ doc'[d] = doc[d] \/ Arrives(d) \/ Listed(d)
         \/ \E r \in Runs : ClaimDeed(r, d) \/ WorkDeed(r, d) \/ RecoveryDeed(r, d)
         \/ \E p \in People : RouteDeed(p, d) \/ \E r \in Runs : ResolveDeed(p, r, d)
<1> DEFINE Goal ==
      \/ doc'[d] = doc[d] \/ Arrives(d) \/ Listed(d)
      \/ \E r \in Runs : ClaimDeed(r, d) \/ WorkDeed(r, d) \/ RecoveryDeed(r, d)
      \/ \E p \in People : RouteDeed(p, d) \/ \E r \in Runs : ResolveDeed(p, r, d)
<1> SUFFICES Goal
  OBVIOUS
<1>0. doc[d] \in AnyDoc /\ DocsOK /\ doc \in [Docs -> DocRow]
  BY DEF TypeInv, DocsOK, DocRow
<1>1. CASE UNCHANGED doc
  BY <1>1
<1>2. ASSUME NEW e, NEW rec, doc' = [doc EXCEPT ![e] = rec], d # e PROVE Goal
  BY <1>0, <1>2
<1>3. ASSUME NEW r \in Runs, DocumentWork(r) PROVE Goal
  <2> DEFINE e == job[r].doc
  <2>1. CASE IngestAttachment(r)
    <3>1. \/ UNCHANGED doc
          \/ /\ ~Exists(Attachment(r))
             /\ doc' = [doc EXCEPT ![Attachment(r)] = [doc[Attachment(r)] EXCEPT !.status = "QUEUED"]]
      BY <2>1 DEF IngestAttachment, KnownContent, NewContent, Exists
    <3> QED BY <1>0, <1>1, <1>2, <3>1 DEF Arrives
  <2>2. CASE EnlistAttachment(r)
    <3>1. \/ UNCHANGED doc
          \/ ~job[r].dup /\ doc' = [doc EXCEPT ![Attachment(r)].intake = "QUEUED"]
      BY <2>2 DEF EnlistAttachment, Enlist, Attachment
    <3>2. CASE ~job[r].dup /\ d = Attachment(r)
      BY <1>0, <1>1, <2>2, <3>1, <3>2, JobEnlists DEF Listed, JobHolds
    <3> QED BY <1>1, <1>2, <3>1, <3>2
  <2>3. CASE Claim(r)
    <3>1. \/ UNCHANGED doc
          \/ \E x \in job[r].todo :
               /\ doc[x].status = "QUEUED" /\ ~Judged(x)
               /\ doc' = [doc EXCEPT ![x].status = "PROCESSING", ![x].intake = "PROCESSING"]
      BY <2>3 DEF Claim, Judged
    <3>2. ASSUME NEW x \in job[r].todo, doc[x].status = "QUEUED", ~Judged(x),
                 doc' = [doc EXCEPT ![x].status = "PROCESSING", ![x].intake = "PROCESSING"]
          PROVE  Goal
      <4>1. CASE d = x
        <5>1. doc'[d] = [doc[d] EXCEPT !.status = "PROCESSING", !.intake = "PROCESSING"]
          BY <1>0, <3>2, <4>1
        <5> QED BY <2>3, <3>2, <4>1, <5>1 DEF ClaimDeed
      <4> QED BY <1>0, <3>2, <4>1
    <3> QED BY <1>1, <3>1, <3>2
  <2>4. CASE CreateAttempt(r)
    <3>1. doc' = [doc EXCEPT ![e] = [doc[e] EXCEPT !.tries = Append(@, "PROCESSING")]]
      BY <2>4 DEF CreateAttempt
    <3> QED BY <1>0, <1>2, <2>4, <3>1 DEF WorkDeed
  <2>5. CASE Classify(r)
    <3>1. PICK g \in Grounds :
            \/ doc' = [doc EXCEPT ![e] = ReviewOpened(e, "SUCCEEDED")]
            \/ doc[e].decision = "none" /\ doc' = [doc EXCEPT ![e] = JudgedAutomatically(e, g)]
      BY <2>5 DEF Classify, JudgedAutomatically
    <3> QED BY <1>0, <1>2, <2>5, <3>1 DEF WorkDeed
  <2>6. CASE FailDocument(r) \/ FetchFails(r)
    <3>1. doc' = [doc EXCEPT ![e] = [doc[e] EXCEPT !.status = "FAILED", !.intake = "FAILED"]]
      BY <2>6 DEF FailDocument, FetchFails
    <3> QED BY <1>0, <1>2, <2>6, <3>1 DEF WorkDeed
  <2>7. CASE RouteByWorker(r) \/ RouteFailsByWorker(r)
    BY <1>0, <1>2, <2>7 DEF WorkDeed, RouteByWorker, RouteFailsByWorker
  <2>8. CASE Recovery(r)
    <3>1. doc' = ItemsReset(r) \/ doc' = ItemsClosed(r) \/ UNCHANGED doc
      BY <2>8 DEF Recovery, ResumeInterrupted, ExhaustInterrupted, ReconcileQueued, ReconcileRunning
    <3>2. d \notin NewDocs(r) => ItemsReset(r)[d] = doc[d] /\ ItemsClosed(r)[d] = doc[d]
      BY DEF ItemsReset, ItemsClosed
    <3> QED BY <1>1, <2>8, <3>1, <3>2 DEF RecoveryDeed
  <2>9. CASE ClassifierFails(r) \/ ClassifierBreaks(r)
    BY <1>0, <1>2, <2>9 DEF WorkDeed, ClassifierFails, ClassifierBreaks
  <2> QED BY <1>3, <2>1, <2>2, <2>3, <2>4, <2>5, <2>6, <2>7, <2>8, <2>9 DEF DocumentWork, Recovery
<1>4. ASSUME NEW p \in People, DocumentRequest(p) PROVE Goal
  <2> DEFINE e == web[p].doc
  <2>1. CASE UploadIngest(p)
    <3>1. \/ UNCHANGED doc
          \/ ~Exists(e) /\ doc' = [doc EXCEPT ![e] = [doc[e] EXCEPT !.status = "QUEUED"]]
      BY <2>1 DEF UploadIngest, KnownContent, NewContent, Exists
    <3> QED BY <1>0, <1>1, <1>2, <3>1 DEF Arrives
  <2>2. CASE UploadEnlist(p)
    <3>1. UNCHANGED doc \/ (~web[p].dup /\ doc' = [doc EXCEPT ![e].intake = "QUEUED"])
      BY <2>2, WebEnlists DEF UploadEnlist, Enlist
    <3>2. CASE ~web[p].dup /\ d = e
      <4>1. CASE doc' = [doc EXCEPT ![e].intake = "QUEUED"]
        <5>1. doc'[d] = [doc[d] EXCEPT !.intake = "QUEUED"]
          BY <1>0, <3>2, <4>1
        <5> QED BY <2>2, <3>2, <5>1, WebEnlists DEF Listed, WebHolds
      <4> QED BY <1>1, <3>1, <4>1
    <3> QED BY <1>1, <1>2, <3>1, <3>2
  <2>3. CASE RouteByRequest(p)
    <3>1. doc' = [doc EXCEPT ![e] = Routed(e)] \/ doc' = [doc EXCEPT ![e] = RouteFailed(e)]
      BY <2>3 DEF RouteByRequest
    <3> QED BY <1>0, <1>2, <2>3, <3>1 DEF RouteDeed
  <2>4. ASSUME NEW r \in Runs, NEW x \in Docs, Resolve(p, r, x) PROVE Goal
    <3>1. doc' = [doc EXCEPT ![x] = [doc[x] EXCEPT !.review = "COMPLETED",
                                          !.decision = "HUMAN_REVIEW", !.route = "PENDING"]]
      BY <2>4 DEF Resolve
    <3> QED BY <1>0, <1>2, <2>4, <3>1 DEF ResolveDeed
  <2> QED BY <1>4, <2>1, <2>2, <2>3, <2>4 DEF DocumentRequest
<1> HIDE DEF Goal
<1> QED BY <1>1, <1>3, <1>4, WhoWritesDocuments DEF vars

-----------------------------------------------------------------------------
(* Jobs and requests: what they may turn to.                               *)

LEMMA ThisJob ==
  ASSUME TypeInv, [Next]_vars, NEW r \in Runs
  PROVE  job'[r] = job[r] \/ JobWork(r)
<1>1. ASSUME NEW q \in Runs, JobWork(q), q # r PROVE job'[r] = job[r]
  <2>1. \E rec : job' = [job EXCEPT ![q] = rec]
    BY <1>1 DEF JobWork, WorkerStep, Advance, IngestAttachment, EnlistAttachment, AttachmentFails,
      EndIngestion, PickRoute, EndRoutes, Superseded, Claim, LeaveDocument, CreateAttempt, Classify,
      FailDocument, FetchFails, ClassifierFails, ClassifierBreaks, BeginRoute, CopyByWorker, CopyByWorkerFails,
      RouteByWorker, RouteFailsByWorker, Finish, FailUnhandled, LoseWorker, Start, ResumeInterrupted
  <2> QED BY <1>1, <2>1 DEF TypeInv, JobsOK
<1> QED BY <1>1, WhoWritesJobs DEF vars

LEMMA ThisRequest ==
  ASSUME TypeInv, [Next]_vars, NEW p \in People
  PROVE  web'[p] = web[p] \/ RequestWork(p)
<1>1. ASSUME NEW q \in People, RequestWork(q), q # p PROVE web'[p] = web[p]
  <2>1. \/ \E rec : web' = [web EXCEPT ![q] = rec]
        \/ \E pc : web' = [web EXCEPT ![q].pc = pc]
        \/ \E pc, dup : web' = [web EXCEPT ![q].pc = pc, ![q].dup = dup]
    BY <1>1 DEF RequestWork, RequestStep, UploadIngest, UploadEnlist, RouteByRequest, UploadQueue,
      RecomputeByRequest, UploadFails, WebDies, CopyByRequest, CopyByRequestFails, RequestUpload,
      Resolve, Retry
  <2> QED BY <1>1, <2>1 DEF TypeInv, WebOK
<1> QED BY <1>1, WhoWritesRequests DEF vars

(* A job takes up what its run has received, and comes to an open place with *)
(* a content that exists only as a duplicate.                                *)
Reaches(r) ==
  /\ IngestAttachment(r) /\ r \in InboxRuns
  /\ job[r].i \in 1..Len(Inbox) /\ run[r].items[job[r].i] = "none"
  /\ job'[r].i = job[r].i
  /\ Exists(Attachment(r)) => job'[r].dup
JobMove(r) ==
  /\ job'[r].todo \subseteq NewDocs(r)
  /\ job'[r].pc \in InWork => job'[r].doc \in NewDocs(r)
  /\ job'[r].pc = "enlist" => job'[r] = job[r] \/ Reaches(r)

LEMMA JobMoves ==
  ASSUME TypeInv, AtWork, [Next]_vars, NEW r \in Runs
  PROVE  JobMove(r)
<1>0. /\ job[r] \in JobRow /\ JobSane(r, job[r]) /\ job \in [Runs -> JobRow]
      /\ job[r].todo \subseteq NewDocs(r)
      /\ job[r].pc \in InWork => job[r].doc \in NewDocs(r)
  BY DEF TypeInv, JobsOK, AtWork, AtWorkJob
<1>1. CASE job'[r] = job[r]
  BY <1>0, <1>1 DEF JobMove
<1>2. ASSUME JobWork(r) PROVE JobMove(r)
  <2>1. ASSUME NEW rec, Advance(r, rec) PROVE job'[r] = rec
    BY <1>0, <2>1 DEF Advance
  <2>2. ASSUME job'[r].todo \subseteq NewDocs(r), job'[r].pc \notin InWork, job'[r].pc # "enlist"
        PROVE  JobMove(r)
    BY <2>2 DEF JobMove
  <2>3. ASSUME NEW pc \in {"routes", "docs"}, Advance(r, Leave(r, pc)) PROVE JobMove(r)
    <3>1. job'[r].pc = pc /\ job'[r].todo = job[r].todo
      BY <1>0, <2>1, <2>3 DEF Leave, JobRow
    <3> QED BY <1>0, <2>2, <3>1 DEF InWork
  <2>4. ASSUME Advance(r, NoJob) PROVE JobMove(r)
    <3>1. job'[r].pc = "none" /\ job'[r].todo = {}
      BY <2>1, <2>4 DEF NoJob
    <3> QED BY <2>2, <3>1 DEF InWork
  <2>5. ASSUME NEW pc \in InWork, job[r].pc \in InWork, Advance(r, Goto(r, pc)) PROVE JobMove(r)
    <3>1. job'[r].pc = pc /\ job'[r].todo = job[r].todo /\ job'[r].doc = job[r].doc
      BY <1>0, <2>1, <2>5 DEF Goto, JobRow
    <3> QED BY <1>0, <2>5, <3>1 DEF JobMove, InWork
  <2>6. CASE EnlistAttachment(r) \/ AttachmentFails(r)
    <3> DEFINE a == NextAttachment(r)
               b == [NextAttachment(r) EXCEPT !.failures = @ + 1]
    <3>1. a.pc = "ingest" /\ a.todo = job[r].todo /\ b.pc = "ingest" /\ b.todo = job[r].todo
      BY <1>0 DEF NextAttachment, Goto, JobRow
    <3>2. Advance(r, a) \/ Advance(r, b)
      BY <2>6 DEF EnlistAttachment, AttachmentFails
    <3> HIDE DEF a, b
    <3> QED BY <1>0, <2>1, <2>2, <3>1, <3>2 DEF InWork
  <2>7. CASE IngestAttachment(r)
    <3> DEFINE a == NextAttachment(r)
               b == Goto(r, "enlist")
               c == [Goto(r, "enlist") EXCEPT !.dup = TRUE]
    <3>1. /\ a.pc = "ingest" /\ a.todo = job[r].todo
          /\ b.pc = "enlist" /\ b.todo = job[r].todo /\ b.i = job[r].i
          /\ c.pc = "enlist" /\ c.todo = job[r].todo /\ c.i = job[r].i /\ c.dup
      BY <1>0 DEF NextAttachment, Goto, JobRow
    <3>2. \/ Advance(r, a)
          \/ /\ Advance(r, b) \/ Advance(r, c) 
             /\ run[r].items[job[r].i] = "none"
             /\ Exists(Attachment(r)) => Advance(r, c)
      BY <2>7 DEF IngestAttachment, NewContent, Exists
    <3>3. r \in InboxRuns /\ job[r].i \in 1..Len(Inbox)
      <4>1. Len(Inbox) \in Nat /\ job[r].i \in Nat
        BY <1>0, ConstantsAssumption DEF JobRow
      <4> QED BY <1>0, <2>7, <4>1 DEF IngestAttachment, JobSane
    <3> HIDE DEF a, b, c
    <3>4. CASE Advance(r, a)
      BY <1>0, <2>1, <2>2, <3>1, <3>4 DEF InWork
    <3>5. CASE ~Advance(r, a)
      <4>1. /\ job'[r].pc = "enlist" /\ job'[r].todo = job[r].todo /\ job'[r].i = job[r].i
            /\ Exists(Attachment(r)) => job'[r].dup
        BY <2>1, <3>1, <3>2, <3>5
      <4>2. Reaches(r)
        BY <2>7, <3>2, <3>3, <3>5, <4>1 DEF Reaches
      <4> QED BY <1>0, <4>1, <4>2 DEF JobMove, InWork
    <3> QED BY <3>4, <3>5
  <2>8. CASE EndIngestion(r) \/ EndRoutes(r)
    <3> DEFINE a == [Goto(r, "routes") EXCEPT !.todo = PendingRoutes(r)]
               b == [Goto(r, "docs") EXCEPT !.phase = "docs", !.todo = NewDocs(r)]
    <3>1. a.pc = "routes" /\ a.todo = PendingRoutes(r) /\ b.pc = "docs" /\ b.todo = NewDocs(r)
      BY <1>0 DEF Goto, JobRow
    <3>2. Advance(r, a) \/ Advance(r, b)
      BY <2>8 DEF EndIngestion, EndRoutes
    <3> HIDE DEF a, b
    <3>3. /\ job'[r].pc \in {"routes", "docs"}
          /\ job'[r].todo = PendingRoutes(r) \/ job'[r].todo = NewDocs(r)
      BY <2>1, <3>1, <3>2
    <3> QED BY <2>2, <3>3 DEF InWork, PendingRoutes
  <2>9. CASE PickRoute(r)
    <3> PICK d \in job[r].todo : Advance(r, [Goto(r, "route") EXCEPT !.doc = d, !.todo = @ \ {d}])
      BY <2>9 DEF PickRoute
    <3>1. job'[r].pc = "route" /\ job'[r].doc = d /\ job'[r].todo = job[r].todo \ {d}
      BY <1>0, <2>1 DEF Goto, JobRow
    <3> QED BY <1>0, <3>1 DEF JobMove
  <2>10. CASE Claim(r)
    <3> PICK d \in job[r].todo, pc \in {"claimed", "docs"} :
          Advance(r, [job[r] EXCEPT !.pc = pc, !.doc = IF pc = "claimed" THEN d ELSE NoDoc,
                                    !.todo = @ \ {d}])
      BY <2>10 DEF Claim
    <3>1. /\ job'[r].pc = pc
          /\ job'[r].doc = (IF pc = "claimed" THEN d ELSE NoDoc)
          /\ job'[r].todo = job[r].todo \ {d}
      BY <1>0, <2>1 DEF JobRow
    <3> QED BY <1>0, <3>1 DEF JobMove, InWork
  <2>11. CASE Superseded(r) \/ LeaveDocument(r) \/ FailDocument(r) \/ FetchFails(r) \/ RouteByWorker(r)
    <3>1. (\E pc \in {"routes", "docs"} : Advance(r, Leave(r, pc))) \/ Advance(r, NoJob)
      BY <1>0, <2>11 DEF Superseded, LeaveDocument, FailDocument, FetchFails, RouteByWorker, JobRow, Leave
    <3> QED BY <2>3, <2>4, <3>1
  <2>12. CASE CreateAttempt(r) \/ ClassifierBreaks(r) \/ CopyByWorkerFails(r)
    <3>1. (\E pc \in InWork : Advance(r, Goto(r, pc))) /\ job[r].pc \in InWork
      BY <2>12 DEF CreateAttempt, ClassifierBreaks, CopyByWorkerFails, InDocument, InWork
    <3> QED BY <2>5, <3>1
  <2>13. CASE Classify(r) \/ ClassifierFails(r)
    <3>1. Advance(r, Leave(r, "docs")) \/ (Advance(r, Goto(r, "route")) /\ job[r].pc \in InWork)
      BY <2>13 DEF Classify, ClassifierFails, InDocument, InWork
    <3> QED BY <2>3, <2>5, <3>1 DEF InWork
  <2>14. CASE BeginRoute(r) \/ CopyByWorker(r) \/ RouteFailsByWorker(r)
    <3>1. \/ \E pc \in {"routes", "docs"} : Advance(r, Leave(r, pc))
          \/ (\E pc \in {"failing", "copy", "copied"} : Advance(r, Goto(r, pc))) /\ job[r].pc \in InWork
      BY <1>0, <2>14 DEF BeginRoute, CopyByWorker, RouteFailsByWorker, InDocument, JobRow, InWork
    <3> QED BY <2>3, <2>5, <3>1 DEF InWork
  <2>15. CASE Finish(r) \/ FailUnhandled(r) \/ LoseWorker(r)
    <3>1. Advance(r, NoJob)
      BY <2>15 DEF Finish, FailUnhandled, LoseWorker, Leave, Advance
    <3> QED BY <2>4, <3>1
  <2>16. CASE Start(r) \/ ResumeInterrupted(r)
    <3> DEFINE rec == FirstStep(r, msg[r].task)
    <3>1. job'[r] = rec
      BY <2>1, <2>16 DEF Start, ResumeInterrupted
    <3>2. rec.pc \in {"ingest", "routes"} /\ rec.todo \subseteq PendingRoutes(r)
      BY DEF FirstStep, NoJob
    <3> HIDE DEF rec
    <3> QED BY <2>2, <3>1, <3>2 DEF InWork, PendingRoutes
  <2> QED BY <1>2, <2>6, <2>7, <2>8, <2>9, <2>10, <2>11, <2>12, <2>13, <2>14, <2>15, <2>16
          DEF JobWork, WorkerStep
<1> QED BY <1>1, <1>2, ThisJob

(* A request routes a document of its run, and an upload comes to its item   *)
(* with a content that exists only as a duplicate.                           *)
Uploads(p) ==
  \E r \in Runs, d \in Docs :
    RequestUpload(p, r, d) /\ web'[p].run = r /\ web'[p].doc = d /\ web'[p].pc = "ingest"
WebMove(p) ==
  /\ web'[p].pc \in InRouting =>
       web'[p].run \in Runs /\ web'[p].doc \in NewDocs(web'[p].run)
  /\ web'[p].pc \in Uploading =>
       \/ web[p].pc \in Uploading /\ web'[p].run = web[p].run /\ web'[p].doc = web[p].doc
       \/ Uploads(p)
  /\ web'[p].pc = "enlist" =>
       \/ web'[p] = web[p]
       \/ /\ UploadIngest(p) /\ web'[p].doc = web[p].doc
          /\ Exists(web[p].doc) => web'[p].dup

LEMMA WebMoves ==
  ASSUME TypeInv, AtWork, [Next]_vars, NEW p \in People
  PROVE  WebMove(p)
<1>0. /\ web[p] \in WebRow /\ WebSane(web[p]) /\ web \in [People -> WebRow]
      /\ web[p].pc \in InRouting => web[p].run \in Runs /\ web[p].doc \in NewDocs(web[p].run)
  BY DEF TypeInv, WebOK, AtWork, AtWorkWeb, InRouting, WebSane
<1>1. CASE web'[p] = web[p]
  BY <1>0, <1>1 DEF WebMove
<1>2. ASSUME RequestWork(p) PROVE WebMove(p)
  <2>1. ASSUME web'[p].pc \notin InRouting \cup Uploading PROVE WebMove(p)
    BY <2>1 DEF WebMove, Uploading
  <2>2. CASE UploadIngest(p)
    <3>1. /\ web[p].pc = "ingest" /\ web'[p].pc = "enlist"
          /\ web'[p].run = web[p].run /\ web'[p].doc = web[p].doc
          /\ Exists(web[p].doc) => web'[p].dup
      BY <1>0, <2>2 DEF UploadIngest, NewContent, Exists, WebRow
    <3> QED BY <2>2, <3>1 DEF WebMove, Uploading, InRouting
  <2>3. CASE UploadEnlist(p) \/ RouteByRequest(p)
    <3>1. web'[p].pc \in {"recompute", "queue"}
      BY <1>0, <2>3 DEF UploadEnlist, RouteByRequest, WebRow
    <3> QED BY <2>1, <3>1 DEF InRouting, Uploading
  <2>4. CASE UploadQueue(p) \/ RecomputeByRequest(p) \/ UploadFails(p) \/ WebDies(p)
    <3>1. web'[p] = NoRequest
      BY <1>0, <2>4 DEF UploadQueue, RecomputeByRequest, UploadFails, WebDies
    <3> QED BY <2>1, <3>1 DEF NoRequest, InRouting, Uploading
  <2>5. CASE CopyByRequest(p) \/ CopyByRequestFails(p)
    <3>1. web[p].pc \in InRouting /\ web'[p].run = web[p].run /\ web'[p].doc = web[p].doc
      BY <1>0, <2>5 DEF CopyByRequest, CopyByRequestFails, WebRow, InRouting
    <3>2. web'[p].pc \in {"recompute", "refused", "copied"}
      BY <1>0, <2>5 DEF CopyByRequest, CopyByRequestFails, WebRow
    <3> QED BY <1>0, <3>1, <3>2 DEF WebMove, Uploading
  <2>6. ASSUME NEW r \in Runs, NEW d \in Docs, RequestUpload(p, r, d) PROVE WebMove(p)
    <3>1. web'[p].pc = "ingest" /\ web'[p].run = r /\ web'[p].doc = d
      BY <1>0, <2>6 DEF RequestUpload
    <3> QED BY <2>6, <3>1 DEF WebMove, Uploads, InRouting
  <2>7. ASSUME NEW r \in Runs, NEW d \in Docs, Resolve(p, r, d) \/ Retry(p, r, d) PROVE WebMove(p)
    <3>1. web'[p].pc = "route" /\ web'[p].run = r /\ web'[p].doc = d /\ d \in NewDocs(r)
      BY <1>0, <2>7 DEF Resolve, Retry
    <3> QED BY <3>1 DEF WebMove, Uploading
  <2> QED BY <1>2, <2>2, <2>3, <2>4, <2>5, <2>6, <2>7 DEF RequestWork, RequestStep
<1> QED BY <1>1, <1>2, ThisRequest

-----------------------------------------------------------------------------
(* The step.                                                               *)

LEMMA OwnedOnceStep == TypeInv /\ OwnInv /\ [Next]_vars => OwnedOnce'
<1> SUFFICES ASSUME TypeInv, OwnInv, [Next]_vars,
                    NEW d \in Docs, NEW r \in Runs, NEW s \in Runs,
                    d \in NewDocs(r)', d \in NewDocs(s)', r # s
             PROVE  FALSE
  BY DEF OwnedOnce
<1>1. ~(d \in NewDocs(r) /\ d \in NewDocs(s))
  BY DEF OwnInv, OwnedOnce
<1>2. ASSUME NEW t \in Runs, d \in NewDocs(t)', d \notin NewDocs(t)
      PROVE  Fresh(d) /\ \A u \in Runs : u # t => NewDocs(u)' = NewDocs(u)
  BY <1>2, NewDocsGrow, OneGrows DEF OwnInv, HeldOnce
<1> QED BY <1>1, <1>2 DEF Fresh

(* Content that a run has is not changed once the run was requested.          *)
LEMMA ContentKept ==
  ASSUME TypeInv, Arriving, [Next]_vars, NEW r \in Runs, run[r].status # "absent"
  PROVE  run'[r].content = run[r].content
<1>0. RunsOK
  BY DEF TypeInv
<1>1. CASE EnlistAttachment(r)
  BY <1>0, <1>1, JobEnlists, ItemFilled
<1>2. ASSUME NEW p \in People, UploadEnlist(p), web[p].run = r PROVE run'[r].content = run[r].content
  BY <1>0, <1>2, WebEnlists, ItemFilled
<1> QED BY <1>1, <1>2, RunItems DEF SameItems, Opened

(* What an enlistment does to the document it lists.                         *)
LEMMA EnlistedDocument ==
  ASSUME TypeInv, Arriving, NEW d \in Docs,
         \/ \E r \in Runs : EnlistAttachment(r) /\ JobHolds(r, d)
         \/ \E p \in People : UploadEnlist(p) /\ WebHolds(p, d)
  PROVE  doc'[d] = [doc[d] EXCEPT !.intake = "QUEUED"]
<1>1. ASSUME NEW r \in Runs, EnlistAttachment(r), JobHolds(r, d)
      PROVE  doc' = [doc EXCEPT ![d].intake = "QUEUED"]
  BY <1>1 DEF EnlistAttachment, Enlist, JobHolds, Attachment
<1>2. ASSUME NEW p \in People, UploadEnlist(p), WebHolds(p, d)
      PROVE  doc' = [doc EXCEPT ![d].intake = "QUEUED"]
  BY <1>2, WebEnlists DEF UploadEnlist, Enlist, WebHolds
<1> QED BY <1>1, <1>2 DEF TypeInv, DocsOK

(* Whoever works on a document works for a run that has received it.         *)
LEMMA DeedsOwned ==
  ASSUME TypeInv, AtWork, NEW d \in Docs
  PROVE  /\ \A r \in Runs : ClaimDeed(r, d) \/ WorkDeed(r, d) \/ RecoveryDeed(r, d) => d \in NewDocs(r)
         /\ \A p \in People : RouteDeed(p, d) => d \in NewDocs(web[p].run) /\ web[p].run \in Runs
         /\ \A p \in People, r \in Runs : ResolveDeed(p, r, d) => d \in NewDocs(r)
<1>1. ASSUME NEW r \in Runs, WorkDeed(r, d) PROVE d \in NewDocs(r)
  <2>1. job[r].pc \in InWork
    BY <1>1 DEF WorkDeed, CreateAttempt, FetchFails, FailDocument, Classify, ClassifierFails,
      ClassifierBreaks, RouteByWorker, RouteFailsByWorker, InDocument, InWork
  <2> QED BY <1>1, <2>1 DEF WorkDeed, AtWork, AtWorkJob
<1>2. ASSUME NEW r \in Runs, ClaimDeed(r, d) \/ RecoveryDeed(r, d) PROVE d \in NewDocs(r)
  BY <1>2 DEF ClaimDeed, RecoveryDeed, AtWork, AtWorkJob
<1>3. ASSUME NEW p \in People, RouteDeed(p, d) PROVE d \in NewDocs(web[p].run) /\ web[p].run \in Runs
  BY <1>3 DEF RouteDeed, RouteByRequest, AtWork, AtWorkWeb, InRouting, TypeInv, WebOK, WebSane
<1>4. ASSUME NEW p \in People, NEW r \in Runs, ResolveDeed(p, r, d) PROVE d \in NewDocs(r)
  BY <1>4 DEF ResolveDeed, Resolve
<1> QED BY <1>1, <1>2, <1>3, <1>4

(* The document that an attempt, a review or a route is about keeps its       *)
(* intake in step with its state.                                            *)
LEMMA DeedsMirror ==
  ASSUME TypeInv, NEW d \in Docs, Exists(d), doc[d].intake = doc[d].status,
         \/ doc'[d] = doc[d]
         \/ \E r \in Runs : ClaimDeed(r, d) \/ WorkDeed(r, d) \/ RecoveryDeed(r, d)
         \/ \E p \in People : RouteDeed(p, d) \/ \E r \in Runs : ResolveDeed(p, r, d)
  PROVE  doc'[d].intake = doc'[d].status /\ doc'[d].status # "absent"
<1>0. doc[d] \in AnyDoc /\ DocsOK
  BY DEF TypeInv, DocsOK, DocRow
<1>1. \A v \in Verdicts : /\ EndAttempt(d, v) \in AnyDoc
                          /\ EndAttempt(d, v).status = doc[d].status
                          /\ EndAttempt(d, v).intake = doc[d].intake
  <2>1. \A v \in Verdicts : EndAttempt(d, v) \in AnyDoc
    BY <1>0, DocumentRows DEF DocRow
  <2> QED BY <1>0, <2>1 DEF EndAttempt, AnyDoc
<1>r. /\ Routed(d).intake = Routed(d).status /\ Routed(d).status # "absent"
      /\ RouteFailed(d).intake = RouteFailed(d).status /\ RouteFailed(d).status # "absent"
  <2>1. Routed(d).intake = Routed(d).status /\ Routed(d).status # "absent"
    BY <1>0 DEF Routed, AnyDoc
  <2>2. RouteFailed(d).intake = RouteFailed(d).status /\ RouteFailed(d).status # "absent"
    BY <1>0 DEF RouteFailed, AnyDoc
  <2> QED BY <2>1, <2>2
<1>2. ASSUME NEW r \in Runs, ClaimDeed(r, d) PROVE doc'[d].intake = doc'[d].status /\ doc'[d].status # "absent"
  BY <1>0, <1>2 DEF ClaimDeed, AnyDoc
<1>3. ASSUME NEW r \in Runs, WorkDeed(r, d) PROVE doc'[d].intake = doc'[d].status /\ doc'[d].status # "absent"
  <2>1. CASE doc'[d] = [doc[d] EXCEPT !.tries = Append(@, "PROCESSING")]
    BY <1>0, <2>1 DEF AnyDoc, Exists
  <2>2. CASE doc'[d] = [doc[d] EXCEPT !.status = "FAILED", !.intake = "FAILED"]
    BY <1>0, <2>2 DEF AnyDoc
  <2>3. ASSUME NEW v \in Verdicts, doc'[d] = ReviewOpened(d, v)
        PROVE  doc'[d].intake = doc'[d].status /\ doc'[d].status # "absent"
    BY <1>1, <2>3 DEF ReviewOpened, AnyDoc
  <2>4. ASSUME NEW g \in Grounds, doc'[d] = JudgedAutomatically(d, g)
        PROVE  doc'[d].intake = doc'[d].status /\ doc'[d].status # "absent"
    BY <1>1, <2>4 DEF JudgedAutomatically, AnyDoc, Verdicts, Exists
  <2>5. CASE doc'[d] = EndAttempt(d, "FAILED")
    BY <1>1, <2>5 DEF Verdicts, Exists
  <2>6. CASE doc'[d] = Routed(d) \/ doc'[d] = RouteFailed(d)
    BY <1>r, <2>6
  <2> QED BY <1>3, <2>1, <2>2, <2>3, <2>4, <2>5, <2>6 DEF WorkDeed, Verdicts
<1>4. ASSUME NEW r \in Runs, RecoveryDeed(r, d)
      PROVE  doc'[d].intake = doc'[d].status /\ doc'[d].status # "absent"
  <2>0. d \in NewDocs(r)
    BY <1>4 DEF RecoveryDeed
  <2>1. CASE doc'[d] = ItemsReset(r)[d]
    <3>1. CASE InterruptedDoc(d)
      BY <1>0, <2>0, <2>1, <3>1 DEF ItemsReset, Reopened, InterruptedDoc, AnyDoc
    <3>2. CASE ~InterruptedDoc(d)
      BY <1>0, <2>0, <2>1, <3>2 DEF ItemsReset, AnyDoc, Exists
    <3> QED BY <3>1, <3>2
  <2>2. CASE doc'[d] = ItemsClosed(r)[d]
    <3>1. CASE Abandoned(d)
      <4>1. ItemsClosed(r)[d].status = "FAILED" /\ ItemsClosed(r)[d].intake = "FAILED"
        BY <1>0, <2>0, <3>1 DEF ItemsClosed, Abandoned, AnyDoc
      <4> QED BY <2>2, <4>1
    <3>2. CASE ~Abandoned(d)
      <4>1. ItemsClosed(r)[d].status = doc[d].status /\ ItemsClosed(r)[d].intake = doc[d].intake
        BY <1>0, <2>0, <3>2 DEF ItemsClosed, AnyDoc
      <4> QED BY <2>2, <4>1 DEF Exists
    <3> QED BY <3>1, <3>2
  <2> QED BY <1>4, <2>1, <2>2 DEF RecoveryDeed
<1>5. ASSUME NEW p \in People, RouteDeed(p, d)
      PROVE  doc'[d].intake = doc'[d].status /\ doc'[d].status # "absent"
  <2>1. doc'[d] = Routed(d) \/ doc'[d] = RouteFailed(d)
    BY <1>5 DEF RouteDeed
  <2> QED BY <1>r, <2>1
<1>6. ASSUME NEW p \in People, NEW r \in Runs, ResolveDeed(p, r, d)
      PROVE  doc'[d].intake = doc'[d].status /\ doc'[d].status # "absent"
  BY <1>0, <1>6 DEF ResolveDeed, AnyDoc, Exists
<1> QED BY <1>2, <1>3, <1>4, <1>5, <1>6 DEF Exists

LEMMA MirroredStep == TypeInv /\ OwnInv /\ [Next]_vars => Mirrored'
<1> SUFFICES ASSUME TypeInv, OwnInv, [Next]_vars, NEW r \in Runs, NEW d, d \in NewDocs(r)'
             PROVE  doc'[d].status # "absent" /\ doc'[d].intake = doc'[d].status
  BY DEF Mirrored, Exists
<1>0. Arriving /\ AtWork
  BY DEF OwnInv
<1>1. CASE d \in NewDocs(r)
  <2>1. d \in Docs /\ Exists(d) /\ doc[d].intake = doc[d].status
    BY <1>1, NewDocsAreDocs DEF TypeInv, OwnInv, Mirrored
  <2>2. ~Arrives(d) /\ ~Listed(d)
    BY <1>1, <2>1 DEF Arrives, Listed, OwnInv, HeldOnce, Fresh
  <2> QED BY <1>0, <2>1, <2>2, DocumentDeeds, DeedsMirror
<1>2. CASE d \notin NewDocs(r)
  <2>1. \/ EnlistAttachment(r) /\ JobHolds(r, d)
        \/ \E p \in People : UploadEnlist(p) /\ WebHolds(p, d)
    BY <1>0, <1>2, NewDocsGrow
  <2>2. d \in Docs
    BY <1>0, <2>1, JobEnlists, WebEnlists DEF JobHolds, WebHolds
  <2>3. Fresh(d)
    BY <2>1, <2>2 DEF OwnInv, HeldOnce
  <2>4. doc[d] \in AnyDoc
    BY <2>2 DEF TypeInv, DocsOK, DocRow
  <2> QED BY <1>0, <2>1, <2>2, <2>3, <2>4, EnlistedDocument DEF Fresh, AnyDoc
<1> QED BY <1>1, <1>2

(* What is held and is not listed in this step goes on waiting.               *)
LEMMA StaysFresh ==
  ASSUME TypeInv, OwnInv, [Next]_vars, NEW d \in Docs, Fresh(d),
         \A r \in Runs : ~(EnlistAttachment(r) /\ JobHolds(r, d)),
         \A p \in People : ~(UploadEnlist(p) /\ WebHolds(p, d))
  PROVE  Fresh(d)'
<1>0. Arriving /\ AtWork /\ doc[d] \in AnyDoc
  BY DEF OwnInv, TypeInv, DocsOK, DocRow
<1>1. \A s \in Runs : d \notin NewDocs(s)'
  BY <1>0, NewDocsGrow DEF Fresh
<1>2. doc'[d] = doc[d]
  <2>1. ~Arrives(d) /\ ~Listed(d)
    BY DEF Arrives, Listed, Exists, Fresh
  <2> QED BY <1>0, <2>1, DocumentDeeds, DeedsOwned DEF Fresh
<1> QED BY <1>1, <1>2 DEF Fresh

(* What has just come is held by nobody else.                                *)
LEMMA NewlyFresh ==
  ASSUME TypeInv, OwnInv, [Next]_vars, NEW d \in Docs, ~Exists(d), doc'[d].status = "QUEUED"
  PROVE  Fresh(d)' /\ (\A r \in Runs : ~JobHolds(r, d)) /\ (\A p \in People : ~WebHolds(p, d))
<1>1. (\A r \in Runs : ~JobHolds(r, d)) /\ (\A p \in People : ~WebHolds(p, d))
  BY DEF OwnInv, HeldOnce, Fresh, Exists
<1>2. \A s \in Runs : d \notin NewDocs(s)
  BY DEF OwnInv, Mirrored
<1>3. \A s \in Runs : d \notin NewDocs(s)'
  BY <1>1, <1>2, NewDocsGrow DEF OwnInv
<1> QED BY <1>1, <1>3 DEF Fresh

(* Where a hold comes from: it was there, or a content that nobody had has    *)
(* been stored.                                                              *)
LEMMA JobHoldFrom ==
  ASSUME TypeInv, OwnInv, [Next]_vars, NEW r \in Runs, NEW d, JobHolds(r, d)'
  PROVE  /\ d \in Docs
         /\ \/ JobHolds(r, d) /\ ~EnlistAttachment(r) /\ job'[r] = job[r]
            \/ ~Exists(d) /\ doc'[d].status = "QUEUED" /\ IngestAttachment(r) /\ job'[r] # job[r]
<1>0. Arriving /\ AtWork /\ job[r] \in JobRow /\ job \in [Runs -> JobRow]
  BY DEF OwnInv, TypeInv, JobsOK
<1>1. job'[r].pc = "enlist" /\ ~job'[r].dup /\ d = run'[r].content[job'[r].i]
  BY DEF JobHolds, Attachment
<1>2. CASE job'[r] = job[r]
  <2>1. job[r].pc = "enlist" /\ run[r].status # "absent"
    BY <1>1, <1>2 DEF TypeInv, JobsOK
  <2>2. JobHolds(r, d)
    BY <1>0, <1>1, <1>2, <2>1, ContentKept DEF JobHolds, Attachment
  <2>3. ~EnlistAttachment(r)
    <3>1. NextAttachment(r).pc = "ingest"
      BY <1>0 DEF NextAttachment, Goto, JobRow
    <3> QED BY <1>0, <1>2, <2>1, <3>1 DEF EnlistAttachment, Advance
  <2>4. d \in Docs
    <3>1. run[r].content \in Seq(Docs) /\ DOMAIN run[r].items = DOMAIN run[r].content
      BY DEF TypeInv, RunsOK, RunRow, RunSane
    <3>2. job[r].i \in DOMAIN run[r].items
      BY <1>0, <2>1 DEF Arriving, ArrivingJob
    <3> QED BY <2>2, <3>1, <3>2 DEF JobHolds, Attachment
  <2> QED BY <1>2, <2>2, <2>3, <2>4
<1>3. CASE job'[r] # job[r]
  <2>1. Reaches(r)
    BY <1>0, <1>1, <1>3, JobMoves DEF JobMove
  <2>2. /\ IngestAttachment(r) /\ job[r].pc = "ingest" /\ run[r].status # "absent"
        /\ r \in InboxRuns /\ job[r].i \in 1..Len(Inbox)
    BY <2>1 DEF Reaches, IngestAttachment, TypeInv, JobsOK
  <2>3. run[r].content = Inbox
    BY <2>2 DEF TypeInv, RunsOK, RunSane
  <2>4. d = Attachment(r) /\ d \in Docs
    BY <1>0, <1>1, <2>1, <2>2, <2>3, ContentKept, ConstantsAssumption DEF Reaches, Attachment
  <2>5. ~Exists(d)
    BY <1>1, <2>1, <2>4 DEF Reaches
  <2>6. NewContent(d)
    BY <2>1, <2>2, <2>4, <2>5 DEF Reaches, IngestAttachment, KnownContent, Exists
  <2>7. doc[d] \in AnyDoc /\ DocsOK
    BY <2>4 DEF TypeInv, DocsOK, DocRow
  <2>8. doc'[d].status = "QUEUED"
    BY <2>4, <2>6, <2>7 DEF NewContent, DocsOK, AnyDoc
  <2> QED BY <1>3, <2>2, <2>4, <2>5, <2>8
<1> QED BY <1>2, <1>3

LEMMA WebHoldFrom ==
  ASSUME TypeInv, OwnInv, [Next]_vars, NEW p \in People, NEW d, WebHolds(p, d)'
  PROVE  /\ d \in Docs
         /\ \/ WebHolds(p, d) /\ ~UploadEnlist(p) /\ web'[p] = web[p]
            \/ ~Exists(d) /\ doc'[d].status = "QUEUED" /\ UploadIngest(p) /\ web'[p] # web[p]
<1>0. Arriving /\ AtWork /\ web[p] \in WebRow /\ web \in [People -> WebRow]
  BY DEF OwnInv, TypeInv, WebOK
<1>1. web'[p].pc = "enlist" /\ ~web'[p].dup /\ d = web'[p].doc
  BY DEF WebHolds
<1>2. CASE web'[p] = web[p]
  <2>1. WebHolds(p, d)
    BY <1>1, <1>2 DEF WebHolds
  <2>2. d \in Docs
    BY <1>1, <1>2 DEF TypeInv, WebOK, WebSane
  <2>3. ~UploadEnlist(p)
    <3>1. UploadEnlist(p) => web'[p].pc \in {"recompute", "queue"}
      BY <1>0 DEF UploadEnlist, WebRow
    <3> QED BY <1>1, <3>1
  <2> QED BY <1>2, <2>1, <2>2, <2>3
<1>3. CASE web'[p] # web[p]
  <2>1. UploadIngest(p) /\ web'[p].doc = web[p].doc /\ (Exists(web[p].doc) => web'[p].dup)
    BY <1>0, <1>1, <1>3, WebMoves DEF WebMove
  <2>2. d = web[p].doc /\ ~Exists(d) /\ d \in Docs
    BY <1>1, <2>1 DEF UploadIngest, TypeInv, WebOK, WebSane
  <2>3. NewContent(d)
    BY <2>1, <2>2 DEF UploadIngest, KnownContent, Exists
  <2>4. doc[d] \in AnyDoc /\ DocsOK
    BY <2>2 DEF TypeInv, DocsOK, DocRow
  <2>5. doc'[d].status = "QUEUED"
    BY <2>2, <2>3, <2>4 DEF NewContent, DocsOK, AnyDoc
  <2> QED BY <1>3, <2>1, <2>2, <2>5
<1> QED BY <1>2, <1>3

LEMMA HeldOnceStep == TypeInv /\ OwnInv /\ [Next]_vars => HeldOnce'
<1> SUFFICES ASSUME TypeInv, OwnInv, [Next]_vars PROVE HeldOnce'
  OBVIOUS
(* At most one job or request arrives in a step.                             *)
<1>1. ASSUME NEW r \in Runs, NEW s \in Runs, r # s, IngestAttachment(r), IngestAttachment(s)
      PROVE  job'[r] = job[r]
  <2>1. \E rec : job' = [job EXCEPT ![s] = rec]
    BY <1>1 DEF IngestAttachment, Advance
  <2> QED BY <1>1, <2>1 DEF TypeInv, JobsOK
<1>2. ASSUME NEW p \in People, NEW q \in People, p # q, UploadIngest(p), UploadIngest(q)
      PROVE  web'[p] = web[p]
  <2>1. \/ \E pc : web' = [web EXCEPT ![q].pc = pc]
        \/ \E pc, dup : web' = [web EXCEPT ![q].pc = pc, ![q].dup = dup]
    BY <1>2 DEF UploadIngest
  <2> QED BY <1>2, <2>1 DEF TypeInv, WebOK
<1>3. ASSUME NEW r \in Runs, NEW p \in People, IngestAttachment(r), UploadIngest(p)
      PROVE  job'[r] = job[r]
  BY <1>3 DEF UploadIngest
<1>4. ASSUME NEW d \in Docs, NEW r \in Runs, JobHolds(r, d)'
      PROVE  /\ Fresh(d)'
             /\ \A s \in Runs : JobHolds(s, d)' => s = r
             /\ \A p \in People : ~WebHolds(p, d)'
  <2>1. CASE JobHolds(r, d) /\ ~EnlistAttachment(r)
    <3>1. /\ Fresh(d) /\ Exists(d)
          /\ \A s \in Runs : JobHolds(s, d) => s = r
          /\ \A p \in People : ~WebHolds(p, d)
      BY <2>1 DEF OwnInv, HeldOnce, Fresh, Exists
    <3>2. Fresh(d)'
      BY <2>1, <3>1, StaysFresh
    <3> QED BY <3>1, <3>2, JobHoldFrom, WebHoldFrom
  <2>2. CASE ~Exists(d) /\ doc'[d].status = "QUEUED" /\ IngestAttachment(r) /\ job'[r] # job[r]
    BY <1>1, <1>3, <2>2, NewlyFresh, JobHoldFrom, WebHoldFrom
  <2> QED BY <1>4, <2>1, <2>2, JobHoldFrom
<1>5. ASSUME NEW d \in Docs, NEW p \in People, WebHolds(p, d)'
      PROVE  Fresh(d)' /\ \A q \in People : WebHolds(q, d)' => q = p
  <2>1. CASE WebHolds(p, d) /\ ~UploadEnlist(p)
    <3>1. /\ Fresh(d) /\ Exists(d)
          /\ \A q \in People : WebHolds(q, d) => q = p
          /\ \A s \in Runs : ~JobHolds(s, d)
      BY <2>1 DEF OwnInv, HeldOnce, Fresh, Exists
    <3>2. Fresh(d)'
      BY <2>1, <3>1, StaysFresh
    <3> QED BY <3>1, <3>2, WebHoldFrom
  <2>2. CASE ~Exists(d) /\ doc'[d].status = "QUEUED" /\ UploadIngest(p) /\ web'[p] # web[p]
    BY <1>2, <2>2, NewlyFresh, WebHoldFrom
  <2> QED BY <1>5, <2>1, <2>2, WebHoldFrom
<1> QED BY <1>4, <1>5 DEF HeldOnce

LEMMA ArrivingStep == TypeInv /\ OwnInv /\ [Next]_vars => Arriving'
<1> SUFFICES ASSUME TypeInv, OwnInv, [Next]_vars PROVE Arriving'
  OBVIOUS
<1>0. Arriving /\ AtWork /\ RunsOK
  BY DEF OwnInv, TypeInv
<1>1. ASSUME NEW r \in Runs, job'[r].pc = "enlist"
      PROVE  job'[r].i \in DOMAIN run'[r].items /\ run'[r].items[job'[r].i] = "none"
  <2>1. CASE job'[r] = job[r]
    <3>1. /\ job[r].i \in DOMAIN run[r].items /\ run[r].items[job[r].i] = "none"
          /\ r \in InboxRuns /\ run[r].status # "absent"
      BY <1>0, <1>1, <2>1 DEF Arriving, ArrivingJob, TypeInv, JobsOK, JobSane
    <3>2. ~EnlistAttachment(r)
      <4>1. job[r] \in JobRow /\ job \in [Runs -> JobRow]
        BY DEF TypeInv, JobsOK
      <4>2. NextAttachment(r).pc = "ingest"
        BY <4>1 DEF NextAttachment, Goto, JobRow
      <4> QED BY <1>1, <2>1, <4>1, <4>2 DEF EnlistAttachment, Advance
    <3>3. \A p \in People : UploadEnlist(p) => web[p].run # r
      BY <1>0, <3>1, WebEnlists, ConstantsAssumption
    <3> QED BY <2>1, <3>1, <3>2, <3>3, RunItems DEF SameItems, Opened
  <2>2. CASE job'[r] # job[r]
    <3>1. Reaches(r)
      BY <1>0, <1>1, <2>2, JobMoves DEF JobMove
    <3>2. UNCHANGED run /\ r \in InboxRuns /\ run[r].status # "absent"
      BY <3>1 DEF Reaches, IngestAttachment, TypeInv, JobsOK
    <3>3. DOMAIN run[r].items = DOMAIN Inbox /\ DOMAIN Inbox = 1..Len(Inbox)
      BY <3>2, ConstantsAssumption DEF TypeInv, RunsOK, RunSane
    <3> QED BY <3>1, <3>2, <3>3 DEF Reaches
  <2> QED BY <2>1, <2>2
<1>2. ASSUME NEW p \in People, web'[p].pc \in Uploading
      PROVE  /\ web'[p].run \in UploadRuns
             /\ run'[web'[p].run].content = <<web'[p].doc>> /\ run'[web'[p].run].items = <<"none">>
             /\ \A q \in People : web'[q].pc \in Uploading /\ web'[q].run = web'[p].run => q = p
  <2>1. CASE web[p].pc \in Uploading /\ web'[p].run = web[p].run /\ web'[p].doc = web[p].doc
    <3> DEFINE r == web[p].run
    <3>1. /\ r \in UploadRuns /\ r \in Runs /\ run[r].status # "absent"
          /\ run[r].content = <<web[p].doc>> /\ run[r].items = <<"none">>
          /\ \A q \in People : web[q].pc \in Uploading /\ web[q].run = r => q = p
      BY <1>0, <2>1 DEF Arriving, ArrivingWeb, TypeInv, WebOK, Uploading, Runs
    <3>2. ~EnlistAttachment(r)
      BY <3>1, ConstantsAssumption DEF EnlistAttachment, TypeInv, JobsOK, JobSane
    <3>3. ASSUME NEW q \in People, UploadEnlist(q), web[q].run = r PROVE FALSE
      <4>1. q = p
        BY <3>1, <3>3 DEF UploadEnlist, Uploading
      <4>2. web'[p].pc \in {"recompute", "queue"}
        BY <3>3, <4>1 DEF UploadEnlist, TypeInv, WebOK, WebRow
      <4> QED BY <1>2, <4>2 DEF Uploading
    <3>4. run'[r].content = <<web[p].doc>> /\ run'[r].items = <<"none">>
      BY <3>1, <3>2, <3>3, RunItems DEF SameItems, Opened
    <3>5. ASSUME NEW q \in People, web'[q].pc \in Uploading, web'[q].run = r PROVE q = p
      <4>1. ~Uploads(q)
        BY <3>1, <3>5 DEF Uploads, RequestUpload
      <4> QED BY <1>0, <3>1, <3>5, <4>1, WebMoves DEF WebMove
    <3> QED BY <2>1, <3>1, <3>4, <3>5
  <2>2. CASE Uploads(p)
    <3> PICK r \in Runs, d \in Docs :
          RequestUpload(p, r, d) /\ web'[p].run = r /\ web'[p].doc = d /\ web'[p].pc = "ingest"
      BY <2>2 DEF Uploads
    <3>1. r \in UploadRuns /\ run[r].status = "absent"
      BY DEF RequestUpload
    <3>2. run'[r].content = <<d>> /\ run'[r].items = <<"none">>
      <4>1. run'[r] = [run[r] EXCEPT !.status = "PENDING", !.content = <<d>>, !.items = <<"none">>]
        BY <1>0 DEF RequestUpload, RunsOK
      <4> QED BY <1>0, <4>1 DEF RunsOK, RunRow
    <3>3. ASSUME NEW q \in People, q # p, web'[q].pc \in Uploading, web'[q].run = r PROVE FALSE
      <4>1. web'[q] = web[q]
        BY <3>3 DEF RequestUpload, TypeInv, WebOK
      <4> QED BY <3>1, <3>3, <4>1 DEF TypeInv, WebOK, Uploading
    <3> QED BY <3>1, <3>2, <3>3
  <2> QED BY <1>0, <1>2, <2>1, <2>2, WebMoves DEF WebMove
<1> QED BY <1>1, <1>2 DEF Arriving, ArrivingJob, ArrivingWeb

LEMMA AtWorkStep == TypeInv /\ OwnInv /\ [Next]_vars => AtWork'
<1> SUFFICES ASSUME TypeInv, OwnInv, [Next]_vars PROVE AtWork'
  OBVIOUS
<1>0. Arriving /\ AtWork
  BY DEF OwnInv
<1>1. \A s \in Runs : NewDocs(s) \subseteq NewDocs(s)'
  BY <1>0, NewDocsGrow
<1>2. ASSUME NEW r \in Runs PROVE AtWorkJob(r)'
  BY <1>0, <1>1, JobMoves DEF JobMove, AtWorkJob
<1>3. ASSUME NEW p \in People PROVE AtWorkWeb(p)'
  <2>1. web'[p].pc \in InRouting => web'[p].run \in Runs /\ web'[p].doc \in NewDocs(web'[p].run)
    BY <1>0, WebMoves DEF WebMove
  <2> DEFINE s == web'[p].run
  <2>2. s \in Runs => NewDocs(s) \subseteq {run'[s].content[i] : i \in {j \in DOMAIN run'[s].items : run'[s].items[j] = "NEW"}}
    BY <1>1 DEF NewDocs, Received
  <2> QED BY <2>1, <2>2 DEF AtWorkWeb, NewDocs, Received
<1> QED BY <1>2, <1>3 DEF AtWork

LEMMA OwnStep == TypeInv /\ OwnInv /\ [Next]_vars => OwnInv'
BY OwnedOnceStep, MirroredStep, HeldOnceStep, ArrivingStep, AtWorkStep DEF OwnInv

(* The intake a person sees tells the state of its document, whatever is      *)
(* uploaded twice, interrupted, resumed or given up.                         *)
THEOREM IntakeAlwaysMirrors == Spec => []IntakeMirrorsDocument
BY TypeInit, TypeStep, OwnInit, OwnStep, OwnInvImpliesIntake, PTL DEF Spec

(* A document is new in one run at most: of two uploads of the same content,  *)
(* or an upload and the inbox, one creates the row and the other is told that *)
(* it repeats, so no two workers process the document.                       *)
THEOREM DocumentHasOneRun == Spec => []OwnedOnce
<1>1. OwnInv => OwnedOnce
  BY DEF OwnInv
<1> QED BY <1>1, TypeInit, TypeStep, OwnInit, OwnStep, PTL DEF Spec

-----------------------------------------------------------------------------
(* What a run tells.  While a worker is at work the run tells nothing of its *)
(* documents yet, or was torn.                                               *)

Told == {"AWAITING_REVIEW", "SUCCEEDED", "SUCCEEDED_WITH_WARNINGS"}
Tells(status, N) ==
  /\ status = "AWAITING_REVIEW" => \E d \in N : doc[d].status = "AWAITING_REVIEW"
  /\ status = "SUCCEEDED" => \A d \in N : doc[d].status = "ROUTED"
  /\ status = "SUCCEEDED_WITH_WARNINGS" => \A d \in N : doc[d].status \in {"ROUTED", "FAILED"}

QuietUnderWork == \A r \in Runs : Live(r) /\ ~run[r].torn => run[r].status \notin Told
TrueAtRest == \A r \in Runs : AtRest(r) => Tells(run[r].status, NewDocs(r))
ToldInv == QuietUnderWork /\ TrueAtRest

LEMMA ToldInvImpliesMirror == ToldInv => RunMirrorsDocuments
BY DEF ToldInv, TrueAtRest, RunMirrorsDocuments, Tells, InStatus

LEMMA ToldInit == Init => ToldInv
BY DEF Init, NoRun, NoJob, ToldInv, QuietUnderWork, TrueAtRest, Tells, Live

LEMMA ReceivedFinite ==
  ASSUME RunsOK, NEW r \in Runs
  PROVE  IsFiniteSet(NewDocs(r)) /\ IsFiniteSet(Repeated(r))
<1> DEFINE s == run[r].content
           T == {s[i] : i \in DOMAIN s}
<1>1. s \in Seq(Docs) /\ DOMAIN run[r].items = DOMAIN s
  BY DEF RunsOK, RunRow, RunSane
<1>2. Len(s) \in Nat /\ DOMAIN s = 1..Len(s) /\ s \in [DOMAIN s -> T]
  BY <1>1
<1>3. IsFiniteSet(DOMAIN s)
  BY <1>2, FS_Interval
<1>4. s \in Surjection(DOMAIN s, T)
  BY <1>2 DEF Surjection
<1>5. IsFiniteSet(T)
  <2> HIDE DEF T, s
  <2> QED BY <1>3, <1>4, FS_Surjection
<1>6. NewDocs(r) \subseteq T /\ Repeated(r) \subseteq T
  BY <1>1 DEF NewDocs, Repeated, Received
<1> HIDE DEF T
<1> QED BY <1>5, <1>6, FS_Subset

(* The status that its documents give a run tells what they are.             *)
LEMMA VerdictTells ==
  ASSUME TypeInv, Mirrored, NEW r \in Runs
  PROVE  Tells(Verdict(r), NewDocs(r))
<1> DEFINE N == NewDocs(r)
           waiting == InStatus(N, {"AWAITING_REVIEW"})
           bad == InStatus(N, {"FAILED"})
           again == InStatus(Repeated(r), {"FAILED"})
<1>0. RunsOK
  BY DEF TypeInv
<1>1. waiting \subseteq N /\ bad \subseteq N /\ again \subseteq Repeated(r)
  BY DEF InStatus
<1>2. IsFiniteSet(waiting) /\ IsFiniteSet(bad) /\ IsFiniteSet(again)
  BY <1>0, <1>1, ReceivedFinite, FS_Subset
<1>3. /\ Cardinality(waiting) \in Nat /\ Cardinality(bad) \in Nat /\ Cardinality(again) \in Nat
      /\ Cardinality(waiting) = 0 => waiting = {}
      /\ Cardinality(bad) = 0 => bad = {}
      /\ waiting = {} => Cardinality(waiting) = 0
  BY <1>2, FS_CardinalityType, FS_EmptySet
<1>4. run[r].failures \in Nat
  BY <1>0 DEF RunsOK, RunRow
<1>5. /\ Counts(r).awaiting = Cardinality(waiting)
      /\ Counts(r).failed = Cardinality(bad) + run[r].failures + Cardinality(again)
  BY DEF Counts, FailedCount
<1>6. Counts(r).failed = 0 => bad = {}
  BY <1>3, <1>4, <1>5
<1>7. \A d \in N : doc[d].status \in DocStatuses
  BY <1>0, NewDocsAreDocs DEF Mirrored, Exists, TypeInv, DocsOK, DocRow, AnyDoc
<1> HIDE DEF N, waiting, bad, again
<1>8. Verdict(r) = "AWAITING_REVIEW" => waiting # {}
  BY <1>3, <1>5 DEF Verdict
<1>9. Verdict(r) \in {"SUCCEEDED", "SUCCEEDED_WITH_WARNINGS"} =>
        waiting = {} /\ InStatus(N, Unfinished) = {}
  BY <1>3, <1>5 DEF Verdict, N
<1>10. Verdict(r) = "SUCCEEDED" => bad = {}
  BY <1>6 DEF Verdict
<1> QED BY <1>7, <1>8, <1>9, <1>10
        DEF Tells, InStatus, N, waiting, bad, again, Unfinished, DocStatuses

(* A status that is told was just given by the documents, or was there.       *)
Settled(s) ==
  \/ run'[s].status \notin Told
  \/ run'[s].torn
  \/ run'[s].status = Verdict(s) /\ UNCHANGED doc /\ job'[s].pc = "none"
StatusKept(s) == run'[s].status = run[s].status /\ run'[s].torn = run[s].torn

(* What a recompute writes, and what the other writers leave alone.          *)
LEMMA StatusWritten ==
  ASSUME RunsOK, NEW s \in Runs
  PROVE  /\ \A t, actor : [Recomputed(s, t, actor) EXCEPT !.torn = TRUE].torn
         /\ Requeued(s).status = "QUEUED" /\ Claimed(s).status = "QUEUED"
         /\ Fenced(s).status = "FAILED"
         /\ [run[s] EXCEPT !.torn = TRUE].torn
         /\ \A t, actor, b : LET rec == [Recomputed(s, t, actor) EXCEPT !.torn = b] IN
              rec.status = Verdict(s) /\ rec.torn = b
<1> PICK E : run[s] \in RunRow(E)
  BY DEF RunsOK
<1> QED BY DEF Requeued, Claimed, Fenced, Recomputed, RunRow

LEMMA StatusByRun ==
  ASSUME TypeInv, NEW s \in Runs, RunWork(s)
  PROVE  Settled(s) \/ StatusKept(s)
<1> PICK E : run \in [Runs -> RunRow(E)]
  BY DEF TypeInv, RunsOK
<1>0. run[s] \in RunRow(E) /\ RunsOK /\ job \in [Runs -> JobRow]
  BY DEF TypeInv, RunsOK, JobsOK
<1>1. CASE RequestInbox(s)
  <2>1. run'[s] = [Requeued(s) EXCEPT !.content = Inbox, !.items = [i \in DOMAIN Inbox |-> "none"]]
    BY <1>1 DEF RequestInbox
  <2>2. run'[s].status = "QUEUED"
    BY <1>0, <2>1 DEF Requeued, RunRow
  <2> QED BY <2>2 DEF Settled, Told
<1>2. CASE Refuse(s) \/ Start(s) \/ ExhaustInterrupted(s) \/ FailUnhandled(s)
  <2>1. run'[s].status \in {"FAILED", "RUNNING"}
    BY <1>0, <1>2 DEF Refuse, Start, ExhaustInterrupted, FailUnhandled, RunRow
  <2> QED BY <2>1 DEF Settled, Told
<1>3. CASE Publish(s) \/ ResumeInterrupted(s) \/ EnlistAttachment(s) \/ EndIngestion(s)
  <2>1. \/ run'[s] = [run[s] EXCEPT !.published = TRUE]
        \/ \E n : run'[s] = [run[s] EXCEPT !.attempts = n]
        \/ \E n : run'[s] = [run[s] EXCEPT !.items = n]
        \/ \E n : run'[s] = [run[s] EXCEPT !.failures = n]
    BY <1>3 DEF Publish, ResumeInterrupted, EnlistAttachment, Enlist, EndIngestion
  <2> QED BY <1>0, <2>1 DEF StatusKept, RunRow
<1>4. CASE Finish(s)
  <2>1. CASE run'[s] = [run[s] EXCEPT !.status = "FAILED", !.error = "technical"]
    <3>1. run'[s].status = "FAILED"
      BY <1>0, <2>1 DEF RunRow
    <3> QED BY <3>1 DEF Settled, Told
  <2>2. CASE run'[s] = [Recomputed(s, run[s].task, "worker") EXCEPT !.torn = FALSE]
    <3> DEFINE rec == [Recomputed(s, run[s].task, "worker") EXCEPT !.torn = FALSE]
    <3>1. rec.status = Verdict(s)
      BY <1>0, StatusWritten
    <3>2. UNCHANGED doc /\ job'[s].pc = "none"
      BY <1>0, <1>4 DEF Finish, Advance, Leave, NoJob
    <3> HIDE DEF rec
    <3>3. run'[s] = rec
      BY <2>2 DEF rec
    <3> QED BY <3>1, <3>2, <3>3 DEF Settled, Live
  <2> QED BY <1>4, <2>1, <2>2 DEF Finish
<1>5. CASE ReconcilePending(s) \/ ReconcileQueued(s) \/ ReconcileRunning(s)
  <2>1. run'[s] = Claimed(s) \/ run'[s] = Fenced(s)
    BY <1>5 DEF ReconcilePending, ReconcileQueued, ReconcileRunning
  <2> QED BY <1>0, <2>1, StatusWritten DEF Settled, Told
<1> QED BY <1>1, <1>2, <1>3, <1>4, <1>5 DEF RunWork

Ends(p) == UploadQueue(p) \/ RecomputeByRequest(p) \/ UploadFails(p) \/ WebDies(p)

LEMMA StatusByEnd ==
  ASSUME TypeInv, NEW p \in People, Ends(p), web[p].run \in Runs
  PROVE  Settled(web[p].run)
<1> DEFINE s == web[p].run
<1> PICK E : run \in [Runs -> RunRow(E)]
  BY DEF TypeInv, RunsOK
<1>0. run[s] \in RunRow(E) /\ RunsOK
  BY DEF TypeInv, RunsOK
<1>1. CASE UploadQueue(p)
  BY <1>0, <1>1, StatusWritten DEF UploadQueue, Settled, Told
<1>2. CASE UploadFails(p)
  <2>1. run'[s].status = "FAILED"
    BY <1>0, <1>2 DEF UploadFails, RunRow
  <2> QED BY <2>1 DEF Settled, Told
<1>3. CASE run'[s] = [run[s] EXCEPT !.torn = TRUE]
  <2> DEFINE rec == [run[s] EXCEPT !.torn = TRUE]
  <2>1. rec.torn
    BY <1>0, StatusWritten
  <2>2. run'[s] = rec
    BY <1>3
  <2> HIDE DEF rec
  <2> QED BY <2>1, <2>2 DEF Settled
<1>4. CASE RecomputeByRequest(p)
  <2>1. UNCHANGED <<doc, job>>
    BY <1>4 DEF RecomputeByRequest
  <2>2. CASE run'[s] = [Recomputed(s, 0, p) EXCEPT !.torn = Live(s)]
    <3> DEFINE rec == [Recomputed(s, 0, p) EXCEPT !.torn = Live(s)]
    <3>1. rec.status = Verdict(s) /\ rec.torn = Live(s)
      BY <1>0, StatusWritten
    <3> HIDE DEF rec
    <3>2. run'[s] = rec
      BY <2>2 DEF rec
    <3>3. CASE Live(s)
      <4> DEFINE torn == [Recomputed(s, 0, p) EXCEPT !.torn = TRUE]
      <4>1. torn.torn
        BY <1>0, StatusWritten
      <4>2. Live(s) = TRUE
        BY <3>3 DEF Live
      <4>3. rec = torn
        BY <4>2 DEF rec
      <4> HIDE DEF torn
      <4> QED BY <3>2, <4>1, <4>3 DEF Settled
    <3>4. CASE ~Live(s)
      BY <2>1, <3>1, <3>2, <3>4 DEF Settled, Live
    <3> QED BY <3>3, <3>4
  <2> QED BY <1>3, <1>4, <2>2 DEF RecomputeByRequest
<1>5. CASE WebDies(p)
  BY <1>3, <1>5 DEF WebDies
<1> QED BY <1>1, <1>2, <1>4, <1>5 DEF Ends

LEMMA StatusMoves ==
  ASSUME TypeInv, [Next]_vars, NEW s \in Runs
  PROVE  Settled(s) \/ StatusKept(s)
<1> PICK E : run \in [Runs -> RunRow(E)]
  BY DEF TypeInv, RunsOK
<1>0. run[s] \in RunRow(E)
  OBVIOUS
<1>1. ASSUME run'[s] = run[s] PROVE StatusKept(s)
  BY <1>1 DEF StatusKept
<1>2. ASSUME NEW r \in Runs, RunWork(r) PROVE Settled(s) \/ StatusKept(s)
  BY <1>1, <1>2, RunWorkWrites, StatusByRun
<1>3. ASSUME NEW p \in People, RunRequest(p) PROVE Settled(s) \/ StatusKept(s)
  <2>1. ASSUME NEW r \in Runs, NEW d \in Docs, RequestUpload(p, r, d)
        PROVE  Settled(s) \/ StatusKept(s)
    <3>1. run' = [run EXCEPT ![r] = [run[r] EXCEPT !.status = "PENDING", !.content = <<d>>,
                                                   !.items = <<"none">>]]
      BY <2>1 DEF RequestUpload
    <3>2. r = s => run'[s].status = "PENDING"
      BY <1>0, <3>1 DEF RunRow
    <3> QED BY <1>1, <3>1, <3>2 DEF Settled, Told
  <2>2. CASE UploadEnlist(p)
    <3>1. \E n : run' = [run EXCEPT ![web[p].run].items = n]
      BY <2>2 DEF UploadEnlist, Enlist
    <3>2. run'[s] = run[s] \/ \E n : run'[s] = [run[s] EXCEPT !.items = n]
      BY <3>1
    <3> QED BY <1>0, <1>1, <3>2 DEF StatusKept, RunRow
  <2>3. CASE Ends(p)
    <3>1. \E rec : run' = [run EXCEPT ![web[p].run] = rec]
      BY <2>3 DEF Ends, UploadQueue, RecomputeByRequest, UploadFails, WebDies
    <3> QED BY <1>1, <2>3, <3>1, StatusByEnd
  <2> QED BY <1>3, <2>1, <2>2, <2>3 DEF RunRequest, Ends
<1> QED BY <1>1, <1>2, <1>3, WhoWritesRuns DEF vars

(* Whatever begins to work on a run or for it, or recovers its documents,     *)
(* takes back what the run tells; a request that ends tells it anew.         *)
LEMMA WorkBegins ==
  ASSUME TypeInv, [Next]_vars, NEW s \in Runs, ~Live(s), job'[s].pc # "none"
  PROVE  run'[s].status \notin Told
<1> PICK E : run \in [Runs -> RunRow(E)]
  BY DEF TypeInv, RunsOK
<1>0. run[s] \in RunRow(E)
  OBVIOUS
<1>1. JobWork(s)
  BY ThisJob DEF Live
<1>2. Start(s) \/ ResumeInterrupted(s)
  BY <1>1 DEF JobWork, WorkerStep, Live, IngestAttachment, EnlistAttachment, AttachmentFails,
    EndIngestion, PickRoute, EndRoutes, Superseded, Claim, LeaveDocument, CreateAttempt, Classify,
    FailDocument, FetchFails, ClassifierFails, ClassifierBreaks, BeginRoute, CopyByWorker, CopyByWorkerFails,
    RouteByWorker, RouteFailsByWorker, Finish, FailUnhandled, LoseWorker, InDocument
<1>3. run'[s].status = "RUNNING"
  BY <1>0, <1>2 DEF Start, ResumeInterrupted, Interrupted, RunRow
<1> QED BY <1>3 DEF Told

LEMMA RecoveryTakesBack ==
  ASSUME TypeInv, NEW s \in Runs, Recovery(s), doc' # doc
  PROVE  run'[s].status \notin Told
<1> PICK E : run \in [Runs -> RunRow(E)]
  BY DEF TypeInv, RunsOK
<1>0. run[s] \in RunRow(E) /\ RunsOK
  BY DEF TypeInv, RunsOK
<1>1. CASE ResumeInterrupted(s) \/ ExhaustInterrupted(s)
  <2>1. run'[s].status \in {"RUNNING", "FAILED"}
    BY <1>0, <1>1 DEF ResumeInterrupted, ExhaustInterrupted, Interrupted, RunRow
  <2> QED BY <2>1 DEF Told
<1>2. CASE ReconcileQueued(s) \/ ReconcileRunning(s)
  <2>1. run'[s] = Claimed(s) \/ run'[s] = Fenced(s)
    BY <1>2 DEF ReconcileQueued, ReconcileRunning
  <2> QED BY <1>0, <2>1, StatusWritten DEF Told
<1> QED BY <1>1, <1>2 DEF Recovery

LEMMA RequestEnds ==
  ASSUME TypeInv, [Next]_vars, NEW s \in Runs, Requested(s), ~Requested(s)'
  PROVE  Settled(s)
<1>1. PICK p \in People : web[p].pc # "none" /\ web[p].run = s
  BY DEF Requested
<1>2. web'[p].pc = "none" \/ web'[p].run # s
  BY DEF Requested
<1>3. RequestWork(p)
  BY <1>1, <1>2, ThisRequest
<1>4. web[p] \in WebRow /\ web \in [People -> WebRow]
  BY DEF TypeInv, WebOK
<1>5. UploadIngest(p) \/ UploadEnlist(p) \/ CopyByRequest(p) \/ CopyByRequestFails(p) \/ RouteByRequest(p)
        => web'[p].pc # "none" /\ web'[p].run = web[p].run
  BY <1>4 DEF UploadIngest, UploadEnlist, CopyByRequest, CopyByRequestFails, RouteByRequest, WebRow
<1>6. Ends(p)
  BY <1>1, <1>2, <1>3, <1>5 DEF RequestWork, RequestStep, Ends, RequestUpload, Resolve, Retry
<1> QED BY <1>1, <1>6, StatusByEnd

LEMMA QuietStep == TypeInv /\ QuietUnderWork /\ [Next]_vars => QuietUnderWork'
<1> SUFFICES ASSUME TypeInv, QuietUnderWork, [Next]_vars, NEW s \in Runs,
                    job'[s].pc # "none", ~run'[s].torn
             PROVE  run'[s].status \notin Told
  BY DEF QuietUnderWork, Live
<1>1. CASE ~Live(s)
  BY <1>1, WorkBegins
<1>2. CASE Live(s)
  <2>1. CASE Settled(s)
    BY <2>1 DEF Settled
  <2>2. CASE StatusKept(s)
    BY <1>2, <2>2 DEF StatusKept, QuietUnderWork
  <2> QED BY <2>1, <2>2, StatusMoves
<1> QED BY <1>1, <1>2

(* What nobody works on stays as it is: its documents belong to nobody else. *)
LEMMA RestKeepsDocuments ==
  ASSUME TypeInv, OwnInv, [Next]_vars, NEW s \in Runs, ~Live(s), ~Requested(s), ~Requested(s)',
         run'[s].status \in Told
  PROVE  NewDocs(s)' = NewDocs(s) /\ \A d \in NewDocs(s) : doc'[d] = doc[d]
<1>0. Arriving /\ AtWork /\ RunsOK
  BY DEF OwnInv, TypeInv
<1>1. ~EnlistAttachment(s) /\ \A p \in People : ~(UploadEnlist(p) /\ web[p].run = s)
  BY DEF Live, Requested, EnlistAttachment, UploadEnlist
<1>2. NewDocs(s)' = NewDocs(s)
  BY <1>0, <1>1, NewDocsGrow
<1>3. ASSUME NEW d \in NewDocs(s) PROVE doc'[d] = doc[d]
  <2>0. d \in Docs
    BY <1>0, NewDocsAreDocs
  <2>1. ~Arrives(d) /\ ~Listed(d)
    BY <2>0 DEF Arrives, Listed, OwnInv, Mirrored, HeldOnce, Fresh
  <2>2. \A r \in Runs : d \in NewDocs(r) => r = s
    BY <2>0 DEF OwnInv, OwnedOnce
  <2>3. ASSUME NEW r \in Runs, ClaimDeed(r, d) \/ WorkDeed(r, d) PROVE FALSE
    <3>1. r = s
      BY <1>0, <2>0, <2>2, <2>3, DeedsOwned
    <3> QED BY <2>3, <3>1 DEF Live, ClaimDeed, WorkDeed, Claim, CreateAttempt, FetchFails,
              FailDocument, Classify, ClassifierFails, ClassifierBreaks, RouteByWorker,
              RouteFailsByWorker, InDocument
  <2>4. ASSUME NEW r \in Runs, RecoveryDeed(r, d) PROVE doc'[d] = doc[d]
    <3>1. r = s
      BY <1>0, <2>0, <2>2, <2>4, DeedsOwned
    <3> QED BY <2>4, <3>1, RecoveryTakesBack DEF RecoveryDeed
  <2>5. ASSUME NEW p \in People, RouteDeed(p, d) PROVE FALSE
    <3>1. web[p].run = s
      BY <1>0, <2>0, <2>2, <2>5, DeedsOwned
    <3> QED BY <2>5, <3>1 DEF Requested, RouteDeed, RouteByRequest
  <2>6. ASSUME NEW p \in People, NEW r \in Runs, ResolveDeed(p, r, d) PROVE FALSE
    <3>1. r = s
      BY <1>0, <2>0, <2>2, <2>6, DeedsOwned
    <3>2. web'[p].pc = "route" /\ web'[p].run = s
      BY <2>6, <3>1 DEF ResolveDeed, Resolve, TypeInv, WebOK
    <3> QED BY <3>2 DEF Requested
  <2> QED BY <1>0, <2>0, <2>1, <2>3, <2>4, <2>5, <2>6, DocumentDeeds
<1> QED BY <1>2, <1>3

LEMMA RestStep == TypeInv /\ OwnInv /\ ToldInv /\ [Next]_vars => TrueAtRest'
<1> SUFFICES ASSUME TypeInv, OwnInv, ToldInv, [Next]_vars, NEW s \in Runs, AtRest(s)'
             PROVE  Tells(run[s].status, NewDocs(s))'
  BY DEF TrueAtRest
<1>1. job'[s].pc = "none" /\ ~Requested(s)' /\ ~run'[s].torn
  BY DEF AtRest, Live
<1>2. CASE run'[s].status \notin Told
  BY <1>2 DEF Tells, Told
<1>3. CASE Settled(s) /\ run'[s].status \in Told
  <2>1. run'[s].status = Verdict(s) /\ UNCHANGED doc
    BY <1>1, <1>3 DEF Settled
  <2>2. Tells(Verdict(s), NewDocs(s))
    BY VerdictTells DEF OwnInv
  <2>3. NewDocs(s)' = NewDocs(s)
    <3>1. ~EnlistAttachment(s)
      <4>1. job[s] \in JobRow /\ job \in [Runs -> JobRow]
        BY DEF TypeInv, JobsOK
      <4>2. NextAttachment(s).pc = "ingest"
        BY <4>1 DEF NextAttachment, Goto, JobRow
      <4> QED BY <1>1, <4>1, <4>2 DEF EnlistAttachment, Advance
    <3>2. ASSUME NEW p \in People, UploadEnlist(p), web[p].run = s PROVE FALSE
      <4>1. web'[p].pc # "none" /\ web'[p].run = s
        BY <3>2 DEF UploadEnlist, TypeInv, WebOK, WebRow
      <4> QED BY <1>1, <4>1 DEF Requested
    <3> QED BY <3>1, <3>2, NewDocsGrow DEF OwnInv
  <2> QED BY <2>1, <2>2, <2>3 DEF Tells
<1>4. CASE ~Settled(s) /\ run'[s].status \in Told
  <2>1. StatusKept(s) /\ ~Requested(s)
    BY <1>1, <1>4, StatusMoves, RequestEnds
  <2>2. run[s].status \in Told /\ ~run[s].torn /\ run'[s].status = run[s].status
    BY <1>1, <1>4, <2>1 DEF StatusKept
  <2>3. ~Live(s)
    BY <2>2 DEF ToldInv, QuietUnderWork
  <2>4. Tells(run[s].status, NewDocs(s))
    BY <2>1, <2>2, <2>3 DEF ToldInv, TrueAtRest, AtRest
  <2>5. NewDocs(s)' = NewDocs(s) /\ \A d \in NewDocs(s) : doc'[d] = doc[d]
    BY <1>1, <1>4, <2>1, <2>3, RestKeepsDocuments
  <2> QED BY <2>2, <2>4, <2>5 DEF Tells
<1> QED BY <1>2, <1>3, <1>4

(* A run at rest tells what its documents are: it waits for review only while *)
(* one of them does, and has succeeded only when all of them are routed,     *)
(* with or without a warning for those that failed.                          *)
THEOREM RunAlwaysMirrors == Spec => []RunMirrorsDocuments
<1>1. ToldInv /\ TypeInv /\ OwnInv /\ [Next]_vars => ToldInv'
  BY QuietStep, RestStep DEF ToldInv
<1> QED BY TypeInit, TypeStep, OwnInit, OwnStep, ToldInit, <1>1, ToldInvImpliesMirror, PTL DEF Spec

-----------------------------------------------------------------------------
(* One verdict.  A document that was judged has no open attempt, and its     *)
(* successful attempt is its last.                                           *)

Opined(rec) == rec.review # "none" \/ rec.decision # "none"
RowJudged(rec) ==
  /\ \A i \in DOMAIN rec.tries : rec.tries[i] = "SUCCEEDED" => Opined(rec) /\ i = Len(rec.tries)
  /\ \A i \in DOMAIN rec.tries : rec.tries[i] = "PROCESSING" =>
       rec.status = "PROCESSING" /\ ~Opined(rec) /\ i = Len(rec.tries)
  /\ rec.decision = "AUTOMATIC" =>
       rec.review = "none" /\ \E i \in DOMAIN rec.tries : rec.tries[i] = "SUCCEEDED"
  /\ rec.decision = "HUMAN_REVIEW" <=> rec.review = "COMPLETED"

(* While a worker has its run, the document in its hand waits for its        *)
(* verdict, with one open attempt when the classifier is asked.              *)
NoneOpen(rec) == \A i \in DOMAIN rec.tries : rec.tries[i] # "PROCESSING"
Working(pc, rec) ==
  /\ pc \in {"claimed", "classify"} => rec.status = "PROCESSING" /\ ~Opined(rec)
  /\ pc \in {"claimed", "failing"} => NoneOpen(rec)
  /\ pc = "classify" => Len(rec.tries) \in DOMAIN rec.tries /\ rec.tries[Len(rec.tries)] = "PROCESSING"
Own(r) == run[r].task = job[r].task
WorkingOwn == \A r \in Runs : Own(r) => Working(job[r].pc, doc[job[r].doc])

(* What was taken away from a worker does not come back to it: it carries an *)
(* identifier that was issued, and a later one is new.                       *)
Issued ==
  \A r \in Runs : /\ run[r].status = "QUEUED" => run[r].task >= 1
                  /\ msg[r] # NoMessage => msg[r].task >= 1
                  /\ job[r].pc # "none" => job[r].task >= 1

VerdictInv == (\A d \in Docs : RowJudged(doc[d])) /\ WorkingOwn /\ Issued

LEMMA VerdictInit == Init => VerdictInv
<1> SUFFICES ASSUME Init PROVE VerdictInv
  OBVIOUS
<1>1. \A d \in Docs : RowJudged(doc[d])
  BY DEF Init, NoDocument, RowJudged, Opined
<1>2. \A r \in Runs : run[r].status = "absent" /\ msg[r] = NoMessage /\ job[r].pc = "none"
  BY DEF Init, NoRun, NoJob
<1>3. WorkingOwn /\ Issued
  BY <1>2 DEF WorkingOwn, Working, Issued
<1> QED BY <1>1, <1>3 DEF VerdictInv

LEMMA VerdictInvImpliesOne == TypeInv /\ VerdictInv => OneVerdict
<1> SUFFICES ASSUME TypeInv, VerdictInv, NEW d \in Docs
             PROVE  LET tries == doc[d].tries
                        successes == {i \in DOMAIN tries : tries[i] = "SUCCEEDED"}
                    IN /\ Cardinality(successes) <= 1
                       /\ successes # {} => Judged(d) /\ successes = {Len(tries)}
                       /\ doc[d].decision = "AUTOMATIC" => doc[d].review = "none" /\ successes # {}
                       /\ (doc[d].decision = "HUMAN_REVIEW") = (doc[d].review = "COMPLETED")
                       /\ \A i \in DOMAIN tries :
                            tries[i] = "PROCESSING" => doc[d].status = "PROCESSING" /\ ~Judged(d)
  BY DEF OneVerdict
<1> DEFINE successes == {i \in DOMAIN doc[d].tries : doc[d].tries[i] = "SUCCEEDED"}
<1>1. RowJudged(doc[d])
  BY DEF VerdictInv
<1>2. successes = {} \/ successes = {Len(doc[d].tries)}
  BY <1>1 DEF RowJudged
<1>3. Cardinality(successes) <= 1
  <2>1. CASE successes = {}
    BY <2>1, FS_EmptySet
  <2>2. CASE successes = {Len(doc[d].tries)}
    <3>1. Cardinality({Len(doc[d].tries)}) = 1
      BY FS_Singleton
    <3>2. Cardinality(successes) = 1
      BY <2>2, <3>1
    <3> HIDE DEF successes
    <3> QED BY <3>2
  <2> QED BY <1>2, <2>1, <2>2
<1>4. successes # {} => Judged(d)
  BY <1>1 DEF RowJudged, Opined, Judged
<1>5. doc[d].decision = "AUTOMATIC" => doc[d].review = "none" /\ successes # {}
  BY <1>1 DEF RowJudged
<1>6. (doc[d].decision = "HUMAN_REVIEW") = (doc[d].review = "COMPLETED")
  BY <1>1 DEF RowJudged
<1>7. \A i \in DOMAIN doc[d].tries :
        doc[d].tries[i] = "PROCESSING" => doc[d].status = "PROCESSING" /\ ~Judged(d)
  BY <1>1 DEF RowJudged, Opined, Judged
<1> QED BY <1>2, <1>3, <1>4, <1>5, <1>6, <1>7

(* Attempts: opened, ended, closed.                                          *)
LEMMA TryOpened ==
  ASSUME NEW s \in Seq(Tried)
  PROVE  LET t == Append(s, "PROCESSING") IN
         /\ Len(t) = Len(s) + 1 /\ DOMAIN t = 1..(Len(s) + 1) /\ DOMAIN s = 1..Len(s) /\ Len(s) \in Nat
         /\ t[Len(t)] = "PROCESSING"
         /\ \A i \in DOMAIN s : t[i] = s[i]
OBVIOUS

LEMMA TryEnded ==
  ASSUME NEW s \in Seq(Tried), NEW v \in Verdicts
  PROVE  LET t == [s EXCEPT ![Len(s)] = v] IN
         /\ Len(t) = Len(s) /\ DOMAIN t = DOMAIN s
         /\ \A i \in DOMAIN s : t[i] = IF i = Len(s) THEN v ELSE s[i]
<1> DEFINE t == [s EXCEPT ![Len(s)] = v]
<1>1. t \in Seq(Tried) /\ DOMAIN t = DOMAIN s
  BY SeqReplace DEF Tried
<1>2. \A i \in DOMAIN s : t[i] = IF i = Len(s) THEN v ELSE s[i]
  OBVIOUS
<1> HIDE DEF t
<1>3. Len(t) = Len(s)
  BY <1>1
<1> QED BY <1>1, <1>2, <1>3 DEF t

LEMMA TryClosed ==
  ASSUME NEW s \in Seq(Tried)
  PROVE  LET t == CloseTry(s) IN
         /\ Len(t) = Len(s) /\ DOMAIN t = DOMAIN s
         /\ \A i \in DOMAIN s : t[i] = IF s[i] = "PROCESSING" THEN "FAILED" ELSE s[i]
<1> DEFINE t == CloseTry(s)
<1>1. t \in Seq(Tried)
  BY ClosedTries
<1>2. DOMAIN t = DOMAIN s /\ \A i \in DOMAIN s : t[i] = IF s[i] = "PROCESSING" THEN "FAILED" ELSE s[i]
  BY DEF CloseTry
<1> HIDE DEF t
<1>3. Len(t) = Len(s)
  BY <1>1, <1>2
<1> QED BY <1>2, <1>3 DEF t

(* What a deed leaves in a row, by what it writes.                           *)
LEMMA RowKeepsTries ==
  ASSUME NEW old, RowJudged(old), NEW new, new.tries = old.tries, new.review = old.review,
         new.decision = old.decision,
         new.status = old.status \/ NoneOpen(old) \/ Opined(old)
  PROVE  RowJudged(new) /\ (NoneOpen(old) \/ Opined(old) => NoneOpen(new))
BY DEF RowJudged, Opined, NoneOpen

LEMMA RowOpened ==
  ASSUME NEW old, old.tries \in Seq(Tried), RowJudged(old), NEW new,
         new.tries = Append(old.tries, "PROCESSING"), new.review = old.review,
         new.decision = old.decision, new.status = old.status,
         old.status = "PROCESSING", ~Opined(old), NoneOpen(old)
  PROVE  RowJudged(new) /\ Working("classify", new)
<1> DEFINE s == old.tries
           t == new.tries
<1>1. /\ Len(t) = Len(s) + 1 /\ DOMAIN t = 1..(Len(s) + 1) /\ DOMAIN s = 1..Len(s) /\ Len(s) \in Nat
      /\ t[Len(t)] = "PROCESSING"
      /\ \A i \in DOMAIN s : t[i] = s[i]
  BY TryOpened
<1>2. \A i \in DOMAIN s : s[i] # "SUCCEEDED" /\ s[i] # "PROCESSING"
  BY DEF RowJudged, NoneOpen
<1>3. \A i \in DOMAIN t : i \in DOMAIN s \/ i = Len(t)
  BY <1>1
<1>4. \A i \in DOMAIN t : t[i] # "SUCCEEDED" /\ (t[i] = "PROCESSING" => i = Len(t))
  BY <1>1, <1>2, <1>3
<1>5. Len(t) \in DOMAIN t
  BY <1>1
<1>6. /\ old.decision = "none" /\ old.review = "none"
  BY DEF Opined
<1> HIDE DEF s, t
<1> QED BY <1>1, <1>4, <1>5, <1>6 DEF RowJudged, Working, Opined, t

(* An open attempt ends: with a verdict when the document is judged with it, *)
(* and with a failure otherwise.                                             *)
LEMMA RowEnded ==
  ASSUME NEW old, old.tries \in Seq(Tried), RowJudged(old), Working("classify", old), NEW new,
         NEW v \in Verdicts, new.tries = [old.tries EXCEPT ![Len(old.tries)] = v],
         v = "SUCCEEDED" => Opined(new),
         new.decision \in {"none", "AUTOMATIC"},
         new.decision = "AUTOMATIC" => v = "SUCCEEDED" /\ new.review = "none",
         new.review # "COMPLETED"
  PROVE  RowJudged(new) /\ NoneOpen(new)
<1> DEFINE s == old.tries
           t == new.tries
<1>1. /\ Len(t) = Len(s) /\ DOMAIN t = DOMAIN s
      /\ \A i \in DOMAIN s : t[i] = IF i = Len(s) THEN v ELSE s[i]
  BY TryEnded
<1>2. /\ \A i \in DOMAIN s : s[i] = "PROCESSING" => i = Len(s)
      /\ \A i \in DOMAIN s : s[i] # "SUCCEEDED"
      /\ Len(s) \in DOMAIN s
  BY DEF RowJudged, Working
<1>3. \A i \in DOMAIN t : t[i] # "PROCESSING" /\ (t[i] = "SUCCEEDED" => i = Len(t) /\ v = "SUCCEEDED")
  BY <1>1, <1>2 DEF Verdicts
<1>4. v = "SUCCEEDED" => \E i \in DOMAIN t : t[i] = "SUCCEEDED"
  BY <1>1, <1>2
<1> HIDE DEF s, t
<1> QED BY <1>3, <1>4 DEF RowJudged, NoneOpen, t

LEMMA RowClosed ==
  ASSUME NEW old, old.tries \in Seq(Tried), RowJudged(old), NEW new,
         new.tries = CloseTry(old.tries), new.review = old.review, new.decision = old.decision
  PROVE  RowJudged(new) /\ NoneOpen(new)
<1> DEFINE s == old.tries
           t == new.tries
<1>1. /\ Len(t) = Len(s) /\ DOMAIN t = DOMAIN s
      /\ \A i \in DOMAIN s : t[i] = IF s[i] = "PROCESSING" THEN "FAILED" ELSE s[i]
  BY TryClosed
<1>2. \A i \in DOMAIN t : t[i] # "PROCESSING" /\ (t[i] = "SUCCEEDED" <=> s[i] = "SUCCEEDED")
  BY <1>1
<1> HIDE DEF s, t
<1> QED BY <1>1, <1>2 DEF RowJudged, NoneOpen, Opined, s, t

LEMMA RowResolved ==
  ASSUME NEW old, RowJudged(old), NEW new, new.tries = old.tries, new.review = "COMPLETED",
         new.decision = "HUMAN_REVIEW", old.review = "PENDING", old.decision = "none"
  PROVE  RowJudged(new)
BY DEF RowJudged, Opined

LEMMA EndedAttempt ==
  ASSUME NEW d, doc[d] \in AnyDoc, NEW v \in Verdicts
  PROVE  /\ EndAttempt(d, v) \in AnyDoc
         /\ EndAttempt(d, v).tries = [doc[d].tries EXCEPT ![Len(doc[d].tries)] = v]
         /\ EndAttempt(d, v).status = doc[d].status
         /\ EndAttempt(d, v).review = doc[d].review
         /\ EndAttempt(d, v).decision = doc[d].decision
<1> DEFINE tries == [doc[d].tries EXCEPT ![Len(doc[d].tries)] = v]
<1>1. EndAttempt(d, v) = [doc[d] EXCEPT !.tries = tries]
  BY DEF EndAttempt
<1>2. tries \in Seq(Tried)
  BY SeqReplace DEF AnyDoc, Tried
<1> HIDE DEF tries
<1>3. /\ EndAttempt(d, v) \in AnyDoc /\ EndAttempt(d, v).tries = tries
      /\ EndAttempt(d, v).status = doc[d].status
      /\ EndAttempt(d, v).review = doc[d].review
      /\ EndAttempt(d, v).decision = doc[d].decision
  BY <1>1, <1>2 DEF AnyDoc
<1> QED BY <1>3 DEF tries

(* The worker that has its run judges its document once.                     *)
LEMMA WorkJudged ==
  ASSUME TypeInv, RouteInv, VerdictInv, NEW r \in Runs, NEW d \in Docs, WorkDeed(r, d)
  PROVE  /\ RowJudged(doc'[d])
         /\ CreateAttempt(r) => Working("classify", doc'[d])
         /\ ~CreateAttempt(r) => NoneOpen(doc'[d])
<1>0. /\ doc[d] \in AnyDoc /\ doc[d].tries \in Seq(Tried) /\ RowJudged(doc[d])
      /\ doc \in [Docs -> DocRow] /\ d = job[r].doc
  BY DEF TypeInv, DocsOK, DocRow, AnyDoc, VerdictInv, WorkDeed
<1>1. Own(r) => Working(job[r].pc, doc[d])
  BY <1>0 DEF VerdictInv, WorkingOwn
<1>2. CASE CreateAttempt(r)
  <2>1. job[r].pc = "claimed" /\ Working("claimed", doc[d])
    BY <1>1, <1>2 DEF CreateAttempt, InDocument, Fence, Own
  <2>2. doc'[d] = [doc[d] EXCEPT !.tries = Append(@, "PROCESSING")]
    BY <1>0, <1>2 DEF CreateAttempt
  <2>3. /\ doc'[d].tries = Append(doc[d].tries, "PROCESSING") /\ doc'[d].status = doc[d].status
        /\ doc'[d].review = doc[d].review /\ doc'[d].decision = doc[d].decision
    BY <1>0, <2>2 DEF AnyDoc
  <2>4. doc[d].status = "PROCESSING" /\ ~Opined(doc[d]) /\ NoneOpen(doc[d])
    BY <2>1 DEF Working
  <2> QED BY <1>0, <1>2, <2>3, <2>4, RowOpened
<1>3. CASE FetchFails(r) \/ FailDocument(r)
  <2>1. job[r].pc \in {"claimed", "failing"} /\ Working(job[r].pc, doc[d])
    BY <1>1, <1>3 DEF FetchFails, FailDocument, InDocument, Fence, Own
  <2>2. doc'[d] = [doc[d] EXCEPT !.status = "FAILED", !.intake = "FAILED"]
    BY <1>0, <1>3 DEF FetchFails, FailDocument
  <2>3. /\ doc'[d].tries = doc[d].tries /\ doc'[d].review = doc[d].review
        /\ doc'[d].decision = doc[d].decision
    BY <1>0, <2>2 DEF AnyDoc
  <2>4. NoneOpen(doc[d]) /\ ~CreateAttempt(r)
    <3>1. NoneOpen(doc[d])
      BY <2>1 DEF Working
    <3>2. job'[r].pc # "classify"
      <4>1. job' = [job EXCEPT ![r] = [job[r] EXCEPT !.pc = "docs", !.doc = NoDoc]]
        BY <1>3 DEF FetchFails, FailDocument, Advance, Leave
      <4> QED BY <4>1 DEF TypeInv, JobsOK, JobRow
    <3>3. CreateAttempt(r) => job'[r].pc = "classify"
      BY DEF CreateAttempt, Advance, Goto, TypeInv, JobsOK, JobRow
    <3> QED BY <3>1, <3>2, <3>3
  <2> QED BY <1>0, <2>3, <2>4, RowKeepsTries
<1>4. CASE Classify(r) \/ ClassifierFails(r) \/ ClassifierBreaks(r)
  <2>1. job[r].pc = "classify" /\ Working("classify", doc[d]) /\ ~CreateAttempt(r)
    BY <1>1, <1>4 DEF Classify, ClassifierFails, ClassifierBreaks, CreateAttempt, InDocument, Fence, Own
  <2>2. doc[d].review = "none" /\ doc[d].decision = "none"
    BY <2>1 DEF Working, Opined
  <2>3. ASSUME NEW v \in Verdicts, doc'[d] = ReviewOpened(d, v)
        PROVE  RowJudged(doc'[d]) /\ NoneOpen(doc'[d])
    <3> DEFINE e == EndAttempt(d, v)
    <3>1. /\ e \in AnyDoc /\ e.tries = [doc[d].tries EXCEPT ![Len(doc[d].tries)] = v]
          /\ e.review = "none" /\ e.decision = "none"
      BY <1>0, <2>2, EndedAttempt
    <3> HIDE DEF e
    <3>2. doc'[d] = [e EXCEPT !.review = IF @ = "none" THEN "PENDING" ELSE @,
                              !.status = "AWAITING_REVIEW", !.intake = "AWAITING_REVIEW"]
      BY <2>3 DEF ReviewOpened, e
    <3>3. doc'[d].tries = e.tries /\ doc'[d].review = "PENDING" /\ doc'[d].decision = "none"
      BY <3>1, <3>2 DEF AnyDoc
    <3> QED BY <1>0, <2>1, <3>1, <3>3, RowEnded DEF Opined
  <2>4. ASSUME NEW g \in Grounds, doc'[d] = JudgedAutomatically(d, g)
        PROVE  RowJudged(doc'[d]) /\ NoneOpen(doc'[d])
    <3> DEFINE e == EndAttempt(d, "SUCCEEDED")
    <3>0. "SUCCEEDED" \in Verdicts
      BY DEF Verdicts
    <3>1. /\ e \in AnyDoc /\ e.tries = [doc[d].tries EXCEPT ![Len(doc[d].tries)] = "SUCCEEDED"]
          /\ e.review = "none"
      BY <1>0, <2>2, <3>0, EndedAttempt
    <3> HIDE DEF e
    <3>2. doc'[d] = [e EXCEPT !.decision = "AUTOMATIC", !.ground = g, !.route = "PENDING"]
      BY <2>4 DEF JudgedAutomatically, e
    <3>3. doc'[d].tries = e.tries /\ doc'[d].review = "none" /\ doc'[d].decision = "AUTOMATIC"
      BY <3>1, <3>2 DEF AnyDoc
    <3> QED BY <1>0, <2>1, <3>0, <3>1, <3>3, RowEnded DEF Opined
  <2>5. CASE doc'[d] = EndAttempt(d, "FAILED")
    <3>0. "FAILED" \in Verdicts
      BY DEF Verdicts
    <3>1. /\ doc'[d].tries = [doc[d].tries EXCEPT ![Len(doc[d].tries)] = "FAILED"]
          /\ doc'[d].review = "none" /\ doc'[d].decision = "none"
      BY <1>0, <2>2, <2>5, <3>0, EndedAttempt
    <3> QED BY <1>0, <2>1, <3>0, <3>1, RowEnded
  <2>6. (\E v \in Verdicts : doc'[d] = ReviewOpened(d, v)) \/ doc'[d] = EndAttempt(d, "FAILED")
          \/ \E g \in Grounds : doc'[d] = JudgedAutomatically(d, g)
    <3>1. CASE ClassifierFails(r) \/ ClassifierBreaks(r)
      BY <1>0, <3>1 DEF ClassifierFails, ClassifierBreaks, Verdicts
    <3>2. CASE Classify(r)
      BY <1>0, <3>2 DEF Classify, JudgedAutomatically, Verdicts
    <3> QED BY <1>4, <3>1, <3>2
  <2> QED BY <2>1, <2>3, <2>4, <2>5, <2>6
<1>5. CASE RouteByWorker(r) \/ RouteFailsByWorker(r)
  <2>1. job[r].pc \in {"copied", "refused"} /\ ~CreateAttempt(r)
    BY <1>5 DEF RouteByWorker, RouteFailsByWorker, CreateAttempt, InDocument
  <2>2. Opined(doc[d])
    BY <1>0, <2>1 DEF RouteInv, HandsOK, InHand, Decided, Opined
  <2>3. doc'[d] = Routed(d) \/ doc'[d] = RouteFailed(d)
    BY <1>0, <1>5 DEF RouteByWorker, RouteFailsByWorker
  <2>4. /\ doc'[d].tries = doc[d].tries /\ doc'[d].review = doc[d].review
        /\ doc'[d].decision = doc[d].decision
    BY <1>0, <2>3 DEF Routed, RouteFailed, AnyDoc
  <2> QED BY <1>0, <2>1, <2>2, <2>4, RowKeepsTries
<1> QED BY <1>2, <1>3, <1>4, <1>5 DEF WorkDeed

(* Whoever else writes a document opens no attempt and judges only what is   *)
(* still to be judged.                                                       *)
LEMMA OthersJudge ==
  ASSUME TypeInv, RouteInv, VerdictInv, NEW d \in Docs,
         \/ Arrives(d) \/ Listed(d)
         \/ \E r \in Runs : ClaimDeed(r, d) \/ RecoveryDeed(r, d)
         \/ \E p \in People : RouteDeed(p, d) \/ \E r \in Runs : ResolveDeed(p, r, d)
  PROVE  /\ RowJudged(doc'[d])
         /\ NoneOpen(doc[d]) => NoneOpen(doc'[d])
         /\ \A r \in Runs : ClaimDeed(r, d) => Working("claimed", doc'[d])
<1>0. /\ doc[d] \in AnyDoc /\ doc[d].tries \in Seq(Tried) /\ RowJudged(doc[d])
      /\ doc \in [Docs -> DocRow]
  BY DEF TypeInv, DocsOK, DocRow, AnyDoc, VerdictInv
<1> DEFINE SameRow == /\ doc'[d].tries = doc[d].tries /\ doc'[d].review = doc[d].review
                    /\ doc'[d].decision = doc[d].decision
           Goal == RowJudged(doc'[d]) /\ (NoneOpen(doc[d]) => NoneOpen(doc'[d]))
<1>1. CASE Arrives(d)
  <2>1. SameRow
    BY <1>0, <1>1 DEF Arrives, AnyDoc
  <2>2. NoneOpen(doc[d])
    BY <1>0, <1>1 DEF Arrives, Exists, RowJudged, NoneOpen
  <2>3. Goal
    BY <1>0, <2>1, <2>2, RowKeepsTries
  <2>4. \A r \in Runs : ~ClaimDeed(r, d)
    BY <1>1 DEF Arrives, Exists, ClaimDeed
  <2> QED BY <2>3, <2>4
<1>2. CASE Listed(d)
  <2>1. SameRow /\ doc'[d].status = doc[d].status /\ doc'[d].intake = "QUEUED"
    BY <1>0, <1>2 DEF Listed, AnyDoc
  <2>2. Goal
    <3>1. RowJudged(doc'[d])
      BY <1>0, <2>1, RowKeepsTries
    <3> QED BY <2>1, <3>1 DEF NoneOpen
  <2>3. ASSUME NEW r \in Runs, ClaimDeed(r, d) PROVE FALSE
    BY <1>0, <2>1, <2>3 DEF ClaimDeed, AnyDoc
  <2> QED BY <2>2, <2>3
<1>3. ASSUME NEW r \in Runs, ClaimDeed(r, d) PROVE Goal /\ Working("claimed", doc'[d])
  <2>1. SameRow /\ doc'[d].status = "PROCESSING"
    BY <1>0, <1>3 DEF ClaimDeed, AnyDoc
  <2>2. NoneOpen(doc[d]) /\ ~Opined(doc[d])
    BY <1>0, <1>3 DEF ClaimDeed, Judged, Opined, RowJudged, NoneOpen
  <2>3. Goal /\ NoneOpen(doc'[d])
    BY <1>0, <2>1, <2>2, RowKeepsTries
  <2> QED BY <2>1, <2>2, <2>3 DEF Working, Opined
<1>4. ASSUME NEW r \in Runs, RecoveryDeed(r, d) PROVE Goal
  <2>0. d \in NewDocs(r)
    BY <1>4 DEF RecoveryDeed
  <2>1. /\ doc'[d].tries = CloseTry(doc[d].tries) /\ doc'[d].review = doc[d].review
        /\ doc'[d].decision = doc[d].decision
    <3>1. CASE doc'[d] = ItemsReset(r)[d]
      <4>1. CASE InterruptedDoc(d)
        BY <1>0, <2>0, <3>1, <4>1 DEF ItemsReset, Reopened, AnyDoc
      <4>2. CASE ~InterruptedDoc(d)
        BY <1>0, <2>0, <3>1, <4>2 DEF ItemsReset, AnyDoc
      <4> QED BY <4>1, <4>2
    <3>2. CASE doc'[d] = ItemsClosed(r)[d]
      BY <1>0, <2>0, <3>2 DEF ItemsClosed, AnyDoc
    <3> QED BY <1>4, <3>1, <3>2 DEF RecoveryDeed
  <2> QED BY <1>0, <2>1, RowClosed
<1>5. ASSUME NEW p \in People, RouteDeed(p, d) PROVE Goal
  <2>1. Opined(doc[d])
    BY <1>5 DEF RouteDeed, RouteByRequest, RouteInv, HandsOK, InHand, Decided, Opined
  <2>2. SameRow
    <3>1. doc'[d] = Routed(d) \/ doc'[d] = RouteFailed(d)
      BY <1>5 DEF RouteDeed
    <3> QED BY <1>0, <3>1 DEF Routed, RouteFailed, AnyDoc
  <2> QED BY <1>0, <2>1, <2>2, RowKeepsTries
<1>6. ASSUME NEW p \in People, NEW r \in Runs, ResolveDeed(p, r, d) PROVE Goal
  <2>1. /\ doc'[d].tries = doc[d].tries /\ doc'[d].review = "COMPLETED"
        /\ doc'[d].decision = "HUMAN_REVIEW"
        /\ doc[d].review = "PENDING" /\ doc[d].decision = "none"
    BY <1>0, <1>6 DEF ResolveDeed, Resolve, AnyDoc
  <2>2. RowJudged(doc'[d])
    BY <1>0, <2>1, RowResolved
  <2> QED BY <2>1, <2>2 DEF NoneOpen
<1>7. Goal
  BY <1>1, <1>2, <1>3, <1>4, <1>5, <1>6
<1> HIDE DEF Goal
<1>8. \A r \in Runs : ClaimDeed(r, d) => Working("claimed", doc'[d])
  BY <1>3
<1> QED BY <1>7, <1>8 DEF Goal

LEMMA RowsStep ==
  TypeInv /\ RouteInv /\ OwnInv /\ VerdictInv /\ [Next]_vars => \A d \in Docs : RowJudged(doc'[d])
<1> SUFFICES ASSUME TypeInv, RouteInv, OwnInv, VerdictInv, [Next]_vars, NEW d \in Docs
             PROVE  RowJudged(doc'[d])
  OBVIOUS
<1>1. CASE doc'[d] = doc[d]
  BY <1>1 DEF VerdictInv
<1>2. CASE doc'[d] # doc[d]
  BY <1>2, DocumentDeeds, WorkJudged, OthersJudge DEF OwnInv
<1> QED BY <1>1, <1>2

(* A job keeps its identifier, and comes to the classifier from its claim.   *)
Judging == {"claimed", "classify", "failing"}
JobTurn(r) ==
  /\ job'[r].pc # "none" => \/ Live(r) /\ job'[r].task = job[r].task
                            \/ msg[r] # NoMessage /\ job'[r].task = msg[r].task
  /\ job'[r].pc \in Judging =>
       \/ job'[r] = job[r]
       \/ job'[r].pc = "claimed" /\ ClaimDeed(r, job'[r].doc)
       \/ job'[r].doc = job[r].doc /\ \/ job'[r].pc = "classify" /\ CreateAttempt(r)
                                      \/ job'[r].pc = "failing" /\ ClassifierBreaks(r)
                                      \/ job'[r].pc = "failing" /\ RouteFailsByWorker(r)

LEMMA JobTurns ==
  ASSUME TypeInv, [Next]_vars, NEW r \in Runs
  PROVE  JobTurn(r)
<1>0. job[r] \in JobRow /\ JobSane(r, job[r]) /\ job \in [Runs -> JobRow]
  BY DEF TypeInv, JobsOK
<1>1. CASE job'[r] = job[r]
  BY <1>1 DEF JobTurn, Live
<1>2. ASSUME JobWork(r) PROVE JobTurn(r)
  <2>1. ASSUME NEW rec, Advance(r, rec) PROVE job'[r] = rec
    BY <1>0, <2>1 DEF Advance
  <2>2. ASSUME Live(r), job'[r].task = job[r].task, job'[r].pc \notin Judging PROVE JobTurn(r)
    BY <2>2 DEF JobTurn
  <2>3. ASSUME NEW pc \in {"routes", "docs"}, Live(r), Advance(r, Leave(r, pc)) PROVE JobTurn(r)
    <3>1. job'[r].pc = pc /\ job'[r].task = job[r].task
      BY <1>0, <2>1, <2>3 DEF Leave, JobRow
    <3> QED BY <2>2, <2>3, <3>1 DEF Judging
  <2>4. ASSUME Advance(r, NoJob) PROVE JobTurn(r)
    <3>1. job'[r].pc = "none"
      BY <2>1, <2>4 DEF NoJob
    <3> QED BY <3>1 DEF JobTurn, Judging
  <2>5. ASSUME NEW pc, Advance(r, Goto(r, pc))
        PROVE  job'[r].pc = pc /\ job'[r].doc = job[r].doc /\ job'[r].task = job[r].task
    BY <1>0, <2>1, <2>5 DEF Goto, JobRow
  <2>6. CASE EnlistAttachment(r) \/ AttachmentFails(r) \/ IngestAttachment(r)
    <3> DEFINE a == NextAttachment(r)
               b == [NextAttachment(r) EXCEPT !.failures = @ + 1]
               c == Goto(r, "enlist")
               e == [Goto(r, "enlist") EXCEPT !.dup = TRUE]
    <3>1. /\ a.pc = "ingest" /\ a.task = job[r].task /\ b.pc = "ingest" /\ b.task = job[r].task
          /\ c.pc = "enlist" /\ c.task = job[r].task /\ e.pc = "enlist" /\ e.task = job[r].task
      BY <1>0 DEF NextAttachment, Goto, JobRow
    <3>2. Live(r) /\ (Advance(r, a) \/ Advance(r, b) \/ Advance(r, c) \/ Advance(r, e))
      BY <2>6 DEF EnlistAttachment, AttachmentFails, IngestAttachment, Live
    <3> HIDE DEF a, b, c, e
    <3> QED BY <2>1, <2>2, <3>1, <3>2 DEF Judging
  <2>7. CASE EndIngestion(r) \/ EndRoutes(r)
    <3> DEFINE a == [Goto(r, "routes") EXCEPT !.todo = PendingRoutes(r)]
               b == [Goto(r, "docs") EXCEPT !.phase = "docs", !.todo = NewDocs(r)]
    <3>1. a.pc = "routes" /\ a.task = job[r].task /\ b.pc = "docs" /\ b.task = job[r].task
      BY <1>0 DEF Goto, JobRow
    <3>2. Live(r) /\ (Advance(r, a) \/ Advance(r, b))
      BY <2>7 DEF EndIngestion, EndRoutes, Live
    <3> HIDE DEF a, b
    <3> QED BY <2>1, <2>2, <3>1, <3>2 DEF Judging
  <2>8. CASE PickRoute(r)
    <3> PICK d \in job[r].todo : Advance(r, [Goto(r, "route") EXCEPT !.doc = d, !.todo = @ \ {d}])
      BY <2>8 DEF PickRoute
    <3>1. job'[r].pc = "route" /\ job'[r].task = job[r].task
      BY <1>0, <2>1 DEF Goto, JobRow
    <3> QED BY <2>2, <2>8, <3>1 DEF PickRoute, Live, Judging
  <2>9. CASE Claim(r)
    <3> PICK d \in job[r].todo, pc \in {"claimed", "docs"} :
          /\ pc = "claimed" => /\ doc[d].status = "QUEUED" /\ ~Judged(d)
                               /\ doc' = [doc EXCEPT ![d].status = "PROCESSING", ![d].intake = "PROCESSING"]
          /\ Advance(r, [job[r] EXCEPT !.pc = pc, !.doc = IF pc = "claimed" THEN d ELSE NoDoc,
                                       !.todo = @ \ {d}])
      BY <2>9 DEF Claim, Judged
    <3>1. /\ job'[r].pc = pc /\ job'[r].task = job[r].task
          /\ job'[r].doc = (IF pc = "claimed" THEN d ELSE NoDoc)
      BY <1>0, <2>1 DEF JobRow
    <3>2. Live(r)
      BY <2>9 DEF Claim, Live
    <3>3. CASE pc = "claimed"
      <4>1. d \in Docs /\ doc \in [Docs -> DocRow] /\ doc[d] \in AnyDoc
        BY <1>0 DEF JobRow, TypeInv, DocsOK, DocRow
      <4>2. doc'[d] = [doc[d] EXCEPT !.status = "PROCESSING", !.intake = "PROCESSING"]
        BY <3>3, <4>1
      <4>3. ClaimDeed(r, d)
        BY <2>9, <3>3, <4>2 DEF ClaimDeed
      <4> QED BY <3>1, <3>2, <3>3, <4>3 DEF JobTurn
    <3>4. CASE pc = "docs"
      BY <2>2, <3>1, <3>2, <3>4 DEF Judging
    <3> QED BY <3>3, <3>4
  <2>10. CASE Superseded(r) \/ LeaveDocument(r) \/ FailDocument(r) \/ FetchFails(r) \/ RouteByWorker(r)
              \/ Finish(r) \/ FailUnhandled(r) \/ LoseWorker(r) \/ ClassifierFails(r)
    <3>1. (Live(r) /\ \E pc \in {"routes", "docs"} : Advance(r, Leave(r, pc))) \/ Advance(r, NoJob)
      BY <1>0, <2>10 DEF Superseded, LeaveDocument, FailDocument, FetchFails, RouteByWorker, JobRow, Leave,
        Finish, FailUnhandled, LoseWorker, Live, InDocument, Advance, ClassifierFails
    <3> QED BY <2>3, <2>4, <3>1
  <2>11. CASE CreateAttempt(r) \/ ClassifierBreaks(r)
    <3>1. /\ Live(r)
          /\ \/ CreateAttempt(r) /\ Advance(r, Goto(r, "classify"))
             \/ ClassifierBreaks(r) /\ Advance(r, Goto(r, "failing"))
      BY <2>11 DEF CreateAttempt, ClassifierBreaks, InDocument, Live
    <3> QED BY <2>5, <3>1 DEF JobTurn
  <2>12. CASE Classify(r) \/ BeginRoute(r) \/ CopyByWorker(r) \/ CopyByWorkerFails(r)
    <3>1. /\ Live(r)
          /\ \/ \E pc \in {"routes", "docs"} : Advance(r, Leave(r, pc))
             \/ \E pc \in {"route", "copy", "copied", "refused"} : Advance(r, Goto(r, pc))
      BY <1>0, <2>12 DEF Classify, BeginRoute, CopyByWorker, CopyByWorkerFails, InDocument, Live, JobRow
    <3> QED BY <2>2, <2>3, <2>5, <3>1 DEF Judging
  <2>13. CASE RouteFailsByWorker(r)
    <3>1. Live(r) /\ (Advance(r, Goto(r, "failing")) \/ Advance(r, Leave(r, "routes")))
      BY <2>13 DEF RouteFailsByWorker, InDocument, Live
    <3> QED BY <2>3, <2>5, <2>13, <3>1 DEF JobTurn
  <2>14. CASE Start(r) \/ ResumeInterrupted(r)
    <3> DEFINE rec == FirstStep(r, msg[r].task)
    <3>1. job'[r] = rec /\ msg[r] # NoMessage
      BY <2>1, <2>14 DEF Start, ResumeInterrupted, Deliver
    <3>2. rec.pc \in {"ingest", "routes"} /\ rec.task = msg[r].task
      BY DEF FirstStep, NoJob
    <3> HIDE DEF rec
    <3> QED BY <3>1, <3>2 DEF JobTurn, Judging
  <2> QED BY <1>2, <2>6, <2>7, <2>8, <2>9, <2>10, <2>11, <2>12, <2>13, <2>14 DEF JobWork, WorkerStep
<1> QED BY <1>1, <1>2, ThisJob

(* The identifier of a run: it stays, or it is new, or it is withdrawn.      *)
TaskMove(s) ==
  \/ run'[s].task = run[s].task /\ (run'[s].status = "QUEUED" => run[s].status = "QUEUED")
  \/ run'[s].task = run[s].issued + 1
  \/ run'[s].task = 0 /\ run'[s].status # "QUEUED"

LEMMA TaskWritten ==
  ASSUME RunsOK, NEW s \in Runs
  PROVE  /\ Requeued(s).task = run[s].issued + 1 /\ Claimed(s).task = run[s].issued + 1
         /\ Fenced(s).task = 0 /\ Fenced(s).status = "FAILED"
         /\ \A t, actor, b : LET rec == [Recomputed(s, t, actor) EXCEPT !.torn = b] IN
              rec.task = run[s].task /\ rec.status = Verdict(s)
<1> PICK E : run[s] \in RunRow(E)
  BY DEF RunsOK
<1> QED BY DEF Requeued, Claimed, Fenced, Recomputed, RunRow

LEMMA TaskMoves ==
  ASSUME TypeInv, [Next]_vars, NEW s \in Runs
  PROVE  TaskMove(s)
<1> PICK E : run \in [Runs -> RunRow(E)]
  BY DEF TypeInv, RunsOK
<1>0. run[s] \in RunRow(E) /\ RunsOK /\ RunSane(s, run[s])
  BY DEF TypeInv, RunsOK
<1>1. ASSUME run'[s] = run[s] PROVE TaskMove(s)
  BY <1>1 DEF TaskMove
<1>2. ASSUME NEW rec, run'[s] = rec, rec.task = run[s].task, rec.status # "QUEUED" PROVE TaskMove(s)
  BY <1>2 DEF TaskMove
<1>3. ASSUME \/ run'[s] = Requeued(s) \/ run'[s] = Claimed(s) \/ run'[s] = Fenced(s)
      PROVE  TaskMove(s)
  BY <1>0, <1>3, TaskWritten DEF TaskMove
<1>4. ASSUME \/ \E v : run'[s] = [run[s] EXCEPT !.published = v]
             \/ \E v : run'[s] = [run[s] EXCEPT !.attempts = v]
             \/ \E v : run'[s] = [run[s] EXCEPT !.items = v]
             \/ \E v : run'[s] = [run[s] EXCEPT !.failures = v]
             \/ \E v : run'[s] = [run[s] EXCEPT !.torn = v]
             \/ \E v : run'[s] = [run[s] EXCEPT !.status = "FAILED", !.error = v]
             \/ run'[s] = [run[s] EXCEPT !.status = "RUNNING"]
             \/ run'[s] = [run[s] EXCEPT !.status = "FAILED", !.task = 0]
             \/ \E v, i : run'[s] = [run[s] EXCEPT !.status = "PENDING", !.content = v, !.items = i]
      PROVE  TaskMove(s)
  BY <1>0, <1>4 DEF TaskMove, RunRow
<1>5. ASSUME NEW t, NEW actor, NEW b, run'[s] = [Recomputed(s, t, actor) EXCEPT !.torn = b]
      PROVE  TaskMove(s)
  <2> DEFINE rec == [Recomputed(s, t, actor) EXCEPT !.torn = b]
  <2>1. rec.task = run[s].task /\ rec.status = Verdict(s)
    BY <1>0, TaskWritten
  <2> HIDE DEF rec
  <2>2. run'[s] = rec
    BY <1>5 DEF rec
  <2> QED BY <1>2, <2>1, <2>2, Verdicts5
<1>6. ASSUME NEW r \in Runs, RunWork(r) PROVE TaskMove(s)
  <2>1. CASE r # s
    BY <1>1, <1>6, <2>1, RunWorkWrites
  <2>2. CASE r = s
    <3>1. CASE RequestInbox(s)
      <4>1. run'[s] = [Requeued(s) EXCEPT !.content = Inbox, !.items = [i \in DOMAIN Inbox |-> "none"]]
        BY <3>1 DEF RequestInbox
      <4>2. run'[s].task = run[s].issued + 1
        BY <1>0, <4>1 DEF Requeued, RunRow
      <4> QED BY <4>2 DEF TaskMove
    <3>2. CASE Publish(s) \/ Refuse(s) \/ Start(s) \/ ResumeInterrupted(s) \/ ExhaustInterrupted(s)
                \/ EnlistAttachment(s) \/ EndIngestion(s) \/ FailUnhandled(s)
      BY <1>4, <3>2 DEF Publish, Refuse, Start, ResumeInterrupted, ExhaustInterrupted, EnlistAttachment,
        Enlist, EndIngestion, FailUnhandled
    <3>3. CASE Finish(s)
      <4>1. \/ run'[s] = [run[s] EXCEPT !.status = "FAILED", !.error = "technical"]
            \/ run'[s] = [Recomputed(s, run[s].task, "worker") EXCEPT !.torn = FALSE]
        BY <3>3 DEF Finish
      <4> QED BY <1>4, <1>5, <4>1
    <3>4. CASE ReconcilePending(s) \/ ReconcileQueued(s) \/ ReconcileRunning(s)
      BY <1>3, <3>4 DEF ReconcilePending, ReconcileQueued, ReconcileRunning
    <3> QED BY <1>6, <2>2, <3>1, <3>2, <3>3, <3>4 DEF RunWork
  <2> QED BY <2>1, <2>2
<1>7. ASSUME NEW p \in People, RunRequest(p) PROVE TaskMove(s)
  <2>1. ASSUME NEW r \in Runs, NEW d \in Docs, RequestUpload(p, r, d) PROVE TaskMove(s)
    <3>1. run' = [run EXCEPT ![r] = [run[r] EXCEPT !.status = "PENDING", !.content = <<d>>,
                                                   !.items = <<"none">>]]
      BY <2>1 DEF RequestUpload
    <3> QED BY <1>1, <1>4, <3>1
  <2>2. CASE \E rec : run' = [run EXCEPT ![web[p].run] = rec]
    <3>1. CASE web[p].run # s
      BY <1>1, <2>2, <3>1
    <3>2. CASE web[p].run = s
      <4>1. CASE UploadFails(p) \/ WebDies(p) \/ UploadEnlist(p)
        <5>1. \/ run'[s] = [run[s] EXCEPT !.status = "FAILED", !.error = "technical"]
              \/ run'[s] = [run[s] EXCEPT !.torn = TRUE]
              \/ \E v : run'[s] = [run[s] EXCEPT !.items = v]
          BY <3>2, <4>1 DEF UploadFails, WebDies, UploadEnlist, Enlist
        <5> QED BY <1>4, <5>1
      <4>2. CASE UploadQueue(p)
        BY <1>3, <3>2, <4>2 DEF UploadQueue
      <4>3. CASE RecomputeByRequest(p)
        <5>1. \/ run'[s] = [run[s] EXCEPT !.torn = TRUE]
              \/ run'[s] = [Recomputed(s, 0, p) EXCEPT !.torn = Live(s)]
          BY <3>2, <4>3 DEF RecomputeByRequest
        <5> QED BY <1>4, <1>5, <5>1
      <4> QED BY <1>7, <2>1, <4>1, <4>2, <4>3 DEF RunRequest
    <3> QED BY <3>1, <3>2
  <2> QED BY <1>7, <2>1, <2>2, RunRequestWrites
<1> QED BY <1>1, <1>6, <1>7, WhoWritesRuns DEF vars

LEMMA IssuedStep == TypeInv /\ Issued /\ [Next]_vars => Issued'
<1> SUFFICES ASSUME TypeInv, Issued, [Next]_vars, NEW r \in Runs
             PROVE  /\ run'[r].status = "QUEUED" => run'[r].task >= 1
                    /\ msg'[r] # NoMessage => msg'[r].task >= 1
                    /\ job'[r].pc # "none" => job'[r].task >= 1
  BY DEF Issued
<1>0. /\ run[r].issued \in Nat /\ run[r].task \in Nat /\ msg \in [Runs -> MsgRow]
  BY Identifiers DEF TypeInv, MsgsOK
<1>1. run'[r].status = "QUEUED" => run'[r].task >= 1
  BY <1>0, TaskMoves DEF TaskMove, Issued
<1>2. msg'[r] # NoMessage => msg'[r].task >= 1
  <2>1. CASE msg'[r] = msg[r]
    BY <2>1 DEF Issued
  <2>2. CASE msg'[r] # msg[r]
    <3>1. Publish(r) \/ Deliver(r) \/ LoseWorker(r)
      <4>1. ASSUME NEW q \in Runs, Publish(q) \/ Deliver(q) \/ LoseWorker(q) PROVE q = r
        <5>1. UNCHANGED msg \/ \E m : msg' = [msg EXCEPT ![q] = m]
          BY <4>1 DEF Publish, Deliver, LoseWorker
        <5> QED BY <1>0, <2>2, <5>1
      <4> QED BY <2>2, <4>1, WhoWritesMessages DEF vars
    <3>2. \/ msg'[r] = NoMessage
          \/ msg'[r].task = run[r].task /\ run[r].status = "QUEUED"
          \/ msg'[r].task = job[r].task /\ job[r].pc # "none"
      BY <1>0, <2>2, <3>1 DEF Publish, Deliver, LoseWorker, Live
    <3> QED BY <3>2 DEF Issued
  <2> QED BY <2>1, <2>2
<1>3. job'[r].pc # "none" => job'[r].task >= 1
  BY JobTurns DEF JobTurn, Live, Issued
<1> QED BY <1>1, <1>2, <1>3

(* A job that writes its document moves on; a job that comes to judge has     *)
(* written its document in that step.                                        *)
LEMMA WorkTurns ==
  ASSUME TypeInv, NEW r \in Runs, NEW d, WorkDeed(r, d)
  PROVE  job'[r] # job[r]
<1>0. job[r] \in JobRow /\ job \in [Runs -> JobRow]
  BY DEF TypeInv, JobsOK
<1>1. /\ job[r].pc \in InWork
      /\ \/ \E pc \in {"routes", "docs"} : Advance(r, Leave(r, pc))
         \/ \E pc \in InWork : pc # job[r].pc /\ Advance(r, Goto(r, pc))
  BY <1>0 DEF WorkDeed, CreateAttempt, FetchFails, FailDocument, Classify, ClassifierFails,
    ClassifierBreaks, RouteByWorker, RouteFailsByWorker, InDocument, InWork, JobRow
<1>2. ASSUME NEW pc \in {"routes", "docs"}, Advance(r, Leave(r, pc)) PROVE job'[r].pc = pc
  BY <1>0, <1>2 DEF Advance, Leave, JobRow
<1>3. ASSUME NEW pc, Advance(r, Goto(r, pc)) PROVE job'[r].pc = pc
  BY <1>0, <1>3 DEF Advance, Goto, JobRow
<1> QED BY <1>1, <1>2, <1>3 DEF InWork

LEMMA WorkWritten ==
  ASSUME TypeInv, NEW r \in Runs, CreateAttempt(r) \/ ClassifierBreaks(r) \/ RouteFailsByWorker(r)
  PROVE  job[r].doc \in Docs /\ WorkDeed(r, job[r].doc)
<1> DEFINE d == job[r].doc
<1>1. d \in Docs
  BY DEF CreateAttempt, ClassifierBreaks, RouteFailsByWorker, InDocument, TypeInv, JobsOK, JobSane
<1>2. doc[d] \in AnyDoc /\ doc \in [Docs -> DocRow]
  BY <1>1 DEF TypeInv, DocsOK, DocRow
<1>3. CASE CreateAttempt(r)
  <2>1. doc'[d] = [doc[d] EXCEPT !.tries = Append(@, "PROCESSING")]
    BY <1>1, <1>2, <1>3 DEF CreateAttempt
  <2> QED BY <1>1, <1>3, <2>1 DEF WorkDeed
<1>4. CASE ClassifierBreaks(r) \/ RouteFailsByWorker(r)
  BY <1>1, <1>2, <1>4 DEF WorkDeed, ClassifierBreaks, RouteFailsByWorker
<1> QED BY <1>3, <1>4

LEMMA WorkingStep == TypeInv /\ RouteInv /\ OwnInv /\ VerdictInv /\ [Next]_vars => WorkingOwn'
<1> SUFFICES ASSUME TypeInv, RouteInv, OwnInv, VerdictInv, [Next]_vars, NEW r \in Runs,
                    run'[r].task = job'[r].task
             PROVE  Working(job'[r].pc, doc'[job'[r].doc])
  BY DEF WorkingOwn, Own
<1>0. Arriving /\ AtWork
  BY DEF OwnInv
<1>1. CASE job'[r].pc \notin Judging
  BY <1>1 DEF Working, Judging
<1>2. CASE job'[r].pc = "claimed" /\ ClaimDeed(r, job'[r].doc)
  <2>1. job'[r].doc \in Docs
    BY <1>2 DEF ClaimDeed, TypeInv, JobsOK, JobRow
  <2> QED BY <1>2, <2>1, OthersJudge
<1>3. CASE job'[r].doc = job[r].doc /\ job'[r].pc = "classify" /\ CreateAttempt(r)
  BY <1>3, WorkWritten, WorkJudged
<1>4. CASE /\ job'[r].doc = job[r].doc /\ job'[r].pc = "failing"
           /\ ClassifierBreaks(r) \/ RouteFailsByWorker(r)
  <2>1. ~CreateAttempt(r)
    BY <1>4 DEF ClassifierBreaks, RouteFailsByWorker, CreateAttempt, InDocument
  <2>2. NoneOpen(doc'[job'[r].doc])
    BY <1>4, <2>1, WorkWritten, WorkJudged
  <2> QED BY <1>4, <2>2 DEF Working
<1>5. CASE job'[r] = job[r] /\ job[r].pc \in Judging
  <2> DEFINE d == job[r].doc
  <2>0. d \in Docs /\ d \in NewDocs(r) /\ Live(r)
    BY <1>0, <1>5 DEF TypeInv, JobsOK, JobSane, AtWork, AtWorkJob, InWork, Judging, Live
  <2>1. /\ job[r].task \in Nat /\ run[r].issued \in Nat /\ job[r].task >= 1
        /\ job[r].task <= run[r].issued
    BY <1>5, Identifiers DEF TypeInv, JobsOK, JobRow, VerdictInv, Issued, Judging
  <2>2. run'[r].task # run[r].issued + 1 /\ run'[r].task # 0
    BY <1>5, <2>1
  <2>3. Own(r)
    BY <1>5, <2>2, TaskMoves DEF TaskMove, Own
  <2>4. Working(job[r].pc, doc[d])
    BY <2>3 DEF VerdictInv, WorkingOwn
  <2>5. CASE doc'[d] = doc[d]
    BY <1>5, <2>4, <2>5
  <2>6. ~Arrives(d) /\ ~Listed(d)
    BY <2>0 DEF Arrives, Listed, OwnInv, Mirrored, HeldOnce, Fresh
  <2>7. \A q \in Runs : d \in NewDocs(q) => q = r
    BY <2>0 DEF OwnInv, OwnedOnce
  <2>8. ASSUME NEW q \in Runs, ClaimDeed(q, d) \/ WorkDeed(q, d) PROVE FALSE
    <3>1. q = r
      BY <1>0, <2>0, <2>7, <2>8, DeedsOwned
    <3>2. ~WorkDeed(r, d)
      BY <1>5, WorkTurns
    <3> QED BY <1>5, <2>8, <3>1, <3>2 DEF ClaimDeed, Claim, Judging
  <2>9. ASSUME NEW q \in Runs, RecoveryDeed(q, d) PROVE doc'[d] = doc[d]
    <3>1. q = r
      BY <1>0, <2>0, <2>7, <2>9, DeedsOwned
    <3>2. ReconcileQueued(r)
      BY <2>0, <2>9, <3>1 DEF RecoveryDeed, Recovery, ResumeInterrupted, ExhaustInterrupted,
        ReconcileRunning, Deliver
    <3>3. run' = [run EXCEPT ![r] = Fenced(r)] \/ run' = [run EXCEPT ![r] = Claimed(r)]
      BY <3>2 DEF ReconcileQueued
    <3>4. run'[r] = Fenced(r) \/ run'[r] = Claimed(r)
      BY <3>3 DEF TypeInv, RunsOK
    <3> QED BY <2>2, <3>4, TaskWritten DEF TypeInv
  <2>10. ASSUME NEW p \in People, RouteDeed(p, d) \/ \E q \in Runs : ResolveDeed(p, q, d)
         PROVE  Working(job[r].pc, doc'[d])
    <3>1. Opined(doc[d])
      BY <2>10 DEF RouteDeed, RouteByRequest, RouteInv, HandsOK, InHand, Decided, Opined,
        ResolveDeed, Resolve
    <3>2. job[r].pc = "failing"
      BY <1>5, <2>4, <3>1 DEF Working, Judging
    <3>3. NoneOpen(doc'[d])
      BY <2>0, <2>4, <2>10, <3>2, OthersJudge DEF Working
    <3> QED BY <3>2, <3>3 DEF Working
  <2> QED BY <1>0, <1>5, <2>0, <2>5, <2>6, <2>8, <2>9, <2>10, DocumentDeeds
<1> QED BY <1>1, <1>2, <1>3, <1>4, <1>5, JobTurns DEF JobTurn

LEMMA VerdictStep == TypeInv /\ RouteInv /\ OwnInv /\ VerdictInv /\ [Next]_vars => VerdictInv'
<1> SUFFICES ASSUME TypeInv, RouteInv, OwnInv, VerdictInv, [Next]_vars PROVE VerdictInv'
  OBVIOUS
<1>1. Issued'
  BY IssuedStep DEF VerdictInv
<1> QED BY <1>1, RowsStep, WorkingStep DEF VerdictInv

(* A document is judged once: it has at most one successful attempt, its last *)
(* one; a person's decision comes from a concluded review, an automatic one  *)
(* from the successful attempt and without review; and no attempt stays open *)
(* on a document that nobody is to process again.                            *)
THEOREM JudgedOnce == Spec => []OneVerdict
BY TypeInit, TypeStep, RouteInit, RouteStep, OwnInit, OwnStep, VerdictInit, VerdictStep,
   VerdictInvImpliesOne, PTL DEF Spec

(* A document that the classifier has answered for a worker that still has    *)
(* its run has no decision yet: the constraint "one decision per document"    *)
(* never stops the transaction that would create it (sc04/services.py:922).  *)
ClassifiedUndecided ==
  \A r \in Runs : job[r].pc = "classify" /\ Fence(r) => doc[job[r].doc].decision = "none"

THEOREM ClassifiedIsUndecided == Spec => []ClassifiedUndecided
<1>1. VerdictInv => ClassifiedUndecided
  BY DEF VerdictInv, WorkingOwn, Working, Own, Opined, Fence, ClassifiedUndecided
<1> QED BY TypeInit, TypeStep, RouteInit, RouteStep, OwnInit, OwnStep, VerdictInit, VerdictStep,
     <1>1, PTL DEF Spec
=============================================================================
