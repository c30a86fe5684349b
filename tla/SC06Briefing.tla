---------------------------- MODULE SC06Briefing ----------------------------
(***************************************************************************)
(* SC-06: the life of a briefing.  A person answers the form of a published *)
(* schema, the service keeps what sanitize_answers keeps.  Requests of      *)
(* several people and the cleanup command read a briefing without a lock    *)
(* and act on it later under one.  What a schema asks is in SC06Rules.      *)
(* Code: sc06/services.py, the SC-06 views, cleanup_empty_briefings.py.     *)
(***************************************************************************)
EXTENDS SC06Rules

CONSTANTS
  Briefings,
  People,
  Candidates,        \* schemas that somebody may try to publish
  MaxVersions        \* bound on the published versions

ASSUME CandidatesAssumption == \A schema \in Candidates : IsTemplate(schema)
ASSUME BoundAssumption == MaxVersions \in Nat

Published == {schema \in Candidates : ValidTemplateSchema(schema)}
Submissions == [schema \in Published |-> FilledForms(schema)]
Payloads == {sent.payload : sent \in UNION {Submissions[schema] : schema \in Published}}

VARIABLES
  versions,   \* Seq(Schema): the published versions of the active template
  brief,      \* [Briefings -> Briefing]
  run,        \* [Briefings -> Run]: the run of each briefing
  log,        \* [Briefings -> Seq(Entry)]: the trace of each run
  req,        \* [People -> Request]
  cleaning    \* SUBSET Briefings: what the cleanup command found and has to do

vars == <<versions, brief, run, log, req, cleaning>>

-----------------------------------------------------------------------------
(* The tables.                                                             *)

NoAnswers == [id \in {} |-> "blank"]
NoBriefing == [status |-> "absent", version |-> 0, answers |-> NoAnswers]
NoRun == [status |-> "absent", count |-> 0]
NoRequest == [pc |-> "none", brief |-> "none", form |-> 0, action |-> "none",
              payload |-> NoAnswers, rewritten |-> {}]

Created == [key |-> "run.created", content |-> "RUNNING"]
Started == [key |-> "run.started", content |-> "RUNNING"]
Succeeded == [key |-> "run.terminal:succeeded", content |-> "SUCCEEDED"]
Cancelled == [key |-> "run.terminal:cancelled", content |-> "CANCELLED"]
Discarded == [key |-> "run.terminal:discarded", content |-> "CANCELLED"]
Events == {Created, Started, Succeeded, Cancelled, Discarded}

TypeOK ==
  /\ Len(versions) <= MaxVersions
  /\ \A b \in Briefings :
       /\ brief[b].status \in {"absent", "DRAFT", "COMPLETED", "CANCELLED"}
       /\ brief[b].version \in 0..Len(versions)
       /\ run[b].status \in {"absent", "RUNNING", "SUCCEEDED", "CANCELLED"}
       /\ run[b].count \in Nat
       /\ \A i \in DOMAIN log[b] : log[b][i] \in Events
  /\ \A p \in People :
       /\ req[p].pc \in {"none", "create", "save", "complete", "cancel", "discard"}
       /\ req[p].brief \in Briefings \cup {"none"} /\ req[p].form \in 0..Len(versions)
  /\ cleaning \subseteq Briefings

Init ==
  /\ versions = <<>>
  /\ brief = [b \in Briefings |-> NoBriefing]
  /\ run = [b \in Briefings |-> NoRun]
  /\ log = [b \in Briefings |-> <<>>]
  /\ req = [p \in People |-> NoRequest]
  /\ cleaning = {}

Schema(b) == versions[brief[b].version]
IsEmpty(b) == \A id \in DOMAIN brief[b].answers : brief[b].answers[id] = "blank"

(* BriefingTemplateVersion.save.                                             *)
Publish(schema) ==
  /\ Len(versions) < MaxVersions
  /\ ValidTemplateSchema(schema)
  /\ versions' = Append(versions, schema)
  /\ UNCHANGED <<brief, run, log, req, cleaning>>

-----------------------------------------------------------------------------
(* The views: what happens before the transaction.                         *)

(* sc06_briefing_new: the form of the latest version accepts the data.       *)
SubmitNew(p, b, action, sent) ==
  /\ req[p].pc = "none"
  /\ brief[b].status = "absent" /\ \A q \in People : req[q].brief # b
  /\ req' = [req EXCEPT ![p] = [pc |-> "create", brief |-> b, form |-> Len(versions),
                                action |-> action, payload |-> sent.payload,
                                rewritten |-> sent.rewritten]]
  /\ UNCHANGED <<versions, brief, run, log, cleaning>>

(* sc06_briefing_detail, save and complete.                                  *)
SubmitAnswers(p, b, action, sent) ==
  /\ req[p].pc = "none"
  /\ brief[b].status = "DRAFT"
  /\ req' = [req EXCEPT ![p] = [pc |-> action, brief |-> b, form |-> brief[b].version,
                                action |-> action, payload |-> sent.payload,
                                rewritten |-> sent.rewritten]]
  /\ UNCHANGED <<versions, brief, run, log, cleaning>>

(* sc06_briefing_detail, cancel: the way is chosen by what was read.         *)
SubmitCancel(p, b) ==
  /\ req[p].pc = "none"
  /\ brief[b].status = "DRAFT"
  /\ req' = [req EXCEPT ![p] = [NoRequest EXCEPT !.pc = IF IsEmpty(b) THEN "discard" ELSE "cancel",
                                                 !.brief = b]]
  /\ UNCHANGED <<versions, brief, run, log, cleaning>>

-----------------------------------------------------------------------------
(* The transactions.                                                       *)

Respond(p) == req' = [req EXCEPT ![p] = NoRequest]
Fails(kept) == kept.errors # {}

(* The run of a completed briefing.                                          *)
(* Mutant: the status of the briefing.                                       *)
CompletedRunOfBriefing(schema, answers) ==
  [status |-> "COMPLETED", count |-> Cardinality(FormatAnswers(schema, answers))]
CompletedRun(schema, answers) ==
  [status |-> "SUCCEEDED", count |-> Cardinality(FormatAnswers(schema, answers))]

(* create_briefing followed by save or complete in one transaction, with the *)
(* version that is the latest one then.                                      *)
Create(p) ==
  LET b == req[p].brief
      v == Len(versions)
      complete == req[p].action = "complete"
      kept == SanitizeAnswers(versions[v], req[p].payload, complete)
  IN /\ req[p].pc = "create" /\ ~Fails(kept)
     /\ brief' = [brief EXCEPT ![b] = [status |-> IF complete THEN "COMPLETED" ELSE "DRAFT",
                                       version |-> v, answers |-> kept.answers]]
     /\ run' = [run EXCEPT ![b] =
                  IF complete THEN CompletedRun(versions[v], kept.answers)
                  ELSE [status |-> "RUNNING", count |-> Cardinality(DOMAIN kept.answers)]]
     /\ log' = [log EXCEPT ![b] = <<Created, Started>> \o
                                    IF complete THEN <<Succeeded>> ELSE <<>>]
     /\ Respond(p)
     /\ UNCHANGED <<versions, cleaning>>

(* save_briefing_draft.                                                      *)
(* Mutant: the run is not told.                                              *)
SaveSilently(p) ==
  LET b == req[p].brief
      kept == SanitizeAnswers(Schema(b), req[p].payload, FALSE)
  IN /\ req[p].pc = "save" /\ brief[b].status = "DRAFT" /\ ~Fails(kept)
     /\ brief' = [brief EXCEPT ![b].answers = kept.answers]
     /\ Respond(p)
     /\ UNCHANGED <<versions, run, log, cleaning>>
Save(p) ==
  LET b == req[p].brief
      kept == SanitizeAnswers(Schema(b), req[p].payload, FALSE)
  IN /\ req[p].pc = "save" /\ brief[b].status = "DRAFT" /\ ~Fails(kept)
     /\ brief' = [brief EXCEPT ![b].answers = kept.answers]
     /\ run' = [run EXCEPT ![b].count = Cardinality(DOMAIN kept.answers)]
     /\ Respond(p)
     /\ UNCHANGED <<versions, log, cleaning>>

(* complete_briefing.                                                        *)
Complete(p) ==
  LET b == req[p].brief
      kept == SanitizeAnswers(Schema(b), req[p].payload, TRUE)
  IN /\ req[p].pc = "complete" /\ brief[b].status = "DRAFT" /\ ~Fails(kept)
     /\ brief' = [brief EXCEPT ![b].answers = kept.answers, ![b].status = "COMPLETED"]
     /\ run' = [run EXCEPT ![b] = CompletedRun(Schema(b), kept.answers)]
     /\ log' = [log EXCEPT ![b] = Append(@, Succeeded)]
     /\ Respond(p)
     /\ UNCHANGED <<versions, cleaning>>

(* Mutant: the evidence of the draft goes with it.                           *)
CloseWithoutEvidence(b, event) ==
  /\ brief' = [brief EXCEPT ![b].status = "CANCELLED"]
  /\ run' = [run EXCEPT ![b].status = "CANCELLED"]
  /\ log' = [log EXCEPT ![b] = <<event>>]
Close(b, event) ==
  /\ brief' = [brief EXCEPT ![b].status = "CANCELLED"]
  /\ run' = [run EXCEPT ![b].status = "CANCELLED"]
  /\ log' = [log EXCEPT ![b] = Append(@, event)]

(* cancel_briefing.                                                          *)
(* Mutant: the status is not read again under the lock.                      *)
CancelUnchecked(p) ==
  /\ req[p].pc = "cancel"
  /\ Close(req[p].brief, Cancelled)
  /\ Respond(p)
  /\ UNCHANGED <<versions, cleaning>>
Cancel(p) ==
  /\ req[p].pc = "cancel" /\ brief[req[p].brief].status = "DRAFT"
  /\ Close(req[p].brief, Cancelled)
  /\ Respond(p)
  /\ UNCHANGED <<versions, cleaning>>

(* discard_empty_briefing under the lock: TRUE or FALSE, or an exception.    *)
(* Mutant: the answers are not read again under the lock.                    *)
DiscardFound(b) == brief[b].status = "DRAFT" /\ Close(b, Discarded)
DiscardEmpty(b) ==
  /\ brief[b].status = "DRAFT"
  /\ IF IsEmpty(b) THEN Close(b, Discarded) ELSE UNCHANGED <<brief, run, log>>

Discard(p) ==
  /\ req[p].pc = "discard"
  /\ DiscardEmpty(req[p].brief)
  /\ Respond(p)
  /\ UNCHANGED <<versions, cleaning>>

(* ValidationError: the briefing is not a draft any more, or an answer is    *)
(* missing or does not fit; nothing is written.                              *)
Refuse(p) ==
  LET r == req[p] IN
  /\ \/ r.pc = "create" /\ Fails(SanitizeAnswers(versions[Len(versions)], r.payload, r.action = "complete"))
     \/ r.pc \in {"save", "complete", "cancel", "discard"} /\ brief[r.brief].status # "DRAFT"
     \/ /\ r.pc \in {"save", "complete"} /\ brief[r.brief].status = "DRAFT"
        /\ Fails(SanitizeAnswers(Schema(r.brief), r.payload, r.pc = "complete"))
  /\ Respond(p)
  /\ UNCHANGED <<versions, brief, run, log, cleaning>>

(* cleanup_empty_briefings: the drafts that are empty when the command reads *)
(* them are discarded one by one; the first that is no draft any more aborts *)
(* the command.                                                              *)
StartCleanup ==
  /\ cleaning = {}
  /\ cleaning' = {b \in Briefings : brief[b].status = "DRAFT" /\ IsEmpty(b)}
  /\ UNCHANGED <<versions, brief, run, log, req>>

CleanUp(b) ==
  /\ b \in cleaning
  /\ DiscardEmpty(b)
  /\ cleaning' = cleaning \ {b}
  /\ UNCHANGED <<versions, req>>

AbortCleanup(b) ==
  /\ b \in cleaning /\ brief[b].status # "DRAFT"
  /\ cleaning' = {}
  /\ UNCHANGED <<versions, brief, run, log, req>>

Next ==
  \/ \E schema \in Candidates : Publish(schema)
  \/ \E p \in People, b \in Briefings :
       \/ /\ versions # <<>>
          /\ \E action \in {"save", "complete"}, sent \in Submissions[Last(versions)] :
               SubmitNew(p, b, action, sent)
       \/ /\ brief[b].status = "DRAFT"
          /\ \E action \in {"save", "complete"}, sent \in Submissions[Schema(b)] :
               SubmitAnswers(p, b, action, sent)
       \/ SubmitCancel(p, b)
  \/ \E p \in People :
       Create(p) \/ Save(p) \/ Complete(p) \/ Cancel(p) \/ Discard(p) \/ Refuse(p)
  \/ StartCleanup
  \/ \E b \in Briefings : CleanUp(b) \/ AbortCleanup(b)

Spec == Init /\ [][Next]_vars

-----------------------------------------------------------------------------
(* Properties.                                                             *)

(* What is stored does not depend on the order in which it was found: read   *)
(* as a whole, as the consolidated document reads it, every stored answer    *)
(* belongs to a visible question and fits it, a completed briefing lacks no  *)
(* required answer of a visible question, and saving the stored answers      *)
(* again would change nothing.  "Besides preventing cycles,   *)
(* this makes visibility deterministic" (validate_template_schema).          *)
VisibleIn(schema, id, answers) ==
  \E n \in Asked(schema) :
    /\ schema[n].id = id
    /\ Evaluate(schema[schema[n].section].when, answers) /\ Evaluate(schema[n].when, answers)

StoredIsVisible ==
  \A b \in Briefings : brief[b].status # "absent" =>
    LET schema == Schema(b)
        answers == brief[b].answers
        complete == brief[b].status = "COMPLETED"
    IN /\ \A id \in DOMAIN answers :
            VisibleIn(schema, id, answers) /\ answers[id] \in Question(schema, id).allowed
       /\ complete => \A id \in Ids(schema) :
            Question(schema, id).required /\ VisibleIn(schema, id, answers) => id \in DOMAIN answers
       /\ SanitizeAnswers(schema, answers, complete) = [answers |-> answers, errors |-> {}]

(* The form and the service agree on the answers of a person: what the form  *)
(* let through is stored without an error and without losing an answer, as   *)
(* long as the service uses the version of the form, although the form       *)
(* decides on what was typed and the service on what the fields made of it.  *)
(* They may disagree in two ways, which leave a submission out: a compared   *)
(* question whose text the form has changed (it reads 2024-1-5, the          *)
(* conditions do not), and one left empty that is compared with the empty    *)
(* text (the form takes it for the empty text, the service for no answer).   *)
ComparedAlike(schema, r) ==
  \A n \in DOMAIN schema : \A leaf \in Leaves(schema[n].when) :
    leaf.field \notin r.rewritten /\ r.payload[leaf.field] \notin {"blank"} \cap leaf.values

FormAgreesWithServer ==
  \A p \in People :
    LET schema == versions[req[p].form]
        sent == req[p].payload
    IN req[p].form # 0 /\ ComparedAlike(schema, req[p]) =>
         SanitizeAnswers(schema, sent, FALSE) = [answers |-> Restrict(sent, Given(sent)), errors |-> {}]

(* "Values without a canonical representation are refused when the schema is *)
(* published, to keep the same semantics in Python and in the browser"       *)
(* (docs/architecture.md:298): under every published version, the answers    *)
(* that a person has given to the questions the browser shows are those that *)
(* are left when browser, form and service have each dropped what they take  *)
(* for hidden.                                                               *)
SeenIsKept ==
  \A i \in DOMAIN versions : \A typed \in Typed(versions[i]) :
    LET posted == Posted(versions[i], typed)
    IN SanitizeAnswers(versions[i], Payload(versions[i], posted), FALSE).answers
         = Restrict(posted, Given(posted))

(* The run, its trace and the briefing tell one story: same state, the count *)
(* of the stored answers, and a trace whose last transition is the state     *)
(* shown (docs/traceability.md), whoever raced with whom.                    *)
StatusOfRun == [absent |-> "absent", DRAFT |-> "RUNNING", COMPLETED |-> "SUCCEEDED",
                CANCELLED |-> "CANCELLED"]
RunMirrorsBriefing ==
  \A b \in Briefings :
    /\ run[b].status = StatusOfRun[brief[b].status]
    /\ run[b].count = Cardinality(DOMAIN brief[b].answers)
    /\ (log[b] = <<>>) = (brief[b].status = "absent")
    /\ log[b] # <<>> => log[b][Len(log[b])].content = run[b].status

(* A draft that somebody has filled in the meantime is never discarded as an *)
(* empty one, by a person or by the cleanup.                                 *)
OnlyEmptyDiscarded ==
  \A b \in Briefings : Contains(log[b], Discarded) => IsEmpty(b)

(* A completed or cancelled briefing, its run and its trace stay as they are:*)
(* a request or a cleanup that began before comes too late.                  *)
TerminalIsFinal ==
  [][\A b \in Briefings : brief[b].status \in {"COMPLETED", "CANCELLED"} =>
       UNCHANGED <<brief[b], run[b], log[b]>>]_vars

(* The trace of the process keeps the contract of run traces.                *)
Contract == INSTANCE RunTrace WITH
  Runs <- Briefings, Keys <- {e.key : e \in Events}, Contents <- {e.content : e \in Events},
  trace <- log
ImplementsRunTrace == Contract!CheckedSpec
=============================================================================
