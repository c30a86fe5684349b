------------------------- MODULE SC20Communications -------------------------
(***************************************************************************)
(* SC-20: warning about certificates that expire.  A communication is       *)
(* identified by certificate, validity, channel and policy; every delivery  *)
(* of it is an attempt, committed PENDING before the provider is called and *)
(* settled in a second transaction after it.  The call itself lies in no    *)
(* transaction.  Code: sc20/services.py, sc20/gateways.py, the SC-20 part of*)
(* reconciliation.py and the actions of _sc20_detail in views.py.           *)
(*                                                                          *)
(* Runs may be executed side by side.  That each is executed once is shown  *)
(* in RunLifecycle; here a run that is isolated may still have a worker,    *)
(* which is what a duplicated message can lead to.  There is one policy.    *)
(***************************************************************************)
EXTENDS Naturals, Sequences, FiniteSets

CONSTANTS
  Certificates,
  Channels,    \* preferred_channel values in use
  Runs,        \* identities of SC-20 runs
  MaxChanges,  \* bound: edits of certificates
  MaxFaults,   \* bound: faults of all kinds
  Faults       \* kinds of fault that may happen

ASSUME ConstantsAssumption ==
  /\ {MaxChanges, MaxFaults} \subseteq Nat
  /\ Channels # {}
  /\ Faults \subseteq {"crash",      \* the worker dies
                       "exception",  \* an exception outside the gateway
                       "timeout",    \* the provider accepts, its answer is lost
                       "isolate"}    \* a live run is isolated by a redelivered copy

VARIABLES
  certificate,  \* [Certificates -> [validity, channel, active]]
  comm,         \* [Keys -> [status, attempts]]: communications and their attempts
  run,          \* [Runs -> Run]
  provider,     \* history: [Keys -> [accepted, unheard]]
  changes, faults

vars == <<certificate, comm, run, provider, changes, faults>>

Validities == 1..(MaxChanges + 1)
Keys == Certificates \X Validities \X Channels
KeyOf(c) == <<c, certificate[c].validity, certificate[c].channel>>
NoKey == <<>>

Terminal == {"SUCCEEDED", "SUCCEEDED_WITH_WARNINGS", "PARTIALLY_FAILED", "FAILED"}
Outcomes == {"PENDING", "SENT", "FAILED"}

(* retry is the communication to retry, NoKey for a scan; todo are the       *)
(* certificates the scan has still to visit; key is the delivery last        *)
(* prepared, or the retry dispensed with; heard is the gateway's answer;     *)
(* failures says whether result.failed is positive.                          *)
Run == [status : {"absent", "QUEUED", "RUNNING"} \cup Terminal,
        retry : Keys \cup {NoKey}, todo : SUBSET Certificates,
        pc : {"none", "next", "send", "settle", "dead"}, key : Keys \cup {NoKey},
        heard : {"none", "delivered", "refused"}, failures : BOOLEAN]
NoRun == [status |-> "absent", retry |-> NoKey, todo |-> {}, pc |-> "none",
          key |-> NoKey, heard |-> "none", failures |-> FALSE]

TypeOK ==
  /\ certificate \in [Certificates -> [validity : Validities, channel : Channels, active : BOOLEAN]]
  /\ \A k \in Keys :
       /\ comm[k].status \in {"none"} \cup Outcomes
       /\ \A i \in DOMAIN comm[k].attempts : comm[k].attempts[i] \in [run : Runs, status : Outcomes]
  /\ run \in [Runs -> Run]
  /\ provider \in [Keys -> [accepted : Nat, unheard : BOOLEAN]]
  /\ changes \in 0..MaxChanges
  /\ faults \in 0..MaxFaults

Init ==
  /\ certificate \in [Certificates -> [validity : {1}, channel : Channels, active : {TRUE}]]
  /\ comm = [k \in Keys |-> [status |-> "none", attempts |-> <<>>]]
  /\ run = [r \in Runs |-> NoRun]
  /\ provider = [k \in Keys |-> [accepted |-> 0, unheard |-> FALSE]]
  /\ changes = 0
  /\ faults = 0

Fault(kind) ==
  /\ kind \in Faults
  /\ faults < MaxFaults
  /\ faults' = faults + 1

-----------------------------------------------------------------------------
(* People.                                                                 *)

(* create_sc20_run, or the schedule: a scan.                                 *)
RequestScan(r) ==
  /\ run[r].status = "absent"
  /\ run' = [run EXCEPT ![r].status = "QUEUED"]
  /\ UNCHANGED <<certificate, comm, provider, changes, faults>>

(* _sc20_detail, action "retry": offered for an attempt that FAILED, of a    *)
(* communication that is FAILED at that moment.                              *)
RequestRetry(r, k) ==
  /\ run[r].status = "absent"
  /\ comm[k].status = "FAILED"
  /\ \E i \in DOMAIN comm[k].attempts : comm[k].attempts[i].status = "FAILED"
  /\ run' = [run EXCEPT ![r].status = "QUEUED", ![r].retry = k]
  /\ UNCHANGED <<certificate, comm, provider, changes, faults>>

(* The certificate is renewed or deactivated, or its preferred channel       *)
(* switched.                                                                 *)
Renew(c) ==
  /\ changes < MaxChanges
  /\ certificate' = [certificate EXCEPT ![c].validity = @ + 1]
  /\ changes' = changes + 1
  /\ UNCHANGED <<comm, run, provider, faults>>

Deactivate(c) ==
  /\ changes < MaxChanges
  /\ certificate[c].active
  /\ certificate' = [certificate EXCEPT ![c].active = FALSE]
  /\ changes' = changes + 1
  /\ UNCHANGED <<comm, run, provider, faults>>

SwitchChannel(c) ==
  /\ changes < MaxChanges
  /\ \E ch \in Channels \ {certificate[c].channel} :
       certificate' = [certificate EXCEPT ![c].channel = ch]
  /\ changes' = changes + 1
  /\ UNCHANGED <<comm, run, provider, faults>>

-----------------------------------------------------------------------------
(* The worker.                                                             *)

(* _start_run and the query of _execute_scan: expiring_between selects       *)
(* active certificates, those whose validity lies in the window.             *)
Start(r) ==
  /\ run[r].status = "QUEUED"
  /\ \E selected \in SUBSET {c \in Certificates : certificate[c].active} :
       /\ run[r].retry # NoKey => selected = {}
       /\ run' = [run EXCEPT ![r].status = "RUNNING", ![r].pc = "next", ![r].todo = selected]
  /\ UNCHANGED <<certificate, comm, provider, changes, faults>>

(* _require_locked_delivery                                                  *)
Fenced(r) == run[r].status = "RUNNING"

(* SupersededDelivery leaves everything as it is.                            *)
Superseded(r) ==
  /\ run[r].pc \in {"next", "settle"}
  /\ ~Fenced(r)
  /\ run' = [run EXCEPT ![r].pc = "none"]
  /\ UNCHANGED <<certificate, comm, provider, changes, faults>>

(* _prepare_delivery: the attempt is committed before anything is sent.      *)
PrepareDelivery(r, k) ==
  comm' = [comm EXCEPT ![k] = [status |-> "PENDING",
             attempts |-> Append(@.attempts, [run |-> r, status |-> "PENDING"])]]

(* get_or_create on the communication's identity.                            *)
IsNew(k) == comm[k].status = "none"

(* _prepare_new_delivery for the next certificate of the scan.               *)
PrepareNew(r, c) ==
  /\ run[r].pc = "next"
  /\ Fenced(r)
  /\ c \in run[r].todo
  /\ IF IsNew(KeyOf(c))
     THEN /\ PrepareDelivery(r, KeyOf(c))
          /\ run' = [run EXCEPT ![r].todo = @ \ {c}, ![r].pc = "send", ![r].key = KeyOf(c)]
     ELSE /\ run' = [run EXCEPT ![r].todo = @ \ {c}]
          /\ UNCHANGED comm
  /\ UNCHANGED <<certificate, provider, changes, faults>>

(* Mutant: a pending communication may be retried as well.                   *)
RetriableUnlessSent(k) ==
  comm[k].status # "SENT" /\ certificate[k[1]].validity = k[2] /\ certificate[k[1]].active

(* The certificate is still the one that was warned about, and the last      *)
(* attempt's failure is known.                                               *)
Retriable(k) ==
  comm[k].status = "FAILED" /\ certificate[k[1]].validity = k[2] /\ certificate[k[1]].active

(* _prepare_retry_delivery                                                   *)
PrepareRetry(r) ==
  /\ run[r].pc = "next"
  /\ Fenced(r)
  /\ run[r].retry # NoKey
  /\ run[r].key = NoKey
  /\ Retriable(run[r].retry)
  /\ PrepareDelivery(r, run[r].retry)
  /\ run' = [run EXCEPT ![r].pc = "send", ![r].key = run[r].retry]
  /\ UNCHANGED <<certificate, provider, changes, faults>>

(* _prepare_retry_delivery finds the retry no longer due.                    *)
DispenseRetry(r) ==
  /\ run[r].pc = "next"
  /\ Fenced(r)
  /\ run[r].retry # NoKey
  /\ run[r].key = NoKey
  /\ ~Retriable(run[r].retry)
  /\ run' = [run EXCEPT ![r].key = run[r].retry]
  /\ UNCHANGED <<certificate, comm, provider, changes, faults>>

(* gateway.send, outside any transaction.                                    *)
Accept(k) == provider' = [provider EXCEPT ![k].accepted = @ + 1]

Send(r) ==
  /\ run[r].pc = "send"
  /\ \/ /\ Accept(run[r].key)
        /\ run' = [run EXCEPT ![r].pc = "settle", ![r].heard = "delivered"]
     \/ /\ UNCHANGED provider
        /\ run' = [run EXCEPT ![r].pc = "settle", ![r].heard = "refused"]
  /\ UNCHANGED <<certificate, comm, changes, faults>>

(* DjangoEmailNotificationGateway turns every exception, a timeout after the *)
(* provider accepted included, into delivered=False.                         *)
SendUnheard(r) ==
  /\ run[r].pc = "send"
  /\ Fault("timeout")
  /\ provider' = [provider EXCEPT ![run[r].key] =
       [accepted |-> @.accepted + 1, unheard |-> TRUE]]
  /\ run' = [run EXCEPT ![r].pc = "settle", ![r].heard = "refused"]
  /\ UNCHANGED <<certificate, comm, changes>>

LastAttempt(k) == Len(comm[k].attempts)

(* _finalize_delivery                                                        *)
Settle(r) ==
  LET k == run[r].key
      outcome == IF run[r].heard = "delivered" THEN "SENT" ELSE "FAILED"
      mine == CHOOSE i \in DOMAIN comm[k].attempts : comm[k].attempts[i].run = r
  IN
  /\ run[r].pc = "settle"
  /\ Fenced(r)
  /\ comm' = [comm EXCEPT ![k].status = outcome, ![k].attempts[mine].status = outcome]
  /\ run' = [run EXCEPT ![r].pc = "next", ![r].heard = "none",
                        ![r].failures = @ \/ outcome = "FAILED"]
  /\ UNCHANGED <<certificate, provider, changes, faults>>

(* _finish_run                                                               *)
Finish(r) ==
  /\ run[r].pc = "next"
  /\ Fenced(r)
  /\ run[r].todo = {}
  /\ run[r].retry # NoKey => run[r].key # NoKey
  /\ run' = [run EXCEPT ![r].pc = "none", ![r].status =
       IF run[r].failures THEN "SUCCEEDED_WITH_WARNINGS" ELSE "SUCCEEDED"]
  /\ UNCHANGED <<certificate, comm, provider, changes, faults>>

(* Attempts of the run that nobody has settled.                              *)
Ambiguous(r) ==
  \E k \in Keys : \E i \in DOMAIN comm[k].attempts :
    comm[k].attempts[i] = [run |-> r, status |-> "PENDING"]

(* Mutant: every technical failure ends in FAILED.                           *)
FailureStatusPlain(r) == "FAILED"

(* The status _record_unhandled_failure writes.                              *)
FailureStatus(r) == IF Ambiguous(r) THEN "PARTIALLY_FAILED" ELSE "FAILED"

(* _record_unhandled_failure: the exception, the soft time limit among them, *)
(* may strike before or after the send.                                      *)
FailUnhandled(r) ==
  /\ run[r].pc \in {"next", "send", "settle"}
  /\ Fenced(r)
  /\ Fault("exception")
  /\ run' = [run EXCEPT ![r].pc = "none", ![r].status = FailureStatus(r)]
  /\ UNCHANGED <<certificate, comm, provider, changes>>

(* The worker dies, before, during or after the call.                        *)
Crash(r) ==
  /\ run[r].pc \in {"next", "send", "settle"}
  /\ Fault("crash")
  /\ run' = [run EXCEPT ![r].pc = "dead"]
  /\ UNCHANGED provider \/ (run[r].pc = "send" /\ Accept(run[r].key))
  /\ UNCHANGED <<certificate, comm, changes>>

(* Mutants: isolation uses a status the table does not have; the unsettled   *)
(* attempts of an isolated run are taken for failed.                         *)
QuarantineStatus(r) ==
  /\ run[r].status = "RUNNING"
  /\ run[r].pc = "dead" /\ UNCHANGED faults
  /\ run' = [run EXCEPT ![r].status = "QUARANTINED"]
  /\ UNCHANGED <<certificate, comm, provider, changes>>

QuarantineFailing(r) ==
  /\ run[r].status = "RUNNING"
  /\ run[r].pc = "dead" /\ UNCHANGED faults
  /\ run' = [run EXCEPT ![r].status = "PARTIALLY_FAILED"]
  /\ comm' = [k \in Keys |-> IF comm[k].status = "PENDING" /\ run[r].key = k
                THEN [status |-> "FAILED", attempts |-> [i \in DOMAIN comm[k].attempts |->
                       [comm[k].attempts[i] EXCEPT !.status = "FAILED"]]]
                ELSE comm[k]]
  /\ UNCHANGED <<certificate, provider, changes>>

(* _quarantine_sc20 and the redelivery branch of _start_run: the run is      *)
(* isolated, its attempts stay as they are.                                  *)
Quarantine(r) ==
  /\ run[r].status = "RUNNING"
  /\ \/ run[r].pc = "dead" /\ UNCHANGED faults
     \/ run[r].pc # "dead" /\ Fault("isolate")
  /\ run' = [run EXCEPT ![r].status = "PARTIALLY_FAILED"]
  /\ UNCHANGED <<certificate, comm, provider, changes>>

Next ==
  \/ \E r \in Runs :
       \/ RequestScan(r) \/ Start(r) \/ Superseded(r) \/ PrepareRetry(r) \/ DispenseRetry(r) \/ Send(r)
       \/ SendUnheard(r) \/ Settle(r) \/ Finish(r) \/ FailUnhandled(r) \/ Crash(r) \/ Quarantine(r)
       \/ \E k \in Keys : RequestRetry(r, k)
       \/ \E c \in Certificates : PrepareNew(r, c)
  \/ \E c \in Certificates : Renew(c) \/ Deactivate(c) \/ SwitchChannel(c)

Spec == Init /\ [][Next]_vars

-----------------------------------------------------------------------------
(* Properties.                                                             *)

(* Nobody is warned twice about the same expiry on the same channel, by any  *)
(* mix of scans, retries, crashes and isolations: unless the gateway         *)
(* reported an accepted message as refused.                                  *)
AcceptedAtMostOnce ==
  \A k \in Keys : provider[k].accepted <= 1 \/ provider[k].unheard

(* A failure offered for a new attempt is one the provider confirmed: what   *)
(* the event of _finalize_delivery says.                                     *)
FailedMeansRefused ==
  \A k \in Keys : comm[k].status = "FAILED" => provider[k].accepted = 0

(* The communication shows the fate of its last attempt, and of all attempts *)
(* only the last can be open or sent: nothing is tried again before the      *)
(* previous attempt is known to have failed.                                 *)
CommunicationMirrorsAttempts ==
  \A k \in Keys :
    /\ comm[k].status = "none" <=> comm[k].attempts = <<>>
    /\ comm[k].attempts # <<>> => comm[k].attempts[LastAttempt(k)].status = comm[k].status
    /\ \A i \in 1..LastAttempt(k) - 1 : comm[k].attempts[i].status = "FAILED"

(* A run that ends with an attempt nobody settled is isolated, never simply  *)
(* failed or successful; and warnings are reported when and only when one of *)
(* its deliveries failed.                                                    *)
AmbiguityIsIsolated ==
  \A r \in Runs :
    /\ run[r].status \in Terminal /\ Ambiguous(r) => run[r].status = "PARTIALLY_FAILED"
    /\ run[r].status \in {"SUCCEEDED", "SUCCEEDED_WITH_WARNINGS"} =>
         (run[r].status = "SUCCEEDED_WITH_WARNINGS" <=>
            \E k \in Keys : \E i \in DOMAIN comm[k].attempts :
              comm[k].attempts[i] = [run |-> r, status |-> "FAILED"])
=============================================================================
