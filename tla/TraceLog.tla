------------------------------ MODULE TraceLog ------------------------------
(***************************************************************************)
(* The writer of the run trace (traceability.py): transactions of several   *)
(* processes record events of the same runs.  The row of the run is locked  *)
(* from the first event of a transaction to its end; the next sequence is   *)
(* read under the lock; a repeated key returns the event that is there when *)
(* its content is the same and aborts the transaction when it is not.       *)
(***************************************************************************)
EXTENDS Naturals, Sequences, FiniteSets

CONSTANTS
  Runs,
  Writers,      \* processes with a transaction: requests, workers, pulses
  Keys,
  Contents,     \* the fields that a repetition must agree on
  Contexts,     \* request_id, pulse_id, duration_ms: a repetition may differ in them
  Unsafe,       \* contents that carry secrets, personal data or too much
  MaxEvents     \* bound on the events of a run

ASSUME ConstantsAssumption ==
  /\ Unsafe \subseteq Contents
  /\ MaxEvents \in Nat

VARIABLES
  events,   \* [Runs -> Seq(Event)]: committed rows
  lock,     \* [Runs -> Writers \cup {NoWriter}]: who holds the row of the run
  tx        \* [Writers -> Transaction]: the open transaction of a process

vars == <<events, lock, tx>>

NoWriter == "nobody"
NoRun == "none"
NoTransaction == [run |-> NoRun, pending |-> <<>>]

ASSUME NamesAssumption == NoWriter \notin Writers /\ NoRun \notin Runs

Event == [sequence : Nat \ {0}, key : Keys, content : Contents, context : Contexts]

TypeOK ==
  /\ events \in [Runs -> Seq(Event)]
  /\ lock \in [Runs -> Writers \cup {NoWriter}]
  /\ tx \in [Writers -> [run : Runs \cup {NoRun}, pending : Seq(Event)]]

Init ==
  /\ events = [r \in Runs |-> <<>>]
  /\ lock = [r \in Runs |-> NoWriter]
  /\ tx = [w \in Writers |-> NoTransaction]

-----------------------------------------------------------------------------

(* What the transaction of w sees of its run.                                *)
Seen(w) == events[tx[w].run] \o tx[w].pending

(* The aggregate Max("sequence").                                            *)
Latest(rows) ==
  IF rows = <<>> THEN 0
  ELSE CHOOSE s \in {rows[i].sequence : i \in DOMAIN rows} :
         \A i \in DOMAIN rows : rows[i].sequence <= s

(* Mutant: the first event has sequence 0.                                   *)
NextFromZero(rows) == IF rows = <<>> THEN 0 ELSE Latest(rows) + 1
NextSequence(rows) == Latest(rows) + 1

(* Mutant: only the latest event is compared.                                *)
KnownLatest(rows, key) == rows # <<>> /\ rows[Len(rows)].key = key
Known(rows, key) == \E i \in DOMAIN rows : rows[i].key = key
Agrees(rows, key, content) ==
  \A i \in DOMAIN rows : rows[i].key = key => rows[i].content = content

(* select_for_update of the run: waits for the transaction that holds it.    *)
(* Mutant: a plain read.                                                     *)
LockNothing(w, r) ==
  /\ tx[w] = NoTransaction
  /\ tx' = [tx EXCEPT ![w].run = r]
  /\ UNCHANGED <<events, lock>>
Lock(w, r) ==
  /\ tx[w] = NoTransaction
  /\ lock[r] = NoWriter
  /\ lock' = [lock EXCEPT ![r] = w]
  /\ tx' = [tx EXCEPT ![w].run = r]
  /\ UNCHANGED events

Holds(w) == tx[w].run # NoRun

Release(w) ==
  /\ lock' = [lock EXCEPT ![tx[w].run] = NoWriter]
  /\ tx' = [tx EXCEPT ![w] = NoTransaction]

(* record_run_event, a key the run does not have.                            *)
Record(w, key, content, context) ==
  /\ Holds(w) /\ content \notin Unsafe
  /\ ~Known(Seen(w), key)
  /\ Len(Seen(w)) < MaxEvents
  /\ tx' = [tx EXCEPT ![w].pending =
              Append(@, [sequence |-> NextSequence(Seen(w)), key |-> key,
                         content |-> content, context |-> context])]
  /\ UNCHANGED <<events, lock>>

(* TraceabilityConflict and UnsafeTraceabilityData abort the transaction.    *)
(* Mutant: a conflicting repetition updates the event.                       *)
RefuseByUpdate(w, key, content) ==
  /\ Holds(w) /\ content \notin Unsafe
  /\ events' = [events EXCEPT ![tx[w].run] =
                  [i \in DOMAIN @ |-> IF @[i].key = key THEN [@[i] EXCEPT !.content = content]
                                      ELSE @[i]]]
  /\ UNCHANGED <<lock, tx>>
Refuse(w, key, content) ==
  /\ Holds(w)
  /\ content \in Unsafe \/ (Known(Seen(w), key) /\ ~Agrees(Seen(w), key, content))
  /\ Release(w)
  /\ UNCHANGED events

(* An exception elsewhere in the transaction, or the death of its process.   *)
Rollback(w) ==
  /\ Holds(w)
  /\ Release(w)
  /\ UNCHANGED events

(* A repeated event with the same content adds nothing to the transaction.   *)
Commit(w) ==
  /\ Holds(w)
  /\ events' = [events EXCEPT ![tx[w].run] = @ \o tx[w].pending]
  /\ Release(w)

Next ==
  \E w \in Writers :
    \/ \E r \in Runs : Lock(w, r)
    \/ \E key \in Keys, content \in Contents :
         Refuse(w, key, content) \/ \E context \in Contexts : Record(w, key, content, context)
    \/ Rollback(w)
    \/ Commit(w)

Spec == Init /\ [][Next]_vars

-----------------------------------------------------------------------------
(* Properties.                                                             *)

(* The sequences of a run are 1, 2, 3 ... without a gap and without a        *)
(* repetition, whatever transactions were rolled back and however the        *)
(* writers interleaved (docs/traceability.md: "Confirme se as sequencias sao *)
(* continuas").                                                              *)
Continuous ==
  \A r \in Runs : \A i \in DOMAIN events[r] : events[r][i].sequence = i

(* One key identifies one event of a run, also among the events that a       *)
(* transaction has written and not committed.                                *)
OneEventPerKey ==
  /\ \A r \in Runs : \A i, j \in DOMAIN events[r] :
       events[r][i].key = events[r][j].key => i = j
  /\ \A w \in Writers : Holds(w) =>
       \A i, j \in DOMAIN Seen(w) : Seen(w)[i].key = Seen(w)[j].key => i = j

(* The writer implements the contract that the readers of a trace rely on:   *)
(* whole transactions are appended, first evidence is never rewritten.       *)
Entries(rows) ==
  [i \in DOMAIN rows |-> [key |-> rows[i].key, content |-> rows[i].content]]
Contract == INSTANCE RunTrace WITH trace <- [r \in Runs |-> Entries(events[r])]
ImplementsRunTrace == Contract!CheckedSpec
=============================================================================
