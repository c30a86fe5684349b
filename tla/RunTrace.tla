------------------------------ MODULE RunTrace ------------------------------
(***************************************************************************)
(* What the trace of the runs promises to whoever reads it: the evidence of *)
(* a run only ever grows at its end, by whole transactions, and no key is   *)
(* ever used for a second event.  Contract: the docstrings of               *)
(* record_run_event and AutomationRunEvent.  TraceLog shows that the writer *)
(* keeps it under concurrency, SC06Briefing that a process keeps it.        *)
(***************************************************************************)
EXTENDS Naturals, Sequences

CONSTANTS
  Runs,
  Keys,      \* deduplication keys
  Contents   \* what an event says

VARIABLE trace   \* [Runs -> Seq(Entry)]

Entry == [key : Keys, content : Contents]

KeysOf(events) == {events[i].key : i \in DOMAIN events}
Distinct(events) ==
  \A i, j \in DOMAIN events : events[i].key = events[j].key => i = j

Init == trace = [r \in Runs |-> <<>>]

(* One transaction: one event or more, with keys the run has not seen.       *)
Extend(r, events) ==
  /\ events # <<>>
  /\ Distinct(events)
  /\ KeysOf(events) \cap KeysOf(trace[r]) = {}
  /\ trace' = [trace EXCEPT ![r] = @ \o events]

Next == \E r \in Runs, events \in Seq(Entry) : Extend(r, events)

Spec == Init /\ [][Next]_trace

-----------------------------------------------------------------------------
(* The contract in the form TLC evaluates: the events of a transaction are   *)
(* what the trace has gained.                                                *)
Gained(r) == SubSeq(trace'[r], Len(trace[r]) + 1, Len(trace'[r]))
Extension == \E r \in Runs : Extend(r, Gained(r))
CheckedSpec == Init /\ [][Extension]_trace
=============================================================================
