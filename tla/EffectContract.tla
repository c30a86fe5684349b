--------------------------- MODULE EffectContract ---------------------------
(***************************************************************************)
(* What the execution layer promises to the automations that act on the    *)
(* outside world (SC-05 and SC-20): every execution was asked for, and one  *)
(* request is executed at most once, whatever happens to workers, messages  *)
(* and publications in between.  RunLifecycle implements it.                *)
(***************************************************************************)
EXTENDS Naturals

CONSTANT Runs

VARIABLES
  phase,   \* [Runs -> {"none", "asked", "active", "settled"}]
  grants,  \* [Runs -> Nat]: requests, first and repeated
  starts   \* [Runs -> Nat]: executions begun

vars == <<phase, grants, starts>>

Phases == {"none", "asked", "active", "settled"}

Init ==
  /\ phase = [r \in Runs |-> "none"]
  /\ grants = [r \in Runs |-> 0]
  /\ starts = [r \in Runs |-> 0]

(* A run is asked for, the first time or again after it settled.             *)
Ask(r) ==
  /\ phase[r] \in {"none", "settled"}
  /\ phase' = [phase EXCEPT ![r] = "asked"]
  /\ grants' = [grants EXCEPT ![r] = @ + 1]
  /\ UNCHANGED starts

Begin(r) ==
  /\ phase[r] = "asked"
  /\ phase' = [phase EXCEPT ![r] = "active"]
  /\ starts' = [starts EXCEPT ![r] = @ + 1]
  /\ UNCHANGED grants

(* A run settles with or without having been executed.                       *)
Settle(r) ==
  /\ phase[r] \in {"asked", "active"}
  /\ phase' = [phase EXCEPT ![r] = "settled"]
  /\ UNCHANGED <<grants, starts>>

Next == \E r \in Runs : Ask(r) \/ Begin(r) \/ Settle(r)

Spec == Init /\ [][Next]_vars

TypeOK ==
  /\ phase \in [Runs -> Phases]
  /\ grants \in [Runs -> Nat]
  /\ starts \in [Runs -> Nat]

(* No execution without a request of its own.                                *)
EveryStartAsked == \A r \in Runs : starts[r] <= grants[r]

(* While a request waits, one more execution is due than has begun.          *)
Pending == \A r \in Runs : phase[r] = "asked" => starts[r] < grants[r]
=============================================================================
