------------------------ MODULE DeliveryClock_proofs ------------------------
(***************************************************************************)
(* Why the order of the durations that checks.py enforces is enough, for    *)
(* every value of them: hard limit < visibility < orphan cutoff.            *)
(***************************************************************************)
EXTENDS DeliveryClock, TLAPS

USE DEF NoLease, NoPulse, Time

(* A live task holds the only copy of the message, whose lease outlives it.  *)
LiveHoldsLease ==
  \A w \in Workers : task[w].live =>
    /\ ~waiting
    /\ task[w].since <= now
    /\ now <= task[w].since + HardLimit
    /\ lease = task[w].since + Visibility
    /\ task[w].started => task[w].since <= heartbeat

(* Until the broker requeues the message there has been one delivery, and    *)
(* its lease ends a visibility timeout after the start at the latest.        *)
FirstDelivery ==
  ~flagged => /\ waiting => status = "queued"
              /\ lease # NoLease /\ status = "running" => lease <= heartbeat + Visibility

ClocksOrdered == heartbeat <= now /\ pulse <= now

ClockInv == TypeOK /\ SingleLive /\ LiveHoldsLease /\ FirstDelivery /\ ClocksOrdered

-----------------------------------------------------------------------------
LEMMA ClockInit == Init => ClockInv
<1> SUFFICES ASSUME Init PROVE ClockInv
  OBVIOUS
<1>1. NoTask \in Task
  BY DurationsAssumption DEF Task, NoTask
<1>2. task \in [Workers -> Task] /\ \A w \in Workers : ~task[w].live
  BY <1>1 DEF Init, NoTask
<1>3. now \in Time /\ heartbeat \in Time /\ lease \in Int /\ pulse \in Time \cup {NoPulse}
  BY DurationsAssumption DEF Init
<1>4. TypeOK
  BY <1>2, <1>3 DEF Init, TypeOK
<1> QED BY <1>2, <1>4 DEF Init, ClockInv, SingleLive, LiveHoldsLease, FirstDelivery, ClocksOrdered

(* Types.                                                                    *)
LEMMA ClockTypes == ASSUME TypeOK, [Next]_vars PROVE TypeOK'
<1> USE DurationsAssumption
<1>0. NoTask \in Task
  BY DEF Task, NoTask
<1>p. NoPulse \in Time \cup {NoPulse} /\ \A t \in Time : t \in Time \cup {NoPulse}
  OBVIOUS
<1>1. CASE Tick
  <2>1. now' \in Time
    BY <1>1 DEF TypeOK, Tick
  <2> QED BY <1>1, <2>1 DEF TypeOK, Tick
<1>2. CASE Restore
  <2>1. lease' \in Int
    BY <1>2 DEF Restore
  <2> QED BY <1>2, <2>1 DEF TypeOK, Restore
<1>3. CASE BeginPulse \/ EndPulse
  <2>1. pulse' \in Time \cup {NoPulse}
    BY <1>p, <1>3 DEF TypeOK, BeginPulse, EndPulse
  <2> QED BY <1>3, <2>1 DEF TypeOK, BeginPulse, EndPulse
<1>4. ASSUME NEW w \in Workers, Deliver(w) PROVE TypeOK'
  <2>1. [live |-> TRUE, started |-> FALSE, flagged |-> flagged, since |-> now] \in Task
    BY DEF TypeOK, Task
  <2>2. lease' \in Int
    BY <1>4 DEF TypeOK, Deliver
  <2> QED BY <1>4, <2>1, <2>2 DEF TypeOK, Deliver
<1>5. ASSUME NEW w \in Workers, Start(w) PROVE TypeOK'
  <2>1. status' \in {"queued", "running", "finished", "isolated"}
    BY <1>5 DEF TypeOK, Start
  <2>2. heartbeat' \in Time /\ lease' \in Int
    BY <1>5 DEF TypeOK, Start
  <2>3. [task[w] EXCEPT !.started = TRUE] \in Task
    BY DEF TypeOK, Task
  <2>4. task' \in [Workers -> Task]
    BY <1>0, <1>5, <2>3 DEF TypeOK, Start
  <2> QED BY <1>5, <2>1, <2>2, <2>4 DEF TypeOK, Start
<1>6. ASSUME NEW w \in Workers, Touch(w) PROVE TypeOK'
  BY <1>6 DEF TypeOK, Touch
<1>7. ASSUME NEW w \in Workers, Finish(w) \/ TimeOut(w) \/ Die(w) \/ Reject(w) PROVE TypeOK'
  <2>1. task' \in [Workers -> Task]
    BY <1>0, <1>7 DEF TypeOK, Finish, TimeOut, Die, Reject
  <2>2. lease' \in Int
    BY <1>7 DEF TypeOK, Finish, TimeOut, Die, Reject
  <2> QED BY <1>7, <2>1, <2>2 DEF TypeOK, Finish, TimeOut, Die, Reject
<1>8. CASE UNCHANGED vars
  BY <1>8 DEF TypeOK, vars
<1> QED BY <1>1, <1>2, <1>3, <1>4, <1>5, <1>6, <1>7, <1>8 DEF Next

-----------------------------------------------------------------------------
(* Each step keeps the rest.                                                 *)

(* A worker that lets go of its task, whatever becomes of the message.       *)
LEMMA LettingGo ==
  ASSUME ClockInv, NEW w \in Workers, task[w].live, task' = [task EXCEPT ![w] = NoTask]
  PROVE  \A v \in Workers : ~task'[v].live
BY DEF ClockInv, TypeOK, SingleLive, NoTask

LEMMA ClockStep == ASSUME ClockInv, [Next]_vars PROVE ClockInv'
<1> USE DurationsAssumption, E045, E047
<1> USE DEF ClockInv
<1>t. TypeOK /\ TypeOK'
  BY ClockTypes
<1>n. /\ now \in Nat /\ heartbeat \in Nat /\ pulse \in Int /\ lease \in Int
      /\ \A w \in Workers : task[w] \in Task /\ task[w].since \in Nat
  BY <1>t DEF TypeOK, Task
<1>1. CASE Tick
  BY <1>t, <1>n, <1>1 DEF Tick, WithinHardLimit, SingleLive, LiveHoldsLease, FirstDelivery, ClocksOrdered
<1>2. CASE Restore
  <2>1. \A w \in Workers : ~task[w].live
    BY <1>n, <1>2 DEF Restore, LiveHoldsLease
  <2> QED BY <1>t, <1>2, <2>1 DEF Restore, SingleLive, LiveHoldsLease, FirstDelivery, ClocksOrdered
<1>3. CASE BeginPulse \/ EndPulse
  <2>1. UNCHANGED <<now, heartbeat, waiting, flagged, lease, task>> /\ pulse' <= now
    BY <1>n, <1>3 DEF BeginPulse, EndPulse
  <2>2. /\ status' = "running" => status = "running"
        /\ status = "queued" => status' = "queued"
    BY <1>3 DEF BeginPulse, EndPulse
  <2> QED BY <1>t, <2>1, <2>2 DEF SingleLive, LiveHoldsLease, FirstDelivery, ClocksOrdered
<1>4. ASSUME NEW w \in Workers, Deliver(w) PROVE ClockInv'
  <2>1. \A v \in Workers : ~task[v].live
    BY <1>4 DEF Deliver, LiveHoldsLease
  <2>2. /\ \A v \in Workers \ {w} : ~task'[v].live
        /\ task'[w].since = now /\ ~task'[w].started
    BY <1>t, <1>4, <2>1 DEF Deliver, TypeOK
  <2>3. SingleLive' /\ LiveHoldsLease'
    BY <1>n, <1>4, <2>2 DEF Deliver, SingleLive, LiveHoldsLease
  <2>4. FirstDelivery' /\ ClocksOrdered'
    BY <1>n, <1>4 DEF Deliver, FirstDelivery, ClocksOrdered
  <2> QED BY <1>t, <2>3, <2>4
<1>5. ASSUME NEW w \in Workers, Start(w) PROVE ClockInv'
  <2>0. task[w].live /\ ~waiting /\ lease = task[w].since + Visibility /\ task[w].since <= now
    BY <1>5 DEF Start, LiveHoldsLease
  <2>1. CASE status = "queued"
    <3>1. status' = "running" /\ heartbeat' = now /\ UNCHANGED <<now, waiting, flagged, lease, pulse>>
      BY <1>5, <2>1 DEF Start
    <3>2. task' = [task EXCEPT ![w].started = TRUE]
      BY <1>5, <2>1 DEF Start
    <3>3. /\ \A v \in Workers \ {w} : task'[v] = task[v] /\ ~task[v].live
          /\ task'[w].live /\ task'[w].since = task[w].since
      BY <1>t, <2>0, <3>2 DEF TypeOK, Task, SingleLive
    <3>4. SingleLive' /\ LiveHoldsLease'
      BY <1>n, <2>0, <3>1, <3>3 DEF SingleLive, LiveHoldsLease
    <3>5. FirstDelivery' /\ ClocksOrdered'
      BY <1>n, <2>0, <3>1 DEF FirstDelivery, ClocksOrdered
    <3> QED BY <1>t, <3>4, <3>5
  <2>2. CASE status # "queued"
    <3>1. /\ UNCHANGED <<now, heartbeat, waiting, flagged, pulse>> /\ lease' = NoLease
          /\ task' = [task EXCEPT ![w] = NoTask]
      BY <1>5, <2>2 DEF Start
    <3>2. \A v \in Workers : ~task'[v].live
      BY <2>0, <3>1, LettingGo
    <3> QED BY <1>t, <2>0, <3>1, <3>2 DEF SingleLive, LiveHoldsLease, FirstDelivery, ClocksOrdered
  <2> QED BY <2>1, <2>2
<1>6. ASSUME NEW w \in Workers, Touch(w) PROVE ClockInv'
  BY <1>t, <1>n, <1>6 DEF Touch, SingleLive, LiveHoldsLease, FirstDelivery, ClocksOrdered
<1>7. ASSUME NEW w \in Workers, Finish(w) \/ TimeOut(w) \/ Die(w) \/ Reject(w) PROVE ClockInv'
  <2>0. task[w].live /\ task' = [task EXCEPT ![w] = NoTask] /\ ~waiting
    BY <1>7 DEF Finish, TimeOut, Die, Reject, LiveHoldsLease
  <2>1. \A v \in Workers : ~task'[v].live
    BY <2>0, LettingGo
  <2>2. FirstDelivery'
    BY <1>n, <1>7, <2>0 DEF Finish, TimeOut, Die, Reject, FirstDelivery
  <2> QED BY <1>t, <1>7, <2>1, <2>2 DEF Finish, TimeOut, Die, Reject, SingleLive, LiveHoldsLease,
          ClocksOrdered
<1>8. CASE UNCHANGED vars
  BY <1>8, <1>t DEF vars, SingleLive, LiveHoldsLease, FirstDelivery, ClocksOrdered
<1> QED BY <1>1, <1>2, <1>3, <1>4, <1>5, <1>6, <1>7, <1>8 DEF Next

LEMMA ClockInvAlways == Spec => []ClockInv
BY ClockInit, ClockStep, PTL DEF Spec

-----------------------------------------------------------------------------
(* The message of a run is never in the hands of two live workers.           *)
THEOREM OneLiveWorker == Spec => []SingleLive
<1>1. ClockInv => SingleLive
  BY DEF ClockInv
<1> QED BY <1>1, ClockInvAlways, PTL

(* Neither a pulse, however long after reading the clock it reaches the row, *)
(* nor a redelivery isolates a run that a worker is executing.               *)
THEOREM OnlyTheDeadAreIsolated == Spec => IsolatesOnlyTheDead
<1>1. ASSUME ClockInv, [Next]_vars, status = "running", status' = "isolated",
             NEW v \in Workers, task[v].live, task[v].started
      PROVE  FALSE
  <2>0. /\ task[v].since <= heartbeat /\ now <= task[v].since + HardLimit
        /\ task[v].since \in Nat /\ now \in Nat /\ heartbeat \in Nat /\ pulse \in Int /\ pulse <= now
    BY <1>1 DEF ClockInv, TypeOK, Task, LiveHoldsLease, ClocksOrdered
  <2>1. ~EndPulse
    BY <1>1, <2>0, DurationsAssumption, E045, E047 DEF EndPulse, Stale
  <2>2. \A w \in Workers : ~Start(w)
    BY <1>1 DEF Start, ClockInv, SingleLive
  <2> QED BY <1>1, <2>1, <2>2 DEF Next, vars, Tick, Restore, BeginPulse, Deliver, Touch, Finish,
          TimeOut, Die, Reject
<1>2. ClockInv /\ [Next]_vars =>
        [status = "running" /\ status' = "isolated" =>
           \A w \in Workers : ~(task[w].live /\ task[w].started)]_vars
  BY <1>1
<1> QED BY <1>2, ClockInvAlways, PTL DEF Spec, IsolatesOnlyTheDead

(* The reconciler does not take over a run whose message the broker may yet  *)
(* deliver for the first time since its worker died.                         *)
THEOREM LeaseEndsBeforeOrphan == Spec => []OrphanAfterLease
<1>1. ClockInv => OrphanAfterLease
  BY DurationsAssumption, E045, E047
  DEF ClockInv, TypeOK, FirstDelivery, ClocksOrdered, OrphanAfterLease, Stale
<1> QED BY <1>1, ClockInvAlways, PTL

(* Every step keeps the lease, the heartbeats and the clocks in their types. *)
THEOREM TypeCorrect == Spec => []TypeOK
<1>1. ClockInv => TypeOK
  BY DEF ClockInv
<1> QED BY <1>1, ClockInvAlways, PTL
=============================================================================
