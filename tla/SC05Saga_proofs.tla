-------------------------- MODULE SC05Saga_proofs --------------------------
(***************************************************************************)
(* SC05Saga: a first execution that fails has put everything back, blocking *)
(* and unblocking is a round trip, an execution fails only for a reason of  *)
(* its own and the client tells what its run left, for every set of tasks   *)
(* and every number of operations, resumptions and faults.                  *)
(*                                                                          *)
(* The inductive invariant IInv has five layers: types, where the execution *)
(* is (PhaseInv), what client and run say of each other (MirrorInv), what a *)
(* first execution owes the portals (RollbackInv), and where each portal is *)
(* between its start and its goal while nobody else touches it (CleanInv).  *)
(***************************************************************************)
EXTENDS SC05Saga, TLAPS

-----------------------------------------------------------------------------
(* The invariant.                                                          *)

(* A portal's state, or nothing saved yet.                                   *)

Kept(p) == State(p) \cup {None}
RowOK(p, s) ==
  /\ s \in [status : StepStatuses, before : Kept(p), desired : Kept(p)]
  /\ s.before = None <=> s.desired = None
OnPortals(f) == f = [p \in Portals |-> f[p]]

Actions == {"BLOCK", "UNBLOCK"}
Worker == [pc : {"none", "step", "inspect", "apply", "compensate", "restore", "dead"},
           at : 0..4, prior : StepStatuses, failed : 0..3, comp : BOOLEAN, marker : BOOLEAN]

Ghost == [faults : 0..MaxFaults, faulted : BOOLEAN, byHand : BOOLEAN, aborted : BOOLEAN,
          polluted : BOOLEAN]

RowsTyped == OnPortals(steps) /\ \A p \in Portals : RowOK(p, steps[p])
PortalsTyped ==
  /\ OnPortals(portal) /\ \A p \in Portals : portal[p] \in State(p)
  /\ owner \in [Tasks -> {"own", "other"}]
PastTyped ==
  /\ past = [ops |-> past.ops, block |-> past.block, base |-> past.base]
  /\ past.ops \in 0..MaxOps
  /\ OnPortals(past.block) /\ \A p \in Portals : past.block[p] \in Kept(p)
  /\ OnPortals(past.base) /\ \A p \in Portals : past.base[p] \in State(p)

(* TypeOK with the domains of the tables.                                    *)
TypeInv ==
  /\ client \in [status : ClientStatuses, snapshot : Kept("tasks")]
  /\ run \in [action : Actions, status : RunStatuses, resumes : 0..MaxResumes]
  /\ RowsTyped /\ PortalsTyped /\ worker \in Worker /\ PastTyped /\ ghost \in Ghost

At(n) == Order(run.action)[n]
Applying == {"step", "inspect", "apply"}
Compensating == {"compensate", "restore"}

(* Where the execution is.                                                   *)
PhaseInv ==
  /\ worker.pc # "none" <=> run.status = "RUNNING"
  /\ worker.pc \in Applying => worker.at > 0
  /\ worker.pc \in {"inspect", "apply"} => worker.at <= 3
  /\ worker.pc \in Compensating => worker.failed > 0 /\ worker.at <= worker.failed
  /\ worker.pc = "restore" => Candidates # {}
  /\ worker.pc \in Applying => \A n \in 1..3 : n < worker.at => steps[At(n)].before # None
  /\ worker.pc = "apply" => steps[Here].before # None

(* What an unblocking needs is there until one has succeeded.               *)
MirrorInv ==
  /\ ClientMirrorsRun
  /\ run.action = "UNBLOCK" /\ run.status # "SUCCEEDED" =>
       client.snapshot # None /\ \A p \in Portals : past.block[p] # None
  /\ run.action = "BLOCK" => (client.status = "BLOCKED" <=> run.status = "SUCCEEDED")
  /\ run.action = "UNBLOCK" => (client.status = "ACTIVE" <=> run.status = "SUCCEEDED")
  /\ run.status = "NONE" => client.status = "ACTIVE"

(* A first execution has not looked at the portals ahead of it.              *)
Untouched ==
  run.resumes = 0 =>
    /\ run.status \in {"NONE", "QUEUED"} => \A p \in Portals : steps[p].before = None
    /\ worker.pc \in {"step", "inspect"} =>
         \A n \in 1..3 : n >= worker.at => steps[At(n)].before = None
    /\ worker.pc = "apply" => \A n \in 1..3 : n > worker.at => steps[At(n)].before = None
    /\ worker.pc \in Compensating =>
         \A n \in 1..3 : n > worker.failed => steps[At(n)].before = None

Back(p) == steps[p].before = None \/ portal[p] = steps[p].before

RollbackInv ==
  /\ Untouched
  /\ worker.pc \in Compensating /\ ~worker.comp /\ ~ghost.byHand =>
       \A n \in 1..3 : worker.at < n /\ n <= worker.failed => Back(At(n))
  /\ RollbackComplete

(* No one else has touched the portals and no FAILED run has left a residue. *)
Clean == ~ghost.byHand /\ ~ghost.polluted

Start(p) == IF run.action = "BLOCK" THEN past.base[p] ELSE AllBlocked(p)
Goal(p) == IF run.action = "BLOCK" THEN AllBlocked(p) ELSE past.base[p]

(* Nothing saved and untouched, or the first look saved and the portal at    *)
(* either end: never in between, whatever failed.                            *)
OnTheWay(p) ==
  IF steps[p].before = None THEN portal[p] = Start(p)
  ELSE /\ steps[p].before = Start(p) /\ steps[p].desired = Goal(p)
       /\ portal[p] \in {Start(p), Goal(p)}

BaseFree == \A t \in Tasks : past.base["tasks"][t] # "blocked"
Progress == run.status # "SUCCEEDED" => \A p \in Portals : OnTheWay(p)
AtRest ==
  /\ run.status \in {"NONE", "FAILED"} => \A p \in Portals : portal[p] = Start(p)
  /\ run.status = "SUCCEEDED" => \A p \in Portals : portal[p] = Goal(p)
OwnersKept ==
  run.action = "UNBLOCK" \/ portal["tasks"] = AllBlocked("tasks") => owner = past.base["tasks"]
Remembered ==
  (run.action = "BLOCK" <=> run.status = "SUCCEEDED") =>
    /\ client.snapshot = past.base["tasks"]
    /\ \A p \in Portals : past.block[p] = past.base[p]
Advanced ==
  /\ worker.pc \in Applying => \A n \in 1..3 : n < worker.at => portal[At(n)] = Goal(At(n))
  /\ worker.pc = "apply" => portal[Here] # Goal(Here)
Caused ==
  worker.pc \in Compensating \cup {"dead"} \/ run.status \in {"FAILED", "PARTIALLY_FAILED"} =>
    ghost.faulted

CleanInv == BaseFree /\ Progress /\ AtRest /\ OwnersKept /\ Remembered /\ Advanced /\ Caused

IInv == TypeInv /\ PhaseInv /\ MirrorInv /\ RollbackInv /\ (Clean => CleanInv)

-----------------------------------------------------------------------------
(* Portals and their forms.                                                *)

LEMMA OrderCovers ==
  ASSUME NEW a \in Actions
  PROVE  /\ \A n \in 1..3 : Order(a)[n] \in Portals
         /\ \A m, n \in 1..3 : Order(a)[m] = Order(a)[n] => m = n
         /\ \A p \in Portals : \E n \in 1..3 : Order(a)[n] = p
<1>1. CASE a = "BLOCK"
  <2>1. Order(a)[1] = "files" /\ Order(a)[2] = "accounting" /\ Order(a)[3] = "tasks"
    BY <1>1 DEF Order
  <2> QED BY <2>1 DEF Portals
<1>2. CASE a = "UNBLOCK"
  <2>1. Order(a)[3] = "files" /\ Order(a)[2] = "accounting" /\ Order(a)[1] = "tasks"
    BY <1>2 DEF Order
  <2> QED BY <2>1 DEF Portals
<1> QED BY <1>1, <1>2 DEF Actions

LEMMA StatesAreLooks ==
  ASSUME NEW p \in Portals
  PROVE  None \notin State(p) /\ AllBlocked(p) \in State(p)
<1>1. Items(p) # {}
  BY ConstantsAssumption DEF Items
<1>2. DOMAIN None = {}
  BY DEF None
<1>3. \A f \in State(p) : DOMAIN f = Items(p)
  BY DEF State
<1>4. AllBlocked(p) \in State(p)
  BY DEF AllBlocked, State, Values
<1> QED BY <1>1, <1>2, <1>3, <1>4

LEMMA FormsStayInside ==
  ASSUME TypeInv, NEW p \in Portals, NEW a \in Actions
  PROVE  /\ AfterForm(p, a) \in State(p)
         /\ OwnersAfterForm(p, a) \in [Tasks -> {"own", "other"}]
<1>1. portal[p] \in State(p) /\ owner \in [Tasks -> {"own", "other"}]
  BY DEF TypeInv, PortalsTyped
<1>2. CASE p = "tasks"
  <2>1. portal[p] \in [Tasks -> {"own", "other", "blocked"}]
    BY <1>1, <1>2 DEF State, Items, Values
  <2> QED BY <1>1, <1>2, <2>1 DEF AfterForm, OwnersAfterForm, AllBlocked, State, Items, Values
<1>3. CASE p # "tasks"
  <2>1. portal[p] \in [{p} -> {"own", "blocked"}]
    BY <1>1, <1>3 DEF State, Items, Values
  <2> QED BY <1>1, <1>3, <2>1 DEF AfterForm, OwnersAfterForm, AllBlocked, State, Items, Values
<1> QED BY <1>2, <1>3

LEMMA LastIsLast ==
  ASSUME NEW S \in SUBSET (1..3), S # {}
  PROVE  Last(S) \in S /\ \A m \in S : m <= Last(S)
<1>1. \E n \in S : \A m \in S : m <= n
  <2>1. CASE 3 \in S
    BY <2>1
  <2>2. CASE 3 \notin S /\ 2 \in S
    BY <2>2
  <2>3. CASE 3 \notin S /\ 2 \notin S
    <3>1. \A n \in S : n \in Nat /\ 1 <= n /\ n <= 3
      OBVIOUS
    <3>2. \A n \in S : n # 2 /\ n # 3
      BY <2>3
    <3>3. \A n \in S : n = 1
      BY <3>1, <3>2
    <3>4. PICK n \in S : n = 1
      BY <3>3
    <3> QED BY <3>3, <3>4
  <2> QED BY <2>1, <2>2, <2>3
<1> QED BY <1>1 DEF Last

(* A form changes its portal only.                                           *)
FormOn(p, f) ==
  /\ portal'[p] = AfterForm(p, f)
  /\ owner' = OwnersAfterForm(p, f)
  /\ \A q \in Portals \ {p} : portal'[q] = portal[q]

LEMMA FormChangesOne ==
  ASSUME TypeInv, NEW p \in Portals, NEW a \in Actions, SubmitForm(p, a)
  PROVE  FormOn(p, a) /\ PortalsTyped'
<1>1. FormOn(p, a) /\ OnPortals(portal')
  BY DEF SubmitForm, FormOn, TypeInv, PortalsTyped, OnPortals
<1> QED BY <1>1, FormsStayInside DEF FormOn, TypeInv, PortalsTyped

-----------------------------------------------------------------------------
(* Rows.                                                                   *)

LooksKept ==
  \A p \in Portals : steps'[p].before = steps[p].before /\ steps'[p].desired = steps[p].desired

LEMMA StatusChanges ==
  ASSUME RowsTyped, NEW p \in Portals, NEW s \in StepStatuses,
         steps' = [steps EXCEPT ![p].status = s]
  PROVE  RowsTyped' /\ LooksKept
<1>1. OnPortals(steps') /\ \A q \in Portals \ {p} : steps'[q] = steps[q]
  BY DEF RowsTyped, OnPortals
<1>2. steps'[p] = [steps[p] EXCEPT !.status = s]
  BY DEF RowsTyped, OnPortals
<1>3. /\ RowOK(p, steps'[p])
      /\ steps'[p].before = steps[p].before /\ steps'[p].desired = steps[p].desired
  BY <1>2 DEF RowsTyped, RowOK
<1> QED BY <1>1, <1>3 DEF RowsTyped, LooksKept

(* The first look at portal p is saved, whatever the status becomes.         *)
LEMMA LookSaved ==
  ASSUME RowsTyped, NEW p \in Portals, NEW o \in State(p), NEW d \in State(p),
         NEW s \in StepStatuses, NEW rows,
         rows = [steps EXCEPT ![p].before = o, ![p].desired = d],
         steps' = rows \/ steps' = [rows EXCEPT ![p].status = s]
  PROVE  /\ RowsTyped'
         /\ steps'[p].before = o /\ steps'[p].desired = d
         /\ \A q \in Portals \ {p} : steps'[q] = steps[q]
<1>1. OnPortals(rows) /\ \A q \in Portals \ {p} : rows[q] = steps[q]
  BY DEF RowsTyped, OnPortals
<1>2. rows[p] = [steps[p] EXCEPT !.before = o, !.desired = d]
  BY DEF RowsTyped, OnPortals
<1>3. RowOK(p, rows[p]) /\ rows[p].before = o /\ rows[p].desired = d
  <2>1. /\ steps[p] \in [status : StepStatuses, before : Kept(p), desired : Kept(p)]
        /\ o \in Kept(p) /\ d \in Kept(p) /\ o # None /\ d # None
    BY StatesAreLooks DEF RowsTyped, RowOK, Kept
  <2>2. /\ rows[p] \in [status : StepStatuses, before : Kept(p), desired : Kept(p)]
        /\ rows[p].before = o /\ rows[p].desired = d
    <3> DEFINE first == [steps[p] EXCEPT !.before = o]
    <3>1. /\ first \in [status : StepStatuses, before : Kept(p), desired : Kept(p)]
          /\ first.before = o
      BY <2>1
    <3>2. rows[p] = [first EXCEPT !.desired = d]
      BY <1>2
    <3> HIDE DEF first
    <3> QED BY <2>1, <3>1, <3>2
  <2> QED BY <2>1, <2>2 DEF RowOK
<1>4. OnPortals(steps') /\ \A q \in Portals \ {p} : steps'[q] = steps[q]
  BY <1>1 DEF OnPortals
<1>5. steps'[p] = rows[p] \/ steps'[p] = [rows[p] EXCEPT !.status = s]
  BY <1>1 DEF OnPortals
<1>6. RowOK(p, steps'[p]) /\ steps'[p].before = o /\ steps'[p].desired = d
  BY <1>3, <1>5 DEF RowOK
<1> QED BY <1>4, <1>6 DEF RowsTyped

-----------------------------------------------------------------------------
(* Where the worker is.                                                    *)

LEMMA HereIsPortal ==
  ASSUME TypeInv, PhaseInv, worker.pc \in Applying, worker.at <= 3
  PROVE  /\ worker.at \in 1..3 /\ Here = At(worker.at) /\ Here \in Portals
         /\ run.action \in Actions /\ run.status = "RUNNING"
<1>1. worker.at \in 1..3 /\ run.action \in Actions /\ run.status = "RUNNING"
  BY DEF TypeInv, Worker, PhaseInv, Applying
<1> QED BY <1>1, OrderCovers DEF Here, At

LEMMA CurrentIsPortal ==
  ASSUME TypeInv, Candidates # {}
  PROVE  /\ Last(Candidates) \in 1..3 /\ Last(Candidates) <= worker.at
         /\ Last(Candidates) <= worker.failed
         /\ Current = At(Last(Candidates)) /\ Current \in Portals
         /\ steps[Current].before # None
         /\ \A n \in 1..3 : Last(Candidates) < n /\ n <= worker.at /\ n <= worker.failed =>
              steps[At(n)].before = None
         /\ run.action \in Actions
<1>1. worker.failed \in 0..3 /\ worker.at \in 0..4 /\ run.action \in Actions
  BY DEF TypeInv, Worker
<1>2. Candidates \in SUBSET (1..3)
  BY <1>1 DEF Candidates
<1>3. Last(Candidates) \in Candidates /\ \A m \in Candidates : m <= Last(Candidates)
  BY <1>2, LastIsLast
<1>4. Last(Candidates) \in 1..3 /\ Last(Candidates) <= worker.failed /\ Last(Candidates) <= worker.at
      /\ steps[At(Last(Candidates))].before # None
  <2>1. \A n \in Candidates : /\ n \in 1..3 /\ n <= worker.failed /\ n <= worker.at
                              /\ steps[At(n)].before # None
    BY <1>1 DEF Candidates, At
  <2> QED BY <1>3, <2>1
<1>5. Current = At(Last(Candidates)) /\ Current \in Portals
  BY <1>1, <1>4, OrderCovers DEF Current, At
<1>6. ASSUME NEW n \in 1..3, Last(Candidates) < n, n <= worker.at, n <= worker.failed,
             steps[At(n)].before # None
      PROVE  FALSE
  <2>1. n \in Candidates
    BY <1>1, <1>6 DEF Candidates, At
  <2> QED BY <1>3, <1>4, <1>6, <2>1
<1> QED BY <1>1, <1>4, <1>5, <1>6

LEMMA FaultIsTyped ==
  ASSUME TypeInv, NEW kind, Fault(kind)
  PROVE  /\ ghost' \in Ghost /\ ghost'.faulted
         /\ ghost'.byHand = ghost.byHand /\ ghost'.aborted = ghost.aborted
         /\ ghost'.polluted = ghost.polluted
<1>1. ghost \in Ghost /\ ghost.faults + 1 \in 0..MaxFaults
  BY ConstantsAssumption DEF TypeInv, Ghost, Fault
<1> QED BY <1>1 DEF Fault, Ghost

-----------------------------------------------------------------------------
(* Types.  RowsTyped and the ranges of the worker need to know where it is.  *)

LEMMA FailStepTyped ==
  ASSUME TypeInv, PhaseInv, worker.pc \in {"inspect", "apply"}, NEW m \in BOOLEAN, FailStep(steps, m)
  PROVE  /\ RowsTyped' /\ LooksKept /\ worker' \in Worker
         /\ worker'.pc = "compensate" /\ worker'.at = worker.at /\ worker'.failed = worker.at
         /\ worker'.comp = worker.comp
<1>1. worker.at \in 1..3 /\ Here \in Portals
  BY HereIsPortal DEF PhaseInv, Applying
<1>2. RowsTyped' /\ LooksKept
  BY <1>1, StatusChanges DEF TypeInv, FailStep, StepStatuses
<1>3. worker \in Worker /\ worker.at \in 0..3
  BY <1>1 DEF TypeInv
<1>4. worker' = [worker EXCEPT !.pc = "compensate", !.failed = worker.at, !.marker = m]
  BY DEF FailStep
<1>5. /\ worker' \in Worker
      /\ worker'.pc = "compensate" /\ worker'.at = worker.at /\ worker'.failed = worker.at
      /\ worker'.comp = worker.comp
  BY <1>3, <1>4 DEF Worker
<1> QED BY <1>2, <1>5

LEMMA DoneTyped ==
  ASSUME TypeInv, Candidates # {}, NEW s \in StepStatuses, Done(s)
  PROVE  /\ RowsTyped' /\ LooksKept /\ worker' \in Worker
         /\ worker'.pc = "compensate" /\ worker'.at = Last(Candidates) - 1
         /\ worker'.failed = worker.failed
         /\ worker'.comp = (worker.comp \/ s = "COMPENSATION_FAILED")
<1>1. Last(Candidates) \in 1..3 /\ Current \in Portals
  BY CurrentIsPortal
<1>2. RowsTyped' /\ LooksKept
  BY <1>1, StatusChanges DEF TypeInv, Done
<1>3. Last(Candidates) - 1 \in 0..4
  BY <1>1
<1> QED BY <1>1, <1>2, <1>3 DEF Done, TypeInv, Worker

LEMMA AdvanceTyped ==
  ASSUME TypeInv, PhaseInv, worker.pc \in {"inspect", "apply"}, NEW s, NEW rows, Advance(rows, s)
  PROVE  /\ worker' \in Worker
         /\ worker'.pc = "step" /\ worker'.at = worker.at + 1 /\ worker'.comp = worker.comp
<1>1. worker.at \in 1..3
  BY HereIsPortal DEF PhaseInv, Applying
<1>2. worker.at + 1 \in 0..4
  BY <1>1
<1> QED BY <1>2 DEF Advance, TypeInv, Worker

LEMMA RestingTyped == Resting \in Worker
BY DEF Resting, Worker, StepStatuses

(* What a look may save.                                                     *)
LEMMA DesiredTyped ==
  ASSUME TypeInv, NEW p \in Portals, NEW o, Desired(p, o) # None
  PROVE  Desired(p, o) \in State(p)
<1>1. CASE run.action = "BLOCK"
  BY <1>1, StatesAreLooks DEF Desired
<1>2. CASE run.action # "BLOCK" /\ p # "tasks"
  BY <1>2 DEF Desired, TypeInv, PastTyped, Kept
<1>3. CASE run.action # "BLOCK" /\ p = "tasks"
  BY <1>3 DEF Desired, TypeInv, Kept
<1> QED BY <1>1, <1>2, <1>3

(* How an inspection ends: refused, or with a portal that conforms or not.   *)
Refused(o) ==
  IF FirstLook(Here) THEN MarkerWithoutSnapshot(Here, o) \/ Desired(Here, o) = None
                     ELSE Foreign(Here, o)
Looked(o) ==
  IF FirstLook(Here) THEN steps'[Here].before = o /\ steps'[Here].desired = Desired(Here, o)
                     ELSE LooksKept

LEMMA InspectEnds ==
  ASSUME TypeInv, PhaseInv, Inspect
  PROVE  /\ RowsTyped' /\ worker' \in Worker /\ worker'.comp = worker.comp
         /\ \A q \in Portals \ {Here} : /\ steps'[q].before = steps[q].before
                                        /\ steps'[q].desired = steps[q].desired
         /\ \/ /\ Refused(portal[Here]) /\ LooksKept
               /\ worker'.pc = "compensate" /\ worker'.at = worker.at /\ worker'.failed = worker.at
            \/ /\ ~Refused(portal[Here]) /\ Looked(portal[Here])
               /\ \/ /\ worker'.pc = "step" /\ worker'.at = worker.at + 1
                     /\ portal[Here] = steps'[Here].desired
                  \/ /\ worker'.pc = "apply" /\ worker'.at = worker.at
                     /\ portal[Here] # steps'[Here].desired
<1> DEFINE o == portal[Here]
           first == FirstLook(Here)
           d == IF first THEN Desired(Here, o) ELSE Step.desired
           saved == IF first THEN [steps EXCEPT ![Here].before = o, ![Here].desired = d] ELSE steps
           status == IF worker.prior \in {"APPLIED", "COMPENSATION_FAILED"} THEN "APPLIED" ELSE "UNCHANGED"
<1>1. worker.pc = "inspect"
  BY DEF Inspect
<1>2. Here \in Portals /\ o \in State(Here)
  BY <1>1, HereIsPortal DEF PhaseInv, Applying, TypeInv, PortalsTyped
<1>3. CASE Refused(o) /\ \E m \in BOOLEAN : FailStep(steps, m)
  <2>1. /\ RowsTyped' /\ LooksKept /\ worker' \in Worker /\ worker'.comp = worker.comp
        /\ worker'.pc = "compensate" /\ worker'.at = worker.at /\ worker'.failed = worker.at
    BY <1>1, <1>3, FailStepTyped
  <2> QED BY <1>2, <1>3, <2>1 DEF LooksKept
<1>4. CASE ~Refused(o) /\ \/ o = d /\ Advance(saved, status)
                          \/ o # d /\ steps' = saved /\ worker' = [worker EXCEPT !.pc = "apply"]
  <2>1. /\ worker' \in Worker /\ worker'.comp = worker.comp
        /\ \/ o = d /\ worker'.pc = "step" /\ worker'.at = worker.at + 1
           \/ o # d /\ worker'.pc = "apply" /\ worker'.at = worker.at
    <3>1. CASE Advance(saved, status) /\ o = d
      BY <1>1, <3>1, AdvanceTyped
    <3>2. CASE o # d /\ worker' = [worker EXCEPT !.pc = "apply"]
      BY <3>2 DEF TypeInv, Worker
    <3> QED BY <1>4, <3>1, <3>2
  <2>2. status \in StepStatuses /\ (steps' = saved \/ steps' = [saved EXCEPT ![Here].status = status])
    BY <1>4 DEF Advance, StepStatuses
  <2>3. CASE first
    <3>1. d \in State(Here)
      BY <1>2, <1>4, <2>3, DesiredTyped DEF Refused
    <3>2. saved = [steps EXCEPT ![Here].before = o, ![Here].desired = d]
      BY <2>3
    <3>3. /\ RowsTyped' /\ steps'[Here].before = o /\ steps'[Here].desired = d
          /\ \A q \in Portals \ {Here} : steps'[q] = steps[q]
      <4> HIDE DEF saved, d, o, status
      <4> QED BY <1>2, <2>2, <3>1, <3>2, LookSaved DEF TypeInv
    <3> QED BY <1>4, <2>1, <2>3, <3>3 DEF Looked
  <2>4. CASE ~first
    <3>1. RowsTyped' /\ LooksKept
      <4>1. steps' = steps \/ steps' = [steps EXCEPT ![Here].status = status]
        BY <2>2, <2>4
      <4>2. CASE steps' = steps
        BY <4>2 DEF TypeInv, RowsTyped, LooksKept, OnPortals
      <4> HIDE DEF status
      <4>3. CASE steps' = [steps EXCEPT ![Here].status = status]
        BY <1>2, <2>2, <4>3, StatusChanges DEF TypeInv
      <4> QED BY <4>1, <4>2, <4>3
    <3>2. steps'[Here].desired = d
      BY <1>2, <2>4, <3>1 DEF LooksKept, Step
    <3> QED BY <1>2, <1>4, <2>1, <2>4, <3>1, <3>2 DEF Looked, LooksKept
  <2> QED BY <2>3, <2>4
<1> QED BY <1>3, <1>4 DEF Inspect, Refused

LEMMA FinishFailedTyped ==
  ASSUME TypeInv, NEW m \in BOOLEAN, NEW c \in BOOLEAN, FinishFailed(m, c)
  PROVE  /\ client' \in [status : ClientStatuses, snapshot : Kept("tasks")]
         /\ run' \in [action : Actions, status : RunStatuses, resumes : 0..MaxResumes]
         /\ worker' \in Worker /\ worker'.pc = "none"
         /\ run'.action = run.action /\ run'.resumes = run.resumes
         /\ client'.snapshot = client.snapshot
         /\ run'.status = IF c /\ ~m THEN "PARTIALLY_FAILED" ELSE "FAILED"
         /\ client'.status = IF m THEN "UNKNOWN"
                             ELSE IF c THEN "PARTIAL"
                             ELSE IF run.action = "BLOCK" THEN "ACTIVE" ELSE "BLOCKED"
<1>1. worker' \in Worker /\ worker'.pc = "none"
  BY RestingTyped DEF FinishFailed, Resting
<1>2. /\ run' \in [action : Actions, status : RunStatuses, resumes : 0..MaxResumes]
      /\ run'.action = run.action /\ run'.resumes = run.resumes
      /\ run'.status = IF c /\ ~m THEN "PARTIALLY_FAILED" ELSE "FAILED"
  BY DEF FinishFailed, TypeInv, RunStatuses
<1>3. PICK s : /\ client' = [client EXCEPT !.status = s]
               /\ s = CASE m -> "UNKNOWN"
                        [] ~m /\ c -> "PARTIAL"
                        [] OTHER -> IF run.action = "BLOCK" THEN "ACTIVE" ELSE "BLOCKED"
  BY DEF FinishFailed
<1>4. s = IF m THEN "UNKNOWN" ELSE IF c THEN "PARTIAL"
          ELSE IF run.action = "BLOCK" THEN "ACTIVE" ELSE "BLOCKED"
  BY <1>3
<1>5. /\ client' \in [status : ClientStatuses, snapshot : Kept("tasks")]
      /\ client'.snapshot = client.snapshot /\ client'.status = s
  BY <1>3, <1>4 DEF TypeInv, ClientStatuses
<1> QED BY <1>1, <1>2, <1>4, <1>5

(* The portals and tables after an isolation.                                *)
LEMMA QuarantineTyped ==
  ASSUME TypeInv, Quarantine
  PROVE  RowsTyped' /\ LooksKept
<1>1. \A p \in Portals :
        steps'[p] = [steps[p] EXCEPT !.status = IF steps[p].status = "RUNNING" THEN "FAILED"
                                                ELSE steps[p].status]
  BY DEF Quarantine
<1>2. OnPortals(steps')
  BY DEF Quarantine, OnPortals
<1>3. ASSUME NEW p \in Portals
      PROVE  /\ RowOK(p, steps'[p])
             /\ steps'[p].before = steps[p].before /\ steps'[p].desired = steps[p].desired
  <2>1. steps[p] \in [status : StepStatuses, before : Kept(p), desired : Kept(p)]
    BY DEF TypeInv, RowsTyped, RowOK
  <2>2. /\ steps'[p] \in [status : StepStatuses, before : Kept(p), desired : Kept(p)]
        /\ steps'[p].before = steps[p].before /\ steps'[p].desired = steps[p].desired
    BY <1>1, <2>1 DEF StepStatuses
  <2> QED BY <2>2 DEF TypeInv, RowsTyped, RowOK
<1> QED BY <1>2, <1>3 DEF RowsTyped, LooksKept

LEMMA FreshRows ==
  ASSUME steps' = [p \in Portals |-> FreshStep]
  PROVE  RowsTyped' /\ \A p \in Portals : steps'[p].before = None
BY DEF RowsTyped, RowOK, OnPortals, FreshStep, Kept, StepStatuses

LEMMA ResumeEffect ==
  ASSUME TypeInv, Resume
  PROVE  /\ run' \in [action : Actions, status : RunStatuses, resumes : 0..MaxResumes]
         /\ run'.action = run.action /\ run'.status = "QUEUED" /\ run'.resumes > 0
<1>1. run.resumes \in Nat /\ run.resumes + 1 \in 0..MaxResumes
  BY ConstantsAssumption DEF Resume, TypeInv
<1>2. run' = [action |-> run.action, status |-> "QUEUED", resumes |-> run.resumes + 1]
  BY DEF Resume, TypeInv
<1> QED BY <1>1, <1>2 DEF TypeInv, RunStatuses

LEMMA TypeRequests ==
  ASSUME TypeInv, PhaseInv, Create("BLOCK") \/ Create("UNBLOCK") \/ Resume \/ Undelivered \/ ByHand
  PROVE  TypeInv'
<1>1. ASSUME NEW a \in Actions, Create(a) PROVE TypeInv'
  <2>1. RowsTyped'
    BY <1>1, FreshRows DEF Create
  <2>2. run' \in [action : Actions, status : RunStatuses, resumes : 0..MaxResumes]
    BY <1>1, ConstantsAssumption DEF Create, RunStatuses
  <2>3. PastTyped'
    <3>1. past.ops + 1 \in 0..MaxOps
      BY <1>1, ConstantsAssumption DEF Create, TypeInv, PastTyped
    <3>2. past' = [ops |-> past.ops + 1, block |-> past.block,
                   base |-> IF a = "BLOCK" THEN portal ELSE past.base]
      BY <1>1 DEF Create, TypeInv, PastTyped
    <3> QED BY <3>1, <3>2 DEF TypeInv, PastTyped, PortalsTyped, OnPortals
  <2> QED BY <1>1, <2>1, <2>2, <2>3 DEF Create, TypeInv, PortalsTyped, OnPortals
<1>2. CASE Resume
  BY <1>2, ResumeEffect DEF Resume, TypeInv, RowsTyped, PortalsTyped, PastTyped, OnPortals
<1>3. CASE Undelivered
  <2>1. ghost' \in Ghost
    BY <1>3, FaultIsTyped DEF Undelivered
  <2>2. /\ run' \in [action : Actions, status : RunStatuses, resumes : 0..MaxResumes]
        /\ client' \in [status : ClientStatuses, snapshot : Kept("tasks")]
    BY <1>3 DEF Undelivered, TypeInv, RunStatuses, ClientStatuses
  <2> QED BY <1>3, <2>1, <2>2 DEF Undelivered, TypeInv, RowsTyped, PortalsTyped, PastTyped, OnPortals
<1>4. CASE ByHand
  <2>1. ghost' \in Ghost
    <3>1. ghost.faults + 1 \in 0..MaxFaults
      BY <1>4, ConstantsAssumption DEF ByHand, TypeInv, Ghost
    <3> QED BY <1>4, <3>1 DEF ByHand, TypeInv, Ghost
  <2>2. PortalsTyped'
    <3>1. CASE \E p \in Portals, a \in Actions : SubmitForm(p, a)
      BY <3>1, FormChangesOne
    <3>2. ASSUME NEW t \in Tasks, NEW v \in {"own", "other"},
                 portal' = [portal EXCEPT !["tasks"][t] = v], UNCHANGED owner
          PROVE  PortalsTyped'
      <4>1. /\ OnPortals(portal')
            /\ \A q \in Portals \ {"tasks"} : portal'[q] = portal[q]
            /\ portal'["tasks"] = [portal["tasks"] EXCEPT ![t] = v]
        BY <3>2 DEF TypeInv, PortalsTyped, OnPortals, Portals
      <4>2. portal'["tasks"] \in State("tasks")
        BY <4>1 DEF TypeInv, PortalsTyped, State, Items, Values, Portals
      <4> QED BY <3>2, <4>1, <4>2 DEF TypeInv, PortalsTyped
    <3> QED BY <1>4, <3>1, <3>2 DEF ByHand, Actions
  <2> QED BY <1>4, <2>1, <2>2 DEF ByHand, TypeInv, RowsTyped, PastTyped, OnPortals
<1> QED BY <1>1, <1>2, <1>3, <1>4 DEF Actions

LEMMA TypeApplying ==
  ASSUME TypeInv, PhaseInv,
         BeginExecution \/ StartStep \/ Inspect \/ InspectFails \/ Apply \/ ApplyFails
  PROVE  TypeInv'
<1> USE DEF TypeInv
<1>1. CASE BeginExecution
  <2>1. worker' \in Worker /\ ghost' \in Ghost
    <3>1. worker' = [pc |-> "step", at |-> 1, prior |-> "PENDING", failed |-> 0, comp |-> FALSE,
                     marker |-> FALSE]
      BY <1>1 DEF BeginExecution, Resting
    <3>2. ghost' \in Ghost
      BY <1>1 DEF BeginExecution, Ghost
    <3> QED BY <3>1, <3>2 DEF Worker, StepStatuses
  <2>2. run' \in [action : Actions, status : RunStatuses, resumes : 0..MaxResumes]
    BY <1>1 DEF BeginExecution, RunStatuses
  <2> QED BY <1>1, <2>1, <2>2 DEF BeginExecution, RowsTyped, PortalsTyped, PastTyped, OnPortals
<1>2. CASE StartStep
  <2>1. Here \in Portals
    BY <1>2, HereIsPortal DEF StartStep, Applying
  <2>2. RowsTyped'
    BY <1>2, <2>1, StatusChanges DEF StartStep, StepStatuses
  <2>3. Step.status \in StepStatuses
    BY <2>1 DEF Step, RowsTyped, RowOK
  <2>4. worker' \in Worker
    BY <1>2, <2>3 DEF StartStep, Worker
  <2> QED BY <1>2, <2>2, <2>4 DEF StartStep, PortalsTyped, PastTyped, OnPortals
<1>3. CASE Inspect
  BY <1>3, InspectEnds DEF Inspect, PortalsTyped, PastTyped, OnPortals
<1>4. CASE InspectFails
  <2>1. RowsTyped' /\ worker' \in Worker /\ ghost' \in Ghost
    BY <1>4, FailStepTyped, FaultIsTyped DEF InspectFails
  <2> QED BY <1>4, <2>1 DEF InspectFails, PortalsTyped, PastTyped, OnPortals
<1>5. CASE Apply
  <2>1. Here \in Portals /\ run.action \in Actions
    BY <1>5, HereIsPortal DEF Apply, PhaseInv, Applying
  <2>2. PortalsTyped'
    BY <1>5, <2>1, FormChangesOne DEF Apply
  <2>3. RowsTyped' /\ worker' \in Worker
    <3>1. CASE Advance(steps, "APPLIED")
      BY <1>5, <2>1, <3>1, AdvanceTyped, StatusChanges DEF Apply, Advance, StepStatuses
    <3>2. CASE FailStep(steps, FALSE)
      BY <1>5, <3>2, FailStepTyped DEF Apply
    <3> QED BY <1>5, <3>1, <3>2 DEF Apply
  <2> QED BY <1>5, <2>2, <2>3 DEF Apply, PastTyped, OnPortals
<1>6. CASE ApplyFails
  <2>1. Here \in Portals /\ run.action \in Actions
    BY <1>6, HereIsPortal DEF ApplyFails, PhaseInv, Applying
  <2>2. PortalsTyped'
    BY <1>6, <2>1, FormChangesOne DEF ApplyFails, PortalsTyped, OnPortals
  <2>3. RowsTyped' /\ worker' \in Worker /\ ghost' \in Ghost
    BY <1>6, FailStepTyped, FaultIsTyped DEF ApplyFails
  <2> QED BY <1>6, <2>2, <2>3 DEF ApplyFails, PastTyped, OnPortals
<1> QED BY <1>1, <1>2, <1>3, <1>4, <1>5, <1>6

LEMMA TypeCompensating ==
  ASSUME TypeInv, PhaseInv, CompensateInspect \/ CompensateRestore \/ CompensationFails
  PROVE  TypeInv'
<1> USE DEF TypeInv
<1>1. Candidates # {}
  BY DEF PhaseInv, CompensateInspect, CompensateRestore, CompensationFails
<1>2. Current \in Portals /\ RestoreForm(Current) \in Actions
  BY <1>1, CurrentIsPortal DEF RestoreForm, Actions
<1>3. CASE CompensateInspect
  <2>1. CASE worker' = [worker EXCEPT !.pc = "restore"] /\ UNCHANGED steps
    BY <1>3, <2>1 DEF CompensateInspect, Worker, RowsTyped, PortalsTyped, PastTyped, OnPortals
  <2>2. CASE \E s \in StepStatuses : Done(s)
    <3>1. RowsTyped' /\ worker' \in Worker
      BY <1>1, <2>2, DoneTyped
    <3> QED BY <1>3, <3>1 DEF CompensateInspect, PortalsTyped, PastTyped, OnPortals
  <2> QED BY <1>3, <2>1, <2>2 DEF CompensateInspect, StepStatuses
<1>4. CASE CompensateRestore
  <2>1. RowsTyped' /\ worker' \in Worker
    <3>1. \E s \in StepStatuses : Done(s)
      BY <1>4 DEF CompensateRestore, StepStatuses
    <3> QED BY <1>1, <3>1, DoneTyped
  <2>2. PortalsTyped'
    BY <1>2, <1>4, FormChangesOne DEF CompensateRestore, PortalsTyped, OnPortals
  <2> QED BY <1>4, <2>1, <2>2 DEF CompensateRestore, PastTyped, OnPortals
<1>5. CASE CompensationFails
  <2>1. RowsTyped' /\ worker' \in Worker /\ ghost' \in Ghost
    BY <1>1, <1>5, DoneTyped, FaultIsTyped DEF CompensationFails, StepStatuses
  <2>2. PortalsTyped'
    BY <1>2, <1>5, FormChangesOne DEF CompensationFails, PortalsTyped, OnPortals
  <2> QED BY <1>5, <2>1, <2>2 DEF CompensationFails, PastTyped, OnPortals
<1> QED BY <1>3, <1>4, <1>5

LEMMA TypeEnding ==
  ASSUME TypeInv, PhaseInv,
         FinishSucceeded \/ FinishCompensated \/ AbortExecution \/ Crash \/ Quarantine
  PROVE  TypeInv'
<1> USE DEF TypeInv
<1>1. CASE FinishSucceeded
  <2>1. run' \in [action : Actions, status : RunStatuses, resumes : 0..MaxResumes]
    BY <1>1 DEF FinishSucceeded, RunStatuses
  <2>2. \A p \in Portals : steps[p].before \in Kept(p)
    BY DEF RowsTyped, RowOK
  <2>3. client' \in [status : ClientStatuses, snapshot : Kept("tasks")]
    BY <1>1, <2>2 DEF FinishSucceeded, ClientStatuses, Kept, Portals
  <2>4. PastTyped'
    <3>1. CASE past' = [past EXCEPT !.block = [p \in Portals |-> steps[p].before]]
      <4>1. past' = [ops |-> past.ops, block |-> [p \in Portals |-> steps[p].before],
                     base |-> past.base]
        BY <3>1 DEF PastTyped
      <4> QED BY <2>2, <4>1 DEF PastTyped, OnPortals
    <3>2. CASE UNCHANGED past
      BY <3>2 DEF PastTyped, OnPortals
    <3> QED BY <1>1, <3>1, <3>2 DEF FinishSucceeded
  <2> QED BY <1>1, <2>1, <2>3, <2>4, RestingTyped DEF FinishSucceeded, RowsTyped, PortalsTyped, OnPortals
<1>2. CASE FinishCompensated
  <2>1. PICK m \in BOOLEAN, c \in BOOLEAN : FinishFailed(m, c)
    BY <1>2 DEF FinishCompensated, Worker
  <2>2. ghost' \in Ghost
    <3>1. PICK b : ghost' = [ghost EXCEPT !.polluted = ghost.polluted \/ b] /\ b \in BOOLEAN
      BY <1>2 DEF FinishCompensated
    <3> QED BY <3>1 DEF Ghost
  <2> QED BY <1>2, <2>1, <2>2, FinishFailedTyped DEF FinishCompensated, RowsTyped, PortalsTyped,
       PastTyped, OnPortals
<1>3. CASE AbortExecution
  <2>1. HasResidualState \in BOOLEAN
    BY DEF HasResidualState
  <2>2. ghost' \in Ghost
    <3>1. PICK b : /\ ghost' = [ghost EXCEPT !.faults = ghost.faults + 1, !.faulted = TRUE,
                                             !.aborted = TRUE, !.polluted = ghost.polluted \/ b]
                   /\ b \in BOOLEAN
      BY <1>3 DEF AbortExecution
    <3>2. ghost.faults + 1 \in 0..MaxFaults
      BY <1>3, ConstantsAssumption DEF AbortExecution, Ghost
    <3> QED BY <3>1, <3>2 DEF Ghost
  <2> QED BY <1>3, <2>1, <2>2, FinishFailedTyped DEF AbortExecution, RowsTyped, PortalsTyped,
       PastTyped, OnPortals
<1>4. CASE Crash
  <2>1. worker' \in Worker /\ ghost' \in Ghost
    BY <1>4, FaultIsTyped DEF Crash, Worker
  <2>2. PortalsTyped'
    <3>1. CASE UNCHANGED <<portal, owner>>
      BY <3>1 DEF PortalsTyped, OnPortals
    <3>2. CASE worker.pc = "apply" /\ SubmitForm(Here, run.action)
      BY <3>2, HereIsPortal, FormChangesOne DEF PhaseInv, Applying
    <3>3. CASE worker.pc = "restore" /\ SubmitForm(Current, RestoreForm(Current))
      BY <3>3, CurrentIsPortal, FormChangesOne DEF PhaseInv, RestoreForm, Actions
    <3> QED BY <1>4, <3>1, <3>2, <3>3 DEF Crash
  <2> QED BY <1>4, <2>1, <2>2 DEF Crash, RowsTyped, PastTyped, OnPortals
<1>5. CASE Quarantine
  <2>1. /\ run' \in [action : Actions, status : RunStatuses, resumes : 0..MaxResumes]
        /\ client' \in [status : ClientStatuses, snapshot : Kept("tasks")]
        /\ worker' \in Worker
    BY <1>5, RestingTyped DEF Quarantine, RunStatuses, ClientStatuses
  <2> QED BY <1>5, <2>1, QuarantineTyped DEF Quarantine, PortalsTyped, PastTyped, OnPortals
<1> QED BY <1>1, <1>2, <1>3, <1>4, <1>5

LEMMA TypeStep == ASSUME TypeInv, PhaseInv, [Next]_vars PROVE TypeInv'
<1>1. CASE UNCHANGED vars
  BY <1>1 DEF vars, TypeInv, RowsTyped, PortalsTyped, PastTyped, OnPortals
<1> QED BY <1>1, TypeRequests, TypeApplying, TypeCompensating, TypeEnding DEF Next

-----------------------------------------------------------------------------
(* Where the execution is.                                                 *)

LEMMA LooksAlong ==
  ASSUME TypeInv, LooksKept, run'.action = run.action
  PROVE  \A n \in 1..3 : /\ At(n) \in Portals /\ At(n)' = At(n)
                         /\ steps'[At(n)].before = steps[At(n)].before
                         /\ steps'[At(n)].desired = steps[At(n)].desired
<1>1. \A n \in 1..3 : At(n) \in Portals
  BY OrderCovers DEF At, TypeInv
<1> QED BY <1>1 DEF At, LooksKept

LEMMA PhaseRequests ==
  ASSUME TypeInv, PhaseInv,
         Create("BLOCK") \/ Create("UNBLOCK") \/ Resume \/ Undelivered \/ ByHand
  PROVE  PhaseInv'
<1>1. CASE ByHand
  <2>1. Candidates' = Candidates /\ Here' = Here /\ \A n \in 1..3 : At(n)' = At(n)
    BY <1>1 DEF ByHand, Candidates, Here, At
  <2> QED BY <1>1, <2>1 DEF ByHand, PhaseInv
<1>2. CASE Create("BLOCK") \/ Create("UNBLOCK") \/ Resume \/ Undelivered
  <2>1. worker.pc = "none" /\ worker' = worker
    BY <1>2 DEF PhaseInv, Create, Active, Resume, Undelivered
  <2>2. run'.status # "RUNNING"
    <3>1. CASE Create("BLOCK") \/ Create("UNBLOCK")
      BY <3>1 DEF Create
    <3>3. CASE Resume
      BY <3>3, ResumeEffect
    <3>2. CASE Undelivered
      BY <3>2 DEF Undelivered, TypeInv
    <3> QED BY <1>2, <3>1, <3>2, <3>3
  <2> QED BY <2>1, <2>2 DEF PhaseInv, Applying, Compensating
<1> QED BY <1>1, <1>2

LEMMA PhaseApplying ==
  ASSUME TypeInv, PhaseInv,
         BeginExecution \/ StartStep \/ Inspect \/ InspectFails \/ Apply \/ ApplyFails
  PROVE  PhaseInv'
<1>1. CASE BeginExecution
  <2>1. worker'.pc = "step" /\ worker'.at = 1 /\ run'.status = "RUNNING"
    BY <1>1 DEF BeginExecution, Resting, TypeInv
  <2> QED BY <2>1 DEF PhaseInv, Applying, Compensating
<1>2. CASE StartStep
  <2>1. /\ worker'.pc = "inspect" /\ worker'.at = worker.at /\ worker.at \in 1..3
        /\ run.status = "RUNNING" /\ run' = run
    BY <1>2, HereIsPortal DEF StartStep, Applying, TypeInv, Worker
  <2>2. LooksKept
    BY <1>2, HereIsPortal, StatusChanges DEF StartStep, Applying, TypeInv, StepStatuses
  <2> QED BY <1>2, <2>1, <2>2, LooksAlong DEF PhaseInv, StartStep, Applying, Compensating
<1>3. CASE Inspect
  <2>1. /\ worker.pc = "inspect" /\ run' = run /\ run.status = "RUNNING"
        /\ worker.at \in 1..3 /\ Here = At(worker.at) /\ Here \in Portals
    BY <1>3, HereIsPortal DEF Inspect, PhaseInv, Applying
  <2>2. \A n \in 1..3 : n < worker.at => steps[At(n)].before # None
    BY <2>1 DEF PhaseInv, Applying
  <2>3. CASE worker'.pc = "compensate" /\ worker'.at = worker.at /\ worker'.failed = worker.at
    BY <2>1, <2>3 DEF PhaseInv, Applying, Compensating
  <2>4. CASE ~Refused(portal[Here]) /\ Looked(portal[Here])
    <3>1. steps'[Here].before # None
      <4>1. portal[Here] # None
        BY <2>1, StatesAreLooks DEF TypeInv, PortalsTyped
      <4> QED BY <2>1, <2>4, <4>1 DEF Looked, FirstLook, LooksKept
    <3>2. \A n \in 1..3 : At(n) \in Portals /\ At(n)' = At(n)
      BY <2>1, OrderCovers DEF At, TypeInv
    <3>3. \A n \in 1..3 : n <= worker.at => steps'[At(n)].before # None
      <4> SUFFICES ASSUME NEW n \in 1..3, n <= worker.at PROVE steps'[At(n)].before # None
        OBVIOUS
      <4>1. CASE n = worker.at
        BY <2>1, <3>1, <4>1
      <4>2. CASE n < worker.at
        <5>1. At(n) # Here
          BY <2>1, <4>2, OrderCovers DEF At, TypeInv
        <5> QED BY <1>3, <2>2, <3>2, <4>2, <5>1, InspectEnds
      <4> QED BY <2>1, <4>1, <4>2
    <3>5. CASE worker'.pc = "step" /\ worker'.at = worker.at + 1
      BY <2>1, <3>2, <3>3, <3>5 DEF PhaseInv, Applying, Compensating
    <3>6. CASE worker'.pc = "apply" /\ worker'.at = worker.at
      <4>1. Here' = At(worker.at)
        BY <2>1, <3>6 DEF Here, At
      <4> QED BY <2>1, <3>2, <3>3, <3>6, <4>1 DEF PhaseInv, Applying, Compensating
    <3> QED BY <1>3, <2>1, <3>5, <3>6, <2>4, InspectEnds
  <2> QED BY <1>3, <2>3, <2>4, InspectEnds
<1>4. CASE InspectFails \/ (ApplyFails /\ TRUE) \/ (Apply /\ FailStep(steps, FALSE))
  <2>1. worker.pc \in {"inspect", "apply"} /\ FailStep(steps, FALSE) /\ run' = run
    BY <1>4 DEF InspectFails, ApplyFails, Apply
  <2>2. worker.at \in 1..3 /\ run.status = "RUNNING"
    BY <2>1, HereIsPortal DEF PhaseInv, Applying
  <2>3. worker'.pc = "compensate" /\ worker'.at = worker.at /\ worker'.failed = worker.at
    BY <2>1, FailStepTyped
  <2> QED BY <2>1, <2>2, <2>3 DEF PhaseInv, Applying, Compensating
<1>5. CASE Apply /\ Advance(steps, "APPLIED")
  <2>1. /\ worker.pc = "apply" /\ run' = run /\ run.status = "RUNNING"
        /\ worker.at \in 1..3 /\ Here = At(worker.at) /\ Here \in Portals
    BY <1>5, HereIsPortal DEF Apply, PhaseInv, Applying
  <2>2. \A n \in 1..3 : n <= worker.at => steps[At(n)].before # None
    BY <2>1 DEF PhaseInv, Applying
  <2>3. LooksKept
    BY <1>5, <2>1, StatusChanges DEF Advance, TypeInv, StepStatuses
  <2>4. worker'.pc = "step" /\ worker'.at = worker.at + 1
    BY <1>5, <2>1, AdvanceTyped
  <2>5. \A n \in 1..3 : n < worker'.at => steps'[At(n)'].before # None
    <3> SUFFICES ASSUME NEW n \in 1..3, n < worker'.at PROVE steps'[At(n)'].before # None
      OBVIOUS
    <3>1. n <= worker.at
      BY <2>1, <2>4
    <3> QED BY <2>1, <2>2, <2>3, <3>1, LooksAlong
  <2> QED BY <2>1, <2>4, <2>5 DEF PhaseInv, Applying, Compensating
<1> QED BY <1>1, <1>2, <1>3, <1>4, <1>5 DEF Apply

LEMMA PhaseCompensating ==
  ASSUME TypeInv, PhaseInv, CompensateInspect \/ CompensateRestore \/ CompensationFails
  PROVE  PhaseInv'
<1>1. /\ worker.pc \in Compensating /\ Candidates # {} /\ run' = run /\ run.status = "RUNNING"
      /\ worker.failed > 0 /\ worker.at <= worker.failed
  BY DEF PhaseInv, CompensateInspect, CompensateRestore, CompensationFails, Compensating
<1>2. CASE \E s \in StepStatuses : Done(s)
  <2>1. /\ worker'.pc = "compensate" /\ worker'.at = Last(Candidates) - 1
        /\ worker'.failed = worker.failed
    BY <1>1, <1>2, DoneTyped
  <2>2. Last(Candidates) \in 1..3 /\ Last(Candidates) <= worker.failed /\ worker.failed \in 0..3
    BY <1>1, CurrentIsPortal DEF TypeInv, Worker
  <2> QED BY <1>1, <2>1, <2>2 DEF PhaseInv, Applying, Compensating
<1>3. CASE worker' = [worker EXCEPT !.pc = "restore"] /\ UNCHANGED steps
  <2>1. worker'.pc = "restore" /\ worker'.at = worker.at /\ worker'.failed = worker.failed
    BY <1>3 DEF TypeInv, Worker
  <2>2. Candidates' = Candidates
    BY <1>1, <1>3, <2>1 DEF Candidates
  <2> QED BY <1>1, <2>1, <2>2 DEF PhaseInv, Applying, Compensating
<1> QED BY <1>2, <1>3 DEF CompensateInspect, CompensateRestore, CompensationFails, StepStatuses

LEMMA PhaseEnding ==
  ASSUME TypeInv, PhaseInv,
         FinishSucceeded \/ FinishCompensated \/ AbortExecution \/ Crash \/ Quarantine
  PROVE  PhaseInv'
<1>1. CASE Crash
  <2>1. worker'.pc = "dead" /\ run' = run /\ run.status = "RUNNING"
    BY <1>1 DEF Crash, PhaseInv, TypeInv, Worker
  <2> QED BY <2>1 DEF PhaseInv, Applying, Compensating
<1>2. CASE FinishSucceeded \/ FinishCompensated \/ AbortExecution \/ Quarantine
  <2>1. worker'.pc = "none" /\ run'.status # "RUNNING"
    <3>1. CASE FinishSucceeded \/ Quarantine
      BY <3>1 DEF FinishSucceeded, Quarantine, Resting, TypeInv
    <3>2. CASE FinishCompensated \/ AbortExecution
      <4>1. PICK m \in BOOLEAN, c \in BOOLEAN : FinishFailed(m, c)
        BY <3>2 DEF FinishCompensated, AbortExecution, HasResidualState, TypeInv, Worker
      <4> QED BY <4>1, FinishFailedTyped
    <3> QED BY <1>2, <3>1, <3>2
  <2> QED BY <2>1 DEF PhaseInv, Applying, Compensating
<1> QED BY <1>1, <1>2

LEMMA PhaseStep == ASSUME TypeInv, PhaseInv, [Next]_vars PROVE PhaseInv'
<1>1. CASE UNCHANGED vars
  <2>1. Candidates' = Candidates /\ Here' = Here /\ \A n \in 1..3 : At(n)' = At(n)
    BY <1>1 DEF vars, Candidates, Here, At
  <2> QED BY <1>1, <2>1 DEF vars, PhaseInv
<1> QED BY <1>1, PhaseRequests, PhaseApplying, PhaseCompensating, PhaseEnding DEF Next

LEMMA TypeImplied == TypeInv => TypeOK
<1> SUFFICES ASSUME TypeInv PROVE TypeOK
  OBVIOUS
<1>1. ASSUME NEW p \in Portals
      PROVE  /\ steps[p].status \in StepStatuses
             /\ {steps[p].before, steps[p].desired} \subseteq State(p) \cup {None}
             /\ steps[p].before = None <=> steps[p].desired = None
  <2>1. RowOK(p, steps[p])
    BY DEF TypeInv, RowsTyped
  <2> QED BY <2>1 DEF RowOK, Kept
<1> QED BY <1>1 DEF TypeInv, PortalsTyped, PastTyped, Kept, Actions, Worker, Ghost, TypeOK

LEMMA TypeInit == Init => TypeInv /\ PhaseInv
<1> SUFFICES ASSUME Init PROVE TypeInv /\ PhaseInv
  OBVIOUS
<1>1. RowsTyped
  BY DEF Init, RowsTyped, RowOK, OnPortals, FreshStep, Kept, StepStatuses
<1>2. PortalsTyped
  BY DEF Init, PortalsTyped, OnPortals
<1>3. past = [ops |-> 0, block |-> [p \in Portals |-> None], base |-> portal]
  BY DEF Init
<1>4. PastTyped
  BY <1>2, <1>3, ConstantsAssumption DEF PortalsTyped, PastTyped, OnPortals, Kept
<1>5. worker = Resting /\ worker.pc = "none" /\ run.status = "NONE"
  BY DEF Init, Resting
<1>6. /\ client \in [status : ClientStatuses, snapshot : Kept("tasks")]
      /\ run \in [action : Actions, status : RunStatuses, resumes : 0..MaxResumes]
      /\ ghost \in Ghost
  BY ConstantsAssumption DEF Init, ClientStatuses, Kept, Actions, RunStatuses, Ghost
<1>7. PhaseInv
  BY <1>5 DEF PhaseInv, Applying, Compensating
<1> QED BY <1>1, <1>2, <1>4, <1>5, <1>6, <1>7, RestingTyped DEF TypeInv

LEMMA TypeAlways == Spec => [](TypeInv /\ PhaseInv)
<1>1. TypeInv /\ PhaseInv /\ [Next]_vars => (TypeInv /\ PhaseInv)'
  BY TypeStep, PhaseStep
<1> QED BY <1>1, TypeInit, PTL DEF Spec

-----------------------------------------------------------------------------
(* The client mirrors its run.                                             *)

LEMMA MirrorInit == Init => MirrorInv
BY DEF Init, MirrorInv, ClientMirrorsRun, Active

LEMMA MirrorKept ==
  ASSUME MirrorInv, UNCHANGED <<client, run, past>>
  PROVE  MirrorInv'
BY DEF MirrorInv, ClientMirrorsRun

LEMMA MirrorFailed ==
  ASSUME TypeInv, MirrorInv, run.status = "RUNNING",
         NEW m \in BOOLEAN, NEW c \in BOOLEAN, FinishFailed(m, c),
         UNCHANGED past
  PROVE  MirrorInv'
<1>1. /\ run'.action = run.action /\ run.action \in Actions
      /\ client'.snapshot = client.snapshot
      /\ run'.status = IF c /\ ~m THEN "PARTIALLY_FAILED" ELSE "FAILED"
      /\ client'.status = IF m THEN "UNKNOWN"
                          ELSE IF c THEN "PARTIAL"
                          ELSE IF run.action = "BLOCK" THEN "ACTIVE" ELSE "BLOCKED"
  BY FinishFailedTyped DEF TypeInv
<1>2. run.action = "UNBLOCK" =>
        client.snapshot # None /\ \A p \in Portals : past.block[p] # None
  BY DEF MirrorInv
<1>3. CASE m
  BY <1>1, <1>2, <1>3 DEF MirrorInv, ClientMirrorsRun, Active, Actions
<1>4. CASE ~m /\ c
  BY <1>1, <1>2, <1>4 DEF MirrorInv, ClientMirrorsRun, Active, Actions
<1>5. CASE ~m /\ ~c
  BY <1>1, <1>2, <1>5 DEF MirrorInv, ClientMirrorsRun, Active, Actions
<1> QED BY <1>3, <1>4, <1>5

LEMMA MirrorStep == ASSUME TypeInv, PhaseInv, MirrorInv, [Next]_vars PROVE MirrorInv'
<1>0. /\ run \in [action : Actions, status : RunStatuses, resumes : 0..MaxResumes]
      /\ client \in [status : ClientStatuses, snapshot : Kept("tasks")]
      /\ run.resumes \in Nat
  BY ConstantsAssumption DEF TypeInv
<1>1. ASSUME NEW a \in Actions, Create(a) PROVE MirrorInv'
  <2>1. /\ run'.action = a /\ run'.status = "QUEUED" /\ run'.resumes = 0 /\ client' = client
        /\ past'.block = past.block
    BY <1>1 DEF Create, TypeInv, PastTyped
  <2>2. /\ client.status \in {"ACTIVE", "BLOCKED"}
        /\ a = "BLOCK" => client.status = "ACTIVE"
        /\ a = "UNBLOCK" => client.status = "BLOCKED" /\ client.snapshot # None
    BY <1>0, <1>1 DEF Create, ClientStatuses
  <2> QED BY <2>1, <2>2 DEF MirrorInv, ClientMirrorsRun, Active
<1>2. CASE Resume
  <2>1. client' = client /\ past' = past /\ run.status = "PARTIALLY_FAILED"
    BY <1>2 DEF Resume
  <2> QED BY <1>2, <2>1, ResumeEffect DEF MirrorInv, ClientMirrorsRun, Active
<1>3. CASE Undelivered
  <2>1. run.status = "QUEUED" /\ past' = past
    BY <1>3 DEF Undelivered
  <2>2. CASE run.resumes > 0
    <3>1. /\ run'.status = "PARTIALLY_FAILED" /\ run'.action = run.action
          /\ client'.status = "PARTIAL" /\ client'.snapshot = client.snapshot
      BY <1>0, <1>3, <2>2 DEF Undelivered
    <3> QED BY <1>0, <2>1, <3>1 DEF MirrorInv, ClientMirrorsRun, Actions
  <2>3. CASE ~(run.resumes > 0)
    <3>1. run'.status = "FAILED" /\ run'.action = run.action /\ client' = client
      BY <1>0, <1>3, <2>3 DEF Undelivered
    <3> QED BY <2>1, <2>3, <3>1 DEF MirrorInv, ClientMirrorsRun, Active
  <2> QED BY <2>2, <2>3
<1>4. CASE BeginExecution
  <2>1. /\ run.status = "QUEUED" /\ client' = client /\ past' = past
        /\ run'.status = "RUNNING" /\ run'.action = run.action /\ run'.resumes = run.resumes
    BY <1>0, <1>4 DEF BeginExecution
  <2> QED BY <2>1 DEF MirrorInv, ClientMirrorsRun, Active
<1>5. CASE FinishSucceeded
  <2>1. run'.status = "SUCCEEDED" /\ run'.action = run.action
    BY <1>0, <1>5 DEF FinishSucceeded
  <2>2. CASE run.action = "BLOCK"
    <3>1. \A n \in 1..3 : steps[At(n)].before # None
      BY <1>5 DEF FinishSucceeded, PhaseInv, Applying
    <3>2. \A p \in Portals : steps[p].before # None
      BY <1>0, <3>1, OrderCovers DEF At
    <3>3. /\ client'.status = "BLOCKED" /\ client'.snapshot = steps["tasks"].before
          /\ \A p \in Portals : past'.block[p] = steps[p].before
      BY <1>5, <2>2 DEF FinishSucceeded, TypeInv, PastTyped
    <3> QED BY <2>1, <2>2, <3>2, <3>3 DEF MirrorInv, ClientMirrorsRun, Active, Portals
  <2>3. CASE run.action # "BLOCK"
    <3>1. client'.status = "ACTIVE"
      BY <1>5, <2>3 DEF FinishSucceeded
    <3> QED BY <2>1, <2>3, <3>1 DEF MirrorInv, ClientMirrorsRun, Active
  <2> QED BY <2>2, <2>3
<1>6. CASE FinishCompensated \/ AbortExecution
  <2>1. PICK m \in BOOLEAN, c \in BOOLEAN : FinishFailed(m, c)
    BY <1>6 DEF FinishCompensated, AbortExecution, HasResidualState, TypeInv, Worker
  <2>2. run.status = "RUNNING"
    BY <1>6 DEF FinishCompensated, AbortExecution, PhaseInv
  <2> QED BY <1>6, <2>1, <2>2, MirrorFailed DEF FinishCompensated, AbortExecution
<1>7. CASE Quarantine
  <2>1. /\ run'.status = "PARTIALLY_FAILED" /\ run'.action = run.action /\ past' = past
        /\ client'.status = "PARTIAL" /\ client'.snapshot = client.snapshot
        /\ run.status = "RUNNING"
    BY <1>0, <1>7 DEF Quarantine, PhaseInv
  <2> QED BY <1>0, <2>1 DEF MirrorInv, ClientMirrorsRun, Actions
<1>8. CASE UNCHANGED <<client, run, past>>
  BY <1>8, MirrorKept
<1> QED BY <1>1, <1>2, <1>3, <1>4, <1>5, <1>6, <1>7, <1>8
     DEF Next, vars, Actions, ByHand, StartStep, Inspect, InspectFails, Apply, ApplyFails,
         CompensateInspect, CompensateRestore, CompensationFails, Crash

-----------------------------------------------------------------------------
(* A first execution that fails has put everything back.                   *)

LEMMA RollbackInit == Init => RollbackInv
BY DEF Init, RollbackInv, Untouched, RollbackComplete, FreshStep, Resting, Compensating

(* Only looks, portals and the place of the worker matter.                   *)
LEMMA RollbackRequests ==
  ASSUME TypeInv, PhaseInv, MirrorInv, RollbackInv,
         Create("BLOCK") \/ Create("UNBLOCK") \/ Resume \/ Undelivered \/ ByHand
  PROVE  RollbackInv'
<1>0. /\ run \in [action : Actions, status : RunStatuses, resumes : 0..MaxResumes]
      /\ ghost \in Ghost /\ run.resumes \in Nat
  BY ConstantsAssumption DEF TypeInv
<1>1. CASE ByHand
  <2>1. ghost'.byHand /\ UNCHANGED <<client, run, steps, worker>>
    BY <1>0, <1>1 DEF ByHand, Ghost
  <2>2. \A n \in 1..3 : At(n)' = At(n)
    BY <2>1 DEF At
  <2> QED BY <2>1, <2>2 DEF RollbackInv, Untouched, RollbackComplete
<1>2. CASE Create("BLOCK") \/ Create("UNBLOCK") \/ Resume \/ Undelivered
  <2>1. worker.pc = "none" /\ worker' = worker
    BY <1>2 DEF PhaseInv, Create, Active, Resume, Undelivered
  <2>2. Untouched' /\ RollbackComplete'
    <3>1. CASE Create("BLOCK") \/ Create("UNBLOCK")
      <4>1. run'.status = "QUEUED" /\ \A p \in Portals : steps'[p].before = None
        BY <3>1, FreshRows DEF Create
      <4> QED BY <2>1, <4>1 DEF Untouched, RollbackComplete, Compensating
    <3>2. CASE Resume
      BY <2>1, <3>2, ResumeEffect DEF Untouched, RollbackComplete
    <3>3. CASE Undelivered /\ run.resumes > 0
      <4>1. run'.resumes = run.resumes
        BY <1>0, <3>3 DEF Undelivered
      <4> QED BY <1>0, <3>3, <4>1 DEF Untouched, RollbackComplete
    <3>4. CASE Undelivered /\ ~(run.resumes > 0)
      <4>1. /\ run'.status = "FAILED" /\ run.resumes = 0 /\ run.status = "QUEUED"
            /\ UNCHANGED <<steps, portal>>
        BY <1>0, <3>4 DEF Undelivered
      <4>2. \A p \in Portals : steps'[p].before = None
        BY <4>1 DEF RollbackInv, Untouched
      <4> QED BY <2>1, <4>1, <4>2 DEF Untouched, RollbackComplete, Residue, Compensating
    <3> QED BY <1>2, <3>1, <3>2, <3>3, <3>4
  <2> QED BY <2>1, <2>2 DEF RollbackInv, Compensating
<1> QED BY <1>1, <1>2

(* Failing at a position leaves the whole compensation to do.                *)
LEMMA RollbackFails ==
  ASSUME TypeInv, PhaseInv, RollbackInv, UNCHANGED run, LooksKept,
         worker.pc \in {"inspect", "apply"}, worker'.pc = "compensate",
         worker'.at = worker.at, worker'.failed = worker.at
  PROVE  RollbackInv'
<1>1. worker.at \in 1..3 /\ run.status = "RUNNING"
  BY HereIsPortal DEF PhaseInv, Applying
<1>2. run.resumes = 0 => \A n \in 1..3 : n > worker.at => steps[At(n)].before = None
  BY <1>1 DEF RollbackInv, Untouched
<1>3. Untouched'
  BY <1>1, <1>2, LooksAlong DEF Untouched
<1>4. RollbackComplete'
  BY <1>1 DEF RollbackComplete
<1>5. \A n \in 1..3 : ~(worker'.at < n /\ n <= worker'.failed)
  BY <1>1
<1> QED BY <1>3, <1>4, <1>5 DEF RollbackInv

LEMMA RollbackApplying ==
  ASSUME TypeInv, PhaseInv, RollbackInv,
         BeginExecution \/ StartStep \/ Inspect \/ InspectFails \/ Apply \/ ApplyFails
  PROVE  RollbackInv'
<1>1. CASE BeginExecution
  <2>1. /\ worker'.pc = "step" /\ worker'.at = 1 /\ run'.status = "RUNNING"
        /\ run'.resumes = run.resumes /\ run'.action = run.action /\ run.status = "QUEUED"
        /\ UNCHANGED steps
    BY <1>1 DEF BeginExecution, Resting, TypeInv
  <2>2. \A n \in 1..3 : At(n) \in Portals /\ At(n)' = At(n)
    BY <2>1, OrderCovers DEF At, TypeInv
  <2> QED BY <2>1, <2>2 DEF RollbackInv, Untouched, RollbackComplete, Compensating
<1>2. CASE StartStep
  <2>1. /\ worker'.pc = "inspect" /\ worker'.at = worker.at /\ run.status = "RUNNING"
        /\ run' = run /\ worker.pc = "step"
    BY <1>2, HereIsPortal DEF StartStep, Applying, TypeInv, Worker
  <2>2. LooksKept
    BY <1>2, HereIsPortal, StatusChanges DEF StartStep, Applying, TypeInv, StepStatuses
  <2> QED BY <2>1, <2>2, LooksAlong DEF RollbackInv, Untouched, RollbackComplete, Compensating
<1>3. CASE Inspect
  <2>1. /\ worker.pc = "inspect" /\ run' = run /\ run.status = "RUNNING"
        /\ worker.at \in 1..3 /\ Here = At(worker.at)
    BY <1>3, HereIsPortal DEF Inspect, PhaseInv, Applying
  <2>2. CASE LooksKept /\ worker'.pc = "compensate" /\ worker'.at = worker.at /\ worker'.failed = worker.at
    BY <2>1, <2>2, RollbackFails
  <2>3. CASE \/ worker'.pc = "step" /\ worker'.at = worker.at + 1
             \/ worker'.pc = "apply" /\ worker'.at = worker.at
    <3>1. \A n \in 1..3 : n > worker.at =>
            At(n)' = At(n) /\ At(n) # Here /\ At(n) \in Portals
      BY <2>1, OrderCovers DEF At, TypeInv
    <3>2. \A n \in 1..3 : n > worker.at => steps'[At(n)'].before = steps[At(n)].before
      BY <1>3, <3>1, InspectEnds
    <3>3. run.resumes = 0 => \A n \in 1..3 : n > worker.at => steps'[At(n)'].before = None
      BY <2>1, <3>2 DEF RollbackInv, Untouched
    <3>4. Untouched'
      BY <2>1, <2>3, <3>3 DEF Untouched, Compensating
    <3> QED BY <2>1, <2>3, <3>4 DEF RollbackInv, RollbackComplete, Compensating
  <2> QED BY <1>3, <2>2, <2>3, InspectEnds
<1>4. CASE InspectFails \/ ApplyFails \/ (Apply /\ FailStep(steps, FALSE))
  <2>1. worker.pc \in {"inspect", "apply"} /\ FailStep(steps, FALSE) /\ run' = run
    BY <1>4 DEF InspectFails, ApplyFails, Apply
  <2> QED BY <2>1, FailStepTyped, RollbackFails
<1>5. CASE Apply /\ Advance(steps, "APPLIED")
  <2>1. /\ worker.pc = "apply" /\ run' = run /\ run.status = "RUNNING"
        /\ worker.at \in 1..3 /\ Here \in Portals
    BY <1>5, HereIsPortal DEF Apply, PhaseInv, Applying
  <2>2. LooksKept
    BY <1>5, <2>1, StatusChanges DEF Advance, TypeInv, StepStatuses
  <2>3. worker'.pc = "step" /\ worker'.at = worker.at + 1
    BY <1>5, <2>1, AdvanceTyped
  <2>4. Untouched'
    BY <2>1, <2>2, <2>3, LooksAlong DEF RollbackInv, Untouched, Compensating
  <2> QED BY <2>1, <2>3, <2>4 DEF RollbackInv, RollbackComplete, Compensating
<1> QED BY <1>1, <1>2, <1>3, <1>4, <1>5 DEF Apply

(* One portal more has been looked at: it is back, or the compensation says  *)
(* that it failed.                                                           *)
LEMMA RollbackOne ==
  ASSUME TypeInv, PhaseInv, RollbackInv, worker.pc \in Compensating, Candidates # {},
         NEW s \in StepStatuses, Done(s), UNCHANGED run, ghost'.byHand = ghost.byHand,
         \A q \in Portals \ {Current} : portal'[q] = portal[q],
         s # "COMPENSATION_FAILED" => portal'[Current] = steps[Current].before
  PROVE  RollbackInv'
<1>1. /\ LooksKept /\ worker'.pc = "compensate" /\ worker'.at = Last(Candidates) - 1
      /\ worker'.failed = worker.failed /\ worker'.comp = (worker.comp \/ s = "COMPENSATION_FAILED")
  BY DoneTyped
<1>2. run.status = "RUNNING"
  BY DEF PhaseInv, Compensating
<1>3. Last(Candidates) \in 1..3 /\ worker.at \in 0..4 /\ worker.failed \in 0..3
  BY CurrentIsPortal DEF TypeInv, Worker
<1>4. Untouched'
  BY <1>1, <1>2, LooksAlong DEF RollbackInv, Untouched, Compensating
<1>5. ASSUME ~worker'.comp, ~ghost'.byHand, NEW n \in 1..3, worker'.at < n, n <= worker'.failed
      PROVE  Back(At(n))'
  <2>1. ~worker.comp /\ s # "COMPENSATION_FAILED" /\ ~ghost.byHand /\ n <= worker.failed
    BY <1>1, <1>5 DEF TypeInv, Worker
  <2>2. At(n) \in Portals /\ At(n)' = At(n) /\ steps'[At(n)].before = steps[At(n)].before
    BY <1>1, LooksAlong
  <2>3. CASE n = Last(Candidates)
    <3>1. portal'[At(n)] = steps[At(n)].before
      BY <2>1, <2>3, CurrentIsPortal
    <3> QED BY <2>2, <3>1 DEF Back
  <2>4. CASE n # Last(Candidates)
    <3>1. Last(Candidates) < n
      BY <1>1, <1>3, <1>5, <2>4
    <3>2. At(n) # Current
      BY <1>3, <2>4, CurrentIsPortal, OrderCovers DEF At
    <3>3. Back(At(n))
      <4>1. CASE n <= worker.at
        BY <2>1, <3>1, <4>1, CurrentIsPortal DEF Back
      <4>2. CASE worker.at < n
        BY <2>1, <4>2 DEF RollbackInv
      <4> QED BY <1>3, <4>1, <4>2
    <3>4. portal'[At(n)] = portal[At(n)]
      BY <2>2, <3>2
    <3> QED BY <2>2, <3>3, <3>4 DEF Back
  <2> QED BY <2>3, <2>4
<1>6. RollbackComplete'
  BY <1>2 DEF RollbackComplete
<1> QED BY <1>4, <1>5, <1>6 DEF RollbackInv

LEMMA RollbackCompensating ==
  ASSUME TypeInv, PhaseInv, RollbackInv, CompensateInspect \/ CompensateRestore \/ CompensationFails
  PROVE  RollbackInv'
<1>1. worker.pc \in Compensating /\ Candidates # {} /\ run' = run /\ run.status = "RUNNING"
  BY DEF PhaseInv, CompensateInspect, CompensateRestore, CompensationFails, Compensating
<1>2. Current \in Portals /\ RestoreForm(Current) \in Actions
  BY <1>1, CurrentIsPortal DEF RestoreForm, Actions
<1>3. CASE CompensateInspect
  <2>1. CASE worker' = [worker EXCEPT !.pc = "restore"] /\ UNCHANGED steps
    <3>1. /\ worker'.pc = "restore" /\ worker'.at = worker.at /\ worker'.failed = worker.failed
          /\ worker'.comp = worker.comp /\ worker.pc = "compensate"
      BY <1>3, <2>1 DEF CompensateInspect, TypeInv, Worker
    <3>2. UNCHANGED <<run, steps, portal, ghost, client>> /\ \A n \in 1..3 : At(n)' = At(n)
      BY <1>3, <2>1 DEF CompensateInspect, At
    <3>3. Untouched'
      BY <1>1, <3>1, <3>2 DEF RollbackInv, Untouched, Compensating
    <3>4. RollbackComplete'
      BY <1>1 DEF RollbackComplete
    <3> QED BY <3>1, <3>2, <3>3, <3>4 DEF RollbackInv, Compensating, Back
  <2>2. CASE \E s \in StepStatuses : /\ Done(s)
                                     /\ s # "COMPENSATION_FAILED" =>
                                          portal[Current] = steps[Current].before
    BY <1>1, <1>3, <2>2, RollbackOne DEF CompensateInspect
  <2> QED BY <1>3, <2>1, <2>2 DEF CompensateInspect, StepStatuses
<1>4. CASE CompensateRestore
  <2>1. CASE OwnEffect(Current)
    <3>1. PICK s \in StepStatuses :
            /\ Done(s)
            /\ s # "COMPENSATION_FAILED" =>
                 AfterForm(Current, RestoreForm(Current)) = steps[Current].before
      BY <1>4, <2>1 DEF CompensateRestore, StepStatuses
    <3>2. FormOn(Current, RestoreForm(Current))
      BY <1>2, <1>4, <2>1, FormChangesOne DEF CompensateRestore
    <3>3. UNCHANGED ghost
      BY <1>4 DEF CompensateRestore
    <3> QED BY <1>1, <3>1, <3>2, <3>3, RollbackOne DEF FormOn
  <2>2. CASE ~OwnEffect(Current)
    BY <1>1, <1>4, <2>2, RollbackOne DEF CompensateRestore, StepStatuses
  <2> QED BY <2>1, <2>2
<1>5. CASE CompensationFails
  <2>1. ghost'.byHand = ghost.byHand /\ Done("COMPENSATION_FAILED")
    BY <1>5, FaultIsTyped DEF CompensationFails
  <2>2. \A q \in Portals \ {Current} : portal'[q] = portal[q]
    <3>1. CASE SubmitForm(Current, RestoreForm(Current))
      BY <1>2, <3>1, FormChangesOne DEF FormOn
    <3> QED BY <1>5, <3>1 DEF CompensationFails
  <2> QED BY <1>1, <2>1, <2>2, RollbackOne DEF StepStatuses
<1> QED BY <1>3, <1>4, <1>5

(* Every candidate looked at, none failed: nothing is left.                  *)
LEMMA NothingLeft ==
  ASSUME TypeInv, PhaseInv, RollbackInv, worker.pc = "compensate", Candidates = {},
         ~worker.comp, ~ghost.byHand, run.resumes = 0
  PROVE  ~Residue
<1>1. worker.at \in 0..4 /\ worker.failed \in 0..3 /\ run.action \in Actions
  BY DEF TypeInv, Worker
<1>2. ASSUME NEW n \in 1..3 PROVE Back(At(n))
  <2>1. CASE n > worker.failed
    BY <2>1 DEF RollbackInv, Untouched, Compensating, Back
  <2>2. CASE n <= worker.failed /\ worker.at < n
    BY <2>2 DEF RollbackInv, Compensating
  <2>3. CASE n <= worker.failed /\ n <= worker.at
    BY <1>1, <2>3 DEF Candidates, Back, At
  <2> QED BY <1>1, <2>1, <2>2, <2>3
<1>3. \A p \in Portals : Back(p)
  BY <1>1, <1>2, OrderCovers DEF At
<1> QED BY <1>3 DEF Residue, Back

LEMMA RollbackEnding ==
  ASSUME TypeInv, PhaseInv, RollbackInv,
         FinishSucceeded \/ FinishCompensated \/ AbortExecution \/ Crash \/ Quarantine
  PROVE  RollbackInv'
<1>1. CASE Crash
  <2>1. worker'.pc = "dead" /\ run' = run /\ run.status = "RUNNING"
    BY <1>1 DEF Crash, PhaseInv, TypeInv, Worker
  <2> QED BY <2>1 DEF RollbackInv, Untouched, RollbackComplete, Compensating
<1>2. CASE FinishSucceeded \/ Quarantine
  <2>1. worker'.pc = "none" /\ run'.status \in {"SUCCEEDED", "PARTIALLY_FAILED"}
    BY <1>2 DEF FinishSucceeded, Quarantine, Resting, TypeInv
  <2> QED BY <2>1 DEF RollbackInv, Untouched, RollbackComplete, Compensating
<1>3. CASE FinishCompensated \/ AbortExecution
  <2>1. PICK m \in BOOLEAN, c \in BOOLEAN :
          /\ FinishFailed(m, c)
          /\ FinishCompensated => c = worker.comp
    BY <1>3 DEF FinishCompensated, AbortExecution, HasResidualState, TypeInv, Worker
  <2>2. worker'.pc = "none" /\ run'.status \in {"FAILED", "PARTIALLY_FAILED"}
    BY <2>1, FinishFailedTyped
  <2>3. Untouched'
    BY <2>2 DEF Untouched, Compensating
  <2>4. RollbackComplete'
    <3>1. CASE AbortExecution
      <4>1. ghost'.aborted
        BY <3>1 DEF AbortExecution, TypeInv, Ghost
      <4> QED BY <4>1 DEF RollbackComplete
    <3>2. CASE FinishCompensated
      <4>1. /\ worker.pc = "compensate" /\ Candidates = {}
            /\ UNCHANGED <<steps, portal>> /\ ghost'.byHand = ghost.byHand
        BY <3>2 DEF FinishCompensated, TypeInv, Ghost
      <4>2. run'.status = "FAILED" /\ client'.status # "UNKNOWN" => ~worker.comp
        BY <2>1, <3>2, FinishFailedTyped
      <4>3. run'.resumes = run.resumes
        BY <2>1, FinishFailedTyped
      <4> QED BY <4>1, <4>2, <4>3, NothingLeft DEF RollbackComplete, Residue
    <3> QED BY <1>3, <3>1, <3>2
  <2> QED BY <2>2, <2>3, <2>4 DEF RollbackInv, Compensating
<1> QED BY <1>1, <1>2, <1>3

LEMMA RollbackStep ==
  ASSUME TypeInv, PhaseInv, MirrorInv, RollbackInv, [Next]_vars PROVE RollbackInv'
<1>1. CASE UNCHANGED vars
  <2>1. \A n \in 1..3 : At(n)' = At(n)
    BY <1>1 DEF vars, At
  <2> QED BY <1>1, <2>1 DEF vars, RollbackInv, Untouched, Back, RollbackComplete, Residue
<1> QED BY <1>1, RollbackRequests, RollbackApplying, RollbackCompensating, RollbackEnding DEF Next

-----------------------------------------------------------------------------
(* Nobody else has touched the portals.                                    *)

LEMMA BothWays ==
  ASSUME NEW p \in Portals
  PROVE  /\ {Start(p), Goal(p)} = {AllBlocked(p), past.base[p]}
         /\ run.action = "BLOCK" => Start(p) = past.base[p] /\ Goal(p) = AllBlocked(p)
         /\ run.action # "BLOCK" => Start(p) = AllBlocked(p) /\ Goal(p) = past.base[p]
BY DEF Start, Goal

LEMMA TasksNeverAllBlocked ==
  ASSUME NEW f, \A t \in Tasks : f[t] # "blocked"
  PROVE  f # AllBlocked("tasks")
<1>1. PICK t \in Tasks : TRUE
  BY ConstantsAssumption
<1>2. AllBlocked("tasks")[t] = "blocked"
  BY DEF AllBlocked, Items
<1> QED BY <1>2

(* A form leads from either end to the end it is for, and the tasks portal   *)
(* remembers the owners of the last unblocked state.                         *)
LEMMA FormLeads ==
  ASSUME TypeInv, BaseFree, OwnersKept, NEW p \in Portals, NEW f \in Actions,
         portal[p] \in {AllBlocked(p), past.base[p]},
         f = "UNBLOCK" => past.base[p] # AllBlocked(p)
  PROVE  /\ AfterForm(p, f) = IF f = "BLOCK" THEN AllBlocked(p) ELSE past.base[p]
         /\ p # "tasks" \/ f # "BLOCK" => OwnersAfterForm(p, f) = owner
         /\ p = "tasks" /\ f = "BLOCK" => OwnersAfterForm(p, f) = past.base["tasks"]
<1>1. /\ portal[p] \in [Items(p) -> Values(p)] /\ past.base[p] \in [Items(p) -> Values(p)]
      /\ owner \in [Tasks -> {"own", "other"}]
  BY DEF TypeInv, PortalsTyped, PastTyped, State
<1>2. AfterForm(p, f) = IF f = "BLOCK" THEN AllBlocked(p) ELSE past.base[p]
  <2>1. CASE f = "BLOCK"
    BY <2>1 DEF AfterForm
  <2>2. CASE f # "BLOCK" /\ p = "tasks"
    <3>1. CASE portal[p] = AllBlocked(p)
      <4>1. owner = past.base[p]
        BY <2>2, <3>1 DEF OwnersKept
      <4>2. \A i \in Items(p) : portal[p][i] = "blocked"
        BY <3>1 DEF AllBlocked
      <4> QED BY <1>1, <2>2, <4>1, <4>2 DEF AfterForm
    <3>2. CASE portal[p] = past.base[p]
      BY <1>1, <2>2, <3>2 DEF AfterForm, BaseFree, Items
    <3> QED BY <3>1, <3>2
  <2>3. CASE f # "BLOCK" /\ p # "tasks"
    <3>1. Items(p) = {p} /\ Values(p) = {"own", "blocked"}
      BY <2>3 DEF Items, Values
    <3>2. past.base[p][p] = "own"
      <4>1. past.base[p] # AllBlocked(p)
        BY <2>3 DEF Actions
      <4>2. CASE past.base[p][p] = "blocked"
        <5>1. past.base[p] = [i \in Items(p) |-> "blocked"]
          BY <1>1, <3>1, <4>2
        <5> QED BY <4>1, <5>1 DEF AllBlocked
      <4> QED BY <1>1, <3>1, <4>2
    <3>3. AfterForm(p, f) = [i \in {p} |-> "own"]
      BY <1>1, <2>3, <3>1 DEF AfterForm
    <3> QED BY <1>1, <2>3, <3>1, <3>2, <3>3
  <2> QED BY <2>1, <2>2, <2>3
<1>3. CASE p = "tasks" /\ f = "BLOCK"
  <2>1. CASE portal[p] = AllBlocked(p)
    <3>1. owner = past.base["tasks"] /\ \A t \in Tasks : portal[p][t] = "blocked"
      BY <1>3, <2>1 DEF OwnersKept, AllBlocked, Items
    <3> QED BY <1>1, <1>2, <1>3, <3>1 DEF OwnersAfterForm
  <2>2. CASE portal[p] = past.base[p]
    <3>1. \A t \in Tasks : portal[p][t] # "blocked"
      BY <1>3, <2>2 DEF BaseFree
    <3> QED BY <1>1, <1>2, <1>3, <2>2, <3>1 DEF OwnersAfterForm, Items
  <2> QED BY <1>2, <1>3, <2>1, <2>2
<1>4. CASE ~(p = "tasks" /\ f = "BLOCK")
  BY <1>2, <1>4 DEF OwnersAfterForm
<1> QED BY <1>2, <1>3, <1>4

(* The forms an execution submits.                                           *)
RightForm(p, f) == steps[p].before # None /\ (f = "UNBLOCK" => past.base[p] # AllBlocked(p))

LEMMA ApplyIsRight ==
  ASSUME TypeInv, PhaseInv, CleanInv, worker.pc = "apply"
  PROVE  /\ RightForm(Here, run.action) /\ Here \in Portals /\ run.action \in Actions
         /\ portal[Here] \in {Start(Here), Goal(Here)} /\ steps[Here].desired = Goal(Here)
<1>1. Here \in Portals /\ run.action \in Actions /\ run.status = "RUNNING"
  BY HereIsPortal DEF PhaseInv, Applying
<1>2. steps[Here].before # None /\ portal[Here] # Goal(Here) /\ OnTheWay(Here)
  BY <1>1 DEF PhaseInv, CleanInv, Advanced, Progress
<1>3. portal[Here] \in {Start(Here), Goal(Here)} /\ steps[Here].desired = Goal(Here)
  BY <1>2 DEF OnTheWay
<1> QED BY <1>1, <1>2, <1>3, BothWays DEF RightForm

LEMMA RestoreIsRight ==
  ASSUME TypeInv, PhaseInv, CleanInv, worker.pc \in Compensating, Candidates # {}
  PROVE  /\ RightForm(Current, RestoreForm(Current)) /\ Current \in Portals
         /\ RestoreForm(Current) \in Actions
<1>1. Current \in Portals /\ steps[Current].before # None
  BY CurrentIsPortal
<1>2. run.status = "RUNNING"
  BY DEF PhaseInv, Compensating
<1>3. steps[Current].before = Start(Current)
  BY <1>1, <1>2 DEF CleanInv, Progress, OnTheWay
<1> QED BY <1>1, <1>3, BothWays DEF RightForm, RestoreForm, Actions

(* Whatever part of CleanInv does not depend on the worker survives a right  *)
(* form, and no form at all.                                                 *)
Settled == BaseFree /\ Progress /\ AtRest /\ OwnersKept /\ Remembered

LEMMA SameEnds ==
  ASSUME UNCHANGED <<run, past>>
  PROVE  \A p \in Portals : Start(p)' = Start(p) /\ Goal(p)' = Goal(p)
BY DEF Start, Goal

LEMMA FormSettles ==
  ASSUME TypeInv, CleanInv, run.status = "RUNNING", UNCHANGED <<run, client, past>>, LooksKept,
         NEW p \in Portals, NEW f \in Actions, RightForm(p, f), SubmitForm(p, f)
  PROVE  /\ Settled'
         /\ portal'[p] = IF f = "BLOCK" THEN AllBlocked(p) ELSE past.base[p]
         /\ \A q \in Portals \ {p} : portal'[q] = portal[q]
<1>1. OnTheWay(p) /\ steps[p].before # None
  BY DEF CleanInv, Progress, RightForm
<1>2. portal[p] \in {AllBlocked(p), past.base[p]}
  BY <1>1, BothWays DEF OnTheWay
<1>3. FormOn(p, f)
  BY FormChangesOne
<1>4. /\ portal'[p] = IF f = "BLOCK" THEN AllBlocked(p) ELSE past.base[p]
      /\ p # "tasks" \/ f # "BLOCK" => owner' = owner
      /\ p = "tasks" /\ f = "BLOCK" => owner' = past.base["tasks"]
      /\ \A q \in Portals \ {p} : portal'[q] = portal[q]
  BY <1>2, <1>3, FormLeads DEF FormOn, RightForm, CleanInv
<1>5. BaseFree' /\ Remembered' /\ AtRest'
  BY DEF CleanInv, BaseFree, Remembered, AtRest
<1>6. Progress'
  <2>1. ASSUME NEW q \in Portals PROVE OnTheWay(q)'
    <3>1. /\ steps'[q].before = steps[q].before /\ steps'[q].desired = steps[q].desired
          /\ Start(q)' = Start(q) /\ Goal(q)' = Goal(q) /\ OnTheWay(q)
      BY SameEnds DEF LooksKept, CleanInv, Progress
    <3>2. CASE q = p
      <4>1. portal'[q] \in {Start(q), Goal(q)}
        BY <1>4, <3>2, BothWays
      <4> QED BY <1>1, <3>1, <3>2, <4>1 DEF OnTheWay
    <3>3. CASE q # p
      BY <1>4, <3>1, <3>3 DEF OnTheWay
    <3> QED BY <3>2, <3>3
  <2> QED BY <2>1 DEF Progress
<1>7. OwnersKept'
  <2>1. CASE p = "tasks"
    <3>1. past.base["tasks"] # AllBlocked("tasks")
      BY TasksNeverAllBlocked DEF CleanInv, BaseFree
    <3> QED BY <1>4, <2>1, <3>1 DEF CleanInv, OwnersKept, Actions
  <2>2. CASE p # "tasks"
    BY <1>4, <2>2 DEF CleanInv, OwnersKept, Portals
  <2> QED BY <2>1, <2>2
<1> QED BY <1>4, <1>5, <1>6, <1>7 DEF Settled

LEMMA StillSettled ==
  ASSUME TypeInv, CleanInv, run.status = "RUNNING",
         UNCHANGED <<run, client, past, portal, owner>>, LooksKept
  PROVE  Settled'
<1>1. BaseFree' /\ Remembered' /\ AtRest' /\ OwnersKept'
  BY DEF CleanInv, BaseFree, Remembered, AtRest, OwnersKept
<1>2. Progress'
  BY SameEnds DEF CleanInv, Progress, OnTheWay, LooksKept
<1> QED BY <1>1, <1>2 DEF Settled

LEMMA CleanCreate ==
  ASSUME TypeInv, PhaseInv, MirrorInv, CleanInv, NEW a \in Actions, Create(a)
  PROVE  CleanInv'
<1>1. /\ run'.action = a /\ run'.status = "QUEUED" /\ client' = client /\ owner' = owner
      /\ portal' = portal /\ past'.block = past.block
      /\ past'.base = IF a = "BLOCK" THEN portal ELSE past.base
      /\ \A p \in Portals : steps'[p].before = None
  BY FreshRows DEF Create, TypeInv, PastTyped
<1>2. worker.pc = "none" /\ worker' = worker
  BY DEF PhaseInv, Create, Active
<1>3. Caused' /\ Advanced' /\ AtRest'
  BY <1>1, <1>2 DEF Caused, Advanced, AtRest, Applying, Compensating
<1>4. run.status \in {"NONE", "FAILED", "SUCCEEDED"}
  BY DEF Create, Active, MirrorInv, ClientMirrorsRun, TypeInv, RunStatuses
<1>5. run.action \in Actions
  BY DEF TypeInv
<1>6. CASE a = "BLOCK"
  <2>1. client.status = "ACTIVE"
    BY <1>6 DEF Create, TypeInv, ClientStatuses
  <2>2. \A p \in Portals : portal[p] = past.base[p]
    <3>1. CASE run.action = "BLOCK"
      <4>1. run.status # "SUCCEEDED"
        BY <2>1, <3>1 DEF MirrorInv
      <4> QED BY <1>4, <3>1, <4>1 DEF CleanInv, AtRest, Start
    <3>2. CASE run.action = "UNBLOCK"
      <4>1. run.status = "SUCCEEDED"
        BY <2>1, <3>2 DEF MirrorInv
      <4> QED BY <3>2, <4>1 DEF CleanInv, AtRest, Goal
    <3> QED BY <1>5, <3>1, <3>2 DEF Actions
  <2>3. BaseFree'
    BY <1>1, <1>6, <2>2 DEF CleanInv, BaseFree, Portals
  <2>4. Progress'
    BY <1>1, <1>6 DEF Progress, OnTheWay, Start
  <2>5. OwnersKept'
    <3>1. portal["tasks"] # AllBlocked("tasks")
      BY <2>2, TasksNeverAllBlocked DEF CleanInv, BaseFree, Portals
    <3> QED BY <1>1, <1>6, <3>1 DEF OwnersKept
  <2>6. Remembered'
    BY <1>1, <1>6 DEF Remembered
  <2> QED BY <1>3, <2>3, <2>4, <2>5, <2>6 DEF CleanInv
<1>7. CASE a = "UNBLOCK"
  <2>1. client.status = "BLOCKED"
    BY <1>7 DEF Create
  <2>2. \/ run.action = "BLOCK" /\ run.status = "SUCCEEDED"
        \/ run.action = "UNBLOCK" /\ run.status = "FAILED"
    BY <1>4, <1>5, <2>1 DEF MirrorInv, Actions
  <2>3. \A p \in Portals : portal[p] = AllBlocked(p)
    BY <2>2 DEF CleanInv, AtRest, Start, Goal
  <2>4. BaseFree'
    BY <1>1, <1>7 DEF CleanInv, BaseFree
  <2>5. Progress'
    BY <1>1, <1>7, <2>3 DEF Progress, OnTheWay, Start
  <2>6. OwnersKept'
    BY <1>1, <1>7, <2>3 DEF CleanInv, OwnersKept, Portals
  <2>7. Remembered'
    <3>1. client.snapshot = past.base["tasks"] /\ \A p \in Portals : past.block[p] = past.base[p]
      BY <2>2 DEF CleanInv, Remembered
    <3> QED BY <1>1, <1>7, <3>1 DEF Remembered
  <2> QED BY <1>3, <2>4, <2>5, <2>6, <2>7 DEF CleanInv
<1> QED BY <1>6, <1>7 DEF Actions

(* The portals rest where they are while a request waits.                    *)
LEMMA CleanWaiting ==
  ASSUME TypeInv, PhaseInv, RollbackInv, CleanInv, Resume \/ Undelivered \/ BeginExecution
  PROVE  CleanInv'
<1>0. run.resumes \in Nat
  BY ConstantsAssumption DEF TypeInv
<1>1. /\ UNCHANGED <<steps, portal, owner, past>> /\ client'.snapshot = client.snapshot
      /\ run'.action = run.action /\ run'.status # "SUCCEEDED" /\ run.status # "SUCCEEDED"
  <2>1. CASE Resume
    BY <2>1, ResumeEffect DEF Resume
  <2>2. CASE Undelivered
    BY <2>2 DEF Undelivered, TypeInv
  <2>3. CASE BeginExecution
    BY <2>3 DEF BeginExecution, TypeInv
  <2> QED BY <2>1, <2>2, <2>3
<1>2. BaseFree' /\ OwnersKept' /\ Remembered'
  BY <1>1 DEF CleanInv, BaseFree, OwnersKept, Remembered
<1>3. \A p \in Portals : Start(p)' = Start(p) /\ Goal(p)' = Goal(p)
  BY <1>1 DEF Start, Goal
<1>4. Progress'
  BY <1>1, <1>3 DEF CleanInv, Progress, OnTheWay
<1>5. CASE Resume
  <2>1. worker.pc = "none" /\ worker' = worker /\ run'.status = "QUEUED"
    BY <1>5, ResumeEffect DEF Resume, PhaseInv
  <2> QED BY <1>2, <1>4, <2>1 DEF CleanInv, AtRest, Advanced, Caused, Applying, Compensating
<1>6. CASE Undelivered
  <2>1. worker.pc = "none" /\ worker' = worker /\ run.status = "QUEUED" /\ ghost'.faulted
    BY <1>6, FaultIsTyped DEF Undelivered, PhaseInv
  <2>2. AtRest'
    <3>1. CASE run.resumes > 0
      <4>1. run'.status = "PARTIALLY_FAILED"
        BY <1>6, <3>1 DEF Undelivered, TypeInv
      <4> QED BY <4>1 DEF AtRest
    <3>2. CASE run.resumes = 0
      <4>1. \A p \in Portals : steps[p].before = None
        BY <2>1, <3>2 DEF RollbackInv, Untouched
      <4>2. \A p \in Portals : portal[p] = Start(p)
        BY <2>1, <4>1 DEF CleanInv, Progress, OnTheWay
      <4> QED BY <1>1, <1>3, <4>2 DEF AtRest
    <3> QED BY <1>0, <3>1, <3>2
  <2> QED BY <1>2, <1>4, <2>1, <2>2 DEF CleanInv, Advanced, Caused, Applying
<1>7. CASE BeginExecution
  <2>1. worker'.pc = "step" /\ worker'.at = 1 /\ run'.status = "RUNNING"
    BY <1>7 DEF BeginExecution, Resting, TypeInv
  <2> QED BY <1>2, <1>4, <2>1 DEF CleanInv, AtRest, Advanced, Caused, Compensating
<1> QED BY <1>5, <1>6, <1>7

(* With clean portals a look is never refused, and it wants the goal.        *)
LEMMA LookIsWelcome ==
  ASSUME TypeInv, PhaseInv, CleanInv, worker.pc = "inspect"
  PROVE  /\ ~Refused(portal[Here])
         /\ FirstLook(Here) => /\ portal[Here] = Start(Here)
                               /\ Desired(Here, portal[Here]) = Goal(Here)
<1>1. Here \in Portals /\ run.action \in Actions /\ run.status = "RUNNING"
  BY HereIsPortal DEF PhaseInv, Applying
<1>2. OnTheWay(Here)
  BY <1>1 DEF CleanInv, Progress
<1>3. CASE ~FirstLook(Here)
  BY <1>2, <1>3 DEF FirstLook, OnTheWay, Refused, Foreign
<1>4. CASE FirstLook(Here)
  <2>1. portal[Here] = Start(Here)
    BY <1>2, <1>4 DEF FirstLook, OnTheWay
  <2>2. CASE run.action = "BLOCK"
    <3>1. Desired(Here, portal[Here]) = Goal(Here) /\ Goal(Here) # None
      BY <1>1, <2>2, StatesAreLooks DEF Desired, Goal
    <3>2. ~MarkerWithoutSnapshot(Here, portal[Here])
      BY <2>1, <2>2 DEF MarkerWithoutSnapshot, Start, CleanInv, BaseFree
    <3> QED BY <1>4, <2>1, <3>1, <3>2 DEF Refused
  <2>3. CASE run.action # "BLOCK"
    <3>1. client.snapshot = past.base["tasks"] /\ past.block[Here] = past.base[Here]
      BY <1>1, <2>3 DEF CleanInv, Remembered
    <3>2. past.base[Here] # None
      BY <1>1, StatesAreLooks DEF TypeInv, PastTyped
    <3>3. Here = "tasks" => Restorable(portal[Here])
      BY <2>1, <2>3 DEF Restorable, Start, AllBlocked, Items
    <3>4. Desired(Here, portal[Here]) = Goal(Here) /\ Goal(Here) # None
      BY <2>3, <3>1, <3>2, <3>3 DEF Desired, Goal
    <3>5. ~MarkerWithoutSnapshot(Here, portal[Here])
      BY <2>3 DEF MarkerWithoutSnapshot
    <3> QED BY <1>4, <2>1, <3>4, <3>5 DEF Refused
  <2> QED BY <2>2, <2>3
<1> QED BY <1>3, <1>4

LEMMA CleanInspect == ASSUME TypeInv, PhaseInv, CleanInv, Inspect PROVE CleanInv'
<1>1. /\ worker.pc = "inspect" /\ UNCHANGED <<client, run, portal, owner, past, ghost>>
      /\ Here \in Portals /\ Here = At(worker.at) /\ worker.at \in 1..3 /\ run.status = "RUNNING"
  BY HereIsPortal DEF Inspect, PhaseInv, Applying
<1>2. /\ Looked(portal[Here])
      /\ \/ /\ worker'.pc = "step" /\ worker'.at = worker.at + 1
            /\ portal[Here] = steps'[Here].desired
         \/ /\ worker'.pc = "apply" /\ worker'.at = worker.at
            /\ portal[Here] # steps'[Here].desired
  BY <1>1, InspectEnds, LookIsWelcome
<1>3. steps'[Here].before = Start(Here) /\ steps'[Here].desired = Goal(Here)
  <2>1. CASE FirstLook(Here)
    BY <1>1, <1>2, <2>1, LookIsWelcome DEF Looked
  <2>2. CASE ~FirstLook(Here)
    <3>1. OnTheWay(Here)
      BY <1>1 DEF CleanInv, Progress
    <3> QED BY <1>1, <1>2, <2>2, <3>1 DEF Looked, FirstLook, LooksKept, OnTheWay
  <2> QED BY <2>1, <2>2
<1>4. \A p \in Portals : Start(p)' = Start(p) /\ Goal(p)' = Goal(p)
  BY <1>1, SameEnds
<1>5. Progress'
  <2>1. ASSUME NEW p \in Portals PROVE OnTheWay(p)'
    <3>0. OnTheWay(p)
      BY <1>1 DEF CleanInv, Progress
    <3>1. CASE p = Here
      <4>1. portal[p] \in {Start(p), Goal(p)}
        BY <3>0 DEF OnTheWay
      <4>2. Start(p) # None
        BY BothWays, StatesAreLooks DEF TypeInv, PastTyped
      <4> QED BY <1>1, <1>3, <1>4, <3>1, <4>1, <4>2 DEF OnTheWay
    <3>2. CASE p # Here
      <4>1. steps'[p].before = steps[p].before /\ steps'[p].desired = steps[p].desired
        BY <3>2, InspectEnds
      <4> QED BY <1>1, <1>4, <3>0, <4>1 DEF OnTheWay
    <3> QED BY <3>1, <3>2
  <2> QED BY <2>1 DEF Progress
<1>6. \A n \in 1..3 : At(n) \in Portals /\ At(n)' = At(n)
  BY <1>1, OrderCovers DEF At, TypeInv
<1>7. \A n \in 1..3 : n < worker.at => portal[At(n)] = Goal(At(n))
  BY <1>1 DEF CleanInv, Advanced, Applying
<1>8. Advanced'
  <2>1. CASE worker'.pc = "step" /\ worker'.at = worker.at + 1 /\ portal[Here] = Goal(Here)
    <3>1. \A n \in 1..3 : n < worker'.at => portal[At(n)] = Goal(At(n))
      <4> SUFFICES ASSUME NEW n \in 1..3, n < worker'.at PROVE portal[At(n)] = Goal(At(n))
        OBVIOUS
      <4>1. n = worker.at \/ n < worker.at
        BY <1>1, <2>1
      <4> QED BY <1>1, <1>7, <2>1, <4>1
    <3> QED BY <1>1, <1>4, <1>6, <2>1, <3>1 DEF Advanced
  <2>2. CASE worker'.pc = "apply" /\ worker'.at = worker.at /\ portal[Here] # Goal(Here)
    <3>1. Here' = Here
      BY <1>1, <2>2 DEF Here
    <3> QED BY <1>1, <1>4, <1>6, <1>7, <2>2, <3>1 DEF Advanced
  <2> QED BY <1>2, <1>3, <2>1, <2>2
<1>9. BaseFree' /\ AtRest' /\ OwnersKept' /\ Remembered' /\ Caused'
  BY <1>1, <1>2 DEF CleanInv, BaseFree, AtRest, OwnersKept, Remembered, Caused, Compensating
<1> QED BY <1>5, <1>8, <1>9 DEF CleanInv

LEMMA CleanApplying ==
  ASSUME TypeInv, PhaseInv, CleanInv, StartStep \/ InspectFails \/ Apply \/ ApplyFails
  PROVE  CleanInv'
<1>0. UNCHANGED <<run, client, past>>
  BY DEF StartStep, InspectFails, Apply, ApplyFails
<1>1. CASE StartStep
  <2>1. /\ worker'.pc = "inspect" /\ worker'.at = worker.at /\ run.status = "RUNNING"
        /\ UNCHANGED <<portal, owner, ghost>> /\ worker.pc = "step"
    BY <1>1, HereIsPortal DEF StartStep, Applying, TypeInv, Worker
  <2>2. LooksKept
    BY <1>1, HereIsPortal, StatusChanges DEF StartStep, Applying, TypeInv, StepStatuses
  <2>3. Settled'
    BY <1>0, <2>1, <2>2, StillSettled
  <2>4. Advanced'
    BY <1>0, <2>1, <2>2, LooksAlong, SameEnds DEF CleanInv, Advanced, Applying
  <2>5. Caused'
    BY <1>0, <2>1 DEF Caused, Compensating
  <2> QED BY <2>3, <2>4, <2>5 DEF CleanInv, Settled
<1>2. CASE InspectFails \/ ApplyFails
  <2>1. worker.pc \in {"inspect", "apply"} /\ FailStep(steps, FALSE) /\ ghost'.faulted
    BY <1>2, FaultIsTyped DEF InspectFails, ApplyFails
  <2>2. LooksKept /\ worker'.pc = "compensate" /\ run.status = "RUNNING"
    BY <2>1, FailStepTyped, HereIsPortal DEF PhaseInv, Applying
  <2>3. Settled'
    <3>1. CASE UNCHANGED <<portal, owner>>
      BY <1>0, <2>2, <3>1, StillSettled
    <3>2. CASE worker.pc = "apply" /\ SubmitForm(Here, run.action)
      BY <1>0, <2>2, <3>2, ApplyIsRight, FormSettles
    <3> QED BY <1>2, <3>1, <3>2 DEF InspectFails, ApplyFails
  <2>4. Advanced' /\ Caused'
    BY <2>1, <2>2 DEF Advanced, Caused, Applying
  <2> QED BY <2>3, <2>4 DEF CleanInv, Settled
<1>3. CASE Apply
  <2>1. /\ worker.pc = "apply" /\ SubmitForm(Here, run.action) /\ UNCHANGED ghost
        /\ RightForm(Here, run.action) /\ run.action \in Actions
        /\ portal[Here] \in {Start(Here), Goal(Here)} /\ steps[Here].desired = Goal(Here)
    BY <1>3, ApplyIsRight DEF Apply
  <2>2. /\ run.status = "RUNNING" /\ worker.at \in 1..3
        /\ Here = At(worker.at) /\ Here \in Portals
    BY <2>1, HereIsPortal DEF PhaseInv, Applying
  <2>3. AfterForm(Here, run.action) = Goal(Here)
    <3>1. portal[Here] \in {AllBlocked(Here), past.base[Here]}
      BY <2>1, <2>2, BothWays
    <3> QED BY <2>1, <2>2, <3>1, FormLeads DEF RightForm, CleanInv, Goal, Actions
  <2>4. Advance(steps, "APPLIED")
    BY <1>3, <2>1, <2>3 DEF Apply, Step
  <2>5. LooksKept
    BY <2>2, <2>4, StatusChanges DEF Advance, TypeInv, StepStatuses
  <2>6. worker'.pc = "step" /\ worker'.at = worker.at + 1
    BY <2>1, <2>4, AdvanceTyped
  <2>7. Settled' /\ \A q \in Portals \ {Here} : portal'[q] = portal[q]
    BY <1>0, <2>1, <2>2, <2>5, FormSettles
  <2>8. portal'[Here] = Goal(Here)
    BY <2>1, <2>2, <2>3, FormChangesOne DEF FormOn
  <2>9. \A n \in 1..3 : n < worker'.at => portal'[At(n)] = Goal(At(n))
    <3> SUFFICES ASSUME NEW n \in 1..3, n < worker'.at PROVE portal'[At(n)] = Goal(At(n))
      OBVIOUS
    <3>1. CASE n = worker.at
      BY <2>2, <2>8, <3>1
    <3>2. CASE n < worker.at
      <4>1. At(n) # Here /\ At(n) \in Portals
        BY <2>1, <2>2, <3>2, OrderCovers DEF At
      <4> QED BY <2>1, <2>7, <3>2, <4>1 DEF CleanInv, Advanced, Applying
    <3> QED BY <2>2, <2>6, <3>1, <3>2
  <2>10. Advanced'
    BY <1>0, <2>5, <2>6, <2>9, LooksAlong, SameEnds DEF Advanced
  <2>11. Caused'
    BY <1>0, <2>2, <2>6 DEF Caused, Compensating
  <2> QED BY <2>7, <2>10, <2>11 DEF CleanInv, Settled
<1> QED BY <1>1, <1>2, <1>3

LEMMA CleanCompensating ==
  ASSUME TypeInv, PhaseInv, CleanInv, CompensateInspect \/ CompensateRestore \/ CompensationFails
  PROVE  CleanInv'
<1>1. /\ worker.pc \in Compensating /\ Candidates # {} /\ run.status = "RUNNING"
      /\ UNCHANGED <<run, client, past>>
  BY DEF PhaseInv, CompensateInspect, CompensateRestore, CompensationFails, Compensating
<1>2. ghost'.faulted
  <2>1. ghost.faulted
    BY <1>1 DEF CleanInv, Caused
  <2> QED BY <2>1, FaultIsTyped DEF CompensateInspect, CompensateRestore, CompensationFails
<1>3. LooksKept /\ worker'.pc \in Compensating
  <2>1. CASE \E s \in StepStatuses : Done(s)
    BY <1>1, <2>1, DoneTyped DEF Compensating
  <2>2. CASE worker' = [worker EXCEPT !.pc = "restore"] /\ UNCHANGED steps
    BY <2>2 DEF TypeInv, Worker, LooksKept, Compensating
  <2> QED BY <2>1, <2>2 DEF CompensateInspect, CompensateRestore, CompensationFails, StepStatuses
<1>4. Settled'
  <2>1. CASE UNCHANGED <<portal, owner>>
    BY <1>1, <1>3, <2>1, StillSettled
  <2>2. CASE SubmitForm(Current, RestoreForm(Current))
    BY <1>1, <1>3, <2>2, RestoreIsRight, FormSettles
  <2> QED BY <2>1, <2>2 DEF CompensateInspect, CompensateRestore, CompensationFails
<1>5. Advanced' /\ Caused'
  BY <1>2, <1>3 DEF Advanced, Caused, Applying, Compensating
<1> QED BY <1>4, <1>5 DEF CleanInv, Settled

LEMMA CleanSucceeded == ASSUME TypeInv, PhaseInv, CleanInv, FinishSucceeded PROVE CleanInv'
<1>1. /\ worker.pc = "step" /\ worker.at = 4 /\ run.status = "RUNNING" /\ run.action \in Actions
      /\ run'.status = "SUCCEEDED" /\ run'.action = run.action
      /\ worker'.pc = "none" /\ UNCHANGED <<portal, owner>> /\ past'.base = past.base
  BY DEF FinishSucceeded, TypeInv, PhaseInv, PastTyped, Resting
<1>2. \A p \in Portals : portal[p] = Goal(p) /\ steps[p].before # None
  <2>1. \A n \in 1..3 : portal[At(n)] = Goal(At(n)) /\ steps[At(n)].before # None
    BY <1>1 DEF CleanInv, Advanced, PhaseInv, Applying
  <2> QED BY <1>1, <2>1, OrderCovers DEF At
<1>3. \A p \in Portals : Goal(p)' = Goal(p)
  BY <1>1 DEF Goal
<1>4. AtRest' /\ Progress'
  BY <1>1, <1>2, <1>3 DEF AtRest, Progress
<1>5. BaseFree' /\ OwnersKept' /\ Advanced' /\ Caused'
  BY <1>1 DEF CleanInv, BaseFree, OwnersKept, Advanced, Caused, Applying, Compensating
<1>6. Remembered'
  <2>1. CASE run.action = "BLOCK"
    <3>1. \A p \in Portals : steps[p].before = past.base[p]
      BY <1>1, <1>2, <2>1 DEF CleanInv, Progress, OnTheWay, Start
    <3>2. /\ client'.snapshot = steps["tasks"].before
          /\ \A p \in Portals : past'.block[p] = steps[p].before
      BY <2>1 DEF FinishSucceeded, TypeInv, PastTyped
    <3> QED BY <1>1, <3>1, <3>2 DEF Remembered, Portals
  <2>2. CASE run.action # "BLOCK"
    BY <1>1, <2>2 DEF Remembered
  <2> QED BY <2>1, <2>2
<1> QED BY <1>4, <1>5, <1>6 DEF CleanInv

(* A FAILED run that leaves nothing behind leaves every portal at its start. *)
LEMMA CleanFailed ==
  ASSUME TypeInv, PhaseInv, CleanInv, NEW m \in BOOLEAN, NEW c \in BOOLEAN, FinishFailed(m, c),
         run.status = "RUNNING", UNCHANGED <<steps, portal, owner, past>>,
         run'.status = "FAILED" => ~Residue, ghost'.faulted
  PROVE  CleanInv'
<1>1. /\ worker'.pc = "none" /\ run'.action = run.action /\ client'.snapshot = client.snapshot
      /\ run'.status \in {"FAILED", "PARTIALLY_FAILED"}
  BY FinishFailedTyped
<1>2. \A p \in Portals : Start(p)' = Start(p) /\ Goal(p)' = Goal(p)
  BY <1>1 DEF Start, Goal
<1>3. Progress'
  BY <1>2 DEF CleanInv, Progress, OnTheWay
<1>4. AtRest'
  <2>1. ASSUME ~Residue, NEW p \in Portals PROVE portal[p] = Start(p)
    <3>1. OnTheWay(p)
      BY DEF CleanInv, Progress
    <3> QED BY <2>1, <3>1 DEF Residue, OnTheWay
  <2> QED BY <1>1, <1>2, <2>1 DEF AtRest
<1>5. BaseFree' /\ OwnersKept' /\ Remembered' /\ Advanced' /\ Caused'
  BY <1>1 DEF CleanInv, BaseFree, OwnersKept, Remembered, Advanced, Caused, Applying
<1> QED BY <1>3, <1>4, <1>5 DEF CleanInv

LEMMA CleanEnding ==
  ASSUME TypeInv, PhaseInv, CleanInv, ~ghost'.polluted,
         FinishSucceeded \/ FinishCompensated \/ AbortExecution \/ Crash \/ Quarantine
  PROVE  CleanInv'
<1>1. CASE FinishCompensated \/ AbortExecution
  <2>1. PICK m \in BOOLEAN, c \in BOOLEAN : FinishFailed(m, c)
    BY <1>1 DEF FinishCompensated, AbortExecution, HasResidualState, TypeInv, Worker
  <2>2. run.status = "RUNNING" /\ UNCHANGED <<steps, portal, owner, past>>
    BY <1>1 DEF FinishCompensated, AbortExecution, PhaseInv
  <2>3. run'.status = "FAILED" => ~Residue
    <3>1. CASE FinishCompensated
      <4>1. PICK b \in BOOLEAN : /\ ghost' = [ghost EXCEPT !.polluted = ghost.polluted \/ b]
                                 /\ b = (run'.status = "FAILED" /\ Residue)
        BY <3>1 DEF FinishCompensated
      <4>2. ~b
        BY <4>1 DEF TypeInv, Ghost
      <4> QED BY <4>1, <4>2
    <3>2. CASE AbortExecution
      <4>1. PICK b \in BOOLEAN :
              /\ ghost' = [ghost EXCEPT !.faults = ghost.faults + 1, !.faulted = TRUE,
                                        !.aborted = TRUE, !.polluted = ghost.polluted \/ b]
              /\ b = (run'.status = "FAILED" /\ Residue)
        BY <3>2 DEF AbortExecution
      <4>2. ~b
        BY <4>1 DEF TypeInv, Ghost
      <4> QED BY <4>1, <4>2
    <3> QED BY <1>1, <3>1, <3>2
  <2>4. ghost'.faulted
    <3>1. CASE FinishCompensated
      <4>1. ghost.faulted
        BY <3>1 DEF FinishCompensated, CleanInv, Caused, Compensating
      <4> QED BY <3>1, <4>1 DEF FinishCompensated, TypeInv, Ghost
    <3>2. CASE AbortExecution
      BY <3>2 DEF AbortExecution, TypeInv, Ghost
    <3> QED BY <1>1, <3>1, <3>2
  <2> QED BY <2>1, <2>2, <2>3, <2>4, CleanFailed
<1>2. CASE Crash
  <2>1. /\ worker'.pc = "dead" /\ run.status = "RUNNING" /\ ghost'.faulted
        /\ UNCHANGED <<client, run, steps, past>>
    BY <1>2, FaultIsTyped DEF Crash, PhaseInv, TypeInv, Worker
  <2>2. LooksKept
    BY <2>1 DEF LooksKept
  <2>3. Settled'
    <3>1. CASE UNCHANGED <<portal, owner>>
      BY <2>1, <2>2, <3>1, StillSettled
    <3>2. CASE worker.pc = "apply" /\ SubmitForm(Here, run.action)
      BY <2>1, <2>2, <3>2, ApplyIsRight, FormSettles
    <3>3. CASE worker.pc = "restore" /\ SubmitForm(Current, RestoreForm(Current))
      BY <2>1, <2>2, <3>3, RestoreIsRight, FormSettles DEF PhaseInv, Compensating
    <3> QED BY <1>2, <3>1, <3>2, <3>3 DEF Crash
  <2>4. Advanced' /\ Caused'
    BY <2>1 DEF Advanced, Caused, Applying
  <2> QED BY <2>3, <2>4 DEF CleanInv, Settled
<1>3. CASE Quarantine
  <2>1. /\ worker.pc = "dead" /\ worker'.pc = "none" /\ run'.status = "PARTIALLY_FAILED"
        /\ run'.action = run.action /\ run.status = "RUNNING" /\ client'.snapshot = client.snapshot
        /\ UNCHANGED <<portal, owner, past, ghost>>
    BY <1>3 DEF Quarantine, PhaseInv, TypeInv, Resting
  <2>2. LooksKept /\ \A p \in Portals : Start(p)' = Start(p) /\ Goal(p)' = Goal(p)
    BY <1>3, <2>1, QuarantineTyped DEF Start, Goal
  <2>3. Progress'
    BY <2>1, <2>2 DEF CleanInv, Progress, OnTheWay, LooksKept
  <2>4. BaseFree' /\ AtRest' /\ OwnersKept' /\ Remembered' /\ Advanced' /\ Caused'
    BY <2>1 DEF CleanInv, BaseFree, AtRest, OwnersKept, Remembered, Advanced, Caused, Applying
  <2> QED BY <2>3, <2>4 DEF CleanInv
<1> QED BY <1>1, <1>2, <1>3, CleanSucceeded

LEMMA CleanInit == Init => CleanInv
<1> SUFFICES ASSUME Init PROVE CleanInv
  OBVIOUS
<1>1. /\ run.action = "BLOCK" /\ run.status = "NONE" /\ past.base = portal /\ worker.pc = "none"
      /\ \A p \in Portals : steps[p].before = None
      /\ \A t \in Tasks : portal["tasks"][t] # "blocked"
  BY DEF Init, FreshStep, Resting
<1>2. portal["tasks"] # AllBlocked("tasks")
  BY <1>1, TasksNeverAllBlocked
<1> QED BY <1>1, <1>2 DEF CleanInv, BaseFree, Progress, OnTheWay, AtRest, Start, OwnersKept,
     Remembered, Advanced, Caused, Applying, Compensating

(* What has been spoiled stays spoiled.                                      *)
LEMMA CleanBackwards == ASSUME TypeInv, PhaseInv, [Next]_vars, Clean' PROVE Clean
<1> USE DEF Clean, TypeInv
<1>1. CASE Undelivered \/ InspectFails \/ ApplyFails \/ CompensationFails \/ Crash
  BY <1>1, FaultIsTyped DEF Undelivered, InspectFails, ApplyFails, CompensationFails, Crash
<1>2. CASE ByHand \/ BeginExecution
  BY <1>2 DEF ByHand, BeginExecution, Ghost
<1>3. CASE FinishCompensated
  <2>1. PICK b \in BOOLEAN : ghost' = [ghost EXCEPT !.polluted = ghost.polluted \/ b]
    BY <1>3 DEF FinishCompensated
  <2> QED BY <2>1 DEF Ghost
<1>4. CASE AbortExecution
  <2>1. PICK b \in BOOLEAN : ghost' = [ghost EXCEPT !.faults = ghost.faults + 1, !.faulted = TRUE,
                                         !.aborted = TRUE, !.polluted = ghost.polluted \/ b]
    BY <1>4 DEF AbortExecution
  <2> QED BY <2>1 DEF Ghost
<1>5. CASE UNCHANGED ghost
  BY <1>5
<1> QED BY <1>1, <1>2, <1>3, <1>4, <1>5
     DEF Next, vars, Create, Resume, StartStep, Inspect, Apply, CompensateInspect,
         CompensateRestore, FinishSucceeded, Quarantine

LEMMA CleanStep ==
  ASSUME TypeInv, PhaseInv, MirrorInv, RollbackInv, Clean => CleanInv, [Next]_vars
  PROVE  (Clean => CleanInv)'
<1> SUFFICES ASSUME Clean' PROVE CleanInv'
  OBVIOUS
<1>1. CleanInv
  BY CleanBackwards
<1>2. CASE UNCHANGED vars
  <2>1. /\ \A n \in 1..3 : At(n)' = At(n)
        /\ \A p \in Portals : OnTheWay(p)' = OnTheWay(p) /\ Start(p)' = Start(p) /\ Goal(p)' = Goal(p)
        /\ Here' = Here
    BY <1>2 DEF vars, At, OnTheWay, Start, Goal, Here
  <2>2. Advanced'
    BY <1>1, <1>2, <2>1 DEF vars, CleanInv, Advanced, Goal, At
  <2> QED BY <1>1, <1>2, <2>1, <2>2 DEF vars, CleanInv, BaseFree, Progress, AtRest, OwnersKept,
       Remembered, Caused
<1>3. CASE Create("BLOCK") \/ Create("UNBLOCK")
  BY <1>1, <1>3, CleanCreate DEF Actions
<1>4. CASE ByHand
  BY <1>4 DEF ByHand, TypeInv, Ghost, Clean
<1>5. ~ghost'.polluted
  BY DEF Clean
<1> QED BY <1>1, <1>2, <1>3, <1>4, <1>5, CleanWaiting, CleanInspect, CleanApplying,
         CleanCompensating, CleanEnding DEF Next

-----------------------------------------------------------------------------
(* The theorems.                                                           *)

LEMMA IInvInit == Init => IInv
BY TypeInit, MirrorInit, RollbackInit, CleanInit DEF IInv

LEMMA IInvStep == IInv /\ [Next]_vars => IInv'
BY TypeStep, PhaseStep, MirrorStep, RollbackStep, CleanStep DEF IInv

LEMMA IInvAlways == Spec => []IInv
BY IInvInit, IInvStep, PTL DEF Spec

(* Every row, look and portal stays in its type, however many tasks, faults  *)
(* and resumptions there are: _apply_step never saves an empty look, and the *)
(* positions of _apply_steps and _compensate stay within the three portals.  *)
THEOREM TypeCorrect == Spec => []TypeOK
<1>1. IInv => TypeOK
  BY TypeImplied DEF IInv
<1> QED BY <1>1, IInvAlways, PTL

(* The client is PARTIAL exactly while a partial failure, or its resumption, *)
(* is open, and BLOCKED only with the snapshot and the earlier states that   *)
(* unblocking needs: create_sc05_run_result, resume_sc05_run, the three      *)
(* _finish_ functions and the isolation write run and client together.       *)
THEOREM ClientAlwaysMirrorsRun == Spec => []ClientMirrorsRun
<1>1. IInv => ClientMirrorsRun
  BY DEF IInv, MirrorInv
<1> QED BY <1>1, IInvAlways, PTL

(* When _finish_failed writes FAILED for a first execution, _compensate has  *)
(* put back every portal it had looked at, at whatever position and in       *)
(* whatever way the call failed.                                             *)
THEOREM FailedMeansRolledBack == Spec => []RollbackComplete
<1>1. IInv => RollbackComplete
  BY DEF IInv, RollbackInv
<1> QED BY <1>1, IInvAlways, PTL

(* A BLOCK that succeeds leaves everything blocked, and an UNBLOCK that      *)
(* succeeds brings back what was there before the BLOCK, after any number of *)
(* failures, crashes, isolations and resumptions of both.                    *)
THEOREM RoundTripIsExact == Spec => []RoundTrip
<1>1. IInv => RoundTrip
  <2> SUFFICES ASSUME IInv, run.status = "SUCCEEDED", ~ghost.byHand, ~ghost.polluted
               PROVE  portal = IF run.action = "UNBLOCK" THEN past.base
                               ELSE [p \in Portals |-> AllBlocked(p)]
    BY DEF RoundTrip
  <2>1. \A p \in Portals : portal[p] = Goal(p)
    BY DEF IInv, Clean, CleanInv, AtRest
  <2>2. OnPortals(portal) /\ OnPortals(past.base) /\ run.action \in Actions
    BY DEF IInv, TypeInv, PortalsTyped, PastTyped
  <2>3. CASE run.action = "BLOCK"
    BY <2>1, <2>2, <2>3 DEF Goal, OnPortals
  <2>4. CASE run.action = "UNBLOCK"
    BY <2>1, <2>2, <2>4 DEF Goal, OnPortals
  <2> QED BY <2>2, <2>3, <2>4 DEF Actions
<1> QED BY <1>1, IInvAlways, PTL

(* An execution that ends badly met a fault of its own: what an earlier one  *)
(* left behind in the portals is never the reason (_apply_step compares with *)
(* the saved look of the first execution, and inspects before it acts).      *)
THEOREM FailureAlwaysHasCause == Spec => []FailureHasCause
<1>1. IInv => FailureHasCause
  BY DEF IInv, Clean, CleanInv, Caused, FailureHasCause
<1> QED BY <1>1, IInvAlways, PTL
=============================================================================
