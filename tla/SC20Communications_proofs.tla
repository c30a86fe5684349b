---------------------- MODULE SC20Communications_proofs ----------------------
(***************************************************************************)
(* Proofs about SC20Communications: for any number of certificates,         *)
(* channels, runs, edits and faults nobody is warned twice, a communication *)
(* shows the fate of its last attempt, and ambiguity is isolated.           *)
(*                                                                          *)
(* The invariant speaks of communications and of runs.  A communication     *)
(* that may be attempted again has not reached the provider (KeySound); a   *)
(* run that is about to send, or waits to settle, holds the last and open   *)
(* attempt of its communication (RunSound), so that two runs never hold the *)
(* same one; what a run leaves open it leaves as a worker in the middle of  *)
(* it, or isolated.                                                         *)
(***************************************************************************)
EXTENDS SC20Communications, SequenceTheorems, TLAPS

Attempt == [run : Runs, status : Outcomes]
Communication == [status : {"none"} \cup Outcomes, attempts : Seq(Attempt)]
Reception == [accepted : Nat, unheard : BOOLEAN]

(* TypeOK with the domains of the histories, and the bound that keeps every  *)
(* validity inside Validities.                                               *)
TypeInv ==
  /\ certificate \in [Certificates -> [validity : Validities, channel : Channels, active : BOOLEAN]]
  /\ \A c \in Certificates : certificate[c].validity <= changes + 1
  /\ comm \in [Keys -> Communication]
  /\ run \in [Runs -> Run]
  /\ provider \in [Keys -> Reception]
  /\ changes \in 0..MaxChanges
  /\ faults \in 0..MaxFaults

-----------------------------------------------------------------------------
(* Attempts of one communication.                                            *)

Has(a, r, s) == \E i \in DOMAIN a : a[i] = [run |-> r, status |-> s]
Tried(a, r) == \E i \in DOMAIN a : a[i].run = r
OncePerRun(a) == \A i, j \in DOMAIN a : a[i].run = a[j].run => i = j

(* The communication mirrors its attempts.                                   *)
Mirrored(m) ==
  /\ m.status = "none" <=> m.attempts = <<>>
  /\ m.attempts # <<>> => m.attempts[Len(m.attempts)].status = m.status
  /\ \A i \in 1..Len(m.attempts) - 1 : m.attempts[i].status = "FAILED"

(* No accepted message that the gateway knows of.                            *)
Unsent(p) == p.accepted = 0 \/ p.unheard

(* A communication and what the provider accepted of it.                     *)
KeySound(m, p) ==
  /\ p.accepted <= 1 \/ p.unheard
  /\ m.status \in {"none", "FAILED"} => Unsent(p)
  /\ Mirrored(m)
  /\ OncePerRun(m.attempts)

(* The last attempt is the run's, and open.                                  *)
Open(m, r) ==
  /\ m.status = "PENDING"
  /\ m.attempts # <<>>
  /\ m.attempts[Len(m.attempts)].run = r

(* A run x with identity r, and one communication k.                         *)
Holding(r, x, k, m, p) ==
  /\ x.pc \in {"send", "settle"} /\ x.key = k =>
       /\ Open(m, r)
       /\ x.pc = "send" \/ x.heard # "delivered" => Unsent(p)
  /\ x.key = NoKey => ~Tried(m.attempts, r)
  /\ Has(m.attempts, r, "PENDING") =>
       x.status = "PARTIALLY_FAILED" \/ (x.pc \in {"send", "settle", "dead"} /\ x.key = k)
  /\ Has(m.attempts, r, "FAILED") => x.failures

(* A run by itself, and what it says of its failures.                        *)
RunSound(r, x, cs) ==
  /\ x.pc \in {"send", "settle"} => x.key # NoKey
  /\ x.pc # "none" => x.status \in {"RUNNING", "PARTIALLY_FAILED"}
  /\ x.failures => \E k \in Keys : Has(cs[k].attempts, r, "FAILED")
  /\ x.status \in {"SUCCEEDED", "SUCCEEDED_WITH_WARNINGS"} =>
       (x.status = "SUCCEEDED_WITH_WARNINGS" <=> x.failures)

IInv ==
  /\ TypeInv
  /\ \A k \in Keys : KeySound(comm[k], provider[k])
  /\ \A r \in Runs : RunSound(r, run[r], comm)
  /\ \A r \in Runs, k \in Keys : Holding(r, run[r], k, comm[k], provider[k])

LEMMA TypeImplied == TypeInv => TypeOK
<1> SUFFICES ASSUME TypeInv PROVE TypeOK
  OBVIOUS
<1>1. ASSUME NEW k \in Keys
      PROVE  /\ comm[k].status \in {"none"} \cup Outcomes
             /\ \A i \in DOMAIN comm[k].attempts : comm[k].attempts[i] \in Attempt
  <2>1. comm[k] \in Communication
    BY DEF TypeInv
  <2>2. comm[k].status \in {"none"} \cup Outcomes /\ comm[k].attempts \in Seq(Attempt)
    BY <2>1 DEF Communication
  <2> HIDE DEF Attempt
  <2> QED BY <2>2
<1> QED BY <1>1 DEF TypeInv, TypeOK, Attempt, Reception

LEMMA InitIInv == Init => IInv
<1> SUFFICES ASSUME Init PROVE IInv
  OBVIOUS
<1>0. <<>> \in Seq(Attempt) /\ DOMAIN <<>> = {} /\ Len(<<>>) = 0
  OBVIOUS
<1>1. TypeInv
  <2>1. NoRun \in Run
    BY DEF NoRun, Run
  <2>2. 1 \in Validities /\ 0 \in 0..MaxChanges /\ 0 \in 0..MaxFaults
    BY ConstantsAssumption DEF Validities
  <2>3. certificate \in [Certificates -> [validity : Validities, channel : Channels, active : BOOLEAN]]
    BY <2>2 DEF Init
  <2>4. ASSUME NEW c \in Certificates PROVE certificate[c].validity <= changes + 1
    <3>1. certificate[c] \in [validity : {1}, channel : Channels, active : {TRUE}] /\ changes = 0
      BY DEF Init
    <3>2. certificate[c].validity = 1
      BY <3>1
    <3> QED BY <3>1, <3>2
  <2>5. [status |-> "none", attempts |-> <<>>] \in Communication
    BY <1>0 DEF Communication
  <2>6. comm \in [Keys -> Communication]
    BY <2>5 DEF Init
  <2>7. provider \in [Keys -> Reception]
    BY DEF Init, Reception
  <2>8. run \in [Runs -> Run]
    BY <2>1 DEF Init
  <2> QED BY <2>2, <2>3, <2>4, <2>6, <2>7, <2>8 DEF Init, TypeInv
<1>2. ASSUME NEW k \in Keys
      PROVE  /\ comm[k] = [status |-> "none", attempts |-> <<>>]
             /\ provider[k] = [accepted |-> 0, unheard |-> FALSE]
  BY DEF Init
<1>3. ASSUME NEW k \in Keys PROVE KeySound(comm[k], provider[k])
  BY <1>0, <1>2 DEF KeySound, Mirrored, OncePerRun, Unsent
<1>4. ASSUME NEW r \in Runs PROVE run[r] = NoRun
  BY DEF Init
<1>5. ASSUME NEW r \in Runs PROVE RunSound(r, run[r], comm)
  BY <1>4 DEF RunSound, NoRun
<1>6. ASSUME NEW r \in Runs, NEW k \in Keys PROVE Holding(r, run[r], k, comm[k], provider[k])
  BY <1>0, <1>2, <1>4 DEF Holding, NoRun, Tried, Has
<1> QED BY <1>1, <1>3, <1>5, <1>6 DEF IInv

(* A communication after an attempt of r is prepared, and after it is        *)
(* settled with outcome o.                                                   *)
Prepared(m, r) ==
  [status |-> "PENDING", attempts |-> Append(m.attempts, [run |-> r, status |-> "PENDING"])]
Mine(m, r) == CHOOSE j \in DOMAIN m.attempts : m.attempts[j].run = r
Settled(m, r, o) ==
  [[m EXCEPT !.status = o] EXCEPT !.attempts[Mine(m, r)].status = o]

(* A run is prepared an attempt it has not made.                             *)
LEMMA AppendAttempt ==
  ASSUME NEW m \in Communication, NEW r \in Runs,
         Mirrored(m), OncePerRun(m.attempts), m.status \in {"none", "FAILED"},
         ~Tried(m.attempts, r)
  PROVE  /\ Prepared(m, r) \in Communication
         /\ Mirrored(Prepared(m, r))
         /\ OncePerRun(Prepared(m, r).attempts)
         /\ Open(Prepared(m, r), r)
         /\ ~Has(Prepared(m, r).attempts, r, "FAILED")
         /\ \A q \in Runs : q # r =>
              /\ Tried(Prepared(m, r).attempts, q) => Tried(m.attempts, q)
              /\ \A s \in Outcomes : Has(Prepared(m, r).attempts, q, s) <=> Has(m.attempts, q, s)
<1> DEFINE a == m.attempts
           e == [run |-> r, status |-> "PENDING"]
           b == Append(a, e)
           n == Prepared(m, r)
<1>1. a \in Seq(Attempt) /\ Len(a) \in Nat /\ DOMAIN a = 1..Len(a)
  BY DEF Communication
<1>2. e \in Attempt /\ e.run = r /\ e.status = "PENDING"
  BY DEF Attempt, Outcomes
<1>3. b \in Seq(Attempt) /\ Len(b) = Len(a) + 1 /\ DOMAIN b = 1..(Len(a) + 1)
  BY <1>1, <1>2
<1>4. b[Len(a) + 1] = e /\ \A i \in 1..Len(a) : b[i] = a[i]
  BY <1>1, <1>2
<1>5. \A i \in 1..Len(a) : a[i].status = "FAILED"
  <2>1. CASE a = <<>>
    BY <1>1, <2>1
  <2>2. CASE a # <<>>
    <3>1. Len(a) >= 1
      BY <1>1, <2>2
    <3>2. a[Len(a)].status = "FAILED"
      BY <2>2 DEF Mirrored
    <3>3. \A i \in 1..Len(a) : i = Len(a) \/ i \in 1..Len(a) - 1
      BY <1>1
    <3> QED BY <3>1, <3>2, <3>3 DEF Mirrored
  <2> QED BY <2>1, <2>2
<1>6. \A i \in 1..Len(a) : a[i].run # r
  BY <1>1 DEF Tried
<1>7. n.attempts = b /\ n.status = "PENDING" /\ n \in Communication
  BY <1>3 DEF Prepared, Communication, Outcomes
<1>8. b # <<>> /\ b[Len(b)] = e
  <2>1. Len(b) # 0 /\ b[Len(b)] = e
    BY <1>1, <1>3, <1>4
  <2>2. Len(<<>>) = 0
    OBVIOUS
  <2> HIDE DEF b, e
  <2> QED BY <2>1, <2>2
<1> HIDE DEF a, b, e, n
<1>9. Mirrored(n) /\ Open(n, r)
  BY <1>1, <1>2, <1>3, <1>4, <1>5, <1>7, <1>8 DEF Mirrored, Open
<1>10. OncePerRun(b)
  <2> SUFFICES ASSUME NEW i \in 1..(Len(a) + 1), NEW j \in 1..(Len(a) + 1), b[i].run = b[j].run
               PROVE  i = j
    BY <1>3 DEF OncePerRun
  <2>1. i \in 1..Len(a) \/ i = Len(a) + 1
    BY <1>1
  <2>2. j \in 1..Len(a) \/ j = Len(a) + 1
    BY <1>1
  <2>3. OncePerRun(a)
    BY DEF a
  <2> QED BY <2>1, <2>2, <2>3, <1>1, <1>2, <1>4, <1>6 DEF OncePerRun
<1>11. ~Has(b, r, "FAILED")
  <2> SUFFICES ASSUME NEW i \in 1..(Len(a) + 1), b[i] = [run |-> r, status |-> "FAILED"]
               PROVE  FALSE
    BY <1>3 DEF Has
  <2>1. i \in 1..Len(a) \/ i = Len(a) + 1
    BY <1>1
  <2> QED BY <2>1, <1>2, <1>4, <1>6
<1>12. ASSUME NEW q \in Runs, q # r
       PROVE  /\ Tried(b, q) => Tried(a, q)
              /\ \A s \in Outcomes : Has(b, q, s) <=> Has(a, q, s)
  <2>1. ASSUME NEW i \in DOMAIN b, b[i].run = q PROVE i \in DOMAIN a /\ a[i] = b[i]
    <3>1. i \in 1..Len(a) \/ i = Len(a) + 1
      BY <1>1, <1>3
    <3> QED BY <2>1, <3>1, <1>1, <1>2, <1>4, <1>12
  <2>2. \A i \in DOMAIN a : i \in DOMAIN b /\ b[i] = a[i]
    BY <1>1, <1>3, <1>4
  <2>3. Tried(b, q) => Tried(a, q)
    BY <2>1 DEF Tried
  <2>4. ASSUME NEW s \in Outcomes PROVE Has(b, q, s) <=> Has(a, q, s)
    BY <2>1, <2>2 DEF Has
  <2> QED BY <2>3, <2>4
<1> QED BY <1>7, <1>9, <1>10, <1>11, <1>12 DEF a, n

(* The holder of the open attempt settles it: the communication after it.    *)
LEMMA SettleAttempt ==
  ASSUME NEW m \in Communication, NEW r \in Runs, NEW o \in {"SENT", "FAILED"},
         Mirrored(m), OncePerRun(m.attempts), Open(m, r)
  PROVE  /\ Settled(m, r, o) \in Communication
         /\ Settled(m, r, o).status = o
         /\ Mirrored(Settled(m, r, o))
         /\ OncePerRun(Settled(m, r, o).attempts)
         /\ ~Has(Settled(m, r, o).attempts, r, "PENDING")
         /\ Tried(Settled(m, r, o).attempts, r)
         /\ Has(Settled(m, r, o).attempts, r, "FAILED") <=> o = "FAILED"
         /\ \A q \in Runs : q # r =>
              /\ Tried(Settled(m, r, o).attempts, q) => Tried(m.attempts, q)
              /\ \A s \in Outcomes : Has(Settled(m, r, o).attempts, q, s) <=> Has(m.attempts, q, s)
<1> DEFINE a == m.attempts
           n == Settled(m, r, o)
           i == Mine(m, r)
           b == n.attempts
           l == Len(a)
<1>1. a \in Seq(Attempt) /\ l \in Nat /\ DOMAIN a = 1..l
  BY DEF Communication
<1>2. a # <<>> /\ a[l].run = r
  BY DEF Open
<1>3. l \in DOMAIN a /\ l >= 1
  BY <1>1, <1>2
<1>4. i \in DOMAIN a /\ a[i].run = r
  BY <1>2, <1>3 DEF Mine
<1>5. i = l
  BY <1>2, <1>3, <1>4 DEF OncePerRun
<1>6. a[l] \in Attempt /\ [a[l] EXCEPT !.status = o] = [run |-> r, status |-> o]
  <2>1. a[l] \in Attempt
    BY <1>1, <1>3
  <2> HIDE DEF a, l
  <2> QED BY <2>1, <1>2 DEF Attempt
<1>7. b = [a EXCEPT ![l] = [run |-> r, status |-> o]] /\ n.status = o
  BY <1>5, <1>6 DEF Communication, Settled
<1>8. [run |-> r, status |-> o] \in Attempt /\ o \in Outcomes
  BY DEF Attempt, Outcomes
<1>9. b \in Seq(Attempt) /\ Len(b) = l /\ DOMAIN b = 1..l
  <2> DEFINE v == [run |-> r, status |-> o]
  <2>1. v \in Attempt /\ b = [a EXCEPT ![l] = v] /\ l \in 1..Len(a)
    BY <1>1, <1>3, <1>7, <1>8
  <2> HIDE DEF v, a, b
  <2>2. b \in Seq(Attempt) /\ Len(b) = Len(a)
    BY <1>1, <2>1, ExceptSeq
  <2>3. DOMAIN b = 1..Len(b)
    BY <2>2
  <2> QED BY <2>2, <2>3
<1>10. n = [status |-> o, attempts |-> b]
  <2>1. DOMAIN n = {"status", "attempts"} /\ n = [f \in DOMAIN n |-> n[f]]
    <3>1. DOMAIN m = {"status", "attempts"}
      BY DEF Communication
    <3> QED BY <3>1 DEF Settled
  <2> HIDE DEF n
  <2> QED BY <2>1, <1>7
<1>11. n \in Communication
  BY <1>8, <1>9, <1>10 DEF Communication
<1>12. b[l] = [run |-> r, status |-> o] /\ \A j \in 1..l : j # l => b[j] = a[j]
  BY <1>1, <1>3, <1>7
<1>13. \A j \in 1..l : j # l => a[j].run # r
  BY <1>1, <1>2, <1>3 DEF OncePerRun
<1>14. b # <<>>
  BY <1>3, <1>9
<1>15. \A j \in 1..l : b[j].run = a[j].run
  BY <1>2, <1>12
<1>16. OncePerRun(a) /\ \A j \in 1..l - 1 : a[j].status = "FAILED"
  BY DEF Mirrored
<1> HIDE DEF a, b, l, n, i
<1>17. Mirrored(n)
  <2>1. b[Len(b)].status = n.status
    BY <1>7, <1>9, <1>12
  <2>2. \A j \in 1..Len(b) - 1 : b[j].status = "FAILED"
    BY <1>1, <1>9, <1>12, <1>16
  <2> QED BY <1>7, <1>14, <2>1, <2>2 DEF Mirrored, b
<1>18. OncePerRun(b)
  BY <1>1, <1>9, <1>15, <1>16 DEF OncePerRun
<1>19. ~Has(b, r, "PENDING")
  BY <1>9, <1>12, <1>13 DEF Has
<1>20. Tried(b, r)
  BY <1>1, <1>3, <1>9, <1>12 DEF Tried
<1>21. Has(b, r, "FAILED") <=> o = "FAILED"
  BY <1>1, <1>3, <1>9, <1>12, <1>13 DEF Has
<1>22. ASSUME NEW q \in Runs, q # r
       PROVE  /\ Tried(b, q) => Tried(a, q)
              /\ \A s \in Outcomes : Has(b, q, s) <=> Has(a, q, s)
  <2>1. Tried(b, q) => Tried(a, q)
    BY <1>1, <1>9, <1>15 DEF Tried
  <2>2. ASSUME NEW s \in Outcomes PROVE Has(b, q, s) <=> Has(a, q, s)
    BY <1>1, <1>2, <1>9, <1>12, <1>22 DEF Has
  <2> QED BY <2>1, <2>2
<1> QED BY <1>7, <1>11, <1>17, <1>18, <1>19, <1>20, <1>21, <1>22 DEF a, b, n

-----------------------------------------------------------------------------
(* Steps.                                                                    *)

(* A step of run r, which becomes x: what has to hold of x, of the           *)
(* communications and of the other runs.                                     *)
LEMMA StepKeeps ==
  ASSUME IInv, TypeInv', NEW r \in Runs, NEW x \in Run, run' = [run EXCEPT ![r] = x],
         \A k \in Keys : KeySound(comm'[k], provider'[k]),
         RunSound(r, x, comm'),
         \A k \in Keys : Holding(r, x, k, comm'[k], provider'[k]),
         \A q \in Runs : q # r => \A k \in Keys :
           /\ Holding(q, run[q], k, comm'[k], provider'[k])
           /\ Has(comm[k].attempts, q, "FAILED") => Has(comm'[k].attempts, q, "FAILED")
  PROVE  IInv'
<1>1. run \in [Runs -> Run]
  BY DEF IInv, TypeInv
<1>2. run'[r] = x /\ \A q \in Runs : q # r => run'[q] = run[q]
  BY <1>1
<1>3. ASSUME NEW q \in Runs PROVE RunSound(q, run'[q], comm')
  <2>1. CASE q = r
    BY <1>2, <2>1
  <2>2. CASE q # r
    <3>1. RunSound(q, run[q], comm)
      BY DEF IInv
    <3> QED BY <1>2, <2>2, <3>1 DEF RunSound
  <2> QED BY <2>1, <2>2
<1>4. ASSUME NEW q \in Runs, NEW k \in Keys PROVE Holding(q, run'[q], k, comm'[k], provider'[k])
  BY <1>2
<1> QED BY <1>3, <1>4 DEF IInv

(* A step that changes nothing but the run.                                  *)
LEMMA OwnStepKeeps ==
  ASSUME IInv, NEW r \in Runs, NEW x \in Run, run' = [run EXCEPT ![r] = x],
         UNCHANGED <<certificate, comm, provider, changes>>, faults' \in 0..MaxFaults,
         RunSound(r, x, comm),
         \A k \in Keys : Holding(r, x, k, comm[k], provider[k])
  PROVE  IInv'
<1>1. TypeInv'
  BY DEF IInv, TypeInv
<1>2. \A k \in Keys : KeySound(comm'[k], provider'[k])
  BY DEF IInv
<1>3. ASSUME NEW q \in Runs, NEW k \in Keys
      PROVE  /\ Holding(q, run[q], k, comm'[k], provider'[k])
             /\ Has(comm[k].attempts, q, "FAILED") => Has(comm'[k].attempts, q, "FAILED")
  BY DEF IInv
<1>4. \A k \in Keys : Holding(r, x, k, comm'[k], provider'[k])
  OBVIOUS
<1> QED BY <1>1, <1>2, <1>3, <1>4, StepKeeps

(* What the invariant says of one run.                                       *)
LEMMA RowOf ==
  ASSUME IInv, NEW r \in Runs
  PROVE  /\ run[r] \in Run
         /\ run \in [Runs -> Run]
         /\ RunSound(r, run[r], comm)
         /\ \A k \in Keys : Holding(r, run[r], k, comm[k], provider[k])
         /\ faults \in 0..MaxFaults
BY DEF IInv, TypeInv

LEMMA KeyFacts == NoKey \notin Keys
BY DEF NoKey, Keys

(* Two runs never hold the same communication.                               *)
LEMMA OneHolder ==
  ASSUME IInv, NEW q \in Runs, NEW r \in Runs, q # r, run[q].key = run[r].key,
         run[q].key \in Keys, run[q].pc \in {"send", "settle"}, run[r].pc \in {"send", "settle"}
  PROVE  FALSE
<1> DEFINE m == comm[run[r].key]
<1>1. Open(m, q) /\ Open(m, r)
  BY RowOf DEF Holding
<1> QED BY <1>1 DEF Open

(* A run between its transactions that has not been isolated left nothing    *)
(* open.                                                                     *)
LEMMA NothingOpen ==
  ASSUME IInv, NEW r \in Runs, run[r].pc \in {"none", "next"}, run[r].status # "PARTIALLY_FAILED",
         NEW k \in Keys
  PROVE  ~Has(comm[k].attempts, r, "PENDING")
BY RowOf DEF Holding

-----------------------------------------------------------------------------
(* People.                                                                   *)

LEMMA RequestKeeps ==
  ASSUME IInv, NEW r \in Runs, RequestScan(r) \/ \E k \in Keys : RequestRetry(r, k)
  PROVE  IInv'
<1>1. PICK t \in Keys \cup {NoKey} :
         run' = [run EXCEPT ![r] = [run[r] EXCEPT !.status = "QUEUED", !.retry = t]]
  <2>1. CASE RequestScan(r)
    <3>1. [run[r] EXCEPT !.status = "QUEUED"]
            = [run[r] EXCEPT !.status = "QUEUED", !.retry = run[r].retry]
      BY RowOf DEF Run
    <3>2. run[r].retry \in Keys \cup {NoKey}
      BY RowOf DEF Run
    <3> QED BY <2>1, <3>1, <3>2 DEF RequestScan
  <2>2. ASSUME NEW k \in Keys, RequestRetry(r, k)
        PROVE  run' = [run EXCEPT ![r] = [run[r] EXCEPT !.status = "QUEUED", !.retry = k]]
    <3>1. run' = [run EXCEPT ![r].status = "QUEUED", ![r].retry = k]
      BY <2>2 DEF RequestRetry
    <3> QED BY <3>1, RowOf
  <2> QED BY <2>1, <2>2
<1> DEFINE x == [run[r] EXCEPT !.status = "QUEUED", !.retry = t]
<1>2. run[r].status = "absent" /\ UNCHANGED <<certificate, comm, provider, changes, faults>>
  BY DEF RequestScan, RequestRetry
<1>3. x \in Run
  BY RowOf DEF Run
<1>4. x.status = "QUEUED" /\ x.pc = run[r].pc /\ x.key = run[r].key /\ x.failures = run[r].failures
  BY RowOf DEF Run
<1>5. run[r].pc = "none"
  BY <1>2, RowOf DEF RunSound, Run
<1> HIDE DEF x
<1>6. RunSound(r, x, comm)
  BY <1>4, <1>5, RowOf DEF RunSound
<1>7. ASSUME NEW k \in Keys PROVE Holding(r, x, k, comm[k], provider[k])
  BY <1>2, <1>4, <1>5, RowOf DEF Holding
<1> QED BY <1>1, <1>2, <1>3, <1>6, <1>7, RowOf, OwnStepKeeps DEF x

(* Edits of a certificate touch neither communications nor runs.             *)
LEMMA EditKeeps ==
  ASSUME IInv, NEW c \in Certificates, Renew(c) \/ Deactivate(c) \/ SwitchChannel(c)
  PROVE  IInv'
<1>1. UNCHANGED <<comm, run, provider, faults>> /\ changes' = changes + 1 /\ changes < MaxChanges
  BY DEF Renew, Deactivate, SwitchChannel
<1>2. changes \in Nat /\ MaxChanges \in Nat /\ changes' \in 0..MaxChanges
  BY <1>1, ConstantsAssumption DEF IInv, TypeInv
<1> DEFINE Cert == [validity : Validities, channel : Channels, active : BOOLEAN]
<1>3. certificate \in [Certificates -> Cert] /\ certificate[c] \in Cert
  BY DEF IInv, TypeInv
<1>4. \A d \in Certificates : certificate[d].validity \in Nat /\ certificate[d].validity <= changes + 1
  BY <1>3 DEF IInv, TypeInv, Validities
<1>5. PICK y \in Cert : /\ certificate' = [certificate EXCEPT ![c] = y]
                        /\ y.validity <= changes + 2
  <2>1. CASE Renew(c)
    <3>1. certificate[c].validity + 1 \in Validities
      BY <1>1, <1>2, <1>3, <1>4 DEF Validities
    <3>2. [certificate[c] EXCEPT !.validity = @ + 1] \in Cert
      BY <1>3, <3>1
    <3>3. [certificate[c] EXCEPT !.validity = @ + 1].validity = certificate[c].validity + 1
      BY <1>3
    <3>4. certificate[c].validity + 1 <= changes + 2
      BY <1>2, <1>4
    <3>5. certificate' = [certificate EXCEPT ![c] = [certificate[c] EXCEPT !.validity = @ + 1]]
      BY <2>1, <1>3 DEF Renew
    <3> HIDE DEF Cert
    <3> QED BY <3>2, <3>3, <3>4, <3>5
  <2>2. CASE Deactivate(c)
    <3>1. [certificate[c] EXCEPT !.active = FALSE] \in Cert
      BY <1>3
    <3>2. [certificate[c] EXCEPT !.active = FALSE].validity = certificate[c].validity
      BY <1>3
    <3>3. certificate[c].validity <= changes + 2
      BY <1>2, <1>4
    <3>4. certificate' = [certificate EXCEPT ![c] = [certificate[c] EXCEPT !.active = FALSE]]
      BY <2>2, <1>3 DEF Deactivate
    <3> HIDE DEF Cert
    <3> QED BY <3>1, <3>2, <3>3, <3>4
  <2>3. CASE SwitchChannel(c)
    <3>1. PICK h \in Channels : certificate' = [certificate EXCEPT ![c].channel = h]
      BY <2>3 DEF SwitchChannel
    <3>2. [certificate[c] EXCEPT !.channel = h] \in Cert
      BY <1>3
    <3>3. [certificate[c] EXCEPT !.channel = h].validity = certificate[c].validity
      BY <1>3
    <3>4. certificate[c].validity <= changes + 2
      BY <1>2, <1>4
    <3>5. certificate' = [certificate EXCEPT ![c] = [certificate[c] EXCEPT !.channel = h]]
      BY <3>1, <1>3
    <3> HIDE DEF Cert
    <3> QED BY <3>2, <3>3, <3>4, <3>5
  <2> QED BY <2>1, <2>2, <2>3
<1>6. certificate' \in [Certificates -> Cert]
  BY <1>3, <1>5
<1>7. ASSUME NEW d \in Certificates PROVE certificate'[d].validity <= changes' + 1
  <2> HIDE DEF Cert
  <2>1. CASE d = c
    BY <2>1, <1>1, <1>2, <1>3, <1>5
  <2>2. CASE d # c
    BY <2>2, <1>1, <1>2, <1>3, <1>4, <1>5
  <2> QED BY <2>1, <2>2
<1>8. TypeInv'
  BY <1>1, <1>2, <1>6, <1>7 DEF IInv, TypeInv
<1> QED BY <1>1, <1>8 DEF IInv

-----------------------------------------------------------------------------
(* The worker, between its calls.                                            *)

(* Steps that only rewrite the run: what they keep of it.  A run that stays  *)
(* where it is keeps its key; one that leaves the middle of a delivery       *)
(* leaves nothing open, or is isolated.                                      *)
LEMMA RewriteKeeps ==
  ASSUME IInv, NEW r \in Runs, NEW x \in Run, run' = [run EXCEPT ![r] = x],
         UNCHANGED <<certificate, comm, provider, changes>>, faults' \in 0..MaxFaults,
         x.failures = run[r].failures,
         x.key = run[r].key \/ (x.key # NoKey /\ run[r].pc = "next" /\ x.pc = "next"),
         x.pc \in {"send", "settle"} => /\ x.pc = run[r].pc \/ (run[r].pc = "send" /\ x.heard # "delivered")
                                        /\ x.pc = run[r].pc => x.heard = run[r].heard,
         x.pc # "none" => x.status \in {"RUNNING", "PARTIALLY_FAILED"},
         x.status # "PARTIALLY_FAILED" =>
           \/ x.pc \in {"send", "settle", "dead"} /\ run[r].status # "PARTIALLY_FAILED"
           \/ \A k \in Keys : ~Has(comm[k].attempts, r, "PENDING"),
         x.status \in {"SUCCEEDED", "SUCCEEDED_WITH_WARNINGS"} =>
           (x.status = "SUCCEEDED_WITH_WARNINGS" <=> x.failures)
  PROVE  IInv'
<1>1. RunSound(r, run[r], comm) /\ \A k \in Keys : Holding(r, run[r], k, comm[k], provider[k])
  BY RowOf
<1>2. RunSound(r, x, comm)
  <2>1. x.pc \in {"send", "settle"} => x.key # NoKey
    BY <1>1 DEF RunSound
  <2>2. x.failures => \E k \in Keys : Has(comm[k].attempts, r, "FAILED")
    BY <1>1 DEF RunSound
  <2> QED BY <2>1, <2>2 DEF RunSound
<1>3. ASSUME NEW k \in Keys PROVE Holding(r, x, k, comm[k], provider[k])
  <2>0. Holding(r, run[r], k, comm[k], provider[k])
    BY <1>1
  <2>1. x.pc \in {"send", "settle"} /\ x.key = k =>
          /\ Open(comm[k], r)
          /\ x.pc = "send" \/ x.heard # "delivered" => Unsent(provider[k])
    BY <2>0 DEF Holding
  <2>2. x.key = NoKey => ~Tried(comm[k].attempts, r)
    BY <2>0 DEF Holding
  <2>3. Has(comm[k].attempts, r, "PENDING") =>
          x.status = "PARTIALLY_FAILED" \/ (x.pc \in {"send", "settle", "dead"} /\ x.key = k)
    BY <2>0 DEF Holding
  <2>4. Has(comm[k].attempts, r, "FAILED") => x.failures
    BY <2>0 DEF Holding
  <2> QED BY <2>1, <2>2, <2>3, <2>4 DEF Holding
<1> QED BY <1>2, <1>3, OwnStepKeeps

LEMMA FaultType ==
  ASSUME IInv, NEW kind, Fault(kind)
  PROVE  faults' \in 0..MaxFaults
<1>1. faults \in Nat /\ MaxFaults \in Nat
  BY ConstantsAssumption DEF IInv, TypeInv
<1> QED BY <1>1 DEF Fault

LEMMA StartKeeps ==
  ASSUME IInv, NEW r \in Runs, Start(r)
  PROVE  IInv'
<1>1. PICK selected \in SUBSET Certificates :
         run' = [run EXCEPT ![r].status = "RUNNING", ![r].pc = "next", ![r].todo = selected]
  BY DEF Start
<1> DEFINE x == [run[r] EXCEPT !.status = "RUNNING", !.pc = "next", !.todo = selected]
<1>2. run[r] \in Run /\ run \in [Runs -> Run] /\ faults' \in 0..MaxFaults
  BY RowOf DEF Start
<1>3. run' = [run EXCEPT ![r] = x]
  BY <1>1, <1>2
<1>4. x \in Run
  BY <1>2 DEF Run
<1>5. x.status = "RUNNING" /\ x.pc = "next" /\ x.key = run[r].key /\ x.failures = run[r].failures
  BY <1>2 DEF Run
<1>6. run[r].pc = "none" /\ run[r].status = "QUEUED"
  BY <1>2, RowOf DEF RunSound, Run, Start
<1>7. UNCHANGED <<certificate, comm, provider, changes>>
  BY DEF Start
<1>8. \A k \in Keys : ~Has(comm[k].attempts, r, "PENDING")
  BY <1>6, NothingOpen
<1> HIDE DEF x
<1> QED BY <1>2, <1>3, <1>4, <1>5, <1>6, <1>7, <1>8, RewriteKeeps

LEMMA SupersededKeeps ==
  ASSUME IInv, NEW r \in Runs, Superseded(r)
  PROVE  IInv'
<1> DEFINE x == [run[r] EXCEPT !.pc = "none"]
<1>1. run[r] \in Run /\ run \in [Runs -> Run] /\ faults' \in 0..MaxFaults
  BY RowOf DEF Superseded
<1>2. x \in Run /\ run' = [run EXCEPT ![r] = x]
  BY <1>1 DEF Run, Superseded
<1>3. run[r].status = "PARTIALLY_FAILED"
  BY RowOf DEF RunSound, Superseded, Fenced
<1>4. x.status = run[r].status /\ x.pc = "none" /\ x.key = run[r].key /\ x.failures = run[r].failures
  BY <1>1 DEF Run
<1>5. UNCHANGED <<certificate, comm, provider, changes>>
  BY DEF Superseded
<1> HIDE DEF x
<1> QED BY <1>1, <1>2, <1>3, <1>4, <1>5, RewriteKeeps

LEMMA DispenseKeeps ==
  ASSUME IInv, NEW r \in Runs, DispenseRetry(r)
  PROVE  IInv'
<1> DEFINE x == [run[r] EXCEPT !.key = run[r].retry]
<1>1. run[r] \in Run /\ run \in [Runs -> Run] /\ faults' \in 0..MaxFaults
  BY RowOf DEF DispenseRetry
<1>2. x \in Run /\ run' = [run EXCEPT ![r] = x]
  BY <1>1 DEF Run, DispenseRetry
<1>3. /\ x.status = run[r].status /\ x.pc = run[r].pc /\ x.key # NoKey /\ x.failures = run[r].failures
      /\ run[r].pc = "next" /\ run[r].status = "RUNNING"
  BY <1>1 DEF Run, DispenseRetry, Fenced
<1>4. \A k \in Keys : ~Has(comm[k].attempts, r, "PENDING")
  BY <1>3, NothingOpen
<1>5. UNCHANGED <<certificate, comm, provider, changes>>
  BY DEF DispenseRetry
<1> HIDE DEF x
<1> QED BY <1>1, <1>2, <1>3, <1>4, <1>5, RewriteKeeps

LEMMA FinishKeeps ==
  ASSUME IInv, NEW r \in Runs, Finish(r)
  PROVE  IInv'
<1> DEFINE s == IF run[r].failures THEN "SUCCEEDED_WITH_WARNINGS" ELSE "SUCCEEDED"
           x == [run[r] EXCEPT !.pc = "none", !.status = s]
<1>1. run[r] \in Run /\ run \in [Runs -> Run] /\ faults' \in 0..MaxFaults
  BY RowOf DEF Finish
<1>2. x \in Run /\ run' = [run EXCEPT ![r] = x]
  BY <1>1 DEF Run, Finish, Terminal
<1>3. /\ x.status = s /\ x.pc = "none" /\ x.key = run[r].key /\ x.failures = run[r].failures
      /\ run[r].pc = "next" /\ run[r].status = "RUNNING"
  BY <1>1 DEF Run, Finish, Fenced
<1>4. \A k \in Keys : ~Has(comm[k].attempts, r, "PENDING")
  BY <1>3, NothingOpen
<1>5. UNCHANGED <<certificate, comm, provider, changes>>
  BY DEF Finish
<1>6. x.status = "SUCCEEDED_WITH_WARNINGS" <=> x.failures
  BY <1>3
<1> HIDE DEF x, s
<1> QED BY <1>1, <1>2, <1>3, <1>4, <1>5, <1>6, RewriteKeeps

LEMMA FailKeeps ==
  ASSUME IInv, NEW r \in Runs, FailUnhandled(r)
  PROVE  IInv'
<1> DEFINE x == [run[r] EXCEPT !.pc = "none", !.status = FailureStatus(r)]
<1>1. run[r] \in Run /\ run \in [Runs -> Run] /\ faults' \in 0..MaxFaults
  BY RowOf, FaultType DEF FailUnhandled
<1>2. FailureStatus(r) \in {"FAILED", "PARTIALLY_FAILED"}
  BY DEF FailureStatus
<1>3. x \in Run /\ run' = [run EXCEPT ![r] = x]
  BY <1>1, <1>2 DEF Run, FailUnhandled, Terminal
<1>4. x.status = FailureStatus(r) /\ x.pc = "none" /\ x.key = run[r].key /\ x.failures = run[r].failures
  BY <1>1 DEF Run
<1>5. x.status # "PARTIALLY_FAILED" => \A k \in Keys : ~Has(comm[k].attempts, r, "PENDING")
  BY <1>4 DEF FailureStatus, Ambiguous, Has
<1>6. UNCHANGED <<certificate, comm, provider, changes>>
  BY DEF FailUnhandled
<1> HIDE DEF x
<1> QED BY <1>1, <1>2, <1>3, <1>4, <1>5, <1>6, RewriteKeeps

LEMMA QuarantineKeeps ==
  ASSUME IInv, NEW r \in Runs, Quarantine(r)
  PROVE  IInv'
<1> DEFINE x == [run[r] EXCEPT !.status = "PARTIALLY_FAILED"]
<1>1. run[r] \in Run /\ run \in [Runs -> Run] /\ faults' \in 0..MaxFaults
  BY RowOf, FaultType DEF Quarantine
<1>2. x \in Run /\ run' = [run EXCEPT ![r] = x]
  BY <1>1 DEF Run, Quarantine, Terminal
<1>3. /\ x.status = "PARTIALLY_FAILED" /\ x.pc = run[r].pc /\ x.key = run[r].key
      /\ x.failures = run[r].failures /\ x.heard = run[r].heard
  BY <1>1 DEF Run
<1>4. UNCHANGED <<certificate, comm, provider, changes>>
  BY DEF Quarantine
<1> HIDE DEF x
<1> QED BY <1>1, <1>2, <1>3, <1>4, RewriteKeeps

-----------------------------------------------------------------------------
(* The call of the provider.                                                 *)

(* The provider accepts the message of a run that was about to send; p is    *)
(* its record afterwards.                                                    *)
LEMMA AcceptKeeps ==
  ASSUME IInv, NEW r \in Runs, run[r].pc = "send", NEW x \in Run, run' = [run EXCEPT ![r] = x],
         NEW p \in Reception, provider' = [provider EXCEPT ![run[r].key] = p],
         UNCHANGED <<certificate, comm, changes>>, faults' \in 0..MaxFaults,
         p.accepted = provider[run[r].key].accepted + 1,
         p.unheard \/ ~provider[run[r].key].unheard,
         x.pc \in {"settle", "dead"}, x.key = run[r].key, x.status = run[r].status,
         x.failures = run[r].failures,
         x.heard # "delivered" /\ x.pc = "settle" => p.unheard
  PROVE  IInv'
<1> DEFINE h == run[r].key
<1>0. run[r] \in Run /\ RunSound(r, run[r], comm)
         /\ \A k \in Keys : Holding(r, run[r], k, comm[k], provider[k])
  BY RowOf
<1>1. h \in Keys
  BY <1>0 DEF RunSound, Run
<1>2. Open(comm[h], r) /\ Unsent(provider[h])
  BY <1>0, <1>1 DEF Holding
<1>3. provider \in [Keys -> Reception] /\ provider[h] \in Reception
  BY <1>1 DEF IInv, TypeInv
<1>4. provider'[h] = p /\ \A k \in Keys : k # h => provider'[k] = provider[k]
  BY <1>1, <1>3
<1>5. TypeInv'
  <2>1. provider' \in [Keys -> Reception]
    BY <1>3
  <2>2. run' \in [Runs -> Run]
    BY RowOf
  <2> QED BY <2>1, <2>2 DEF IInv, TypeInv
<1>6. p.accepted <= 1 \/ p.unheard
  BY <1>2, <1>3 DEF Unsent, Reception
<1>7. ASSUME NEW k \in Keys PROVE KeySound(comm'[k], provider'[k])
  <2>1. KeySound(comm[k], provider[k])
    BY DEF IInv
  <2>2. CASE k = h
    BY <2>1, <2>2, <1>2, <1>4, <1>6 DEF KeySound, Open
  <2>3. CASE k # h
    BY <2>1, <2>3, <1>4
  <2> QED BY <2>2, <2>3
<1>8. RunSound(r, x, comm')
  BY <1>0 DEF RunSound
<1>9. ASSUME NEW k \in Keys PROVE Holding(r, x, k, comm'[k], provider'[k])
  <2>1. Holding(r, run[r], k, comm[k], provider[k])
    BY <1>0
  <2>2. x.pc \in {"send", "settle"} /\ x.key = k =>
          /\ Open(comm[k], r)
          /\ x.pc = "send" \/ x.heard # "delivered" => Unsent(provider'[k])
    BY <1>2, <1>4 DEF Unsent
  <2>3. x.key = NoKey => ~Tried(comm[k].attempts, r)
    BY <2>1 DEF Holding
  <2>4. Has(comm[k].attempts, r, "PENDING") =>
          x.status = "PARTIALLY_FAILED" \/ (x.pc \in {"send", "settle", "dead"} /\ x.key = k)
    BY <2>1 DEF Holding
  <2>5. Has(comm[k].attempts, r, "FAILED") => x.failures
    BY <2>1 DEF Holding
  <2> QED BY <2>2, <2>3, <2>4, <2>5 DEF Holding
<1>10. ASSUME NEW q \in Runs, q # r, NEW k \in Keys
       PROVE  /\ Holding(q, run[q], k, comm'[k], provider'[k])
              /\ Has(comm[k].attempts, q, "FAILED") => Has(comm'[k].attempts, q, "FAILED")
  <2>1. Holding(q, run[q], k, comm[k], provider[k])
    BY RowOf
  <2>2. CASE k # h
    BY <2>1, <2>2, <1>4
  <2>3. CASE k = h
    <3>1. ~(run[q].pc \in {"send", "settle"} /\ run[q].key = k)
      BY <2>3, <1>10, <1>1, OneHolder
    <3> QED BY <2>1, <3>1 DEF Holding
  <2> QED BY <2>2, <2>3
<1> QED BY <1>5, <1>7, <1>8, <1>9, <1>10, StepKeeps

LEMMA SendKeeps ==
  ASSUME IInv, NEW r \in Runs, Send(r)
  PROVE  IInv'
<1>1. run[r] \in Run /\ run \in [Runs -> Run] /\ faults' \in 0..MaxFaults /\ run[r].pc = "send"
  BY RowOf DEF Send
<1>2. UNCHANGED <<certificate, comm, changes>>
  BY DEF Send
<1>3. CASE Accept(run[r].key) /\ run' = [run EXCEPT ![r].pc = "settle", ![r].heard = "delivered"]
  <2> DEFINE h == run[r].key
             x == [run[r] EXCEPT !.pc = "settle", !.heard = "delivered"]
             p == [provider[h] EXCEPT !.accepted = @ + 1]
  <2>1. x \in Run /\ run' = [run EXCEPT ![r] = x]
    BY <1>1, <1>3 DEF Run
  <2>2. /\ x.pc = "settle" /\ x.key = run[r].key /\ x.status = run[r].status
        /\ x.failures = run[r].failures /\ x.heard = "delivered"
    BY <1>1 DEF Run
  <2>3. h \in Keys
    BY <1>1, RowOf DEF RunSound, Run
  <2>4. provider \in [Keys -> Reception] /\ provider[h] \in Reception
    BY <2>3 DEF IInv, TypeInv
  <2>5. /\ p \in Reception /\ p.accepted = provider[h].accepted + 1
        /\ p.unheard = provider[h].unheard /\ p.unheard \in BOOLEAN
    BY <2>4 DEF Reception
  <2>6. provider' = [provider EXCEPT ![h] = p]
    BY <1>3, <2>3, <2>4 DEF Accept
  <2>7. p.unheard \/ ~provider[h].unheard
    BY <2>5
  <2> HIDE DEF x, p
  <2> QED BY <1>1, <1>2, <2>1, <2>2, <2>5, <2>6, <2>7, AcceptKeeps
<1>4. CASE UNCHANGED provider /\ run' = [run EXCEPT ![r].pc = "settle", ![r].heard = "refused"]
  <2> DEFINE x == [run[r] EXCEPT !.pc = "settle", !.heard = "refused"]
  <2>1. x \in Run /\ run' = [run EXCEPT ![r] = x]
    BY <1>1, <1>4 DEF Run
  <2>2. /\ x.pc = "settle" /\ x.key = run[r].key /\ x.status = run[r].status
        /\ x.failures = run[r].failures /\ x.heard = "refused"
    BY <1>1 DEF Run
  <2>3. run[r].status \in {"RUNNING", "PARTIALLY_FAILED"}
    BY <1>1, RowOf DEF RunSound
  <2> HIDE DEF x
  <2> QED BY <1>1, <1>2, <1>4, <2>1, <2>2, <2>3, RewriteKeeps
<1> QED BY <1>3, <1>4 DEF Send

LEMMA SendUnheardKeeps ==
  ASSUME IInv, NEW r \in Runs, SendUnheard(r)
  PROVE  IInv'
<1> DEFINE h == run[r].key
           x == [run[r] EXCEPT !.pc = "settle", !.heard = "refused"]
           p == [accepted |-> provider[h].accepted + 1, unheard |-> TRUE]
<1>1. run[r] \in Run /\ run \in [Runs -> Run] /\ faults' \in 0..MaxFaults /\ run[r].pc = "send"
  BY RowOf, FaultType DEF SendUnheard
<1>2. x \in Run /\ run' = [run EXCEPT ![r] = x]
  BY <1>1 DEF Run, SendUnheard
<1>3. /\ x.pc = "settle" /\ x.key = run[r].key /\ x.status = run[r].status
      /\ x.failures = run[r].failures /\ x.heard = "refused"
  BY <1>1 DEF Run
<1>4. h \in Keys
  BY <1>1, RowOf DEF RunSound, Run
<1>5. provider[h] \in Reception
  BY <1>4 DEF IInv, TypeInv
<1>6. p \in Reception /\ p.accepted = provider[h].accepted + 1 /\ p.unheard
  BY <1>5 DEF Reception
<1>7. provider' = [provider EXCEPT ![h] = p] /\ UNCHANGED <<certificate, comm, changes>>
  BY DEF SendUnheard
<1> HIDE DEF x, p
<1> QED BY <1>1, <1>2, <1>3, <1>6, <1>7, AcceptKeeps

LEMMA CrashKeeps ==
  ASSUME IInv, NEW r \in Runs, Crash(r)
  PROVE  IInv'
<1> DEFINE h == run[r].key
           x == [run[r] EXCEPT !.pc = "dead"]
           p == [provider[h] EXCEPT !.accepted = @ + 1]
<1>1. /\ run[r] \in Run /\ run \in [Runs -> Run] /\ faults' \in 0..MaxFaults
      /\ run[r].pc \in {"next", "send", "settle"}
  BY RowOf, FaultType DEF Crash
<1>2. x \in Run /\ run' = [run EXCEPT ![r] = x]
  BY <1>1 DEF Run, Crash
<1>3. x.pc = "dead" /\ x.key = run[r].key /\ x.status = run[r].status /\ x.failures = run[r].failures
  BY <1>1 DEF Run
<1>4. UNCHANGED <<certificate, comm, changes>>
  BY DEF Crash
<1>5. CASE UNCHANGED provider
  <2>1. run[r].status \in {"RUNNING", "PARTIALLY_FAILED"}
    BY <1>1, RowOf DEF RunSound
  <2> HIDE DEF x
  <2> QED BY <1>1, <1>2, <1>3, <1>4, <1>5, <2>1, RewriteKeeps
<1>6. CASE run[r].pc = "send" /\ Accept(h)
  <2>1. h \in Keys
    BY <1>6, <1>1, RowOf DEF RunSound, Run
  <2>2. provider \in [Keys -> Reception] /\ provider[h] \in Reception
    BY <2>1 DEF IInv, TypeInv
  <2>3. /\ p \in Reception /\ p.accepted = provider[h].accepted + 1
        /\ p.unheard = provider[h].unheard /\ p.unheard \in BOOLEAN
    BY <2>2 DEF Reception
  <2>4. provider' = [provider EXCEPT ![h] = p]
    BY <1>6, <2>1, <2>2 DEF Accept
  <2>5. p.unheard \/ ~provider[h].unheard
    BY <2>3
  <2> HIDE DEF x, p
  <2> QED BY <1>1, <1>2, <1>3, <1>4, <1>6, <2>3, <2>4, <2>5, AcceptKeeps
<1> QED BY <1>5, <1>6 DEF Crash

-----------------------------------------------------------------------------
(* The two transactions around the call.                                     *)

LEMMA PrepareKeeps ==
  ASSUME IInv, NEW r \in Runs, NEW k \in Keys, PrepareDelivery(r, k),
         run[r].pc = "next", run[r].status = "RUNNING",
         comm[k].status \in {"none", "FAILED"}, ~Tried(comm[k].attempts, r),
         NEW x \in Run, run' = [run EXCEPT ![r] = x],
         x.pc = "send", x.key = k, x.status = "RUNNING", x.failures = run[r].failures,
         UNCHANGED <<certificate, provider, changes, faults>>
  PROVE  IInv'
<1> DEFINE m == comm[k]
           n == Prepared(m, r)
<1>0. RunSound(r, run[r], comm) /\ \A j \in Keys : Holding(r, run[r], j, comm[j], provider[j])
  BY RowOf
<1>1. comm \in [Keys -> Communication] /\ m \in Communication /\ KeySound(m, provider[k])
  BY DEF IInv, TypeInv
<1>2. comm' = [comm EXCEPT ![k] = n]
  BY DEF PrepareDelivery, Prepared
<1>3. Mirrored(m) /\ OncePerRun(m.attempts) /\ Unsent(provider[k])
  BY <1>1 DEF KeySound
<1>4. /\ n \in Communication /\ Mirrored(n) /\ OncePerRun(n.attempts) /\ Open(n, r)
      /\ ~Has(n.attempts, r, "FAILED")
      /\ \A q \in Runs : q # r =>
           /\ Tried(n.attempts, q) => Tried(m.attempts, q)
           /\ \A s \in Outcomes : Has(n.attempts, q, s) <=> Has(m.attempts, q, s)
  <2>1. m.status \in {"none", "FAILED"} /\ ~Tried(m.attempts, r)
    OBVIOUS
  <2> HIDE DEF m
  <2> QED BY <2>1, <1>1, <1>3, AppendAttempt
<1>5. n.status = "PENDING"
  BY DEF Prepared
<1> HIDE DEF n
<1>6. comm'[k] = n /\ \A j \in Keys : j # k => comm'[j] = comm[j]
  BY <1>1, <1>2
<1>7. TypeInv'
  <2>1. comm' \in [Keys -> Communication]
    BY <1>1, <1>2, <1>4
  <2>2. run' \in [Runs -> Run]
    BY RowOf
  <2> QED BY <2>1, <2>2 DEF IInv, TypeInv
<1>8. ASSUME NEW j \in Keys PROVE KeySound(comm'[j], provider'[j])
  <2>1. CASE j = k
    BY <2>1, <1>1, <1>4, <1>5, <1>6 DEF KeySound
  <2>2. CASE j # k
    BY <2>2, <1>6 DEF IInv
  <2> QED BY <2>1, <2>2
<1>9. ASSUME NEW j \in Keys PROVE Holding(r, x, j, comm'[j], provider'[j])
  <2>1. CASE j = k
    <3>1. j # NoKey
      BY KeyFacts
    <3> QED BY <2>1, <3>1, <1>3, <1>4, <1>6 DEF Holding
  <2>2. CASE j # k
    <3>1. x.key # NoKey /\ Holding(r, run[r], j, comm[j], provider[j])
      BY <1>0, KeyFacts
    <3>2. ~Has(comm[j].attempts, r, "PENDING")
      BY NothingOpen
    <3> QED BY <2>2, <3>1, <3>2, <1>6 DEF Holding
  <2> QED BY <2>1, <2>2
<1>10. RunSound(r, x, comm')
  <2>1. ASSUME x.failures PROVE \E j \in Keys : Has(comm'[j].attempts, r, "FAILED")
    <3>1. PICK j \in Keys : Has(comm[j].attempts, r, "FAILED")
      BY <1>0, <2>1 DEF RunSound
    <3>2. j # k
      BY <3>1 DEF Has, Tried
    <3> QED BY <3>1, <3>2, <1>6
  <2>2. x.key # NoKey
    BY KeyFacts
  <2> QED BY <2>1, <2>2 DEF RunSound
<1>11. ASSUME NEW q \in Runs, q # r, NEW j \in Keys
       PROVE  /\ Holding(q, run[q], j, comm'[j], provider'[j])
              /\ Has(comm[j].attempts, q, "FAILED") => Has(comm'[j].attempts, q, "FAILED")
  <2>1. Holding(q, run[q], j, comm[j], provider[j])
    BY RowOf
  <2>2. CASE j # k
    BY <2>1, <2>2, <1>6
  <2>3. CASE j = k
    <3>1. ~(run[q].pc \in {"send", "settle"} /\ run[q].key = k)
      BY <2>1, <2>3 DEF Holding, Open
    <3>2. {"PENDING", "FAILED"} \subseteq Outcomes
      BY DEF Outcomes
    <3>3. /\ Tried(n.attempts, q) => Tried(comm[k].attempts, q)
          /\ Has(n.attempts, q, "PENDING") <=> Has(comm[k].attempts, q, "PENDING")
          /\ Has(n.attempts, q, "FAILED") <=> Has(comm[k].attempts, q, "FAILED")
      BY <1>4, <1>11, <3>2
    <3> QED BY <2>1, <2>3, <3>1, <3>3, <1>6 DEF Holding
  <2> QED BY <2>2, <2>3
<1> QED BY <1>7, <1>8, <1>9, <1>10, <1>11, StepKeeps

LEMMA PrepareNewKeeps ==
  ASSUME IInv, NEW r \in Runs, NEW c \in Certificates, PrepareNew(r, c)
  PROVE  IInv'
<1> DEFINE k == KeyOf(c)
<1>1. run[r] \in Run /\ run \in [Runs -> Run] /\ faults' \in 0..MaxFaults
  BY RowOf DEF PrepareNew
<1>2. k \in Keys
  <2>1. certificate[c] \in [validity : Validities, channel : Channels, active : BOOLEAN]
    BY DEF IInv, TypeInv
  <2>2. certificate[c].validity \in Validities /\ certificate[c].channel \in Channels
    BY <2>1
  <2> QED BY <2>2 DEF KeyOf, Keys
<1>3. run[r].pc = "next" /\ run[r].status = "RUNNING"
  BY DEF PrepareNew, Fenced
<1>4. CASE IsNew(k)
  <2> DEFINE x == [run[r] EXCEPT !.todo = @ \ {c}, !.pc = "send", !.key = k]
  <2>1. PrepareDelivery(r, k) /\ run' = [run EXCEPT ![r] = x]
    BY <1>1, <1>4 DEF PrepareNew
  <2>2. x \in Run
    BY <1>1, <1>2 DEF Run
  <2>3. x.pc = "send" /\ x.key = k /\ x.status = run[r].status /\ x.failures = run[r].failures
    BY <1>1 DEF Run
  <2>4. comm[k].status = "none"
    BY <1>4 DEF IsNew
  <2>5. ~Tried(comm[k].attempts, r)
    <3>1. comm[k].attempts = <<>>
      BY <2>4, <1>2 DEF IInv, KeySound, Mirrored
    <3> QED BY <3>1 DEF Tried
  <2>6. UNCHANGED <<certificate, provider, changes, faults>>
    BY DEF PrepareNew
  <2> HIDE DEF x, k
  <2> QED BY <1>2, <1>3, <2>1, <2>2, <2>3, <2>4, <2>5, <2>6, PrepareKeeps
<1>5. CASE ~IsNew(k)
  <2> DEFINE x == [run[r] EXCEPT !.todo = @ \ {c}]
  <2>1. x \in Run /\ run' = [run EXCEPT ![r] = x]
    BY <1>1, <1>5 DEF Run, PrepareNew
  <2>2. x.status = run[r].status /\ x.pc = run[r].pc /\ x.key = run[r].key /\ x.failures = run[r].failures
    BY <1>1 DEF Run
  <2>3. UNCHANGED <<certificate, comm, provider, changes>>
    BY <1>5 DEF PrepareNew
  <2>4. \A j \in Keys : ~Has(comm[j].attempts, r, "PENDING")
    BY <1>3, NothingOpen
  <2> HIDE DEF x
  <2> QED BY <1>1, <1>3, <2>1, <2>2, <2>3, <2>4, RewriteKeeps
<1> QED BY <1>4, <1>5

LEMMA PrepareRetryKeeps ==
  ASSUME IInv, NEW r \in Runs, PrepareRetry(r)
  PROVE  IInv'
<1> DEFINE k == run[r].retry
           x == [run[r] EXCEPT !.pc = "send", !.key = k]
<1>1. run[r] \in Run /\ run \in [Runs -> Run]
  BY RowOf
<1>2. k \in Keys
  BY <1>1 DEF PrepareRetry, Run
<1>3. run[r].pc = "next" /\ run[r].status = "RUNNING" /\ run[r].key = NoKey /\ comm[k].status = "FAILED"
  BY DEF PrepareRetry, Fenced, Retriable
<1>4. ~Tried(comm[k].attempts, r)
  BY <1>2, <1>3, RowOf DEF Holding
<1>5. PrepareDelivery(r, k) /\ run' = [run EXCEPT ![r] = x]
  BY <1>1 DEF PrepareRetry
<1>6. x \in Run
  BY <1>1, <1>2 DEF Run
<1>7. x.pc = "send" /\ x.key = k /\ x.status = run[r].status /\ x.failures = run[r].failures
  BY <1>1 DEF Run
<1>8. UNCHANGED <<certificate, provider, changes, faults>>
  BY DEF PrepareRetry
<1> HIDE DEF x, k
<1> QED BY <1>2, <1>3, <1>4, <1>5, <1>6, <1>7, <1>8, PrepareKeeps

LEMMA SettleKeeps ==
  ASSUME IInv, NEW r \in Runs, Settle(r)
  PROVE  IInv'
<1> DEFINE k == run[r].key
           m == comm[k]
           o == IF run[r].heard = "delivered" THEN "SENT" ELSE "FAILED"
           n == Settled(m, r, o)
           x == [run[r] EXCEPT !.pc = "next", !.heard = "none", !.failures = @ \/ o = "FAILED"]
<1>0. run[r] \in Run /\ run \in [Runs -> Run] /\ RunSound(r, run[r], comm)
        /\ \A j \in Keys : Holding(r, run[r], j, comm[j], provider[j])
  BY RowOf
<1>1. run[r].pc = "settle" /\ run[r].status = "RUNNING"
  BY DEF Settle, Fenced
<1>2. k \in Keys
  BY <1>0, <1>1 DEF RunSound, Run
<1>3. comm \in [Keys -> Communication] /\ m \in Communication /\ KeySound(m, provider[k])
  BY <1>2 DEF IInv, TypeInv
<1>4. Open(m, r) /\ (o = "FAILED" => Unsent(provider[k]))
  BY <1>0, <1>1, <1>2 DEF Holding
<1>5. comm' = [comm EXCEPT ![k] = n]
  <2> DEFINE m1 == [m EXCEPT !.status = o]
             c1 == [comm EXCEPT ![k] = m1]
             i == Mine(m, r)
  <2>1. comm' = [comm EXCEPT ![k].status = o, ![k].attempts[i].status = o]
    BY DEF Settle, Mine
  <2>2. comm' = [c1 EXCEPT ![k].attempts[i].status = o]
    BY <2>1
  <2>3. c1 \in [Keys -> Communication] /\ c1[k] = m1
    <3>1. m1 \in Communication
      BY <1>3 DEF Communication, Outcomes
    <3> HIDE DEF m1
    <3> QED BY <3>1, <1>2, <1>3
  <2>4. comm' = [c1 EXCEPT ![k] = [c1[k] EXCEPT !.attempts[i].status = o]]
    <3> HIDE DEF c1, o
    <3> QED BY <2>2
  <2>5. comm' = [c1 EXCEPT ![k] = n]
    BY <2>3, <2>4 DEF Settled
  <2> HIDE DEF n, m1
  <2> QED BY <2>5, <1>2, <1>3
<1>6. x \in Run /\ run' = [run EXCEPT ![r] = x]
  <2>1. run' = [run EXCEPT ![r].pc = "next", ![r].heard = "none", ![r].failures = @ \/ o = "FAILED"]
    BY DEF Settle
  <2>2. run' = [run EXCEPT ![r] = x]
    BY <2>1, <1>0
  <2>3. x \in Run
    <3>1. (run[r].failures \/ o = "FAILED") \in BOOLEAN
      OBVIOUS
    <3> QED BY <3>1, <1>0 DEF Run
  <2> QED BY <2>2, <2>3
<1>7. /\ x.pc = "next" /\ x.key = k /\ x.status = "RUNNING"
      /\ x.failures <=> (run[r].failures \/ o = "FAILED")
  BY <1>0, <1>1 DEF Run
<1>8. o \in {"SENT", "FAILED"}
  OBVIOUS
<1>9. /\ n \in Communication /\ n.status = o /\ Mirrored(n) /\ OncePerRun(n.attempts)
      /\ ~Has(n.attempts, r, "PENDING") /\ Tried(n.attempts, r)
      /\ Has(n.attempts, r, "FAILED") <=> o = "FAILED"
      /\ \A q \in Runs : q # r =>
           /\ Tried(n.attempts, q) => Tried(m.attempts, q)
           /\ \A s \in Outcomes : Has(n.attempts, q, s) <=> Has(m.attempts, q, s)
  <2>1. Mirrored(m) /\ OncePerRun(m.attempts)
    BY <1>3 DEF KeySound
  <2> HIDE DEF m, o
  <2> QED BY <2>1, <1>3, <1>4, <1>8, SettleAttempt
<1> HIDE DEF n, x
<1>10. comm'[k] = n /\ \A j \in Keys : j # k => comm'[j] = comm[j]
  BY <1>2, <1>3, <1>5
<1>11. UNCHANGED <<certificate, provider, changes, faults>>
  BY DEF Settle
<1>12. TypeInv'
  <2>1. comm' \in [Keys -> Communication]
    BY <1>3, <1>5, <1>9
  <2>2. run' \in [Runs -> Run]
    BY <1>0, <1>6
  <2> QED BY <2>1, <2>2, <1>11 DEF IInv, TypeInv
<1>13. ASSUME NEW j \in Keys PROVE KeySound(comm'[j], provider'[j])
  <2>1. CASE j = k
    <3>1. n.status \in {"none", "FAILED"} => Unsent(provider[k])
      BY <1>4, <1>9
    <3> QED BY <2>1, <3>1, <1>3, <1>9, <1>10, <1>11 DEF KeySound
  <2>2. CASE j # k
    BY <2>2, <1>10, <1>11 DEF IInv
  <2> QED BY <2>1, <2>2
<1>14. ASSUME NEW j \in Keys PROVE Holding(r, x, j, comm'[j], provider'[j])
  <2>0. x.key # NoKey /\ Holding(r, run[r], j, comm[j], provider[j])
    BY <1>0, <1>2, <1>7, KeyFacts
  <2>1. ~Has(comm'[j].attempts, r, "PENDING")
    <3>1. CASE j = k
      BY <3>1, <1>9, <1>10
    <3>2. CASE j # k
      BY <2>0, <3>2, <1>1, <1>10 DEF Holding
    <3> QED BY <3>1, <3>2
  <2>2. Has(comm'[j].attempts, r, "FAILED") => x.failures
    <3>1. CASE j = k
      BY <3>1, <1>7, <1>9, <1>10
    <3>2. CASE j # k
      BY <2>0, <3>2, <1>7, <1>10 DEF Holding
    <3> QED BY <3>1, <3>2
  <2> QED BY <2>0, <2>1, <2>2, <1>7 DEF Holding
<1>15. RunSound(r, x, comm')
  <2>1. ASSUME x.failures PROVE \E j \in Keys : Has(comm'[j].attempts, r, "FAILED")
    <3>1. CASE o = "FAILED"
      BY <3>1, <1>2, <1>9, <1>10
    <3>2. CASE o # "FAILED"
      <4>1. PICK j \in Keys : Has(comm[j].attempts, r, "FAILED")
        BY <3>2, <2>1, <1>0, <1>7 DEF RunSound
      <4>2. j # k
        <5> SUFFICES ASSUME j = k PROVE FALSE
          OBVIOUS
        <5>1. PICK a \in DOMAIN m.attempts : m.attempts[a] = [run |-> r, status |-> "FAILED"]
          BY <4>1 DEF Has
        <5>2. Len(m.attempts) \in DOMAIN m.attempts /\ m.attempts[Len(m.attempts)].run = r
          <6>1. m.attempts \in Seq(Attempt) /\ m.attempts # <<>>
            BY <1>3, <1>4 DEF Communication, Open
          <6> QED BY <6>1, <1>4 DEF Open
        <5>3. m.attempts[Len(m.attempts)].status = "PENDING"
          BY <1>3, <1>4 DEF KeySound, Mirrored, Open
        <5>4. a = Len(m.attempts)
          BY <5>1, <5>2, <1>3 DEF KeySound, OncePerRun
        <5> QED BY <5>1, <5>3, <5>4
      <4> QED BY <4>1, <4>2, <1>10
    <3> QED BY <3>1, <3>2
  <2> QED BY <2>1, <1>7 DEF RunSound
<1>16. ASSUME NEW q \in Runs, q # r, NEW j \in Keys
       PROVE  /\ Holding(q, run[q], j, comm'[j], provider'[j])
              /\ Has(comm[j].attempts, q, "FAILED") => Has(comm'[j].attempts, q, "FAILED")
  <2>1. Holding(q, run[q], j, comm[j], provider[j])
    BY RowOf
  <2>2. CASE j # k
    BY <2>1, <2>2, <1>10, <1>11
  <2>3. CASE j = k
    <3>1. ~(run[q].pc \in {"send", "settle"} /\ run[q].key = k)
      BY <1>1, <1>2, <1>16, OneHolder
    <3>2. {"PENDING", "FAILED"} \subseteq Outcomes
      BY DEF Outcomes
    <3>3. /\ Tried(n.attempts, q) => Tried(comm[k].attempts, q)
          /\ Has(n.attempts, q, "PENDING") <=> Has(comm[k].attempts, q, "PENDING")
          /\ Has(n.attempts, q, "FAILED") <=> Has(comm[k].attempts, q, "FAILED")
      BY <1>9, <1>16, <3>2
    <3> QED BY <2>1, <2>3, <3>1, <3>3, <1>10, <1>11 DEF Holding
  <2> QED BY <2>2, <2>3
<1> QED BY <1>6, <1>12, <1>13, <1>14, <1>15, <1>16, StepKeeps

-----------------------------------------------------------------------------
(* The invariant, and what follows from it.                                  *)

LEMMA NextKeeps == IInv /\ [Next]_vars => IInv'
<1> SUFFICES ASSUME IInv, [Next]_vars PROVE IInv'
  OBVIOUS
<1>1. ASSUME NEW r \in Runs, RequestScan(r) \/ \E k \in Keys : RequestRetry(r, k) PROVE IInv'
  BY <1>1, RequestKeeps
<1>2. ASSUME NEW r \in Runs,
             \/ Start(r) \/ Superseded(r) \/ PrepareRetry(r) \/ DispenseRetry(r) \/ Send(r)
             \/ SendUnheard(r) \/ Settle(r) \/ Finish(r) \/ FailUnhandled(r) \/ Crash(r) \/ Quarantine(r)
      PROVE IInv'
  BY <1>2, StartKeeps, SupersededKeeps, PrepareRetryKeeps, DispenseKeeps, SendKeeps,
     SendUnheardKeeps, SettleKeeps, FinishKeeps, FailKeeps, CrashKeeps, QuarantineKeeps
<1>3. ASSUME NEW r \in Runs, NEW c \in Certificates, PrepareNew(r, c) PROVE IInv'
  BY <1>3, PrepareNewKeeps
<1>4. ASSUME NEW c \in Certificates, Renew(c) \/ Deactivate(c) \/ SwitchChannel(c) PROVE IInv'
  BY <1>4, EditKeeps
<1>5. CASE UNCHANGED vars
  BY <1>5 DEF vars, IInv, TypeInv, RunSound
<1> QED BY <1>1, <1>2, <1>3, <1>4, <1>5 DEF Next

LEMMA IInvAlways == Spec => []IInv
BY InitIInv, NextKeeps, PTL DEF Spec

(* The shape of communications, runs, certificates and histories.            *)
THEOREM TypeCorrect == Spec => []TypeOK
<1>1. IInv => TypeOK
  BY TypeImplied DEF IInv
<1> QED BY <1>1, IInvAlways, PTL

(* For every mix of scans, retries, crashes and isolations, and any number   *)
(* of runs, the provider accepts a communication at most once, unless the    *)
(* gateway took an accepted message for a refused one.                       *)
THEOREM NobodyIsWarnedTwice == Spec => []AcceptedAtMostOnce
<1>1. IInv => AcceptedAtMostOnce
  BY DEF IInv, KeySound, AcceptedAtMostOnce
<1> QED BY <1>1, IInvAlways, PTL

(* A communication shows its last attempt, and every attempt before it       *)
(* failed.                                                                   *)
THEOREM CommunicationShowsItsAttempts == Spec => []CommunicationMirrorsAttempts
<1>1. IInv => CommunicationMirrorsAttempts
  <2> SUFFICES ASSUME IInv, NEW k \in Keys
               PROVE  /\ comm[k].status = "none" <=> comm[k].attempts = <<>>
                      /\ comm[k].attempts # <<>> =>
                           comm[k].attempts[LastAttempt(k)].status = comm[k].status
                      /\ \A i \in 1..LastAttempt(k) - 1 : comm[k].attempts[i].status = "FAILED"
    BY DEF CommunicationMirrorsAttempts
  <2>1. Mirrored(comm[k])
    BY DEF IInv, KeySound
  <2> QED BY <2>1 DEF Mirrored, LastAttempt
<1> QED BY <1>1, IInvAlways, PTL

(* What a run leaves open isolates it, and it reports warnings when and only *)
(* when one of its deliveries failed.                                        *)
THEOREM AmbiguousRunsAreIsolated == Spec => []AmbiguityIsIsolated
<1>1. IInv => AmbiguityIsIsolated
  <2> SUFFICES ASSUME IInv, NEW r \in Runs
               PROVE  /\ run[r].status \in Terminal /\ Ambiguous(r) => run[r].status = "PARTIALLY_FAILED"
                      /\ run[r].status \in {"SUCCEEDED", "SUCCEEDED_WITH_WARNINGS"} =>
                           (run[r].status = "SUCCEEDED_WITH_WARNINGS" <=>
                              \E k \in Keys : \E i \in DOMAIN comm[k].attempts :
                                comm[k].attempts[i] = [run |-> r, status |-> "FAILED"])
    BY DEF AmbiguityIsIsolated
  <2>0. RunSound(r, run[r], comm) /\ \A k \in Keys : Holding(r, run[r], k, comm[k], provider[k])
    BY RowOf
  <2>1. Ambiguous(r) => \E k \in Keys : Has(comm[k].attempts, r, "PENDING")
    BY DEF Ambiguous, Has
  <2>2. run[r].status \in Terminal /\ Ambiguous(r) => run[r].status = "PARTIALLY_FAILED"
    BY <2>0, <2>1 DEF Terminal, RunSound, Holding
  <2>3. run[r].failures <=> \E k \in Keys : Has(comm[k].attempts, r, "FAILED")
    BY <2>0 DEF RunSound, Holding
  <2>4. run[r].failures <=> \E k \in Keys : \E i \in DOMAIN comm[k].attempts :
                              comm[k].attempts[i] = [run |-> r, status |-> "FAILED"]
    BY <2>3 DEF Has
  <2> QED BY <2>0, <2>2, <2>4 DEF RunSound
<1> QED BY <1>1, IInvAlways, PTL
=============================================================================
