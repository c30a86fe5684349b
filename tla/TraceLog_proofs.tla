-------------------------- MODULE TraceLog_proofs ---------------------------
(***************************************************************************)
(* Proofs about TraceLog: for every number of runs, writers, keys, contents *)
(* and events, the sequences of a run are continuous, a key is used once,   *)
(* and the writer implements the contract RunTrace.                         *)
(*                                                                          *)
(* The invariant behind them is that the lock of a run belongs to the only  *)
(* transaction on it, and that what this transaction sees, committed rows   *)
(* followed by its own, is already continuous and without repeated keys.    *)
(***************************************************************************)
EXTENDS TraceLog, SequenceTheorems, TLAPS

Numbered(rows) == \A i \in DOMAIN rows : rows[i].sequence = i
Unrepeated(rows) == \A i, j \in DOMAIN rows : rows[i].key = rows[j].key => i = j

(* The lock and the transaction of a writer agree.                           *)
LockOK ==
  \A w \in Writers :
    IF Holds(w) THEN lock[tx[w].run] = w ELSE tx[w] = NoTransaction

SeenOK == \A w \in Writers : Holds(w) => Numbered(Seen(w)) /\ Unrepeated(Seen(w))
RowsOK == \A r \in Runs : Numbered(events[r]) /\ Unrepeated(events[r])

IInv == TypeOK /\ LockOK /\ SeenOK /\ RowsOK

-----------------------------------------------------------------------------

(* With continuous sequences, the greatest one is the number of rows.        *)
LEMMA LatestOfNumbered ==
  ASSUME NEW rows \in Seq(Event), Numbered(rows)
  PROVE  Latest(rows) = Len(rows)
<1>1. CASE rows = <<>>
  BY <1>1 DEF Latest
<1>2. CASE rows # <<>>
  <2> DEFINE S == {rows[i].sequence : i \in DOMAIN rows}
             P(s) == \A i \in DOMAIN rows : rows[i].sequence <= s
  <2>1. DOMAIN rows = 1..Len(rows) /\ Len(rows) \in Nat /\ Len(rows) \in DOMAIN rows
    BY <1>2
  <2>2. Len(rows) \in S /\ P(Len(rows))
    BY <2>1 DEF Numbered
  <2>3. ASSUME NEW s \in S, P(s) PROVE s = Len(rows)
    <3>1. s \in 1..Len(rows)
      BY <2>1 DEF Numbered
    <3>2. Len(rows) <= s
      BY <2>1, <2>3 DEF Numbered
    <3>3. Len(rows) \in Nat
      BY <2>1
    <3> HIDE DEF S, P
    <3> QED BY <3>1, <3>2, <3>3
  <2>4. (CHOOSE s \in S : P(s)) \in S /\ P(CHOOSE s \in S : P(s))
    BY <2>2
  <2>5. (CHOOSE s \in S : P(s)) = Len(rows)
    BY <2>3, <2>4
  <2> QED BY <1>2, <2>5 DEF Latest
<1> QED BY <1>1, <1>2

LEMMA AppendToConcat ==
  ASSUME NEW S, NEW s \in Seq(S), NEW t \in Seq(S), NEW e \in S
  PROVE  s \o Append(t, e) = Append(s \o t, e)
<1>1. <<e>> \in Seq(S) /\ s \o t \in Seq(S)
  BY ConcatProperties
<1>2. Append(t, e) = t \o <<e>> /\ Append(s \o t, e) = (s \o t) \o <<e>>
  BY <1>1, AppendIsConcat
<1>3. (s \o t) \o <<e>> = s \o (t \o <<e>>)
  BY <1>1, ConcatAssociative
<1> QED BY <1>2, <1>3

(* The rows a writer with a transaction sees are a sequence of events.       *)
LEMMA SeenType ==
  ASSUME TypeOK, NEW w \in Writers, Holds(w)
  PROVE  /\ tx[w].run \in Runs
         /\ events[tx[w].run] \in Seq(Event) /\ tx[w].pending \in Seq(Event)
         /\ Seen(w) \in Seq(Event)
BY DEF TypeOK, Holds, Seen

(* Only one writer at a time has a transaction on a run.                     *)
LEMMA OneWriter ==
  ASSUME TypeOK, LockOK, NEW v \in Writers, NEW w \in Writers,
         Holds(v), Holds(w), tx[v].run = tx[w].run
  PROVE  v = w
BY DEF LockOK

-----------------------------------------------------------------------------

LEMMA InitIInv == Init => IInv
<1> SUFFICES ASSUME Init PROVE IInv
  OBVIOUS
<1>1. TypeOK
  <2>1. <<>> \in Seq(Event)
    OBVIOUS
  <2>2. NoTransaction \in [run : Runs \cup {NoRun}, pending : Seq(Event)]
    BY <2>1 DEF NoTransaction
  <2> QED BY <2>1, <2>2 DEF Init, TypeOK
<1>2. \A w \in Writers : ~Holds(w) /\ tx[w] = NoTransaction
  BY DEF Init, Holds, NoTransaction
<1>3. LockOK /\ SeenOK
  BY <1>2 DEF LockOK, SeenOK
<1>4. RowsOK
  BY DEF Init, RowsOK, Numbered, Unrepeated
<1> QED BY <1>1, <1>3, <1>4 DEF IInv

(* A step that ends a transaction without committing it.                     *)
LEMMA ReleaseKeeps ==
  ASSUME IInv, NEW w \in Writers, Holds(w), Release(w), UNCHANGED events
  PROVE  IInv'
<1> USE DEF IInv
<1>1. tx[w].run \in Runs
  BY SeenType
<1>2. TypeOK'
  <2>1. NoTransaction \in [run : Runs \cup {NoRun}, pending : Seq(Event)]
    BY DEF NoTransaction
  <2> QED BY <2>1, <1>1 DEF TypeOK, Release
<1>3. ~Holds(w)' /\ tx'[w] = NoTransaction
  BY DEF TypeOK, Release, Holds, NoTransaction
<1>4. ASSUME NEW v \in Writers, v # w PROVE tx'[v] = tx[v] /\ (Holds(v)' <=> Holds(v))
  BY <1>4 DEF TypeOK, Release, Holds
<1>5. LockOK'
  <2> SUFFICES ASSUME NEW v \in Writers
               PROVE  IF Holds(v)' THEN lock'[tx'[v].run] = v ELSE tx'[v] = NoTransaction
    BY DEF LockOK
  <2>1. CASE v = w
    BY <2>1, <1>3
  <2>2. CASE v # w /\ Holds(v)
    <3>1. tx[v].run \in Runs /\ tx[v].run # tx[w].run
      BY <2>2, SeenType, OneWriter
    <3>2. lock'[tx[v].run] = lock[tx[v].run]
      BY <3>1, <1>1 DEF TypeOK, Release
    <3> QED BY <2>2, <1>4, <3>2 DEF LockOK
  <2>3. CASE v # w /\ ~Holds(v)
    BY <2>3, <1>4 DEF LockOK
  <2> QED BY <2>1, <2>2, <2>3
<1>6. SeenOK'
  <2> SUFFICES ASSUME NEW v \in Writers, Holds(v)'
               PROVE  Numbered(Seen(v))' /\ Unrepeated(Seen(v))'
    BY DEF SeenOK
  <2>1. v # w /\ Holds(v) /\ Seen(v)' = Seen(v)
    BY <1>3, <1>4 DEF Seen
  <2> QED BY <2>1 DEF SeenOK, Numbered, Unrepeated
<1>7. RowsOK'
  BY DEF RowsOK, Numbered, Unrepeated
<1> QED BY <1>2, <1>5, <1>6, <1>7

LEMMA LockKeeps ==
  ASSUME IInv, NEW w \in Writers, NEW r \in Runs, Lock(w, r)
  PROVE  IInv'
<1> USE DEF IInv
<1>1. TypeOK'
  BY DEF TypeOK, Lock
<1>2. ~Holds(w) /\ Holds(w)' /\ tx'[w].run = r /\ tx'[w].pending = <<>>
  BY NamesAssumption DEF TypeOK, Lock, Holds, NoTransaction
<1>3. ASSUME NEW v \in Writers, v # w
      PROVE  tx'[v] = tx[v] /\ (Holds(v)' <=> Holds(v)) /\ (Holds(v) => tx[v].run # r)
  <2>1. Holds(v) => lock[tx[v].run] = v /\ v # NoWriter
    BY NamesAssumption DEF LockOK
  <2> QED BY <1>3, <2>1 DEF TypeOK, Lock, Holds
<1>4. LockOK'
  <2> SUFFICES ASSUME NEW v \in Writers
               PROVE  IF Holds(v)' THEN lock'[tx'[v].run] = v ELSE tx'[v] = NoTransaction
    BY DEF LockOK
  <2>1. CASE v = w
    BY <2>1, <1>2 DEF TypeOK, Lock
  <2>2. CASE v # w /\ Holds(v)
    <3>1. tx[v].run \in Runs
      BY <2>2, SeenType
    <3> QED BY <2>2, <3>1, <1>3 DEF LockOK, TypeOK, Lock
  <2>3. CASE v # w /\ ~Holds(v)
    BY <2>3, <1>3 DEF LockOK
  <2> QED BY <2>1, <2>2, <2>3
<1>5. SeenOK'
  <2> SUFFICES ASSUME NEW v \in Writers, Holds(v)'
               PROVE  Numbered(Seen(v))' /\ Unrepeated(Seen(v))'
    BY DEF SeenOK
  <2>1. CASE v = w
    <3>1. Seen(v)' = events[r] \o <<>> /\ events[r] \in Seq(Event)
      BY <2>1, <1>2 DEF Seen, Lock, TypeOK
    <3>2. Seen(v)' = events[r]
      BY <3>1
    <3> QED BY <3>2 DEF RowsOK, Numbered, Unrepeated
  <2>2. CASE v # w
    <3>1. Holds(v) /\ Seen(v)' = Seen(v)
      BY <2>2, <1>3 DEF Seen, Lock
    <3> QED BY <3>1 DEF SeenOK, Numbered, Unrepeated
  <2> QED BY <2>1, <2>2
<1>6. RowsOK'
  BY DEF RowsOK, Lock, Numbered, Unrepeated
<1> QED BY <1>1, <1>4, <1>5, <1>6

LEMMA RecordKeeps ==
  ASSUME IInv, NEW w \in Writers, NEW key \in Keys, NEW content \in Contents,
         NEW context \in Contexts, Record(w, key, content, context)
  PROVE  IInv'
<1> USE DEF IInv
<1> DEFINE new == [sequence |-> Latest(Seen(w)) + 1, key |-> key,
                   content |-> content, context |-> context]
<1>1. Holds(w) /\ Seen(w) \in Seq(Event) /\ tx[w].pending \in Seq(Event) /\ tx[w].run \in Runs
  BY SeenType DEF Record, NextSequence
<1>2. Latest(Seen(w)) = Len(Seen(w)) /\ Len(Seen(w)) \in Nat
  BY <1>1, LatestOfNumbered DEF SeenOK
<1>3. new \in Event
  BY <1>2 DEF Event
<1>4. /\ tx' = [tx EXCEPT ![w].pending = Append(tx[w].pending, new)]
      /\ UNCHANGED <<events, lock>>
  BY DEF Record, NextSequence
<1> HIDE DEF new
<1>5. Append(tx[w].pending, new) \in Seq(Event)
  BY <1>1, <1>3
<1>6. TypeOK'
  BY <1>4, <1>5 DEF TypeOK
<1>7. \A v \in Writers : /\ tx'[v].run = tx[v].run
                         /\ v # w => tx'[v] = tx[v]
  BY <1>4 DEF TypeOK
<1>8. tx'[w].pending = Append(tx[w].pending, new)
  BY <1>4 DEF TypeOK
<1>9. \A v \in Writers : Holds(v)' <=> Holds(v)
  BY <1>7 DEF Holds
<1>10. LockOK'
  <2> SUFFICES ASSUME NEW v \in Writers
               PROVE  IF Holds(v)' THEN lock'[tx'[v].run] = v ELSE tx'[v] = NoTransaction
    BY DEF LockOK
  <2>1. Holds(v) => lock'[tx'[v].run] = v
    BY <1>4, <1>7 DEF LockOK
  <2>2. ~Holds(v) => tx'[v] = NoTransaction
    BY <1>1, <1>7 DEF LockOK
  <2> QED BY <2>1, <2>2, <1>9
<1>11. Seen(w)' = Append(Seen(w), new)
  <2>1. Seen(w)' = events[tx[w].run] \o Append(tx[w].pending, new)
    BY <1>4, <1>7, <1>8 DEF Seen
  <2> DEFINE a == events[tx[w].run]
             b == tx[w].pending
  <2>2. a \in Seq(Event) /\ b \in Seq(Event) /\ new \in Event
    BY SeenType, <1>1, <1>3
  <2>3. Seen(w)' = a \o Append(b, new) /\ Seen(w) = a \o b
    BY <2>1 DEF Seen
  <2> HIDE DEF a, b
  <2>4. a \o Append(b, new) = Append(a \o b, new)
    BY ONLY <2>2, AppendToConcat
  <2> QED BY <2>3, <2>4
<1>12. Numbered(Append(Seen(w), new)) /\ Unrepeated(Append(Seen(w), new))
  <2> DEFINE s == Seen(w)
             t == Append(s, new)
  <2>1. Numbered(s) /\ Unrepeated(s) /\ s \in Seq(Event)
    BY <1>1 DEF SeenOK
  <2>2. new.sequence = Len(s) + 1 /\ new.key = key
    BY <1>2 DEF new
  <2>3. \A i \in DOMAIN s : s[i].key # key
    BY DEF Record, Known
  <2> HIDE DEF s
  <2>4. DOMAIN t = 1..(Len(s) + 1) /\ DOMAIN s = 1..Len(s) /\ Len(s) \in Nat
    BY <2>1
  <2>5. \A i \in DOMAIN s : t[i] = s[i]
    BY <2>1
  <2>6. t[Len(s) + 1] = new
    BY <2>1
  <2>7. \A i \in DOMAIN t : i \in DOMAIN s \/ i = Len(s) + 1
    BY <2>4
  <2>8. Numbered(t)
    BY <2>1, <2>2, <2>5, <2>6, <2>7 DEF Numbered
  <2>9. Unrepeated(t)
    BY <2>1, <2>2, <2>3, <2>5, <2>6, <2>7 DEF Unrepeated
  <2> QED BY <2>8, <2>9 DEF s
<1>13. SeenOK'
  <2> SUFFICES ASSUME NEW v \in Writers, Holds(v)'
               PROVE  Numbered(Seen(v))' /\ Unrepeated(Seen(v))'
    BY DEF SeenOK
  <2>1. CASE v = w
    BY <2>1, <1>11, <1>12 DEF Numbered, Unrepeated
  <2>2. CASE v # w
    <3>1. Holds(v) /\ Seen(v)' = Seen(v)
      BY <2>2, <1>4, <1>7, <1>9 DEF Seen
    <3> QED BY <3>1 DEF SeenOK, Numbered, Unrepeated
  <2> QED BY <2>1, <2>2
<1>14. RowsOK'
  BY <1>4 DEF RowsOK, Numbered, Unrepeated
<1> QED BY <1>6, <1>10, <1>13, <1>14

LEMMA CommitKeeps ==
  ASSUME IInv, NEW w \in Writers, Commit(w)
  PROVE  IInv'
<1> USE DEF IInv
<1> DEFINE r == tx[w].run
<1>1. Holds(w) /\ r \in Runs /\ Seen(w) \in Seq(Event)
  BY SeenType DEF Commit
<1>2. events' = [events EXCEPT ![r] = Seen(w)]
  BY DEF Commit, Seen
<1>3. /\ lock' = [lock EXCEPT ![r] = NoWriter]
      /\ tx' = [tx EXCEPT ![w] = NoTransaction]
  BY DEF Commit, Release
<1> HIDE DEF r
<1>4. TypeOK'
  <2>1. NoTransaction \in [run : Runs \cup {NoRun}, pending : Seq(Event)]
    BY DEF NoTransaction
  <2> QED BY <2>1, <1>1, <1>2, <1>3 DEF TypeOK
<1>5. ~Holds(w)' /\ tx'[w] = NoTransaction
  BY <1>3 DEF TypeOK, Holds, NoTransaction
<1>6. ASSUME NEW v \in Writers, v # w PROVE tx'[v] = tx[v] /\ (Holds(v)' <=> Holds(v))
  BY <1>3, <1>6 DEF TypeOK, Holds
<1>7. ASSUME NEW v \in Writers, v # w, Holds(v) PROVE tx[v].run \in Runs /\ tx[v].run # r
  BY <1>7, <1>1, SeenType, OneWriter DEF r
<1>8. LockOK'
  <2> SUFFICES ASSUME NEW v \in Writers
               PROVE  IF Holds(v)' THEN lock'[tx'[v].run] = v ELSE tx'[v] = NoTransaction
    BY DEF LockOK
  <2>1. CASE v = w
    BY <2>1, <1>5
  <2>2. CASE v # w /\ Holds(v)
    <3>1. lock'[tx[v].run] = lock[tx[v].run]
      BY <2>2, <1>1, <1>3, <1>7 DEF TypeOK
    <3> QED BY <2>2, <1>6, <3>1 DEF LockOK
  <2>3. CASE v # w /\ ~Holds(v)
    BY <2>3, <1>6 DEF LockOK
  <2> QED BY <2>1, <2>2, <2>3
<1>9. SeenOK'
  <2> SUFFICES ASSUME NEW v \in Writers, Holds(v)'
               PROVE  Numbered(Seen(v))' /\ Unrepeated(Seen(v))'
    BY DEF SeenOK
  <2>1. v # w /\ Holds(v)
    BY <1>5, <1>6
  <2>2. events'[tx[v].run] = events[tx[v].run]
    BY <2>1, <1>2, <1>7, <1>1 DEF TypeOK
  <2>3. Seen(v)' = Seen(v)
    BY <2>1, <2>2, <1>6 DEF Seen
  <2> QED BY <2>1, <2>3 DEF SeenOK, Numbered, Unrepeated
<1>10. RowsOK'
  <2> SUFFICES ASSUME NEW q \in Runs PROVE Numbered(events'[q]) /\ Unrepeated(events'[q])
    BY DEF RowsOK, Numbered, Unrepeated
  <2>1. CASE q = r
    <3>1. events'[q] = Seen(w)
      BY <2>1, <1>1, <1>2 DEF TypeOK
    <3> QED BY <3>1, <1>1 DEF SeenOK
  <2>2. CASE q # r
    <3>1. events'[q] = events[q]
      BY <2>2, <1>2 DEF TypeOK
    <3> QED BY <3>1 DEF RowsOK
  <2> QED BY <2>1, <2>2
<1> QED BY <1>4, <1>8, <1>9, <1>10

LEMMA NextKeeps == IInv /\ [Next]_vars => IInv'
<1> SUFFICES ASSUME IInv, [Next]_vars PROVE IInv'
  OBVIOUS
<1>1. CASE UNCHANGED vars
  <2>1. UNCHANGED <<events, lock, tx>>
    BY <1>1 DEF vars
  <2>2. \A w \in Writers : Seen(w)' = Seen(w) /\ (Holds(w)' <=> Holds(w))
    BY <2>1 DEF Seen, Holds
  <2>3. TypeOK'
    BY <2>1 DEF IInv, TypeOK
  <2>4. LockOK'
    BY <2>1, <2>2 DEF IInv, LockOK
  <2>5. SeenOK'
    BY <2>2 DEF IInv, SeenOK, Numbered, Unrepeated
  <2>6. RowsOK'
    BY <2>1 DEF IInv, RowsOK, Numbered, Unrepeated
  <2> QED BY <2>3, <2>4, <2>5, <2>6 DEF IInv
<1>2. ASSUME NEW w \in Writers, NEW r \in Runs, Lock(w, r) PROVE IInv'
  BY <1>2, LockKeeps
<1>3. ASSUME NEW w \in Writers, NEW key \in Keys, NEW content \in Contents,
             Refuse(w, key, content)
      PROVE  IInv'
  BY <1>3, ReleaseKeeps DEF Refuse
<1>4. ASSUME NEW w \in Writers, NEW key \in Keys, NEW content \in Contents,
             NEW context \in Contexts, Record(w, key, content, context)
      PROVE  IInv'
  BY <1>4, RecordKeeps
<1>5. ASSUME NEW w \in Writers, Rollback(w) PROVE IInv'
  BY <1>5, ReleaseKeeps DEF Rollback
<1>6. ASSUME NEW w \in Writers, Commit(w) PROVE IInv'
  BY <1>6, CommitKeeps
<1>7. CASE Next
  <2>1. PICK w \in Writers :
          \/ \E r \in Runs : Lock(w, r)
          \/ \E key \in Keys, content \in Contents :
               Refuse(w, key, content) \/ \E context \in Contexts : Record(w, key, content, context)
          \/ Rollback(w)
          \/ Commit(w)
    BY <1>7 DEF Next
  <2>2. CASE \E r \in Runs : Lock(w, r)
    BY <2>2, <1>2
  <2>3. CASE \E key \in Keys, content \in Contents : Refuse(w, key, content)
    BY <2>3, <1>3
  <2>4. CASE \E key \in Keys, content \in Contents, context \in Contexts :
               Record(w, key, content, context)
    BY <2>4, <1>4
  <2>5. CASE Rollback(w)
    BY <2>5, <1>5
  <2>6. CASE Commit(w)
    BY <2>6, <1>6
  <2> QED BY <2>1, <2>2, <2>3, <2>4, <2>5, <2>6
<1> QED BY <1>1, <1>7

LEMMA Invariance == Spec => []IInv
BY InitIInv, NextKeeps, PTL DEF Spec

-----------------------------------------------------------------------------

(* The state of the writer has its type in every reachable state.            *)
THEOREM TypeCorrect == Spec => []TypeOK
<1>1. IInv => TypeOK
  BY DEF IInv
<1> QED BY <1>1, Invariance, PTL

(* The sequences of every run are continuous, for any number of writers.     *)
THEOREM SequencesContinuous == Spec => []Continuous
<1>1. IInv => Continuous
  BY DEF IInv, RowsOK, Numbered, Continuous
<1> QED BY <1>1, Invariance, PTL

(* A key identifies one event of its run, for any number of writers.         *)
THEOREM KeysIdentify == Spec => []OneEventPerKey
<1>1. IInv => OneEventPerKey
  BY DEF IInv, RowsOK, SeenOK, Unrepeated, OneEventPerKey
<1> QED BY <1>1, Invariance, PTL

-----------------------------------------------------------------------------
(* The refinement.                                                         *)

LEMMA EntriesType ==
  ASSUME NEW rows \in Seq(Event)
  PROVE  /\ Entries(rows) \in Seq([key : Keys, content : Contents])
         /\ Len(Entries(rows)) = Len(rows) /\ DOMAIN Entries(rows) = DOMAIN rows
<1> DEFINE E == [key : Keys, content : Contents]
<1>1. DOMAIN rows = 1..Len(rows) /\ Len(rows) \in Nat /\ \A i \in DOMAIN rows : rows[i] \in Event
  OBVIOUS
<1>2. \A i \in DOMAIN rows : [key |-> rows[i].key, content |-> rows[i].content] \in E
  BY <1>1 DEF Event
<1> HIDE DEF E
<1>3. Entries(rows) \in [1..Len(rows) -> E] /\ DOMAIN Entries(rows) = 1..Len(rows)
  BY <1>1, <1>2 DEF Entries
<1>4. Entries(rows) \in Seq(E)
  BY <1>1, <1>3
<1> QED BY <1>1, <1>3, <1>4 DEF E

LEMMA EntriesOfConcat ==
  ASSUME NEW s \in Seq(Event), NEW t \in Seq(Event)
  PROVE  Entries(s \o t) = Entries(s) \o Entries(t)
<1> DEFINE E == [key : Keys, content : Contents]
<1>1. Entries(s) \in Seq(E) /\ Entries(t) \in Seq(E) /\ Entries(s \o t) \in Seq(E)
  BY EntriesType, ConcatProperties
<1>2. Len(Entries(s)) = Len(s) /\ Len(Entries(t)) = Len(t) /\ Len(Entries(s \o t)) = Len(s) + Len(t)
  BY EntriesType, ConcatProperties
<1>3. /\ Entries(s) \o Entries(t) \in Seq(E)
      /\ Len(Entries(s) \o Entries(t)) = Len(s) + Len(t)
  BY <1>1, <1>2, ConcatProperties
<1>4. ASSUME NEW i \in 1..(Len(s) + Len(t))
      PROVE  Entries(s \o t)[i] = (Entries(s) \o Entries(t))[i]
  <2>1. Len(s) \in Nat /\ Len(t) \in Nat /\ DOMAIN s = 1..Len(s) /\ DOMAIN t = 1..Len(t)
    OBVIOUS
  <2>2. /\ DOMAIN (s \o t) = 1..(Len(s) + Len(t))
        /\ (s \o t)[i] = IF i <= Len(s) THEN s[i] ELSE t[i - Len(s)]
    BY ConcatProperties
  <2>3. (Entries(s) \o Entries(t))[i]
          = IF i <= Len(s) THEN Entries(s)[i] ELSE Entries(t)[i - Len(s)]
    BY <1>1, <1>2, ConcatProperties
  <2>4. Entries(s \o t)[i] = [key |-> (s \o t)[i].key, content |-> (s \o t)[i].content]
    BY <2>2 DEF Entries
  <2>5. CASE i <= Len(s)
    <3>1. i \in DOMAIN s
      BY <2>1, <2>5
    <3>2. Entries(s)[i] = [key |-> s[i].key, content |-> s[i].content]
      BY <3>1 DEF Entries
    <3> QED BY <2>2, <2>3, <2>4, <2>5, <3>2
  <2>6. CASE ~(i <= Len(s))
    <3>1. i - Len(s) \in DOMAIN t
      BY <2>1, <2>6
    <3>2. Entries(t)[i - Len(s)] = [key |-> t[i - Len(s)].key, content |-> t[i - Len(s)].content]
      BY <3>1 DEF Entries
    <3> QED BY <2>2, <2>3, <2>4, <2>6, <3>2
  <2> QED BY <2>5, <2>6
<1>5. Entries(s \o t) \in Seq(E) /\ Len(Entries(s \o t)) = Len(Entries(s) \o Entries(t))
  BY <1>1, <1>2, <1>3
<1> QED BY <1>1, <1>2, <1>3, <1>4, SeqEqual

(* What a sequence has gained by a concatenation.                            *)
LEMMA GainedByConcat ==
  ASSUME NEW S, NEW s \in Seq(S), NEW t \in Seq(S), t # <<>>
  PROVE  SubSeq(s \o t, Len(s) + 1, Len(s \o t)) = t
<1>1. Len(s) \in Nat /\ Len(t) \in Nat /\ Len(t) # 0 /\ Len(s \o t) = Len(s) + Len(t)
  BY ConcatProperties, EmptySeq
<1>2. /\ Len(s) + 1 \in Len(s) + 1 .. Len(s) + Len(t)
      /\ Len(s) + Len(t) \in Len(s) + 1 .. Len(s) + Len(t)
  BY <1>1
<1>3. SubSeq(s \o t, Len(s) + 1, Len(s) + Len(t))
        = SubSeq(t, (Len(s) + 1) - Len(s), (Len(s) + Len(t)) - Len(s))
  BY <1>2, SubSeqOfConcat2
<1>4. (Len(s) + 1) - Len(s) = 1 /\ (Len(s) + Len(t)) - Len(s) = Len(t)
  BY <1>1
<1>5. SubSeq(t, 1, Len(t)) = t
  BY SubSeqFull
<1> QED BY <1>1, <1>3, <1>4, <1>5

Traces == [r \in Runs |-> Entries(events[r])]

LEMMA CommitExtends ==
  ASSUME IInv, NEW w \in Writers, Commit(w), tx[w].pending # <<>>
  PROVE  Contract!Extend(tx[w].run, Contract!Gained(tx[w].run))
<1> DEFINE r == tx[w].run
           old == events[r]
           more == tx[w].pending
           E == [key : Keys, content : Contents]
<1>1. r \in Runs /\ old \in Seq(Event) /\ more \in Seq(Event) /\ Holds(w)
  BY SeenType DEF Commit, IInv
<1>2. events' = [events EXCEPT ![r] = old \o more] /\ events \in [Runs -> Seq(Event)]
  BY DEF Commit, IInv, TypeOK
<1>3. Unrepeated(old \o more)
  BY <1>1 DEF IInv, SeenOK, Seen
<1> HIDE DEF r, old, more
<1>4. /\ Entries(old) \in Seq(E) /\ Entries(more) \in Seq(E)
      /\ Len(Entries(old)) = Len(old) /\ Len(Entries(more)) = Len(more)
      /\ DOMAIN Entries(old) = DOMAIN old /\ DOMAIN Entries(more) = DOMAIN more
  BY <1>1, EntriesType
<1>5. Traces[r] = Entries(old) /\ Traces'[r] = Entries(old) \o Entries(more)
  <2>1. events'[r] = old \o more
    BY <1>1, <1>2
  <2>2. Traces'[r] = Entries(old \o more)
    BY <2>1, <1>1 DEF Traces, Entries
  <2>3. Traces[r] = Entries(old)
    BY <1>1 DEF Traces, old
  <2> QED BY <2>2, <2>3, <1>1, EntriesOfConcat
<1>6. Traces' = [Traces EXCEPT ![r] = Entries(old) \o Entries(more)]
  <2>1. \A q \in Runs : q # r => events'[q] = events[q]
    BY <1>2
  <2>2. \A q \in Runs : q # r => Traces'[q] = Traces[q]
    BY <2>1 DEF Traces, Entries
  <2>3. Traces' = [q \in Runs |-> Traces'[q]] /\ Traces = [q \in Runs |-> Traces[q]]
    BY DEF Traces
  <2> QED BY <1>1, <1>5, <2>2, <2>3
<1>7. Entries(more) # <<>>
  <2>1. Len(more) # 0
    BY <1>1, EmptySeq DEF more
  <2> QED BY <2>1, <1>4, EmptySeq
<1>8. Contract!Gained(r) = Entries(more)
  <2>1. Contract!Gained(r) = SubSeq(Traces'[r], Len(Traces[r]) + 1, Len(Traces'[r]))
    BY DEF Contract!Gained, Traces
  <2> QED BY <2>1, <1>4, <1>5, <1>7, GainedByConcat
<1>9. \A i \in DOMAIN old : (old \o more)[i] = old[i] /\ i \in DOMAIN (old \o more) /\ i <= Len(old)
  BY <1>1
<1>10. \A j \in DOMAIN more : /\ (old \o more)[Len(old) + j] = more[j]
                              /\ Len(old) + j \in DOMAIN (old \o more)
                              /\ j \in Nat \ {0}
  BY <1>1
<1>11. Len(old) \in Nat
  BY <1>1
<1>12. \A i \in DOMAIN more : Entries(more)[i].key = more[i].key
  BY DEF Entries
<1>13. \A i \in DOMAIN old : Entries(old)[i].key = old[i].key
  BY DEF Entries
<1>14. Contract!Distinct(Entries(more))
  <2> SUFFICES ASSUME NEW i \in DOMAIN more, NEW j \in DOMAIN more,
                      Entries(more)[i].key = Entries(more)[j].key
               PROVE  i = j
    BY <1>4 DEF Contract!Distinct
  <2>1. more[i].key = more[j].key
    BY <1>12
  <2>2. Len(old) + i = Len(old) + j
    BY <2>1, <1>3, <1>10 DEF Unrepeated
  <2> QED BY <2>2, <1>10, <1>11
<1>15. Contract!KeysOf(Entries(more)) \cap Contract!KeysOf(Entries(old)) = {}
  <2> SUFFICES ASSUME NEW j \in DOMAIN more, NEW i \in DOMAIN old,
                      Entries(more)[j].key = Entries(old)[i].key
               PROVE  FALSE
    BY <1>4 DEF Contract!KeysOf
  <2>1. more[j].key = old[i].key
    BY <1>12, <1>13
  <2>2. Len(old) + j = i
    BY <2>1, <1>3, <1>9, <1>10 DEF Unrepeated
  <2>3. i <= Len(old) /\ i \in Nat
    BY <1>1, <1>9
  <2> QED BY <2>2, <2>3, <1>10, <1>11
<1>16. /\ Contract!KeysOf(Contract!Gained(r)) \cap Contract!KeysOf(Traces[r]) = {}
       /\ Contract!Distinct(Contract!Gained(r)) /\ Contract!Gained(r) # <<>>
  BY <1>5, <1>7, <1>8, <1>14, <1>15
<1>17. Traces' = [Traces EXCEPT ![r] = Traces[r] \o Contract!Gained(r)]
  BY <1>5, <1>6, <1>8
<1> HIDE DEF r
<1>18. Contract!Extend(r, Contract!Gained(r))
  BY <1>16, <1>17 DEF Contract!Extend, Traces
<1> QED BY <1>18 DEF r

(* Every step of the writer is a step or a stutter of the contract.          *)
LEMMA StepRefines == IInv /\ [Next]_vars => [Contract!Extension]_Traces
<1> SUFFICES ASSUME IInv, [Next]_vars PROVE Contract!Extension \/ Traces' = Traces
  OBVIOUS
<1>1. ASSUME UNCHANGED events PROVE Traces' = Traces
  BY <1>1 DEF Traces, Entries
<1>2. ASSUME NEW w \in Writers, Commit(w) PROVE Contract!Extension \/ Traces' = Traces
  <2>1. CASE tx[w].pending # <<>>
    <3>1. tx[w].run \in Runs
      BY <1>2, SeenType DEF Commit, IInv
    <3> QED BY <2>1, <3>1, <1>2, CommitExtends DEF Contract!Extension
  <2>2. CASE tx[w].pending = <<>>
    <3>1. /\ tx[w].run \in Runs /\ events[tx[w].run] \in Seq(Event)
          /\ events \in [Runs -> Seq(Event)]
      BY <1>2, SeenType DEF Commit, IInv, TypeOK
    <3>2. events[tx[w].run] \o <<>> = events[tx[w].run]
      BY <3>1, ConcatEmptySeq
    <3>3. events' = events
      BY <1>2, <2>2, <3>1, <3>2 DEF Commit
    <3> QED BY <3>3, <1>1
  <2> QED BY <2>1, <2>2
<1>3. CASE UNCHANGED vars
  BY <1>1, <1>3 DEF vars
<1>4. ASSUME NEW w \in Writers, NEW r \in Runs, Lock(w, r) PROVE UNCHANGED events
  BY <1>4 DEF Lock
<1>5. ASSUME NEW w \in Writers, NEW key \in Keys, NEW content \in Contents,
             Refuse(w, key, content)
      PROVE  UNCHANGED events
  BY <1>5 DEF Refuse
<1>6. ASSUME NEW w \in Writers, NEW key \in Keys, NEW content \in Contents,
             NEW context \in Contexts, Record(w, key, content, context)
      PROVE  UNCHANGED events
  BY <1>6 DEF Record
<1>7. ASSUME NEW w \in Writers, Rollback(w) PROVE UNCHANGED events
  BY <1>7 DEF Rollback
<1> QED BY <1>1, <1>2, <1>3, <1>4, <1>5, <1>6, <1>7 DEF Next

(* The writer keeps the contract of the trace, for any number of runs,       *)
(* writers, keys and events.                                                 *)
THEOREM WriterImplementsRunTrace == Spec => ImplementsRunTrace
<1>1. Init => Contract!Init
  <2> SUFFICES ASSUME Init PROVE Traces = [r \in Runs |-> <<>>]
    BY DEF Contract!Init, Traces
  <2>1. Entries(<<>>) = <<>>
    BY DEF Entries
  <2> QED BY <2>1 DEF Init, Traces
<1>2. IInv /\ [Next]_vars => [Contract!Extension]_[r \in Runs |-> Entries(events[r])]
  BY StepRefines DEF Traces
<1> QED BY <1>1, <1>2, Invariance, PTL DEF Spec, ImplementsRunTrace, Contract!CheckedSpec
=============================================================================
