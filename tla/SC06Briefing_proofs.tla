------------------------ MODULE SC06Briefing_proofs ------------------------
(***************************************************************************)
(* SC06Briefing: a briefing, its run and its trace tell one story, only     *)
(* empty drafts are discarded, what is over stays as it is, what is stored  *)
(* is visible and stable under the briefing's own version, and the form and *)
(* the service agree, for any briefings, people and schemas.                *)
(*                                                                          *)
(* The inductive invariant relates the rows of one briefing (RowSound) and  *)
(* a request with the briefing it read (ReqSound).                          *)
(***************************************************************************)
EXTENDS SC06Briefing, FiniteSetTheorems, SequenceTheorems, WellFoundedInduction, TLAPS

-----------------------------------------------------------------------------
(* Induction on numbers, for sets.                                         *)

LEMMA Least ==
  ASSUME NEW T, T \subseteq Nat, T # {}
  PROVE  \E m \in T : \A k \in T : m <= k
<1> DEFINE R == OpToRel(<, Nat)
<1>1. IsWellFoundedOn(R, Nat)
  BY NatLessThanWellFounded
<1>2. \A x, y \in Nat : x < y => <<x, y>> \in R
  BY DEF OpToRel
<1> HIDE DEF R
<1>3. PICK x \in T : \A y \in T : ~(<<y, x>> \in R)
  BY <1>1, WFMin
<1>4. \A y \in T : ~(y < x)
  BY <1>2, <1>3
<1> QED BY <1>4

LEMMA CountUp ==
  ASSUME NEW N \in Nat, NEW S, 0 \in S, \A i \in 1..N : i - 1 \in S => i \in S
  PROVE  \A i \in 0..N : i \in S
<1> DEFINE T == (0..N) \ S
<1>1. SUFFICES ASSUME T # {} PROVE FALSE
  OBVIOUS
<1>2. T \subseteq Nat
  OBVIOUS
<1> HIDE DEF T
<1>3. PICK m \in T : \A k \in T : m <= k
  BY <1>1, <1>2, Least
<1> USE DEF T
<1>4. m \in 1..N /\ m - 1 \in 0..N /\ m \notin S
  BY <1>3
<1>5. m - 1 \in S
  BY <1>3, <1>4
<1> QED BY <1>4, <1>5

-----------------------------------------------------------------------------
(* The loop.                                                               *)

Step(adds, i, before) == IF before \in adds[i] THEN before \cup {i} ELSE before

(* The function in the definition of Scan exists.                            *)
LEMMA ScanExists ==
  ASSUME NEW N \in Nat, NEW adds
  PROVE  \E f : f = [i \in 0..N |-> IF i = 0 THEN {} ELSE Step(adds, i, f[i - 1])]
<1> DEFINE Fits(f, n) == /\ f \in [0..n -> SUBSET (1..N)]
                         /\ f[0] = {}
                         /\ \A k \in 1..n : f[k] = Step(adds, k, f[k - 1])
           S == {n \in 0..N : \E f : Fits(f, n)}
<1>1. 0 \in S
  <2>1. Fits([n \in 0..0 |-> {}], 0)
    OBVIOUS
  <2>2. \E f : Fits(f, 0)
    BY <2>1
  <2> HIDE DEF Fits
  <2> QED BY <2>2
<1>2. ASSUME NEW m \in 1..N, m - 1 \in S PROVE m \in S
  <2>1. PICK f : Fits(f, m - 1)
    BY <1>2
  <2> DEFINE g == [n \in 0..m |-> IF n = m THEN Step(adds, m, f[m - 1]) ELSE f[n]]
  <2>2. f[m - 1] \in SUBSET (1..N) /\ Step(adds, m, f[m - 1]) \in SUBSET (1..N)
    BY <2>1 DEF Step
  <2>3. g \in [0..m -> SUBSET (1..N)]
    BY <2>1, <2>2
  <2>4. g[0] = {} /\ g[m] = Step(adds, m, f[m - 1])
    BY <2>1
  <2>5. ASSUME NEW k \in 1..m PROVE g[k] = Step(adds, k, g[k - 1])
    <3>1. g[k - 1] = f[k - 1]
      OBVIOUS
    <3>2. CASE k = m
      BY <3>1, <3>2, <2>4
    <3>3. CASE k # m
      <4>1. k \in 1..(m - 1) /\ g[k] = f[k]
        BY <3>3
      <4> QED BY <4>1, <3>1, <2>1
    <3> QED BY <3>2, <3>3
  <2> HIDE DEF g
  <2>6. Fits(g, m)
    BY <2>3, <2>4, <2>5
  <2> QED BY <2>6
<1>3. N \in S
  <2> HIDE DEF S
  <2> QED BY <1>1, <1>2, CountUp
<1>4. PICK f : Fits(f, N)
  BY <1>3
<1>5. f = [i \in 0..N |-> IF i = 0 THEN {} ELSE Step(adds, i, f[i - 1])]
  <2>1. ASSUME NEW i \in 0..N PROVE f[i] = IF i = 0 THEN {} ELSE Step(adds, i, f[i - 1])
    BY <1>4
  <2> QED BY <1>4, <2>1
<1> QED BY <1>5

ScanFcn(N, adds) ==
  CHOOSE f : f = [i \in 0..N |-> IF i = 0 THEN {} ELSE Step(adds, i, f[i - 1])]

LEMMA ScanFcnSteps ==
  ASSUME NEW N \in Nat, NEW adds
  PROVE  /\ ScanFcn(N, adds)[0] = {}
         /\ \A i \in 1..N : ScanFcn(N, adds)[i] = Step(adds, i, ScanFcn(N, adds)[i - 1])
         /\ Scan(N, adds) = ScanFcn(N, adds)[N]
<1> DEFINE f == ScanFcn(N, adds)
<1>1. f = [i \in 0..N |-> IF i = 0 THEN {} ELSE Step(adds, i, f[i - 1])]
  <2>1. \E g : g = [i \in 0..N |-> IF i = 0 THEN {} ELSE Step(adds, i, g[i - 1])]
    BY ScanExists
  <2> QED BY Zenon, <2>1 DEF ScanFcn
<1>2. Scan(N, adds) = ScanFcn(N, adds)[N]
  BY Zenon DEF Scan, ScanFcn, Step
<1> HIDE DEF f
<1>3. \A i \in 0..N : f[i] = IF i = 0 THEN {} ELSE Step(adds, i, f[i - 1])
  BY <1>1
<1>4. f[0] = {} /\ \A i \in 1..N : f[i] = Step(adds, i, f[i - 1])
  BY <1>3
<1> QED BY <1>2, <1>4 DEF f

(* What the loop collects is the set whose members are added after those     *)
(* before them...                                                            *)
LEMMA ScanCollects ==
  ASSUME NEW N \in Nat, NEW adds
  PROVE  /\ Scan(N, adds) \subseteq 1..N
         /\ \A i \in 1..N : i \in Scan(N, adds) <=> Scan(N, adds) \cap (1..(i - 1)) \in adds[i]
<1> DEFINE f == ScanFcn(N, adds)
<1>1. /\ f[0] = {} /\ Scan(N, adds) = f[N]
      /\ \A i \in 1..N : f[i] = Step(adds, i, f[i - 1])
  BY ScanFcnSteps
<1> HIDE DEF f
<1> DEFINE Good(i) == /\ f[i] \subseteq 1..i
                      /\ \A k \in 0..i : f[i] \cap (1..k) = f[k]
                      /\ \A k \in 1..i : k \in f[i] <=> f[k - 1] \in adds[k]
           S == {i \in 0..N : Good(i)}
<1>2. 0 \in S
  BY <1>1
<1>3. ASSUME NEW i \in 1..N, i - 1 \in S PROVE i \in S
  <2>1. Good(i - 1) /\ f[i] = Step(adds, i, f[i - 1])
    BY <1>1, <1>3
  <2>2. f[i] \subseteq 1..i
    BY <2>1 DEF Step
  <2>3. f[i] \cap (1..(i - 1)) = f[i - 1] /\ (i \in f[i] <=> f[i - 1] \in adds[i])
    BY <2>1 DEF Step
  <2>4. ASSUME NEW k \in 0..i PROVE f[i] \cap (1..k) = f[k]
    <3>1. CASE k = i
      BY <2>2, <3>1
    <3>2. CASE k # i
      <4>1. k \in 0..(i - 1) /\ f[i - 1] \cap (1..k) = f[k]
        BY <2>1, <3>2
      <4>2. f[i] \cap (1..k) = (f[i] \cap (1..(i - 1))) \cap (1..k)
        BY <4>1
      <4> QED BY <2>3, <4>1, <4>2
    <3> QED BY <3>1, <3>2
  <2>5. ASSUME NEW k \in 1..i PROVE k \in f[i] <=> f[k - 1] \in adds[k]
    <3>1. CASE k = i
      BY <2>3, <3>1
    <3>2. CASE k # i
      <4>1. k \in 1..(i - 1) /\ (k \in f[i - 1] <=> f[k - 1] \in adds[k])
        BY <2>1, <3>2
      <4> QED BY <2>3, <4>1
    <3> QED BY <3>1, <3>2
  <2> HIDE DEF f
  <2>6. Good(i)
    BY <2>2, <2>4, <2>5
  <2> QED BY <2>6
<1>4. N \in S
  <2> HIDE DEF S
  <2> QED BY <1>2, <1>3, CountUp
<1>5. Good(N)
  BY <1>4
<1>6. ASSUME NEW i \in 1..N
      PROVE  i \in Scan(N, adds) <=> Scan(N, adds) \cap (1..(i - 1)) \in adds[i]
  <2>1. f[N] \cap (1..(i - 1)) = f[i - 1] /\ (i \in f[N] <=> f[i - 1] \in adds[i])
    BY <1>5
  <2> QED BY <1>1, <2>1
<1> QED BY <1>1, <1>5, <1>6

(* ... and the only such set.                                                *)
LEMMA ScanOnly ==
  ASSUME NEW N \in Nat, NEW adds, NEW S, S \subseteq 1..N,
         \A i \in 1..N : i \in S <=> S \cap (1..(i - 1)) \in adds[i]
  PROVE  S = Scan(N, adds)
<1> DEFINE T == Scan(N, adds)
           Same == {i \in 0..N : S \cap (1..i) = T \cap (1..i)}
<1>1. T \subseteq 1..N /\ \A i \in 1..N : i \in T <=> T \cap (1..(i - 1)) \in adds[i]
  BY ScanCollects
<1> HIDE DEF T
<1>2. 0 \in Same
  OBVIOUS
<1>3. ASSUME NEW i \in 1..N, i - 1 \in Same PROVE i \in Same
  <2>1. S \cap (1..(i - 1)) = T \cap (1..(i - 1))
    BY <1>3
  <2>2. i \in S <=> i \in T
    BY <1>1, <2>1
  <2>3. \A x \in 1..i : x \in 1..(i - 1) \/ x = i
    OBVIOUS
  <2>4. S \cap (1..i) = T \cap (1..i)
    BY <2>1, <2>2, <2>3
  <2> QED BY <2>4
<1>4. N \in Same
  <2> HIDE DEF Same
  <2> QED BY <1>2, <1>3, CountUp
<1>5. S = T
  BY <1>1, <1>4
<1> QED BY <1>5 DEF T

-----------------------------------------------------------------------------
(* Conditions and schemas.                                                 *)

(* Answers that agree on the comparisons of a condition agree on it.         *)
SameOn(c, a, b) ==
  \A leaf \in Leaves(c) :
    Answer(a, leaf.field) \in leaf.values <=> Answer(b, leaf.field) \in leaf.values

LEMMA EvaluateSame ==
  ASSUME NEW c, NEW a, NEW b, SameOn(c, a, b)
  PROVE  Evaluate(c, a) <=> Evaluate(c, b)
<1>1. ASSUME NEW i \in DOMAIN c, NEW held PROVE Holds(c[i], held, a) <=> Holds(c[i], held, b)
  <2>1. CASE c[i].op \in {"equals", "in", "not_equals"}
    <3>1. c[i] \in Leaves(c)
      BY <2>1 DEF Leaves
    <3> QED BY <2>1, <3>1 DEF SameOn, Holds
  <2>2. CASE c[i].op \notin {"equals", "in", "not_equals"}
    BY <2>2 DEF Holds
  <2> QED BY <2>1, <2>2
<1>2. \A i \in DOMAIN c : {held \in SUBSET (1..(i - 1)) : Holds(c[i], held, a)}
                            = {held \in SUBSET (1..(i - 1)) : Holds(c[i], held, b)}
  BY <1>1
<1>3. [i \in DOMAIN c |-> {held \in SUBSET (1..(i - 1)) : Holds(c[i], held, a)}]
        = [i \in DOMAIN c |-> {held \in SUBSET (1..(i - 1)) : Holds(c[i], held, b)}]
  BY <1>2
<1> QED BY Zenon, <1>3 DEF Evaluate

LEMMA TemplateLines ==
  ASSUME NEW schema, IsTemplate(schema)
  PROVE  /\ Len(schema) \in Nat /\ DOMAIN schema = 1..Len(schema)
         /\ Asked(schema) \subseteq 1..Len(schema)
         /\ \A n \in 1..Len(schema) : schema[n].section \in 0..(n - 1)
         /\ \A n \in Asked(schema) : schema[n].section \in 1..Len(schema)
                                     /\ schema[schema[n].section].section = 0
<1>1. Len(schema) \in Nat /\ DOMAIN schema = 1..Len(schema)
  BY DEF IsTemplate
<1>2. ASSUME NEW n \in 1..Len(schema)
      PROVE  /\ schema[n].section \in 0..(n - 1)
             /\ schema[n].kind = "section" <=> schema[n].section = 0
             /\ schema[n].section # 0 => schema[schema[n].section].kind = "section"
  BY <1>1 DEF IsTemplate
<1>3. Asked(schema) \subseteq 1..Len(schema)
  BY <1>1 DEF Asked
<1>4. ASSUME NEW n \in Asked(schema)
      PROVE  schema[n].section \in 1..Len(schema) /\ schema[schema[n].section].section = 0
  <2>1. n \in 1..Len(schema) /\ schema[n].section # 0
    BY <1>2, <1>3 DEF Asked
  <2>2. schema[n].section \in 1..Len(schema)
    BY <1>1, <1>2, <2>1
  <2> QED BY <1>2, <2>1, <2>2
<1> QED BY <1>1, <1>2, <1>3, <1>4

(* A valid schema finds a question by its identifier.                        *)
LEMMA QuestionOf ==
  ASSUME NEW schema, ValidTemplateSchema(schema), NEW n \in Asked(schema)
  PROVE  /\ Question(schema, schema[n].id) = schema[n]
         /\ \A lines : schema[n].id \in IdsOf(schema, lines) <=> n \in lines
<1>1. \A i, j \in Asked(schema) : schema[i].id = schema[j].id => i = j
  BY DEF ValidTemplateSchema
<1>2. (CHOOSE m \in Asked(schema) : schema[m].id = schema[n].id) = n
  BY <1>1
<1> QED BY <1>1, <1>2 DEF Question, IdsOf

LEMMA LineOf ==
  ASSUME NEW schema, NEW lines, NEW id \in IdsOf(schema, lines)
  PROVE  \E n \in lines \cap Asked(schema) : id = schema[n].id
BY DEF IdsOf

-----------------------------------------------------------------------------
(* The active lines.                                                       *)

(* The answers taken from active lines.                                      *)
Taken(schema, data, taken, lines) == Restrict(data, taken \cap IdsOf(schema, lines))

(* The condition of a line only looks back: whether the answers of later     *)
(* lines are known makes no difference.                                      *)
LEMMA LooksBack ==
  ASSUME NEW schema, IsTemplate(schema), ValidTemplateSchema(schema),
         NEW data, NEW taken, NEW lines, NEW n \in 1..Len(schema)
  PROVE  Evaluate(schema[n].when, Taken(schema, data, taken, lines \cap (1..(n - 1))))
           <=> Evaluate(schema[n].when, Taken(schema, data, taken, lines))
<1> DEFINE a == Taken(schema, data, taken, lines \cap (1..(n - 1)))
           b == Taken(schema, data, taken, lines)
<1>1. ASSUME NEW leaf \in Leaves(schema[n].when)
      PROVE  Answer(a, leaf.field) = Answer(b, leaf.field)
  <2>1. leaf.field \in Earlier(schema, n)
    BY TemplateLines DEF ValidTemplateSchema
  <2>2. PICK i \in (1..(n - 1)) \cap Asked(schema) : leaf.field = schema[i].id
    BY <2>1, LineOf DEF Earlier
  <2>3. leaf.field \in IdsOf(schema, lines \cap (1..(n - 1)))
          <=> leaf.field \in IdsOf(schema, lines)
    BY <2>2, QuestionOf
  <2> QED BY <2>3 DEF Answer, Taken, Restrict
<1>2. SameOn(schema[n].when, a, b)
  BY <1>1 DEF SameOn
<1> QED BY <1>2, EvaluateSame

(* A set of lines that agrees with its own answers.                          *)
Agrees(schema, data, taken, lines) ==
  \A n \in 1..Len(schema) :
    n \in lines <=> /\ schema[n].section \in lines \cup {0}
                    /\ Evaluate(schema[n].when, Taken(schema, data, taken, lines))

LEMMA ActiveAgree ==
  ASSUME NEW schema, IsTemplate(schema), ValidTemplateSchema(schema), NEW data, NEW taken
  PROVE  /\ ActiveLines(schema, data, taken) \subseteq 1..Len(schema)
         /\ Agrees(schema, data, taken, ActiveLines(schema, data, taken))
<1> DEFINE N == Len(schema)
           adds == [n \in DOMAIN schema |->
                      {before \in SUBSET (1..(n - 1)) :
                         /\ schema[n].section \in before \cup {0}
                         /\ Evaluate(schema[n].when,
                                     Restrict(data, taken \cap IdsOf(schema, before)))}]
           L == ActiveLines(schema, data, taken)
<1>1. L = Scan(N, adds) /\ N \in Nat
  BY TemplateLines DEF ActiveLines
<1>2. \A n \in 1..N : \A S \in SUBSET (1..(n - 1)) :
        S \in adds[n] <=> /\ schema[n].section \in S \cup {0}
                          /\ Evaluate(schema[n].when, Taken(schema, data, taken, S))
  BY TemplateLines DEF Taken
<1> HIDE DEF L, adds
<1>3. L \subseteq 1..N /\ \A n \in 1..N : n \in L <=> L \cap (1..(n - 1)) \in adds[n]
  BY <1>1, ScanCollects
<1>4. ASSUME NEW n \in 1..N
      PROVE  n \in L <=> /\ schema[n].section \in L \cup {0}
                         /\ Evaluate(schema[n].when, Taken(schema, data, taken, L))
  <2>1. n \in L <=> /\ schema[n].section \in (L \cap (1..(n - 1))) \cup {0}
                    /\ Evaluate(schema[n].when, Taken(schema, data, taken, L \cap (1..(n - 1))))
    BY <1>2, <1>3
  <2>2. schema[n].section \in (L \cap (1..(n - 1))) \cup {0} <=> schema[n].section \in L \cup {0}
    BY TemplateLines
  <2> QED BY <2>1, <2>2, LooksBack
<1> QED BY <1>3, <1>4 DEF L, Agrees

(* Visibility is deterministic: whoever reads the answers as a whole, in any *)
(* order, finds the lines that the loop of the service found, because no     *)
(* condition looks forward (validate_template_schema).                       *)
THEOREM VisibilityIsDeterministic ==
  ASSUME NEW schema, IsTemplate(schema), ValidTemplateSchema(schema), NEW data, NEW taken,
         NEW lines \in SUBSET (1..Len(schema))
  PROVE  Agrees(schema, data, taken, lines) <=> lines = ActiveLines(schema, data, taken)
<1> DEFINE N == Len(schema)
           adds == [n \in DOMAIN schema |->
                      {before \in SUBSET (1..(n - 1)) :
                         /\ schema[n].section \in before \cup {0}
                         /\ Evaluate(schema[n].when,
                                     Restrict(data, taken \cap IdsOf(schema, before)))}]
<1>1. ActiveLines(schema, data, taken) = Scan(N, adds) /\ N \in Nat
  BY TemplateLines DEF ActiveLines
<1>2. \A n \in 1..N : \A S \in SUBSET (1..(n - 1)) :
        S \in adds[n] <=> /\ schema[n].section \in S \cup {0}
                          /\ Evaluate(schema[n].when, Taken(schema, data, taken, S))
  BY TemplateLines DEF Taken
<1> HIDE DEF adds
<1>3. ASSUME Agrees(schema, data, taken, lines) PROVE lines = Scan(N, adds)
  <2>1. ASSUME NEW n \in 1..N PROVE n \in lines <=> lines \cap (1..(n - 1)) \in adds[n]
    <3>1. n \in lines <=> /\ schema[n].section \in lines \cup {0}
                          /\ Evaluate(schema[n].when, Taken(schema, data, taken, lines))
      BY <1>3 DEF Agrees
    <3>2. schema[n].section \in (lines \cap (1..(n - 1))) \cup {0}
            <=> schema[n].section \in lines \cup {0}
      BY TemplateLines
    <3>3. lines \cap (1..(n - 1)) \in adds[n]
            <=> /\ schema[n].section \in (lines \cap (1..(n - 1))) \cup {0}
                /\ Evaluate(schema[n].when, Taken(schema, data, taken, lines \cap (1..(n - 1))))
      BY <1>2
    <3> QED BY <3>1, <3>2, <3>3, LooksBack
  <2> QED BY <1>1, <2>1, ScanOnly
<1> QED BY <1>1, <1>3, ActiveAgree

(* Answers that decide the conditions alike make the same lines active.      *)
LEMMA SameActive ==
  ASSUME NEW schema, IsTemplate(schema), ValidTemplateSchema(schema),
         NEW data, NEW taken, NEW data2, NEW taken2, NEW lines,
         lines = ActiveLines(schema, data, taken),
         \A n \in 1..Len(schema) :
           Evaluate(schema[n].when, Taken(schema, data, taken, lines))
             <=> Evaluate(schema[n].when, Taken(schema, data2, taken2, lines))
  PROVE  ActiveLines(schema, data2, taken2) = lines
<1>1. lines \in SUBSET (1..Len(schema)) /\ Agrees(schema, data, taken, lines)
  BY ActiveAgree
<1>2. Agrees(schema, data2, taken2, lines)
  BY <1>1 DEF Agrees
<1> QED BY <1>1, <1>2, VisibilityIsDeterministic

(* A question is active when the conditions of its section and its own hold  *)
(* of the answers as a whole.                                                *)
LEMMA QuestionActive ==
  ASSUME NEW schema, IsTemplate(schema), ValidTemplateSchema(schema),
         NEW data, NEW taken, NEW lines, lines = ActiveLines(schema, data, taken),
         NEW n \in Asked(schema)
  PROVE  n \in lines <=>
           /\ Evaluate(schema[schema[n].section].when, Taken(schema, data, taken, lines))
           /\ Evaluate(schema[n].when, Taken(schema, data, taken, lines))
<1>1. lines \subseteq 1..Len(schema) /\ Agrees(schema, data, taken, lines)
  BY ActiveAgree
<1>2. /\ n \in 1..Len(schema) /\ schema[n].section \in 1..Len(schema)
      /\ schema[schema[n].section].section = 0
  BY TemplateLines
<1>3. schema[n].section \in lines
        <=> Evaluate(schema[schema[n].section].when, Taken(schema, data, taken, lines))
  BY <1>1, <1>2 DEF Agrees
<1>4. n \in lines <=> /\ schema[n].section \in lines
                      /\ Evaluate(schema[n].when, Taken(schema, data, taken, lines))
  <2>1. schema[n].section # 0
    BY <1>2
  <2> QED BY <1>1, <1>2, <2>1 DEF Agrees
<1> QED BY <1>3, <1>4

-----------------------------------------------------------------------------
(* What sanitize_answers keeps.                                            *)

Accepted(schema, data, complete) == SanitizeAnswers(schema, data, complete).errors = {}
Kept(schema, data, complete) == SanitizeAnswers(schema, data, complete).answers

Fit(schema, data) == Coercible(schema, data) \cap Given(data)
FitLines(schema, data) == ActiveLines(schema, data, Fit(schema, data))

(* The kept answers are the ones that fit, of the active questions.          *)
LEMMA KeptIs ==
  ASSUME NEW schema, NEW data, NEW complete, NEW kept, kept = Kept(schema, data, complete)
  PROVE  /\ kept = Taken(schema, data, Fit(schema, data), FitLines(schema, data))
         /\ DOMAIN kept = Fit(schema, data) \cap IdsOf(schema, FitLines(schema, data))
<1>1. kept = Taken(schema, data, Fit(schema, data), FitLines(schema, data))
  BY DEF Kept, SanitizeAnswers, Taken, Fit, FitLines
<1>2. DOMAIN kept = Fit(schema, data) \cap IdsOf(schema, FitLines(schema, data))
  BY <1>1 DEF Taken, Restrict
<1> QED BY <1>1, <1>2

LEMMA KeptValue ==
  ASSUME NEW schema, NEW data, NEW complete, NEW id \in DOMAIN Kept(schema, data, complete)
  PROVE  /\ id \in Ids(schema)
         /\ Coerces(Question(schema, id), Kept(schema, data, complete)[id])
         /\ Kept(schema, data, complete)[id] # "blank"
<1> DEFINE kept == Kept(schema, data, complete)
<1>1. id \in Fit(schema, data) /\ kept[id] = data[id]
  <2>1. kept = Taken(schema, data, Fit(schema, data), FitLines(schema, data))
    BY KeptIs
  <2> HIDE DEF kept
  <2>2. id \in DOMAIN kept
    BY DEF kept
  <2> QED BY <2>1, <2>2 DEF Taken, Restrict
<1> QED BY <1>1 DEF Fit, Coercible, Given

LEMMA AcceptedIs ==
  ASSUME NEW schema, NEW data, NEW complete, Accepted(schema, data, complete),
         NEW id \in IdsOf(schema, FitLines(schema, data))
  PROVE  /\ id \notin Given(data) \ Fit(schema, data)
         /\ ~(complete /\ Question(schema, id).required /\ id \notin Given(data))
BY DEF Accepted, SanitizeAnswers, Fit, FitLines

(* Every kept answer fits, and reading the kept answers finds the lines that *)
(* kept them.                                                                *)
LEMMA KeptFits ==
  ASSUME NEW schema, IsTemplate(schema), ValidTemplateSchema(schema),
         NEW data, NEW complete, NEW kept, kept = Kept(schema, data, complete)
  PROVE  /\ Coercible(schema, kept) = DOMAIN kept /\ Given(kept) = DOMAIN kept
         /\ FitLines(schema, kept) = FitLines(schema, data)
         /\ ActiveLines(schema, kept, DOMAIN kept) = FitLines(schema, data)
<1> DEFINE L == FitLines(schema, data)
<1>1. Coercible(schema, kept) = DOMAIN kept /\ Given(kept) = DOMAIN kept
  <2>1. \A id \in DOMAIN kept : /\ id \in Ids(schema)
                                /\ Coerces(Question(schema, id), kept[id])
                                /\ kept[id] # "blank"
    BY KeptValue
  <2> QED BY <2>1 DEF Coercible, Given
<1>2. Taken(schema, kept, DOMAIN kept, L) = kept
  <2>1. DOMAIN kept \cap IdsOf(schema, L) = DOMAIN kept
    BY KeptIs
  <2>2. kept = [id \in DOMAIN kept |-> kept[id]]
    <3>1. kept = Restrict(data, Fit(schema, data) \cap IdsOf(schema, L))
      BY KeptIs DEF Taken
    <3> QED BY <3>1 DEF Restrict
  <2> QED BY <2>1, <2>2 DEF Taken, Restrict
<1>3. L = ActiveLines(schema, data, Fit(schema, data))
      /\ Taken(schema, data, Fit(schema, data), L) = kept
  BY KeptIs DEF FitLines
<1> HIDE DEF L
<1>4. ActiveLines(schema, kept, DOMAIN kept) = L
  BY <1>2, <1>3, SameActive
<1>5. Fit(schema, kept) = DOMAIN kept
  BY <1>1 DEF Fit
<1> QED BY <1>1, <1>4, <1>5 DEF FitLines, L

(* What is stored is stable: handing the kept answers to sanitize_answers    *)
(* again keeps them all, without an error, for a draft and for a complete    *)
(* briefing.                                                                 *)
THEOREM SanitizedIsStable ==
  ASSUME NEW schema, IsTemplate(schema), ValidTemplateSchema(schema),
         NEW data, NEW complete, Accepted(schema, data, complete),
         NEW kept, kept = Kept(schema, data, complete)
  PROVE  SanitizeAnswers(schema, kept, complete) = [answers |-> kept, errors |-> {}]
<1> DEFINE active == IdsOf(schema, FitLines(schema, data))
           errors == {id \in active : \/ id \in Given(kept) \ Fit(schema, kept)
                                      \/ /\ complete /\ Question(schema, id).required
                                         /\ id \notin Given(kept)}
<1>1. Coercible(schema, kept) = DOMAIN kept /\ Given(kept) = DOMAIN kept
      /\ FitLines(schema, kept) = FitLines(schema, data)
  BY KeptFits
<1>2. SanitizeAnswers(schema, kept, complete)
        = [answers |-> Restrict(kept, Fit(schema, kept) \cap active), errors |-> errors]
  BY <1>1 DEF SanitizeAnswers, Fit, FitLines
<1>3. Restrict(kept, Fit(schema, kept) \cap active) = kept
  <2>1. Fit(schema, kept) \cap active = DOMAIN kept
    <3>1. DOMAIN kept \subseteq active
      BY KeptIs
    <3> QED BY <1>1, <3>1 DEF Fit
  <2>2. kept = [id \in DOMAIN kept |-> kept[id]]
    <3>1. kept = Restrict(data, Fit(schema, data) \cap active)
      BY KeptIs DEF Taken
    <3> QED BY <3>1 DEF Restrict
  <2> QED BY <2>1, <2>2 DEF Restrict
<1>4. errors = {}
  <2> SUFFICES ASSUME NEW id \in active PROVE id \notin errors
    OBVIOUS
  <2>1. id \notin Given(kept) \ Fit(schema, kept)
    BY <1>1 DEF Fit
  <2>2. ASSUME complete, Question(schema, id).required PROVE id \in Given(kept)
    <3>1. id \in Fit(schema, data)
      BY <2>2, AcceptedIs
    <3>2. id \in DOMAIN kept
      <4>1. DOMAIN kept = Fit(schema, data) \cap active
        BY KeptIs
      <4> QED BY <3>1, <4>1
    <3> QED BY <1>1, <3>2
  <2> QED BY <2>1, <2>2
<1> QED BY <1>2, <1>3, <1>4

(* The consolidated document shows every stored answer.                      *)
THEOREM FormatShowsAll ==
  ASSUME NEW schema, IsTemplate(schema), ValidTemplateSchema(schema),
         NEW data, NEW complete, NEW kept, kept = Kept(schema, data, complete)
  PROVE  FormatAnswers(schema, kept) = DOMAIN kept
<1>1. Active(schema, kept) = IdsOf(schema, FitLines(schema, data))
  BY KeptFits DEF Active
<1>2. DOMAIN kept \subseteq IdsOf(schema, FitLines(schema, data))
  BY KeptIs
<1> QED BY <1>1, <1>2 DEF FormatAnswers

(* A kept answer is a permitted one to a question that reading all of them   *)
(* finds visible, and a complete briefing answers every visible question     *)
(* that requires it.                                                         *)
THEOREM KeptIsVisible ==
  ASSUME NEW schema, IsTemplate(schema), ValidTemplateSchema(schema),
         NEW data, NEW complete, NEW kept, kept = Kept(schema, data, complete),
         NEW n \in Asked(schema)
  PROVE  LET shown == /\ Evaluate(schema[schema[n].section].when, kept)
                      /\ Evaluate(schema[n].when, kept)
             id == schema[n].id
         IN /\ id \in DOMAIN kept => shown /\ kept[id] \in schema[n].allowed
            /\ Accepted(schema, data, complete) /\ complete /\ schema[n].required /\ shown
                 => id \in DOMAIN kept
<1> DEFINE L == FitLines(schema, data)
           shown == /\ Evaluate(schema[schema[n].section].when, kept)
                    /\ Evaluate(schema[n].when, kept)
           id == schema[n].id
<1>1. L = ActiveLines(schema, data, Fit(schema, data))
      /\ Taken(schema, data, Fit(schema, data), L) = kept
  BY KeptIs DEF FitLines
<1>1a. /\ DOMAIN kept = Fit(schema, data) \cap IdsOf(schema, L)
      /\ \A i \in DOMAIN kept : Coerces(Question(schema, i), kept[i]) /\ kept[i] # "blank"
  BY KeptIs, KeptValue
<1> HIDE DEF L
<1>2. n \in L <=> shown
  BY <1>1, QuestionActive
<1>3. Question(schema, id) = schema[n] /\ (id \in IdsOf(schema, L) <=> n \in L)
  BY QuestionOf
<1> HIDE DEF shown
<1>4. ASSUME id \in DOMAIN kept PROVE shown /\ kept[id] \in schema[n].allowed
  <2>1. id \in IdsOf(schema, L) /\ Coerces(Question(schema, id), kept[id]) /\ kept[id] # "blank"
    BY <1>4, <1>1a
  <2> QED BY <1>2, <1>3, <2>1 DEF Coerces
<1>5. ASSUME Accepted(schema, data, complete), complete, schema[n].required, shown
      PROVE  id \in DOMAIN kept
  <2>1. id \in IdsOf(schema, FitLines(schema, data))
    BY <1>2, <1>3, <1>5 DEF L
  <2>2. id \in Fit(schema, data)
    BY <1>3, <1>5, <2>1, AcceptedIs
  <2> QED BY <1>1a, <2>1, <2>2 DEF L
<1> QED BY <1>4, <1>5 DEF shown

LEMMA KeptFinite ==
  ASSUME NEW schema, IsTemplate(schema), NEW data, NEW complete
  PROVE  IsFiniteSet(DOMAIN Kept(schema, data, complete))
<1> DEFINE kept == Kept(schema, data, complete)
           N == Len(schema)
           ids == {schema[n].id : n \in 1..N}
<1>1. N \in Nat /\ Asked(schema) \subseteq 1..N
  BY TemplateLines
<1>2. IsFiniteSet(1..N)
  BY <1>1, FS_Interval
<1>3. IsFiniteSet(ids)
  <2>1. [n \in 1..N |-> schema[n].id] \in Surjection(1..N, ids)
    BY DEF Surjection
  <2> QED BY <1>2, <2>1, FS_Surjection
<1>4. DOMAIN kept \subseteq ids
  <2>1. \A id \in DOMAIN kept : id \in Ids(schema)
    BY KeptValue
  <2> QED BY <1>1, <2>1 DEF Ids, IdsOf
<1> QED BY <1>3, <1>4, FS_Subset

-----------------------------------------------------------------------------
(* The form.                                                               *)

(* No condition compares with what is not there: the validator asks for      *)
(* values that the compared question accepts.                                *)
LEMMA ComparedValues ==
  ASSUME NEW schema, IsTemplate(schema), ValidTemplateSchema(schema),
         NEW n \in 1..Len(schema), NEW leaf \in Leaves(schema[n].when)
  PROVE  leaf.field \in Ids(schema) /\ "none" \notin leaf.values
<1>1. /\ leaf.field \in IdsOf(schema, 1..(n - 1))
      /\ \A value \in leaf.values : Coerces(Question(schema, leaf.field), value)
  BY TemplateLines DEF ValidTemplateSchema, Earlier
<1>2. PICK i \in (1..(n - 1)) \cap Asked(schema) : leaf.field = schema[i].id
  BY <1>1, LineOf
<1>3. Question(schema, leaf.field) = schema[i]
  BY <1>2, QuestionOf
<1>4. "none" \notin schema[i].allowed
  BY <1>2, TemplateLines DEF IsTemplate
<1>5. "none" \notin leaf.values
  BY <1>1, <1>3, <1>4 DEF Coerces
<1>6. leaf.field \in Ids(schema)
  BY <1>2, TemplateLines DEF Ids, IdsOf
<1> QED BY <1>5, <1>6

(* A field of the form makes values of its texts that its question accepts.  *)
LEMMA ReadsAllowed ==
  ASSUME NEW schema, IsTemplate(schema), ValidTemplateSchema(schema), NEW id \in Ids(schema)
  PROVE  /\ "blank" \notin Question(schema, id).allowed
         /\ \A text \in DOMAIN Question(schema, id).reads :
              Question(schema, id).reads[text] \in Question(schema, id).allowed
<1>1. PICK n \in Asked(schema) : id = schema[n].id
  BY DEF Ids, IdsOf
<1>2. Question(schema, id) = schema[n]
  BY <1>1, QuestionOf
<1>3. n \in DOMAIN schema
  BY DEF Asked
<1> QED BY <1>2, <1>3 DEF IsTemplate

(* What the form made of the fields of a post: the value read from the text  *)
(* of an active question that was filled in, and nothing else.               *)
LEMMA PayloadIs ==
  ASSUME NEW schema, IsTemplate(schema), ValidTemplateSchema(schema),
         NEW data \in Raw(schema), FormValid(schema, data)
  PROVE  /\ DOMAIN data \subseteq Ids(schema)
         /\ DOMAIN Payload(schema, data) = Ids(schema)
         /\ Given(Payload(schema, data)) = Active(schema, data) \cap Given(data)
         /\ \A id \in Ids(schema) \ (Active(schema, data) \cap Given(data)) :
              Payload(schema, data)[id] = "blank"
         /\ \A id \in Active(schema, data) \cap Given(data) :
              /\ id \in Ids(schema)
              /\ Payload(schema, data)[id] = Question(schema, id).reads[data[id]]
              /\ Payload(schema, data)[id] \in Question(schema, id).allowed
<1> DEFINE payload == Payload(schema, data)
           filled == Active(schema, data) \cap Given(data)
<1>1. DOMAIN data \subseteq Ids(schema)
  BY DEF Raw
<1>2. filled \subseteq Ids(schema)
  BY <1>1 DEF Given
<1>3. /\ DOMAIN payload = Ids(schema)
      /\ \A id \in Ids(schema) : payload[id] = IF id \in filled THEN Question(schema, id).reads[data[id]]
                                               ELSE "blank"
  BY DEF Payload
<1>4. ASSUME NEW id \in filled
      PROVE  payload[id] \in Question(schema, id).allowed /\ payload[id] # "blank"
  <2>1. data[id] \in DOMAIN Question(schema, id).reads
    BY <1>4 DEF FormValid
  <2> QED BY <1>2, <1>3, <2>1, ReadsAllowed
<1>5. Given(payload) = filled
  BY <1>2, <1>3, <1>4 DEF Given
<1> QED BY <1>1, <1>2, <1>3, <1>4, <1>5

(* The form and the service agree: what the form let through is kept without *)
(* an error and without losing an answer, when no question that a condition  *)
(* compares has a text that the form has changed, or is left empty and       *)
(* compared with the empty text.                                             *)
THEOREM FormIsAccepted ==
  ASSUME NEW schema, IsTemplate(schema), ValidTemplateSchema(schema),
         NEW sent \in FilledForms(schema), ComparedAlike(schema, sent)
  PROVE  SanitizeAnswers(schema, sent.payload, FALSE)
           = [answers |-> Restrict(sent.payload, Given(sent.payload)), errors |-> {}]
<1>1. PICK data \in Raw(schema) :
        FormValid(schema, data)
        /\ sent = [payload |-> Payload(schema, data), rewritten |-> Rewritten(schema, data)]
  BY DEF FilledForms
<1> DEFINE payload == sent.payload
           C == Coercible(schema, data)
           L == ActiveLines(schema, data, C)
           active == IdsOf(schema, L)
           filled == active \cap Given(data)
<1>2. payload = Payload(schema, data) /\ sent.rewritten = Rewritten(schema, data)
  BY <1>1
<1>3. active = Active(schema, data)
  BY DEF Active
<1>4. L = ActiveLines(schema, data, C)
  OBVIOUS
<1>5. \A id \in Ids(schema) \cap DOMAIN data : id \in C <=> Coerces(Question(schema, id), data[id])
  BY DEF Coercible
<1>6. C \subseteq DOMAIN data
  BY DEF Coercible
<1> HIDE DEF payload, C, L, active
<1>7. /\ DOMAIN data \subseteq Ids(schema) /\ DOMAIN payload = Ids(schema)
      /\ Given(payload) = filled /\ filled \subseteq Ids(schema)
      /\ \A id \in Ids(schema) \ filled : payload[id] = "blank"
      /\ \A id \in filled : /\ payload[id] = Question(schema, id).reads[data[id]]
                            /\ payload[id] \in Question(schema, id).allowed
  <2> HIDE DEF filled
  <2>1. filled = Active(schema, data) \cap Given(data)
    BY <1>3 DEF filled
  <2> QED BY <1>1, <1>2, <2>1, PayloadIs
<1>8. Fit(schema, payload) = Given(payload)
  BY <1>7 DEF Fit, Coercible, Coerces
<1>9. ASSUME NEW n \in 1..Len(schema)
      PROVE  Evaluate(schema[n].when, Taken(schema, data, C, L))
               <=> Evaluate(schema[n].when, Taken(schema, payload, Given(payload), L))
  <2> DEFINE a == Taken(schema, data, C, L)
             b == Taken(schema, payload, Given(payload), L)
  <2>1. ASSUME NEW leaf \in Leaves(schema[n].when)
        PROVE  Answer(a, leaf.field) \in leaf.values <=> Answer(b, leaf.field) \in leaf.values
    <3> DEFINE id == leaf.field
    <3>1. id \in Ids(schema) /\ "none" \notin leaf.values
      BY ComparedValues
    <3>2. id \notin sent.rewritten /\ (payload[id] = "blank" => "blank" \notin leaf.values)
      BY TemplateLines DEF ComparedAlike, payload
    <3>3. Answer(a, id) = IF id \in C \cap active THEN data[id] ELSE "none"
      BY DEF Answer, Taken, Restrict, active
    <3>4. Answer(b, id) = IF id \in Given(payload) \cap active THEN payload[id] ELSE "none"
      BY DEF Answer, Taken, Restrict, active
    <3> HIDE DEF id, a, b
    <3>5. CASE id \in filled
      <4>1. payload[id] = data[id]
        BY <1>2, <1>3, <1>7, <3>2, <3>5 DEF Rewritten
      <4>2. id \in C
        BY <1>5, <1>7, <3>5, <4>1 DEF Coerces, Given
      <4>3. Answer(a, id) = Answer(b, id)
        BY <1>7, <3>3, <3>4, <3>5, <4>1, <4>2
      <4> QED BY <4>3 DEF id
    <3>6. CASE id \notin filled
      <4>1. Answer(b, id) = "none"
        BY <1>7, <3>4, <3>6
      <4>2. Answer(a, id) \in {"blank", "none"}
        BY <1>6, <3>3, <3>6 DEF Given
      <4>3. "blank" \notin leaf.values
        BY <1>7, <3>1, <3>2, <3>6
      <4> QED BY <3>1, <4>1, <4>2, <4>3 DEF id
    <3> QED BY <3>5, <3>6
  <2> HIDE DEF a, b
  <2>2. SameOn(schema[n].when, a, b)
    BY <2>1 DEF SameOn
  <2>3. Evaluate(schema[n].when, a) <=> Evaluate(schema[n].when, b)
    BY <2>2, EvaluateSame
  <2> QED BY <2>3 DEF a, b
<1>10. ActiveLines(schema, payload, Given(payload)) = L
  BY <1>4, <1>9, SameActive
<1>11. Given(payload) \cap active = Given(payload)
  BY <1>7
<1>12. SanitizeAnswers(schema, payload, FALSE)
         = [answers |-> Restrict(payload, Given(payload) \cap active),
            errors |-> {id \in active : id \in Given(payload) \ Given(payload)}]
  BY <1>8, <1>10 DEF SanitizeAnswers, Fit, active
<1> QED BY <1>11, <1>12 DEF payload

(* Browser, form and service agree on what a person enters in the browser:   *)
(* when no condition compares with the empty text, every answer given to a   *)
(* question that the browser shows is kept.                                  *)
THEOREM SeenIsKeptUnlessEmpty ==
  ASSUME NEW schema, IsTemplate(schema), ValidTemplateSchema(schema),
         \A n \in DOMAIN schema : \A leaf \in Leaves(schema[n].when) : "blank" \notin leaf.values,
         NEW typed \in Typed(schema), NEW posted, posted = Posted(schema, typed)
  PROVE  SanitizeAnswers(schema, Payload(schema, posted), FALSE).answers
           = Restrict(posted, Given(posted))
<1> DEFINE G == Given(typed)
           L == ActiveLines(schema, typed, G)
           shown == IdsOf(schema, L)
           C == Coercible(schema, posted)
           payload == Payload(schema, posted)
<1>1. DOMAIN typed = Ids(schema) /\ \A id \in Ids(schema) : typed[id] \in Texts(schema)
  BY DEF Typed
<1>2. L \subseteq 1..Len(schema) /\ shown \subseteq Ids(schema)
  BY ActiveAgree, TemplateLines DEF Ids, IdsOf
<1>3. posted = [id \in shown |-> typed[id]]
  BY DEF Posted, Shown, Restrict
<1>4. L = ActiveLines(schema, typed, G)
  OBVIOUS
<1> HIDE DEF L, shown
<1>5. DOMAIN posted = shown /\ \A id \in shown : posted[id] = typed[id]
  BY <1>3
<1>6. posted \in Raw(schema)
  <2>1. posted \in [shown -> Texts(schema)]
    BY <1>1, <1>2, <1>3
  <2> QED BY <1>2, <2>1 DEF Raw
<1>7. Given(posted) = G \cap shown
  BY <1>1, <1>2, <1>5 DEF Given
<1>8. \A id \in G : /\ typed[id] \in DOMAIN Question(schema, id).reads
                    /\ Question(schema, id).reads[typed[id]] = typed[id]
                    /\ typed[id] \in Question(schema, id).allowed
  <2>1. G \subseteq Ids(schema)
    BY <1>1 DEF Given
  <2>2. \A id \in G : /\ typed[id] \in DOMAIN Question(schema, id).reads
                      /\ Question(schema, id).reads[typed[id]] = typed[id]
    BY DEF Typed
  <2> QED BY <2>1, <2>2, ReadsAllowed
<1>9. \A id \in shown : id \in C <=> Coerces(Question(schema, id), typed[id])
  BY <1>2, <1>5 DEF Coercible
<1>10. \A id \in shown \ G : typed[id] = "blank"
  BY <1>1, <1>2 DEF Given
<1> HIDE DEF C, G
<1>11. ASSUME NEW n \in 1..Len(schema)
       PROVE  Evaluate(schema[n].when, Taken(schema, typed, G, L))
                <=> Evaluate(schema[n].when, Taken(schema, posted, C, L))
  <2> DEFINE a == Taken(schema, typed, G, L)
             b == Taken(schema, posted, C, L)
  <2>1. ASSUME NEW leaf \in Leaves(schema[n].when)
        PROVE  Answer(a, leaf.field) \in leaf.values <=> Answer(b, leaf.field) \in leaf.values
    <3> DEFINE id == leaf.field
    <3>1. "none" \notin leaf.values /\ "blank" \notin leaf.values
      BY ComparedValues, TemplateLines
    <3>2. Answer(a, id) = IF id \in G \cap shown THEN typed[id] ELSE "none"
      BY DEF Answer, Taken, Restrict, shown
    <3>3. Answer(b, id) = IF id \in C \cap shown THEN posted[id] ELSE "none"
      BY DEF Answer, Taken, Restrict, shown
    <3> HIDE DEF id, a, b
    <3>4. CASE id \in G \cap shown
      <4>1. id \in C /\ posted[id] = typed[id]
        BY <1>5, <1>8, <1>9, <3>4 DEF Coerces
      <4> QED BY <3>2, <3>3, <3>4, <4>1 DEF id
    <3>5. CASE id \notin G \cap shown
      <4>1. Answer(a, id) = "none" /\ Answer(b, id) \in {"none", "blank"}
        BY <1>5, <1>10, <3>2, <3>3, <3>5
      <4> QED BY <3>1, <4>1 DEF id
    <3> QED BY <3>4, <3>5
  <2> HIDE DEF a, b
  <2>2. SameOn(schema[n].when, a, b)
    BY <2>1 DEF SameOn
  <2>3. Evaluate(schema[n].when, a) <=> Evaluate(schema[n].when, b)
    BY <2>2, EvaluateSame
  <2> QED BY <2>3 DEF a, b
<1>12. Active(schema, posted) = shown
  <2>1. ActiveLines(schema, posted, C) = L
    BY <1>4, <1>11, SameActive
  <2> QED BY <2>1 DEF Active, C, shown
<1>13. FormValid(schema, posted) /\ Rewritten(schema, posted) = {}
  BY <1>5, <1>7, <1>8 DEF FormValid, Rewritten
<1> DEFINE sent == [payload |-> payload, rewritten |-> Rewritten(schema, posted)]
<1>14. sent \in FilledForms(schema)
  BY <1>6, <1>13 DEF FilledForms
<1>15. ComparedAlike(schema, sent)
  BY <1>13 DEF ComparedAlike
<1>16. SanitizeAnswers(schema, payload, FALSE).answers = Restrict(payload, Given(payload))
  <2>1. SanitizeAnswers(schema, sent.payload, FALSE)
          = [answers |-> Restrict(sent.payload, Given(sent.payload)), errors |-> {}]
    BY <1>14, <1>15, FormIsAccepted
  <2>2. sent.payload = payload
    OBVIOUS
  <2> HIDE DEF sent, payload
  <2>3. SanitizeAnswers(schema, payload, FALSE)
          = [answers |-> Restrict(payload, Given(payload)), errors |-> {}]
    BY <2>1, <2>2
  <2> DEFINE result == SanitizeAnswers(schema, payload, FALSE)
             stored == Restrict(payload, Given(payload))
  <2>4. result = [answers |-> stored, errors |-> {}]
    BY <2>3
  <2> HIDE DEF result, stored
  <2>5. result.answers = stored
    BY <2>4
  <2> QED BY <2>5 DEF result, stored
<1> HIDE DEF payload
<1>17. /\ Given(payload) = Active(schema, posted) \cap Given(posted)
       /\ \A id \in Given(payload) : payload[id] = Question(schema, id).reads[posted[id]]
  BY <1>6, <1>13, PayloadIs DEF payload
<1>18. /\ Given(payload) = Given(posted)
       /\ \A id \in Given(posted) : payload[id] = posted[id]
  BY <1>5, <1>7, <1>8, <1>12, <1>17
<1>19. Restrict(payload, Given(payload)) = Restrict(posted, Given(posted))
  BY <1>18 DEF Restrict
<1> QED BY <1>16, <1>19 DEF payload

-----------------------------------------------------------------------------
(* The invariant.                                                          *)

Answers ==
  {NoAnswers} \cup
  {SanitizeAnswers(schema, data, complete).answers :
     schema \in Published, data \in Payloads, complete \in BOOLEAN}
Briefing ==
  [status : {"absent", "DRAFT", "COMPLETED", "CANCELLED"}, version : Nat, answers : Answers]
Run == [status : {"absent", "RUNNING", "SUCCEEDED", "CANCELLED"}, count : Nat]
Rewritings == {{}} \cup {sent.rewritten : sent \in UNION {Submissions[schema] : schema \in Published}}
Request ==
  [pc : {"none", "create", "save", "complete", "cancel", "discard"},
   brief : Briefings \cup {"none"}, form : Nat, action : {"none", "save", "complete"},
   payload : Payloads \cup {NoAnswers}, rewritten : Rewritings]

TypeInv ==
  /\ versions \in Seq(Published) /\ Len(versions) <= MaxVersions
  /\ brief \in [Briefings -> Briefing]
  /\ run \in [Briefings -> Run]
  /\ log \in [Briefings -> Seq(Events)]
  /\ req \in [People -> Request]
  /\ cleaning \subseteq Briefings

(* What is stored under a version is what sanitize_answers kept without an   *)
(* error, of a draft or of a complete briefing.                              *)
KeptPartly(schema, answers) ==
  \E data \in Payloads : /\ SanitizeAnswers(schema, data, FALSE).errors = {}
                         /\ SanitizeAnswers(schema, data, FALSE).answers = answers
KeptWhole(schema, answers) ==
  \E data \in Payloads : /\ SanitizeAnswers(schema, data, TRUE).errors = {}
                         /\ SanitizeAnswers(schema, data, TRUE).answers = answers

Opening == <<Created, Started>>
AllBlank(answers) == \A id \in DOMAIN answers : answers[id] = "blank"

(* One briefing: its row, its run and its trace.                            *)
RowSound(rec, r, trace) ==
  /\ r.count = Cardinality(DOMAIN rec.answers)
  /\ rec.status = "absent" => r.status = "absent" /\ trace = <<>>
  /\ rec.status = "DRAFT" => r.status = "RUNNING" /\ trace = Opening
  /\ rec.status = "COMPLETED" => r.status = "SUCCEEDED" /\ trace = Append(Opening, Succeeded)
  /\ rec.status = "CANCELLED" =>
       /\ r.status = "CANCELLED"
       /\ \/ trace = Append(Opening, Cancelled)
          \/ trace = Append(Opening, Discarded) /\ AllBlank(rec.answers)
RowsSound == \A b \in Briefings : RowSound(brief[b], run[b], log[b])

(* The version of a briefing is known and has accepted what is stored.       *)
VersionSound(rec) ==
  /\ rec.version <= Len(versions)
  /\ rec.status # "absent" => rec.version > 0
  /\ rec.status = "COMPLETED" => KeptWhole(versions[rec.version], rec.answers)
  /\ rec.status \in {"DRAFT", "CANCELLED"} => KeptPartly(versions[rec.version], rec.answers)
VersionsSound == \A b \in Briefings : VersionSound(brief[b])

(* A request that creates has its briefing for itself; any other has read    *)
(* one that exists, and carries the answers of its version's form.           *)
Filling == {"create", "save", "complete"}
Sent(q) == [payload |-> q.payload, rewritten |-> q.rewritten]
ReqSound(p) ==
  LET q == req[p] IN
  /\ q.form <= Len(versions)
  /\ q.pc = "none" => q.brief = "none"
  /\ q.pc # "none" => q.brief \in Briefings
  /\ q.pc = "create" =>
       /\ brief[q.brief].status = "absent" /\ q.brief # "none"
       /\ \A other \in People \ {p} : req[other].brief # q.brief
  /\ q.pc \in {"save", "complete"} => q.form = brief[q.brief].version
  /\ q.pc \notin {"none", "create"} => brief[q.brief].status # "absent"
  /\ q.pc \in Filling => q.form > 0 /\ Sent(q) \in Submissions[versions[q.form]]
  /\ q.pc \notin Filling => q.form = 0
RequestsSound == \A p \in People : ReqSound(p)

IInv == TypeInv /\ RowsSound /\ VersionsSound /\ RequestsSound

-----------------------------------------------------------------------------
(* What a step may do to the briefings.                                    *)

Put(b, rec, r, trace) ==
  /\ brief' = [brief EXCEPT ![b] = rec]
  /\ run' = [run EXCEPT ![b] = r]
  /\ log' = [log EXCEPT ![b] = trace]

Drafted(b, version, answers) ==
  Put(b, [status |-> "DRAFT", version |-> version, answers |-> answers],
      [status |-> "RUNNING", count |-> Cardinality(DOMAIN answers)], Opening)
Finished(b, version, answers) ==
  Put(b, [status |-> "COMPLETED", version |-> version, answers |-> answers],
      [status |-> "SUCCEEDED", count |-> Cardinality(DOMAIN answers)], Append(Opening, Succeeded))
Ended(b, event) ==
  Put(b, [status |-> "CANCELLED", version |-> brief[b].version, answers |-> brief[b].answers],
      [status |-> "CANCELLED", count |-> Cardinality(DOMAIN brief[b].answers)],
      Append(Opening, event))

(* A briefing appears or a draft is saved, a briefing is completed, or a     *)
(* draft is closed.                                                          *)
Writable(b, version) ==
  \/ brief[b].status = "absent" /\ version = Len(versions)
  \/ brief[b].status = "DRAFT" /\ version = brief[b].version
Stores(b) ==
  \E version \in 1..Len(versions), data \in Payloads :
    /\ Writable(b, version)
    /\ \/ /\ Accepted(versions[version], data, FALSE)
          /\ Drafted(b, version, Kept(versions[version], data, FALSE))
       \/ /\ Accepted(versions[version], data, TRUE)
          /\ Finished(b, version, Kept(versions[version], data, TRUE))
Closes(b) ==
  /\ brief[b].status = "DRAFT"
  /\ Ended(b, Cancelled) \/ (AllBlank(brief[b].answers) /\ Ended(b, Discarded))

-----------------------------------------------------------------------------
(* The beginning.                                                          *)

LEMMA NoAnswersEmpty == DOMAIN NoAnswers = {} /\ NoAnswers \in Answers
BY DEF NoAnswers, Answers

LEMMA BeginsSound == Init => IInv
<1> SUFFICES ASSUME Init PROVE IInv
  OBVIOUS
<1>1. Cardinality(DOMAIN NoAnswers) = 0
  BY NoAnswersEmpty, FS_EmptySet
<1>2. versions = <<>> /\ Len(versions) = 0 /\ versions \in Seq(Published)
  BY DEF Init
<1>3. \A b \in Briefings : brief[b] = NoBriefing /\ run[b] = NoRun /\ log[b] = <<>>
  BY DEF Init
<1>4. \A p \in People : req[p] = NoRequest
  BY DEF Init
<1>5. TypeInv
  BY <1>2, NoAnswersEmpty, BoundAssumption
  DEF Init, TypeInv, NoBriefing, NoRun, NoRequest, Briefing, Run, Request, Rewritings
<1>6. RowsSound /\ VersionsSound
  BY <1>1, <1>2, <1>3 DEF RowsSound, RowSound, VersionsSound, VersionSound, NoBriefing, NoRun
<1>7. RequestsSound
  BY <1>2, <1>4 DEF RequestsSound, ReqSound, NoRequest, Filling
<1> QED BY <1>5, <1>6, <1>7 DEF IInv

-----------------------------------------------------------------------------
(* The steps, by what they do to the briefings.                            *)

(* A published schema is one that the validator has accepted.               *)
LEMMA PublishedSchema ==
  ASSUME NEW schema \in Published PROVE IsTemplate(schema) /\ ValidTemplateSchema(schema)
BY CandidatesAssumption DEF Published

LEMMA KeptAnswers ==
  ASSUME NEW schema \in Published, NEW data \in Payloads, NEW complete \in BOOLEAN
  PROVE  /\ Kept(schema, data, complete) \in Answers
         /\ Cardinality(DOMAIN Kept(schema, data, complete)) \in Nat
         /\ Accepted(schema, data, complete) =>
              FormatAnswers(schema, Kept(schema, data, complete)) = DOMAIN Kept(schema, data, complete)
<1>1. Kept(schema, data, complete) \in Answers
  BY DEF Kept, Answers
<1>2. IsFiniteSet(DOMAIN Kept(schema, data, complete))
  BY KeptFinite, PublishedSchema
<1>3. FormatAnswers(schema, Kept(schema, data, complete)) = DOMAIN Kept(schema, data, complete)
  BY FormatShowsAll, PublishedSchema
<1> QED BY <1>1, <1>2, <1>3, FS_CardinalityType

LEMMA KeptByService ==
  ASSUME NEW schema, NEW data \in Payloads
  PROVE  /\ Accepted(schema, data, FALSE) => KeptPartly(schema, Kept(schema, data, FALSE))
         /\ Accepted(schema, data, TRUE) => KeptWhole(schema, Kept(schema, data, TRUE))
BY DEF Accepted, Kept, KeptPartly, KeptWhole

(* What a request hands over.                                               *)
LEMMA Carried ==
  ASSUME IInv, NEW p \in People, req[p].pc \in Filling
  PROVE  /\ req[p].payload \in Payloads
         /\ req[p].brief \in Briefings
         /\ req[p].form \in 1..Len(versions) /\ versions[req[p].form] \in Published
         /\ Len(versions) \in Nat
         /\ req[p].pc = "create" => brief[req[p].brief].status = "absent"
         /\ req[p].pc # "create" => req[p].form = brief[req[p].brief].version
<1> DEFINE q == req[p]
<1>1. q \in Request /\ ReqSound(p)
  BY DEF IInv, TypeInv, RequestsSound
<1>2. Len(versions) \in Nat /\ versions \in Seq(Published)
  BY DEF IInv, TypeInv
<1>3. q.form \in 1..Len(versions) /\ Sent(q) \in Submissions[versions[q.form]]
  BY <1>1, <1>2 DEF ReqSound, Request, Filling
<1>4. versions[q.form] \in Published
  BY <1>2, <1>3
<1>5. q.payload \in Payloads
  BY <1>3, <1>4 DEF Payloads, Sent
<1> QED BY <1>1, <1>2, <1>3, <1>4, <1>5 DEF ReqSound, Filling

(* create_briefing, with the version that is the latest by then.             *)
LEMMA CreateStores ==
  ASSUME IInv, NEW p \in People, Create(p)
  PROVE  Stores(req[p].brief) /\ req[p].brief \in Briefings
<1> DEFINE b == req[p].brief
           v == Len(versions)
           data == req[p].payload
<1>1. /\ data \in Payloads /\ b \in Briefings /\ v \in 1..Len(versions)
      /\ versions[v] \in Published /\ brief[b].status = "absent"
  <2>1. req[p].pc = "create"
    BY DEF Create
  <2>2. v \in 1..Len(versions)
    BY <2>1, Carried DEF Filling
  <2> QED BY <2>1, <2>2, Carried DEF Filling, IInv, TypeInv
<1>2. Writable(b, v)
  BY <1>1 DEF Writable
<1>3. CASE req[p].action = "complete"
  <2>1. Accepted(versions[v], data, TRUE)
    BY <1>3 DEF Create, Fails, Accepted
  <2>2. /\ brief' = [brief EXCEPT ![b] = [status |-> "COMPLETED", version |-> v,
                                           answers |-> Kept(versions[v], data, TRUE)]]
        /\ run' = [run EXCEPT ![b] = CompletedRun(versions[v], Kept(versions[v], data, TRUE))]
        /\ log' = [log EXCEPT ![b] = <<Created, Started>> \o <<Succeeded>>]
    BY <1>3 DEF Create, Kept
  <2>3. CompletedRun(versions[v], Kept(versions[v], data, TRUE))
          = [status |-> "SUCCEEDED", count |-> Cardinality(DOMAIN Kept(versions[v], data, TRUE))]
    BY <1>1, <2>1, KeptAnswers DEF CompletedRun
  <2>4. <<Created, Started>> \o <<Succeeded>> = Append(Opening, Succeeded)
    BY DEF Opening
  <2>5. Finished(b, v, Kept(versions[v], data, TRUE))
    BY <2>2, <2>3, <2>4 DEF Finished, Put
  <2> QED BY <1>1, <1>2, <2>1, <2>5 DEF Stores
<1>4. CASE req[p].action # "complete"
  <2>1. Accepted(versions[v], data, FALSE)
    BY <1>4 DEF Create, Fails, Accepted
  <2>2. /\ brief' = [brief EXCEPT ![b] = [status |-> "DRAFT", version |-> v,
                                           answers |-> Kept(versions[v], data, FALSE)]]
        /\ run' = [run EXCEPT ![b] = [status |-> "RUNNING",
                      count |-> Cardinality(DOMAIN Kept(versions[v], data, FALSE))]]
        /\ log' = [log EXCEPT ![b] = <<Created, Started>> \o <<>>]
    BY <1>4 DEF Create, Kept
  <2>3. <<Created, Started>> \o <<>> = Opening
    BY DEF Opening
  <2>4. Drafted(b, v, Kept(versions[v], data, FALSE))
    BY <2>2, <2>3 DEF Drafted, Put
  <2> QED BY <1>1, <1>2, <2>1, <2>4 DEF Stores
<1> QED BY <1>1, <1>3, <1>4

(* Rewriting a column of a row.                                              *)
LEMMA AnswersColumn ==
  ASSUME NEW rec \in Briefing, NEW a
  PROVE  [rec EXCEPT !.answers = a] = [status |-> rec.status, version |-> rec.version, answers |-> a]
BY DEF Briefing

LEMMA StatusColumn ==
  ASSUME NEW rec \in Briefing, NEW s
  PROVE  [rec EXCEPT !.status = s]
           = [status |-> s, version |-> rec.version, answers |-> rec.answers]
BY DEF Briefing

LEMMA AnswersAndStatusColumns ==
  ASSUME NEW rec \in Briefing, NEW a, NEW s
  PROVE  [rec EXCEPT !.answers = a, !.status = s]
           = [status |-> s, version |-> rec.version, answers |-> a]
<1>1. [rec EXCEPT !.answers = a, !.status = s] = [[rec EXCEPT !.answers = a] EXCEPT !.status = s]
  OBVIOUS
<1>2. [[status |-> rec.status, version |-> rec.version, answers |-> a] EXCEPT !.status = s]
        = [status |-> s, version |-> rec.version, answers |-> a]
  OBVIOUS
<1> QED BY <1>1, <1>2, AnswersColumn

LEMMA RunCountColumn ==
  ASSUME NEW r \in Run, NEW n PROVE [r EXCEPT !.count = n] = [status |-> r.status, count |-> n]
BY DEF Run

LEMMA RunStatusColumn ==
  ASSUME NEW r \in Run, NEW s PROVE [r EXCEPT !.status = s] = [status |-> s, count |-> r.count]
BY DEF Run

(* The rows of a draft.                                                     *)
LEMMA DraftRows ==
  ASSUME IInv, NEW b \in Briefings, brief[b].status = "DRAFT"
  PROVE  /\ brief[b] \in Briefing /\ run[b] \in Run
         /\ run[b].status = "RUNNING" /\ run[b].count = Cardinality(DOMAIN brief[b].answers)
         /\ log[b] = Opening /\ log = [log EXCEPT ![b] = Opening]
         /\ brief[b].version \in 1..Len(versions) /\ versions[brief[b].version] \in Published
<1>1. brief[b] \in Briefing /\ run[b] \in Run /\ log \in [Briefings -> Seq(Events)]
  BY DEF IInv, TypeInv
<1>2. RowSound(brief[b], run[b], log[b]) /\ VersionSound(brief[b])
  BY DEF IInv, RowsSound, VersionsSound
<1>3. run[b].status = "RUNNING" /\ run[b].count = Cardinality(DOMAIN brief[b].answers)
  BY <1>2 DEF RowSound
<1>4. log[b] = Opening /\ log = [log EXCEPT ![b] = Opening]
  BY <1>1, <1>2 DEF RowSound
<1>5. versions \in Seq(Published) /\ brief[b].version \in Nat
  BY <1>1 DEF IInv, TypeInv, Briefing
<1>6. brief[b].version \in 1..Len(versions)
  BY <1>2, <1>5 DEF VersionSound
<1> QED BY <1>1, <1>3, <1>4, <1>5, <1>6

(* save_briefing_draft, with the version of the briefing.                    *)
LEMMA SaveStores ==
  ASSUME IInv, NEW p \in People, Save(p)
  PROVE  Stores(req[p].brief) /\ req[p].brief \in Briefings
<1> DEFINE b == req[p].brief
           v == brief[b].version
           data == req[p].payload
           kept == Kept(versions[v], data, FALSE)
<1>1. data \in Payloads /\ b \in Briefings
  BY Carried DEF Save, Filling
<1>2. brief[b].status = "DRAFT" /\ Accepted(versions[v], data, FALSE)
  BY DEF Save, Fails, Accepted, Schema
<1>3. v \in 1..Len(versions)
  BY <1>1, <1>2, DraftRows
<1>4. /\ brief' = [brief EXCEPT ![b].answers = kept]
      /\ run' = [run EXCEPT ![b].count = Cardinality(DOMAIN kept)]
      /\ log' = log
  BY DEF Save, Kept, Schema
<1>5. /\ [brief[b] EXCEPT !.answers = kept]
           = [status |-> "DRAFT", version |-> v, answers |-> kept]
      /\ [run[b] EXCEPT !.count = Cardinality(DOMAIN kept)]
           = [status |-> "RUNNING", count |-> Cardinality(DOMAIN kept)]
  <2>1. brief[b] \in Briefing /\ run[b] \in Run /\ run[b].status = "RUNNING"
    BY <1>1, <1>2, DraftRows
  <2> HIDE DEF kept, b, v
  <2>2. /\ [brief[b] EXCEPT !.answers = kept]
             = [status |-> brief[b].status, version |-> brief[b].version, answers |-> kept]
        /\ [run[b] EXCEPT !.count = Cardinality(DOMAIN kept)]
             = [status |-> run[b].status, count |-> Cardinality(DOMAIN kept)]
    BY <2>1, AnswersColumn, RunCountColumn
  <2> QED BY <1>2, <2>1, <2>2 DEF v
<1>6. Drafted(b, v, kept)
  <2> HIDE DEF kept
  <2> QED BY <1>1, <1>2, <1>4, <1>5, DraftRows DEF Drafted, Put
<1> QED BY <1>1, <1>2, <1>3, <1>6 DEF Stores, Writable

(* complete_briefing, with the version of the briefing.                      *)
LEMMA CompleteStores ==
  ASSUME IInv, NEW p \in People, Complete(p)
  PROVE  Stores(req[p].brief) /\ req[p].brief \in Briefings
<1> DEFINE b == req[p].brief
           v == brief[b].version
           data == req[p].payload
           kept == Kept(versions[v], data, TRUE)
<1>1. data \in Payloads /\ b \in Briefings
  BY Carried DEF Complete, Filling
<1>2. brief[b].status = "DRAFT" /\ Accepted(versions[v], data, TRUE)
  BY DEF Complete, Fails, Accepted, Schema
<1>3. v \in 1..Len(versions) /\ versions[v] \in Published
  BY <1>1, <1>2, DraftRows
<1>4. /\ brief' = [brief EXCEPT ![b].answers = kept, ![b].status = "COMPLETED"]
      /\ run' = [run EXCEPT ![b] = CompletedRun(versions[v], kept)]
      /\ log' = [log EXCEPT ![b] = Append(log[b], Succeeded)]
  BY DEF Complete, Kept, Schema
<1>5. CompletedRun(versions[v], kept)
        = [status |-> "SUCCEEDED", count |-> Cardinality(DOMAIN kept)]
  BY <1>1, <1>2, <1>3, KeptAnswers DEF CompletedRun
<1>6. [brief[b] EXCEPT !.answers = kept, !.status = "COMPLETED"]
        = [status |-> "COMPLETED", version |-> v, answers |-> kept]
  <2>1. brief[b] \in Briefing /\ run[b] \in Run
    BY <1>1, <1>2, DraftRows
  <2> HIDE DEF kept, b
  <2> QED BY <2>1, AnswersAndStatusColumns
<1>7. brief' = [brief EXCEPT ![b] = [status |-> "COMPLETED", version |-> v, answers |-> kept]]
  <2>1. brief \in [Briefings -> Briefing]
    BY DEF IInv, TypeInv
  <2> HIDE DEF kept
  <2> QED BY <1>1, <1>4, <1>6, <2>1
<1>8. Finished(b, v, kept)
  <2> HIDE DEF kept
  <2> QED BY <1>1, <1>2, <1>4, <1>5, <1>7, DraftRows DEF Finished, Put
<1> QED BY <1>1, <1>2, <1>3, <1>8 DEF Stores, Writable

(* cancel_briefing and discard_empty_briefing.                               *)
LEMMA CloseCloses ==
  ASSUME IInv, NEW b \in Briefings, brief[b].status = "DRAFT", NEW event, Close(b, event)
  PROVE  Ended(b, event)
<1>1. /\ [brief[b] EXCEPT !.status = "CANCELLED"]
           = [status |-> "CANCELLED", version |-> brief[b].version, answers |-> brief[b].answers]
      /\ [run[b] EXCEPT !.status = "CANCELLED"]
           = [status |-> "CANCELLED", count |-> Cardinality(DOMAIN brief[b].answers)]
  <2>1. /\ brief[b] \in Briefing /\ run[b] \in Run
        /\ run[b].count = Cardinality(DOMAIN brief[b].answers)
    BY DraftRows
  <2> QED BY <2>1, StatusColumn, RunStatusColumn
<1>2. /\ brief' = [brief EXCEPT ![b].status = "CANCELLED"]
      /\ run' = [run EXCEPT ![b].status = "CANCELLED"]
      /\ log' = [log EXCEPT ![b] = Append(Opening, event)]
  BY DraftRows DEF Close
<1> QED BY <1>1, <1>2 DEF Ended, Put

LEMMA DiscardCloses ==
  ASSUME IInv, NEW b \in Briefings, DiscardEmpty(b)
  PROVE  Closes(b) \/ UNCHANGED <<brief, run, log>>
<1>1. CASE IsEmpty(b)
  <2>1. brief[b].status = "DRAFT" /\ Close(b, Discarded)
    BY <1>1 DEF DiscardEmpty
  <2>2. AllBlank(brief[b].answers)
    BY <1>1 DEF IsEmpty, AllBlank
  <2> QED BY <2>1, <2>2, CloseCloses DEF Closes
<1>2. CASE ~IsEmpty(b)
  BY <1>2 DEF DiscardEmpty
<1> QED BY <1>1, <1>2

(* Whoever acts, one briefing at most is written, and in one of two ways.    *)
LEMMA WhoWritesBriefings ==
  ASSUME IInv, [Next]_vars
  PROVE  \/ UNCHANGED <<brief, run, log>>
         \/ versions' = versions /\ \E b \in Briefings : Stores(b) \/ Closes(b)
<1> DEFINE Goal == \/ UNCHANGED <<brief, run, log>>
                   \/ versions' = versions /\ \E b \in Briefings : Stores(b) \/ Closes(b)
<1>1. ASSUME NEW p \in People,
             Create(p) \/ Save(p) \/ Complete(p) \/ Cancel(p) \/ Discard(p) \/ Refuse(p)
      PROVE  Goal
  <2>1. CASE Create(p)
    BY <2>1, CreateStores DEF Create
  <2>2. CASE Save(p)
    BY <2>2, SaveStores DEF Save
  <2>3. CASE Complete(p)
    BY <2>3, CompleteStores DEF Complete
  <2>4. CASE Cancel(p)
    <3>1. req[p].brief \in Briefings
      BY <2>4 DEF IInv, RequestsSound, ReqSound, Cancel
    <3> QED BY <2>4, <3>1, CloseCloses DEF Cancel, Closes
  <2>5. CASE Discard(p)
    <3>1. req[p].brief \in Briefings
      BY <2>5 DEF IInv, RequestsSound, ReqSound, Discard
    <3> QED BY <2>5, <3>1, DiscardCloses DEF Discard
  <2>6. CASE Refuse(p)
    BY <2>6 DEF Refuse
  <2> QED BY <1>1, <2>1, <2>2, <2>3, <2>4, <2>5, <2>6
<1>2. ASSUME NEW b \in Briefings, CleanUp(b) PROVE Goal
  BY <1>2, DiscardCloses DEF CleanUp
<1>3. CASE UNCHANGED vars
  BY <1>3 DEF vars
<1> QED BY <1>1, <1>2, <1>3
     DEF Next, Publish, SubmitNew, SubmitAnswers, SubmitCancel, StartCleanup, AbortCleanup

-----------------------------------------------------------------------------
(* Rows stay sound.                                                        *)

(* Versions are only added.                                                  *)
LEMMA VersionsGrow ==
  ASSUME IInv, [Next]_vars
  PROVE  /\ versions' \in Seq(Published) /\ Len(versions') <= MaxVersions
         /\ Len(versions) \in Nat /\ Len(versions') \in Nat /\ Len(versions) <= Len(versions')
         /\ \A i \in 1..Len(versions) : versions'[i] = versions[i]
<1>1. versions \in Seq(Published) /\ Len(versions) <= MaxVersions /\ Len(versions) \in Nat
  BY DEF IInv, TypeInv
<1>2. ASSUME NEW schema \in Candidates, Publish(schema)
      PROVE  /\ versions' \in Seq(Published) /\ Len(versions') = Len(versions) + 1
             /\ Len(versions') <= MaxVersions
             /\ \A i \in 1..Len(versions) : versions'[i] = versions[i]
  <2>1. schema \in Published /\ versions' = Append(versions, schema) /\ Len(versions) < MaxVersions
    BY <1>2 DEF Publish, Published
  <2> QED BY <1>1, <2>1, BoundAssumption
<1>3. ASSUME versions' = versions
      PROVE  /\ versions' \in Seq(Published) /\ Len(versions') <= MaxVersions
             /\ \A i \in 1..Len(versions) : versions'[i] = versions[i]
  BY <1>1, <1>3
<1>4. versions' = versions \/ \E schema \in Candidates : Publish(schema)
  BY DEF Next, vars, SubmitNew, SubmitAnswers, SubmitCancel, Create, Save, Complete, Cancel, Discard,
         Refuse, StartCleanup, CleanUp, AbortCleanup
<1>5. CASE versions' = versions
  BY <1>1, <1>3, <1>5
<1>6. CASE \E schema \in Candidates : Publish(schema)
  BY <1>1, <1>2, <1>6
<1> QED BY <1>4, <1>5, <1>6

LEMMA OpeningTraces ==
  /\ Opening \in Seq(Events)
  /\ Append(Opening, Succeeded) \in Seq(Events)
  /\ Append(Opening, Cancelled) \in Seq(Events)
  /\ Append(Opening, Discarded) \in Seq(Events)
BY DEF Opening, Events

RowTyped(rec, r, trace) == rec \in Briefing /\ r \in Run /\ trace \in Seq(Events)
RowsTyped ==
  /\ brief \in [Briefings -> Briefing]
  /\ run \in [Briefings -> Run]
  /\ log \in [Briefings -> Seq(Events)]

(* One row rewritten soundly leaves all rows sound.                          *)
LEMMA PutSound ==
  ASSUME IInv, NEW b \in Briefings, NEW rec, NEW r, NEW trace, versions' = versions,
         Put(b, rec, r, trace), RowTyped(rec, r, trace), RowSound(rec, r, trace), VersionSound(rec)
  PROVE  RowsTyped' /\ RowsSound' /\ VersionsSound'
<1>1. RowsTyped
  BY DEF IInv, TypeInv, RowsTyped
<1>2. RowsTyped'
  BY <1>1 DEF RowsTyped, RowTyped, Put
<1>3. ASSUME NEW c \in Briefings
      PROVE  \/ brief'[c] = brief[c] /\ run'[c] = run[c] /\ log'[c] = log[c]
             \/ brief'[c] = rec /\ run'[c] = r /\ log'[c] = trace
  BY <1>1 DEF RowsTyped, Put
<1>4. ASSUME NEW c \in Briefings
      PROVE  RowSound(brief'[c], run'[c], log'[c])
  <2>1. RowSound(brief[c], run[c], log[c])
    BY DEF IInv, RowsSound
  <2> QED BY <1>3, <2>1
<1>5. ASSUME NEW c \in Briefings PROVE VersionSound(brief[c])'
  <2>1. VersionSound(brief[c])
    BY DEF IInv, VersionsSound
  <2> QED BY <1>3, <2>1 DEF VersionSound
<1> QED BY <1>2, <1>4, <1>5 DEF RowsSound, VersionsSound

LEMMA StoresSound ==
  ASSUME IInv, NEW b \in Briefings, Stores(b), versions' = versions
  PROVE  RowsTyped' /\ RowsSound' /\ VersionsSound'
<1>1. PICK v \in 1..Len(versions), data \in Payloads :
        \/ /\ Accepted(versions[v], data, FALSE)
           /\ Drafted(b, v, Kept(versions[v], data, FALSE))
        \/ /\ Accepted(versions[v], data, TRUE)
           /\ Finished(b, v, Kept(versions[v], data, TRUE))
  BY DEF Stores
<1>2. v \in Nat \ {0} /\ v <= Len(versions) /\ versions[v] \in Published
  BY DEF IInv, TypeInv
<1>3. ASSUME Accepted(versions[v], data, FALSE), Drafted(b, v, Kept(versions[v], data, FALSE))
      PROVE  RowsTyped' /\ RowsSound' /\ VersionsSound'
  <2> DEFINE kept == Kept(versions[v], data, FALSE)
             rec == [status |-> "DRAFT", version |-> v, answers |-> kept]
             r == [status |-> "RUNNING", count |-> Cardinality(DOMAIN kept)]
  <2>1. kept \in Answers /\ Cardinality(DOMAIN kept) \in Nat /\ KeptPartly(versions[v], kept)
    BY <1>2, <1>3, KeptAnswers, KeptByService
  <2>2. Put(b, rec, r, Opening)
    BY <1>3 DEF Drafted
  <2> HIDE DEF kept
  <2>3. RowTyped(rec, r, Opening) /\ RowSound(rec, r, Opening)
    BY <1>2, <2>1, OpeningTraces DEF RowTyped, RowSound, Briefing, Run
  <2>4. VersionSound(rec)
    BY <1>2, <2>1 DEF VersionSound
  <2> QED BY <2>2, <2>3, <2>4, PutSound
<1>4. ASSUME Accepted(versions[v], data, TRUE), Finished(b, v, Kept(versions[v], data, TRUE))
      PROVE  RowsTyped' /\ RowsSound' /\ VersionsSound'
  <2> DEFINE kept == Kept(versions[v], data, TRUE)
             rec == [status |-> "COMPLETED", version |-> v, answers |-> kept]
             r == [status |-> "SUCCEEDED", count |-> Cardinality(DOMAIN kept)]
             trace == Append(Opening, Succeeded)
  <2>1. kept \in Answers /\ Cardinality(DOMAIN kept) \in Nat /\ KeptWhole(versions[v], kept)
    BY <1>2, <1>4, KeptAnswers, KeptByService
  <2>2. Put(b, rec, r, trace)
    BY <1>4 DEF Finished
  <2> HIDE DEF kept
  <2>3. RowTyped(rec, r, trace) /\ RowSound(rec, r, trace)
    BY <1>2, <2>1, OpeningTraces DEF RowTyped, RowSound, Briefing, Run
  <2>4. VersionSound(rec)
    BY <1>2, <2>1 DEF VersionSound
  <2> QED BY <2>2, <2>3, <2>4, PutSound
<1> QED BY <1>1, <1>3, <1>4

LEMMA ClosesSound ==
  ASSUME IInv, NEW b \in Briefings, Closes(b), versions' = versions
  PROVE  RowsTyped' /\ RowsSound' /\ VersionsSound'
<1> DEFINE v == brief[b].version
           kept == brief[b].answers
           rec == [status |-> "CANCELLED", version |-> v, answers |-> kept]
           r == [status |-> "CANCELLED", count |-> Cardinality(DOMAIN kept)]
<1>1. PICK event \in {Cancelled, Discarded} :
        Ended(b, event) /\ (event = Discarded => AllBlank(kept))
  <2>1. Cancelled # Discarded
    BY DEF Cancelled, Discarded
  <2> QED BY <2>1 DEF Closes
<1>2. /\ brief[b].status = "DRAFT" /\ brief[b] \in Briefing /\ run[b] \in Run
      /\ run[b].count = Cardinality(DOMAIN kept)
  BY DraftRows DEF Closes
<1>3. VersionSound(brief[b])
  BY DEF IInv, VersionsSound
<1>4. v \in Nat /\ kept \in Answers /\ Cardinality(DOMAIN kept) \in Nat
  BY <1>2 DEF Briefing, Run
<1>5. v > 0 /\ v <= Len(versions) /\ KeptPartly(versions[v], kept)
  BY <1>2, <1>3 DEF VersionSound
<1>6. Put(b, rec, r, Append(Opening, event))
  BY <1>1 DEF Ended
<1> HIDE DEF kept, v
<1>7. RowTyped(rec, r, Append(Opening, event)) /\ RowSound(rec, r, Append(Opening, event))
  BY <1>1, <1>4, OpeningTraces DEF RowTyped, RowSound, Briefing, Run
<1>8. VersionSound(rec)
  BY <1>5 DEF VersionSound
<1> QED BY <1>6, <1>7, <1>8, PutSound

LEMMA RowsStaySound ==
  ASSUME IInv, [Next]_vars PROVE RowsTyped' /\ RowsSound' /\ VersionsSound'
<1>1. ASSUME UNCHANGED <<brief, run, log>> PROVE RowsTyped' /\ RowsSound' /\ VersionsSound'
  <2>1. RowsTyped /\ RowsSound /\ VersionsSound
    BY DEF IInv, TypeInv, RowsTyped
  <2>2. RowsTyped' /\ RowsSound'
    BY <1>1, <2>1 DEF RowsTyped, RowsSound
  <2>3. ASSUME NEW b \in Briefings PROVE VersionSound(brief[b])'
    <3>1. VersionSound(brief[b]) /\ brief[b].version \in Nat
      BY <2>1 DEF VersionsSound, RowsTyped, Briefing
    <3> QED BY <1>1, <3>1, VersionsGrow DEF VersionSound
  <2> QED BY <2>2, <2>3 DEF VersionsSound
<1> QED BY <1>1, StoresSound, ClosesSound, WhoWritesBriefings

-----------------------------------------------------------------------------
(* Requests stay sound.                                                    *)

(* Only a creation makes a briefing appear, and what exists keeps its        *)
(* version.                                                                  *)
LEMMA BriefingsStay ==
  ASSUME IInv, [Next]_vars, NEW b \in Briefings, brief[b].status # "absent"
  PROVE  brief'[b].status # "absent" /\ brief'[b].version = brief[b].version
<1>1. brief \in [Briefings -> Briefing]
  BY DEF IInv, TypeInv
<1>2. ASSUME NEW c \in Briefings, Stores(c)
      PROVE  brief'[b].status # "absent" /\ brief'[b].version = brief[b].version
  <2>1. PICK v \in 1..Len(versions) :
          Writable(c, v) /\ \E answers : Drafted(c, v, answers) \/ Finished(c, v, answers)
    BY <1>2 DEF Stores
  <2>2. PICK answers : Drafted(c, v, answers) \/ Finished(c, v, answers)
    BY <2>1
  <2> QED BY <1>1, <2>1, <2>2 DEF Writable, Drafted, Finished, Put
<1>3. ASSUME NEW c \in Briefings, Closes(c)
      PROVE  brief'[b].status # "absent" /\ brief'[b].version = brief[b].version
  BY <1>1, <1>3 DEF Closes, Ended, Put
<1> QED BY <1>2, <1>3, WhoWritesBriefings

LEMMA AbsentStays ==
  ASSUME IInv, [Next]_vars, NEW b \in Briefings, brief[b].status = "absent"
  PROVE  brief'[b].status = "absent" \/ \E p \in People : Create(p) /\ req[p].brief = b
<1>1. brief \in [Briefings -> Briefing]
  BY DEF IInv, TypeInv
<1>2. ASSUME NEW c \in Briefings, c # b, Stores(c) \/ Closes(c) PROVE brief'[b] = brief[b]
  <2>1. PICK rec, r, trace : Put(c, rec, r, trace)
    BY <1>2 DEF Stores, Closes, Drafted, Finished, Ended
  <2> QED BY <1>1, <1>2, <2>1 DEF Put
<1>3. ASSUME NEW c \in Briefings, DiscardEmpty(c) PROVE brief'[b] = brief[b]
  <2>1. c # b
    BY <1>3 DEF DiscardEmpty
  <2> QED BY <1>2, <1>3, <2>1, DiscardCloses
<1>4. ASSUME NEW p \in People, Create(p) \/ Save(p) \/ Complete(p)
      PROVE  brief'[b] = brief[b] \/ (Create(p) /\ req[p].brief = b)
  <2>1. req[p].brief \in Briefings /\ Stores(req[p].brief)
    BY <1>4, CreateStores, SaveStores, CompleteStores
  <2>2. Save(p) \/ Complete(p) => req[p].brief # b
    BY DEF Save, Complete
  <2> QED BY <1>2, <1>4, <2>1, <2>2
<1>5. ASSUME NEW p \in People, Cancel(p) \/ Discard(p) PROVE brief'[b] = brief[b]
  <2>1. req[p].brief \in Briefings
    BY <1>5 DEF IInv, RequestsSound, ReqSound, Cancel, Discard
  <2>2. CASE Cancel(p)
    <3>1. Closes(req[p].brief) /\ req[p].brief # b
      BY <2>1, <2>2, CloseCloses DEF Cancel, Closes
    <3> QED BY <1>2, <2>1, <3>1
  <2>3. CASE Discard(p)
    BY <1>3, <2>1, <2>3 DEF Discard
  <2> QED BY <1>5, <2>2, <2>3
<1>6. ASSUME NEW c \in Briefings, CleanUp(c) PROVE brief'[b] = brief[b]
  BY <1>3, <1>6 DEF CleanUp
<1>7. CASE brief' = brief
  BY <1>7
<1> QED BY <1>4, <1>5, <1>6, <1>7
     DEF Next, vars, Publish, SubmitNew, SubmitAnswers, SubmitCancel, Refuse, StartCleanup, AbortCleanup

(* A request that a step does not touch stays sound.                         *)
LEMMA WaitingRequest ==
  ASSUME IInv, [Next]_vars, NEW p \in People, req'[p] = req[p],
         req[p].pc = "create" =>
           \A other \in People \ {p} : req'[other].brief # req[p].brief
  PROVE  ReqSound(p)'
<1> DEFINE q == req[p]
<1>1. ReqSound(p) /\ q \in Request
  BY DEF IInv, TypeInv, RequestsSound
<1>2. q.form \in Nat /\ Len(versions) <= Len(versions') /\ Len(versions) \in Nat /\ Len(versions') \in Nat
  BY <1>1, VersionsGrow DEF Request
<1>3. q.form <= Len(versions')
  BY <1>1, <1>2 DEF ReqSound
<1>4. q.pc = "create" => brief'[q.brief].status = "absent"
  <2> SUFFICES ASSUME q.pc = "create" PROVE brief'[q.brief].status = "absent"
    OBVIOUS
  <2>1. q.brief \in Briefings /\ brief[q.brief].status = "absent"
    BY <1>1 DEF ReqSound
  <2>2. ASSUME NEW other \in People, Create(other), req[other].brief = q.brief PROVE FALSE
    <3>1. CASE other = p
      BY <2>2, <3>1 DEF Create, Respond, IInv, TypeInv, NoRequest
    <3>2. CASE other # p
      BY <1>1, <2>2, <3>2 DEF ReqSound
    <3> QED BY <3>1, <3>2
  <2> QED BY <2>1, <2>2, AbsentStays
<1>5. q.pc \notin {"none", "create"} =>
        brief'[q.brief].status # "absent" /\ brief'[q.brief].version = brief[q.brief].version
  BY <1>1, BriefingsStay DEF ReqSound
<1>6. q.pc \in Filling => Sent(q) \in Submissions[versions'[q.form]]
  <2> SUFFICES ASSUME q.pc \in Filling PROVE Sent(q) \in Submissions[versions'[q.form]]
    OBVIOUS
  <2>1. q.form \in 1..Len(versions)
    BY <1>1, <1>2 DEF ReqSound
  <2> QED BY <1>1, <2>1, VersionsGrow DEF ReqSound
<1> QED BY <1>1, <1>3, <1>4, <1>5, <1>6 DEF ReqSound, Filling

LEMMA SubmissionIs ==
  ASSUME NEW schema \in Published, NEW sent \in Submissions[schema]
  PROVE  /\ sent \in UNION {Submissions[other] : other \in Published}
         /\ sent = [payload |-> sent.payload, rewritten |-> sent.rewritten]
<1>1. sent \in FilledForms(schema)
  BY DEF Submissions
<1> QED BY <1>1 DEF FilledForms

(* What a request becomes.                                                  *)
LEMMA SubmitNewSound ==
  ASSUME IInv, [Next]_vars, NEW p \in People, NEW b \in Briefings, versions # <<>>,
         NEW action \in {"save", "complete"}, NEW sent \in Submissions[Last(versions)],
         SubmitNew(p, b, action, sent)
  PROVE  req' \in [People -> Request] /\ RequestsSound'
<1>1. /\ req \in [People -> Request] /\ versions \in Seq(Published)
      /\ Len(versions) \in Nat \ {0} /\ Last(versions) = versions[Len(versions)]
      /\ versions[Len(versions)] \in Published
  BY DEF IInv, TypeInv, Last
<1> DEFINE new == [pc |-> "create", brief |-> b, form |-> Len(versions), action |-> action,
                   payload |-> sent.payload, rewritten |-> sent.rewritten]
<1>2. req' = [req EXCEPT ![p] = new] /\ versions' = versions /\ brief' = brief
  BY DEF SubmitNew
<1>3. sent.payload \in Payloads /\ sent.rewritten \in Rewritings /\ Sent(new) = sent
  BY <1>1, SubmissionIs DEF Payloads, Rewritings, Sent
<1>4. new \in Request
  BY <1>1, <1>3 DEF Request
<1>5. brief[b].status = "absent" /\ \A q \in People : req[q].brief # b
  BY DEF SubmitNew
<1>6. b # "none"
  <2>1. req[p].brief = "none"
    BY DEF SubmitNew, IInv, RequestsSound, ReqSound
  <2> QED BY <1>5, <2>1
<1>7. req'[p] = new /\ req'[p].brief = b
  BY <1>1, <1>2
<1>8. ASSUME NEW q \in People, q # p PROVE req'[q] = req[q]
  BY <1>1, <1>2, <1>8
<1>9. ReqSound(p)'
  <2>1. \A other \in People \ {p} : req'[other].brief # b
    BY <1>5, <1>8
  <2>2. Sent(req'[p]) \in Submissions[versions'[Len(versions)]]
    BY <1>1, <1>2, <1>3, <1>7
  <2> QED BY <1>1, <1>2, <1>5, <1>6, <1>7, <2>1, <2>2 DEF ReqSound, Filling, Sent
<1>10. ASSUME NEW q \in People, q # p PROVE ReqSound(q)'
  <2>1. \A other \in People \ {q} : req'[other].brief # req[q].brief \/ req[q].pc # "create"
    <3>1. req[q].brief # b
      BY <1>5
    <3>2. req[q].pc = "create" => \A other \in People \ {q} : req[other].brief # req[q].brief
      BY DEF IInv, RequestsSound, ReqSound
    <3> QED BY <1>7, <1>8, <3>1, <3>2
  <2> QED BY <1>8, <1>10, <2>1, WaitingRequest
<1> HIDE DEF new
<1> QED BY <1>1, <1>2, <1>4, <1>9, <1>10 DEF RequestsSound

(* A request on a draft.                                                    *)
LEMMA SubmitOnDraft ==
  ASSUME IInv, [Next]_vars, NEW p \in People, NEW b \in Briefings, brief[b].status = "DRAFT",
         brief' = brief, versions' = versions,
         NEW new \in Request, req' = [req EXCEPT ![p] = new],
         new.pc \notin {"none", "create"}, new.brief = b, new.form <= Len(versions),
         new.pc \in Filling => /\ new.form = brief[b].version
                               /\ Sent(new) \in Submissions[versions[new.form]],
         new.pc \notin Filling => new.form = 0
  PROVE  req' \in [People -> Request] /\ RequestsSound'
<1>1. req \in [People -> Request]
  BY DEF IInv, TypeInv
<1>2. req'[p] = new
  BY <1>1
<1>3. ASSUME NEW q \in People, q # p PROVE req'[q] = req[q]
  BY <1>1, <1>3
<1>4. brief[b].version > 0
  BY DEF IInv, VersionsSound, VersionSound
<1>5. ReqSound(p)'
  BY <1>2, <1>4 DEF ReqSound, Filling
<1>6. ASSUME NEW q \in People, q # p PROVE ReqSound(q)'
  <2>1. ReqSound(q)
    BY DEF IInv, RequestsSound
  <2>2. req[q].pc = "create" => \A other \in People \ {q} : req'[other].brief # req[q].brief
    BY <1>2, <1>3, <2>1 DEF ReqSound
  <2> QED BY <1>3, <1>6, <2>2, WaitingRequest
<1> QED BY <1>1, <1>5, <1>6 DEF RequestsSound

LEMMA SubmitAnswersSound ==
  ASSUME IInv, [Next]_vars, NEW p \in People, NEW b \in Briefings, brief[b].status = "DRAFT",
         NEW action \in {"save", "complete"}, NEW sent \in Submissions[Schema(b)],
         SubmitAnswers(p, b, action, sent)
  PROVE  req' \in [People -> Request] /\ RequestsSound'
<1> DEFINE new == [pc |-> action, brief |-> b, form |-> brief[b].version, action |-> action,
                   payload |-> sent.payload, rewritten |-> sent.rewritten]
<1>1. /\ brief[b].version \in 1..Len(versions) /\ versions[brief[b].version] \in Published
      /\ brief[b] \in Briefing
  BY DraftRows
<1>2. /\ sent \in Submissions[versions[brief[b].version]]
      /\ sent.payload \in Payloads /\ sent.rewritten \in Rewritings /\ Sent(new) = sent
  BY <1>1, SubmissionIs DEF Schema, Payloads, Rewritings, Sent
<1>3. Len(versions) \in Nat /\ brief[b].version \in Nat /\ brief[b].version <= Len(versions)
  BY <1>1 DEF IInv, TypeInv, Briefing
<1>4. new \in Request
  BY <1>2, <1>3 DEF Request
<1>5. brief' = brief /\ versions' = versions /\ req' = [req EXCEPT ![p] = new]
  BY DEF SubmitAnswers
<1>6. new.pc = action /\ new.brief = b /\ new.form = brief[b].version
  OBVIOUS
<1> HIDE DEF new
<1> QED BY <1>2, <1>3, <1>4, <1>5, <1>6, SubmitOnDraft DEF Filling

LEMMA SubmitCancelSound ==
  ASSUME IInv, [Next]_vars, NEW p \in People, NEW b \in Briefings, SubmitCancel(p, b)
  PROVE  req' \in [People -> Request] /\ RequestsSound'
<1>1. PICK pc \in {"discard", "cancel"} :
        req' = [req EXCEPT ![p] = [NoRequest EXCEPT !.pc = pc, !.brief = b]]
  BY DEF SubmitCancel
<1> DEFINE new == [pc |-> pc, brief |-> b, form |-> 0, action |-> "none", payload |-> NoAnswers,
                   rewritten |-> {}]
<1>2. [NoRequest EXCEPT !.pc = pc, !.brief = b] = new
  <2>1. [NoRequest EXCEPT !.pc = pc, !.brief = b] = [[NoRequest EXCEPT !.pc = pc] EXCEPT !.brief = b]
    OBVIOUS
  <2>2. [NoRequest EXCEPT !.pc = pc]
          = [pc |-> pc, brief |-> "none", form |-> 0, action |-> "none", payload |-> NoAnswers,
             rewritten |-> {}]
    BY DEF NoRequest
  <2>3. [[pc |-> pc, brief |-> "none", form |-> 0, action |-> "none", payload |-> NoAnswers,
           rewritten |-> {}]
           EXCEPT !.brief = b] = new
    OBVIOUS
  <2> QED BY <2>1, <2>2, <2>3
<1>3. new \in Request /\ new.pc = pc /\ new.brief = b /\ new.form = 0
  BY DEF Request, Rewritings
<1>4. req' = [req EXCEPT ![p] = new]
  BY <1>1, <1>2
<1>5. brief[b].status = "DRAFT" /\ brief' = brief /\ versions' = versions
  BY DEF SubmitCancel
<1>6. 0 <= Len(versions)
  BY DEF IInv, TypeInv
<1> HIDE DEF new
<1> QED BY <1>3, <1>4, <1>5, <1>6, SubmitOnDraft DEF Filling

LEMMA RespondSound ==
  ASSUME IInv, [Next]_vars, NEW p \in People, Respond(p)
  PROVE  req' \in [People -> Request] /\ RequestsSound'
<1>1. req \in [People -> Request]
  BY DEF IInv, TypeInv
<1>2. NoRequest \in Request /\ NoRequest.pc = "none" /\ NoRequest.brief = "none" /\ NoRequest.form = 0
  BY DEF NoRequest, Request, Rewritings
<1>3. req'[p] = NoRequest
  BY <1>1 DEF Respond
<1>4. ASSUME NEW q \in People, q # p PROVE req'[q] = req[q]
  BY <1>1, <1>4 DEF Respond
<1>5. ReqSound(p)'
  <2>1. 0 <= Len(versions')
    BY VersionsGrow
  <2> QED BY <1>2, <1>3, <2>1 DEF ReqSound, Filling
<1>6. ASSUME NEW q \in People, q # p PROVE ReqSound(q)'
  <2>1. ReqSound(q)
    BY DEF IInv, RequestsSound
  <2>2. req[q].pc = "create" => \A other \in People \ {q} : req'[other].brief # req[q].brief
    BY <1>2, <1>3, <1>4, <2>1 DEF ReqSound
  <2> QED BY <1>4, <1>6, <2>2, WaitingRequest
<1> QED BY <1>1, <1>2, <1>5, <1>6 DEF RequestsSound, Respond

LEMMA RequestsStaySound ==
  ASSUME IInv, [Next]_vars PROVE req' \in [People -> Request] /\ RequestsSound'
<1>1. CASE req' = req
  <2>1. ASSUME NEW p \in People PROVE ReqSound(p)'
    <3>1. ReqSound(p)
      BY DEF IInv, RequestsSound
    <3> QED BY <1>1, <3>1, WaitingRequest DEF ReqSound
  <2> QED BY <1>1, <2>1 DEF RequestsSound, IInv, TypeInv
<1>2. ASSUME NEW p \in People,
             Create(p) \/ Save(p) \/ Complete(p) \/ Cancel(p) \/ Discard(p) \/ Refuse(p)
      PROVE  req' \in [People -> Request] /\ RequestsSound'
  BY <1>2, RespondSound DEF Create, Save, Complete, Cancel, Discard, Refuse
<1>3. ASSUME \/ UNCHANGED vars \/ StartCleanup \/ \E schema \in Candidates : Publish(schema)
             \/ \E b \in Briefings : CleanUp(b) \/ AbortCleanup(b)
      PROVE  req' = req
  BY <1>3 DEF vars, StartCleanup, Publish, CleanUp, AbortCleanup
<1> QED BY <1>1, <1>2, <1>3, SubmitNewSound, SubmitAnswersSound, SubmitCancelSound DEF Next

LEMMA StaysSound == IInv /\ [Next]_vars => IInv'
<1> SUFFICES ASSUME IInv, [Next]_vars PROVE IInv'
  OBVIOUS
<1>1. cleaning' \subseteq Briefings
  <2>1. cleaning \subseteq Briefings
    BY DEF IInv, TypeInv
  <2> QED BY <2>1 DEF Next, vars, Publish, SubmitNew, SubmitAnswers, SubmitCancel, Create, Save,
        Complete, Cancel, Discard, Refuse, StartCleanup, CleanUp, AbortCleanup
<1>2. TypeInv'
  BY <1>1, VersionsGrow, RowsStaySound, RequestsStaySound DEF TypeInv, RowsTyped
<1> QED BY <1>2, RowsStaySound, RequestsStaySound DEF IInv

-----------------------------------------------------------------------------
(* The theorems.                                                           *)

LEMMA AlwaysSound == Spec => []IInv
BY BeginsSound, StaysSound, PTL DEF Spec

(* Every briefing, run, trace and request stays in its type, and no version  *)
(* is used before it is published.                                           *)
THEOREM TypeCorrect == Spec => []TypeOK
<1>1. IInv => TypeOK
  <2> SUFFICES ASSUME IInv PROVE TypeOK
    OBVIOUS
  <2>1. TypeInv /\ Len(versions) \in Nat
    BY DEF IInv, TypeInv
  <2>2. ASSUME NEW b \in Briefings
        PROVE  /\ brief[b].status \in {"absent", "DRAFT", "COMPLETED", "CANCELLED"}
               /\ brief[b].version \in 0..Len(versions)
               /\ run[b].status \in {"absent", "RUNNING", "SUCCEEDED", "CANCELLED"}
               /\ run[b].count \in Nat
               /\ \A i \in DOMAIN log[b] : log[b][i] \in Events
    <3>1. brief[b] \in Briefing /\ run[b] \in Run /\ log[b] \in Seq(Events)
      BY <2>1 DEF TypeInv
    <3>2. brief[b].version <= Len(versions)
      BY DEF IInv, VersionsSound, VersionSound
    <3> QED BY <2>1, <3>1, <3>2 DEF Briefing, Run
  <2>3. ASSUME NEW p \in People
        PROVE  /\ req[p].pc \in {"none", "create", "save", "complete", "cancel", "discard"}
               /\ req[p].brief \in Briefings \cup {"none"} /\ req[p].form \in 0..Len(versions)
    <3>1. req[p] \in Request /\ req[p].form <= Len(versions)
      BY <2>1 DEF TypeInv, IInv, RequestsSound, ReqSound
    <3> QED BY <2>1, <3>1 DEF Request
  <2> QED BY <2>1, <2>2, <2>3 DEF TypeOK, TypeInv
<1> QED BY <1>1, AlwaysSound, PTL

(* The run, its trace and the briefing tell one story, whoever raced with    *)
(* whom: the services write the three in one transaction, and what a request *)
(* read before it is read again under the lock.                              *)
THEOREM RunAlwaysMirrors == Spec => []RunMirrorsBriefing
<1>1. IInv => RunMirrorsBriefing
  <2> SUFFICES ASSUME IInv, NEW b \in Briefings
               PROVE  /\ run[b].status = StatusOfRun[brief[b].status]
                      /\ run[b].count = Cardinality(DOMAIN brief[b].answers)
                      /\ (log[b] = <<>>) <=> (brief[b].status = "absent")
                      /\ log[b] # <<>> => log[b][Len(log[b])].content = run[b].status
    BY Zenon DEF RunMirrorsBriefing
  <2>1. RowSound(brief[b], run[b], log[b]) /\ brief[b] \in Briefing
    BY DEF IInv, RowsSound, TypeInv
  <2>2. CASE brief[b].status = "absent"
    BY <2>1, <2>2 DEF RowSound, StatusOfRun
  <2>3. CASE brief[b].status = "DRAFT"
    <3>1. log[b] = <<Created, Started>>
      BY <2>1, <2>3 DEF RowSound, Opening
    <3> QED BY <2>1, <2>3, <3>1 DEF RowSound, StatusOfRun, Started
  <2>4. CASE brief[b].status = "COMPLETED"
    <3>1. log[b] = <<Created, Started, Succeeded>>
      BY <2>1, <2>4 DEF RowSound, Opening
    <3> QED BY <2>1, <2>4, <3>1 DEF RowSound, StatusOfRun, Succeeded
  <2>5. CASE brief[b].status = "CANCELLED"
    <3>1. log[b] = <<Created, Started, Cancelled>> \/ log[b] = <<Created, Started, Discarded>>
      BY <2>1, <2>5 DEF RowSound, Opening
    <3> QED BY <2>1, <2>5, <3>1 DEF RowSound, StatusOfRun, Cancelled, Discarded
  <2> QED BY <2>1, <2>2, <2>3, <2>4, <2>5 DEF Briefing
<1> QED BY <1>1, AlwaysSound, PTL

(* A draft that somebody has filled is never discarded as an empty one:      *)
(* discard_empty_briefing reads the answers again under the lock.            *)
THEOREM OnlyEmptyAreDiscarded == Spec => []OnlyEmptyDiscarded
<1>1. IInv => OnlyEmptyDiscarded
  <2> SUFFICES ASSUME IInv, NEW b \in Briefings, Contains(log[b], Discarded) PROVE IsEmpty(b)
    BY DEF OnlyEmptyDiscarded
  <2>1. RowSound(brief[b], run[b], log[b]) /\ brief[b] \in Briefing
    BY DEF IInv, RowsSound, TypeInv
  <2>2. Discarded \notin {Created, Started, Succeeded, Cancelled}
    BY DEF Discarded, Created, Started, Succeeded, Cancelled
  <2>3. PICK i \in 1..Len(log[b]) : log[b][i] = Discarded
    BY DEF Contains
  <2>4. CASE brief[b].status = "absent"
    BY <2>1, <2>3, <2>4 DEF RowSound
  <2>5. CASE brief[b].status = "DRAFT"
    BY <2>1, <2>2, <2>3, <2>5 DEF RowSound, Opening
  <2>6. CASE brief[b].status = "COMPLETED"
    <3>1. log[b] = <<Created, Started, Succeeded>>
      BY <2>1, <2>6 DEF RowSound, Opening
    <3> QED BY <2>2, <2>3, <3>1
  <2>7. CASE brief[b].status = "CANCELLED"
    <3>1. log[b] = <<Created, Started, Cancelled>> \/ AllBlank(brief[b].answers)
      BY <2>1, <2>7 DEF RowSound, Opening
    <3>2. AllBlank(brief[b].answers)
      BY <2>2, <2>3, <3>1
    <3> QED BY <3>2 DEF AllBlank, IsEmpty
  <2> QED BY <2>1, <2>4, <2>5, <2>6, <2>7 DEF Briefing
<1> QED BY <1>1, AlwaysSound, PTL

(* What is over stays as it is: every service asks for a draft under the     *)
(* lock, so that a late request or cleanup writes nothing.                   *)
THEOREM TerminalStays == Spec => TerminalIsFinal
<1>1. IInv /\ [Next]_vars =>
        [\A b \in Briefings : brief[b].status \in {"COMPLETED", "CANCELLED"} =>
           UNCHANGED <<brief[b], run[b], log[b]>>]_vars
  <2> SUFFICES ASSUME IInv, [Next]_vars, NEW b \in Briefings,
                      brief[b].status \in {"COMPLETED", "CANCELLED"}
               PROVE  UNCHANGED <<brief[b], run[b], log[b]>>
    OBVIOUS
  <2>1. ASSUME NEW c \in Briefings, Stores(c) \/ Closes(c)
        PROVE  UNCHANGED <<brief[b], run[b], log[b]>>
    <3>1. c # b
      BY <2>1 DEF Stores, Writable, Closes
    <3>2. PICK rec, r, trace : Put(c, rec, r, trace)
      BY <2>1 DEF Stores, Closes, Drafted, Finished, Ended
    <3> QED BY <3>1, <3>2 DEF Put, IInv, TypeInv
  <2> QED BY <2>1, WhoWritesBriefings
<1> QED BY <1>1, AlwaysSound, PTL DEF Spec, TerminalIsFinal

(* What is stored under a version is what sanitize_answers keeps of some     *)
(* form's answers under that version, without an error and as a whole if the *)
(* briefing is completed, although the latest version may have changed       *)
(* between the form and the transaction.                                     *)
THEOREM AnswersAreSanitized == Spec => []VersionsSound
<1>1. IInv => VersionsSound
  BY DEF IInv
<1> QED BY <1>1, AlwaysSound, PTL

(* What is stored was kept by sanitize_answers.                              *)
LEMMA StoredOf ==
  ASSUME IInv, NEW b \in Briefings, brief[b].status # "absent"
  PROVE  /\ Schema(b) \in Published
         /\ \E data \in Payloads :
              /\ Accepted(Schema(b), data, brief[b].status = "COMPLETED")
              /\ brief[b].answers = Kept(Schema(b), data, brief[b].status = "COMPLETED")
<1>1. VersionSound(brief[b]) /\ brief[b] \in Briefing /\ versions \in Seq(Published)
  BY DEF IInv, VersionsSound, TypeInv
<1>2. Schema(b) \in Published
  BY <1>1 DEF VersionSound, Briefing, Schema
<1>3. CASE brief[b].status = "COMPLETED"
  <2>1. KeptWhole(Schema(b), brief[b].answers) /\ (brief[b].status = "COMPLETED") = TRUE
    BY <1>1, <1>3 DEF VersionSound, Schema
  <2> QED BY <1>2, <2>1 DEF KeptWhole, Accepted, Kept
<1>4. CASE brief[b].status # "COMPLETED"
  <2>1. KeptPartly(Schema(b), brief[b].answers) /\ (brief[b].status = "COMPLETED") = FALSE
    BY <1>1, <1>4 DEF VersionSound, Schema, Briefing
  <2> QED BY <1>2, <2>1 DEF KeptPartly, Accepted, Kept
<1> QED BY <1>3, <1>4

(* What is stored does not depend on the order in which it was found: every  *)
(* stored answer belongs to a visible question and fits it, a completed      *)
(* briefing lacks no required answer, and sanitize_answers would keep what   *)
(* is stored as it is (VersionsSound, and what the rules do with it).        *)
THEOREM StoredStaysVisible == Spec => []StoredIsVisible
<1>1. IInv => StoredIsVisible
  <2> SUFFICES ASSUME IInv PROVE StoredIsVisible
    OBVIOUS
  <2>1. ASSUME NEW b \in Briefings, brief[b].status # "absent"
        PROVE  /\ \A id \in DOMAIN brief[b].answers :
                    /\ VisibleIn(Schema(b), id, brief[b].answers)
                    /\ brief[b].answers[id] \in Question(Schema(b), id).allowed
               /\ brief[b].status = "COMPLETED" => \A id \in Ids(Schema(b)) :
                    Question(Schema(b), id).required /\ VisibleIn(Schema(b), id, brief[b].answers)
                      => id \in DOMAIN brief[b].answers
               /\ SanitizeAnswers(Schema(b), brief[b].answers, brief[b].status = "COMPLETED")
                    = [answers |-> brief[b].answers, errors |-> {}]
    <3> DEFINE schema == Schema(b)
               answers == brief[b].answers
               complete == brief[b].status = "COMPLETED"
    <3>1. PICK data \in Payloads :
            Accepted(schema, data, complete) /\ answers = Kept(schema, data, complete)
      BY <2>1, StoredOf
    <3>2. IsTemplate(schema) /\ ValidTemplateSchema(schema)
      BY <2>1, StoredOf, PublishedSchema
    <3> HIDE DEF schema, answers, complete
    <3>3. SanitizeAnswers(schema, answers, complete) = [answers |-> answers, errors |-> {}]
      BY <3>1, <3>2, SanitizedIsStable
    <3>4. ASSUME NEW n \in Asked(schema)
          PROVE  /\ Question(schema, schema[n].id) = schema[n]
                 /\ schema[n].id \in DOMAIN answers
                      => VisibleIn(schema, schema[n].id, answers) /\ answers[schema[n].id] \in schema[n].allowed
                 /\ complete /\ schema[n].required /\ VisibleIn(schema, schema[n].id, answers)
                      => schema[n].id \in DOMAIN answers
      <4>1. Question(schema, schema[n].id) = schema[n]
            /\ \A m \in Asked(schema) : schema[m].id = schema[n].id => m = n
        BY <3>2, QuestionOf DEF ValidTemplateSchema
      <4>2. VisibleIn(schema, schema[n].id, answers)
              <=> /\ Evaluate(schema[schema[n].section].when, answers)
                  /\ Evaluate(schema[n].when, answers)
        BY <4>1 DEF VisibleIn
      <4>3. /\ schema[n].id \in DOMAIN answers
                 => /\ Evaluate(schema[schema[n].section].when, answers)
                    /\ Evaluate(schema[n].when, answers)
                    /\ answers[schema[n].id] \in schema[n].allowed
            /\ complete /\ schema[n].required
               /\ Evaluate(schema[schema[n].section].when, answers)
               /\ Evaluate(schema[n].when, answers)
                 => schema[n].id \in DOMAIN answers
        BY <3>1, <3>2, KeptIsVisible
      <4> QED BY <4>1, <4>2, <4>3
    <3>5. \A id \in Ids(schema) : \E n \in Asked(schema) : id = schema[n].id
      BY DEF Ids, IdsOf
    <3>6. \A id \in DOMAIN answers : id \in Ids(schema)
      BY <3>1, KeptValue
    <3>7. /\ \A id \in DOMAIN answers :
               VisibleIn(schema, id, answers) /\ answers[id] \in Question(schema, id).allowed
          /\ complete => \A id \in Ids(schema) :
               Question(schema, id).required /\ VisibleIn(schema, id, answers)
                 => id \in DOMAIN answers
      BY <3>4, <3>5, <3>6
    <3> QED BY <3>3, <3>7 DEF schema, answers, complete
  <2> QED BY Zenon, <2>1 DEF StoredIsVisible
<1> QED BY <1>1, AlwaysSound, PTL

(* What the form of a version let through is accepted by the service under   *)
(* that version, and no answer of a visible question is lost on the way.     *)
THEOREM FormAndServerAgree == Spec => []FormAgreesWithServer
<1>1. IInv => FormAgreesWithServer
  <2> SUFFICES ASSUME IInv, NEW p \in People, req[p].form # 0,
                      ComparedAlike(versions[req[p].form], req[p])
               PROVE  SanitizeAnswers(versions[req[p].form], req[p].payload, FALSE)
                        = [answers |-> Restrict(req[p].payload, Given(req[p].payload)), errors |-> {}]
    BY DEF FormAgreesWithServer
  <2> DEFINE schema == versions[req[p].form]
  <2>1. ReqSound(p)
    BY DEF IInv, RequestsSound
  <2>2. req[p].pc \in Filling
    BY <2>1 DEF ReqSound
  <2>3. schema \in Published
    BY <2>2, Carried
  <2>4. Sent(req[p]) \in FilledForms(schema)
    BY <2>1, <2>2, <2>3 DEF ReqSound, Submissions
  <2>5. ComparedAlike(schema, Sent(req[p]))
    BY DEF ComparedAlike, Sent
  <2> HIDE DEF schema
  <2>6. SanitizeAnswers(schema, req[p].payload, FALSE)
          = [answers |-> Restrict(req[p].payload, Given(req[p].payload)), errors |-> {}]
    <3>1. SanitizeAnswers(schema, Sent(req[p]).payload, FALSE)
            = [answers |-> Restrict(Sent(req[p]).payload, Given(Sent(req[p]).payload)), errors |-> {}]
      BY <2>3, <2>4, <2>5, PublishedSchema, FormIsAccepted
    <3> QED BY <3>1 DEF Sent
  <2> QED BY <2>6 DEF schema
<1> QED BY <1>1, AlwaysSound, PTL

-----------------------------------------------------------------------------
(* The contract of the trace.                                              *)

(* What a transaction adds is what the trace has gained.                     *)
LEMMA TraceGrows ==
  ASSUME NEW b \in Briefings, NEW old \in Seq(Events), NEW more \in Seq(Events), more # <<>>,
         log \in [Briefings -> Seq(Events)], log[b] = old, log' = [log EXCEPT ![b] = old \o more],
         Contract!Distinct(more), Contract!KeysOf(more) \cap Contract!KeysOf(old) = {}
  PROVE  Contract!Extension
<1>1. Len(old) \in Nat /\ Len(more) \in Nat /\ Len(more) # 0 /\ Len(old \o more) = Len(old) + Len(more)
  BY ConcatProperties, EmptySeq
<1>2. SubSeq(old \o more, Len(old) + 1, Len(old) + Len(more)) = more
  <2>1. SubSeq(old \o more, Len(old) + 1, Len(old) + Len(more))
          = SubSeq(more, (Len(old) + 1) - Len(old), (Len(old) + Len(more)) - Len(old))
    <3>1. /\ Len(old) + 1 \in Len(old) + 1 .. Len(old) + Len(more)
          /\ Len(old) + Len(more) \in Len(old) + 1 .. Len(old) + Len(more)
      BY <1>1
    <3> QED BY <3>1, SubSeqOfConcat2
  <2>2. (Len(old) + 1) - Len(old) = 1 /\ (Len(old) + Len(more)) - Len(old) = Len(more)
    BY <1>1
  <2> QED BY <2>1, <2>2, SubSeqFull
<1>3. log'[b] = old \o more
  OBVIOUS
<1>4. Contract!Gained(b) = more
  BY <1>1, <1>2, <1>3 DEF Contract!Gained
<1> QED BY <1>4 DEF Contract!Extension, Contract!Extend

(* The keys of the events of a briefing differ.                              *)
LEMMA OneEvent ==
  ASSUME NEW event \in {Succeeded, Cancelled, Discarded}
  PROVE  /\ <<event>> \in Seq(Events) /\ Opening \o <<event>> = Append(Opening, event)
         /\ Contract!Distinct(<<event>>)
         /\ Contract!KeysOf(<<event>>) \cap Contract!KeysOf(Opening) = {}
<1>1. <<event>> \in Seq(Events) /\ Opening \o <<event>> = Append(Opening, event)
  BY DEF Events, Opening
<1>2. Contract!Distinct(<<event>>)
  BY DEF Contract!Distinct
<1>3. event.key \notin {Created.key, Started.key}
  BY DEF Succeeded, Cancelled, Discarded, Created, Started
<1>4. Contract!KeysOf(<<event>>) \subseteq {event.key}
  BY DEF Contract!KeysOf
<1>5. Contract!KeysOf(Opening) \subseteq {Created.key, Started.key}
  BY DEF Contract!KeysOf, Opening
<1> QED BY <1>1, <1>2, <1>3, <1>4, <1>5

LEMMA FirstEvents ==
  /\ Contract!Distinct(Opening) /\ Contract!Distinct(Append(Opening, Succeeded))
  /\ Contract!KeysOf(<<>>) = {}
<1>1. Created.key # Started.key /\ Created.key # Succeeded.key /\ Started.key # Succeeded.key
  BY DEF Created, Started, Succeeded
<1>2. Contract!Distinct(Opening)
  BY <1>1 DEF Contract!Distinct, Opening
<1>3. Append(Opening, Succeeded) = <<Created, Started, Succeeded>>
  <2> DEFINE t == <<Created, Started, Succeeded>>
             u == Append(Opening, Succeeded)
  <2>1. Opening \in Seq(Events) /\ Succeeded \in Events /\ Len(Opening) = 2
    BY OpeningTraces DEF Opening, Events
  <2>2. t \in Seq(Events) /\ u \in Seq(Events)
    BY OpeningTraces DEF Events
  <2>3. Len(t) = 3 /\ t[1] = Created /\ t[2] = Started /\ t[3] = Succeeded
    OBVIOUS
  <2>4. Len(u) = 3 /\ u[1] = Created /\ u[2] = Started /\ u[3] = Succeeded
    BY <2>1 DEF Opening
  <2> HIDE DEF t, u
  <2>5. \A i \in 1..Len(t) : t[i] = u[i]
    BY <2>3, <2>4
  <2>6. t = u
    BY <2>2, <2>3, <2>4, <2>5, SeqEqual
  <2> QED BY <2>6 DEF t, u
<1>4. Contract!Distinct(<<Created, Started, Succeeded>>)
  <2> DEFINE t == <<Created, Started, Succeeded>>
  <2>1. DOMAIN t = {1, 2, 3} /\ t[1] = Created /\ t[2] = Started /\ t[3] = Succeeded
    OBVIOUS
  <2> HIDE DEF t
  <2>2. \A i, j \in DOMAIN t : t[i].key = t[j].key => i = j
    BY <1>1, <2>1
  <2> QED BY <2>2 DEF Contract!Distinct, t
<1>5. Contract!KeysOf(<<>>) = {}
  BY DEF Contract!KeysOf
<1> QED BY <1>2, <1>3, <1>4, <1>5

LEMMA StepExtends == IInv /\ [Next]_vars => [Contract!Extension]_log
<1> SUFFICES ASSUME IInv, [Next]_vars PROVE Contract!Extension \/ log' = log
  OBVIOUS
<1>1. log \in [Briefings -> Seq(Events)]
  BY DEF IInv, TypeInv
<1>2. ASSUME NEW b \in Briefings, Stores(b) PROVE Contract!Extension \/ log' = log
  <2>1. PICK trace \in {Opening, Append(Opening, Succeeded)} : log' = [log EXCEPT ![b] = trace]
    BY <1>2 DEF Stores, Drafted, Finished, Put
  <2>2. CASE brief[b].status = "absent"
    <3>1. log[b] = <<>>
      BY <2>2 DEF IInv, RowsSound, RowSound
    <3>2. trace \in Seq(Events)
      BY OpeningTraces
    <3>3. <<>> \o trace = trace
      BY <3>2
    <3>4. Contract!Distinct(trace) /\ Contract!KeysOf(trace) \cap Contract!KeysOf(<<>>) = {}
      BY FirstEvents
    <3> QED BY <1>1, <2>1, <3>1, <3>2, <3>3, <3>4, TraceGrows
  <2>3. CASE brief[b].status = "DRAFT"
    <3>1. log[b] = Opening
      BY <2>3, DraftRows
    <3>2. CASE trace = Opening
      BY <2>1, <2>3, <3>2, DraftRows
    <3>3. CASE trace = Append(Opening, Succeeded)
      BY <1>1, <2>1, <3>1, <3>3, OneEvent, OpeningTraces, TraceGrows
    <3> QED BY <3>2, <3>3
  <2> QED BY <1>2, <2>2, <2>3 DEF Stores, Writable
<1>3. ASSUME NEW b \in Briefings, Closes(b) PROVE Contract!Extension \/ log' = log
  <2>1. PICK event \in {Cancelled, Discarded} : log' = [log EXCEPT ![b] = Append(Opening, event)]
    BY <1>3 DEF Closes, Ended, Put
  <2>2. log[b] = Opening
    BY <1>3, DraftRows DEF Closes
  <2> QED BY <1>1, <2>1, <2>2, OneEvent, OpeningTraces, TraceGrows
<1> QED BY <1>2, <1>3, WhoWritesBriefings

(* The trace of a briefing keeps the contract of run traces: each service    *)
(* appends its events in its own transaction, and no key is used twice,      *)
(* because a terminal event is only ever added to the trace of a draft.      *)
THEOREM BriefingImplementsRunTrace == Spec => ImplementsRunTrace
<1>1. Init => Contract!Init
  BY DEF Init, Contract!Init
<1>2. IInv /\ [Next]_vars => [Contract!Extension]_log
  BY StepExtends
<1> QED BY <1>1, <1>2, AlwaysSound, PTL DEF Spec, ImplementsRunTrace, Contract!CheckedSpec
=============================================================================
