----------------------------- MODULE SC06Rules -----------------------------
(***************************************************************************)
(* SC-06: what a schema asks.  Sections and questions are conditional; the  *)
(* form decides with the raw data which questions are active, and the       *)
(* service decides again, in order, on what it keeps.                       *)
(* Code: sc06/rules.py, sc06/forms.py.                                      *)
(*                                                                          *)
(* A schema is the sequence of its lines: the header of a section, then its *)
(* questions, then the next header.  A line is [kind, section, id, allowed, *)
(* reads, required, when]; "section" is the line of the header, 0 for a     *)
(* header.                                                                  *)
(* A condition is a sequence of nodes, each after its parts: the last one   *)
(* is the whole, and <<>> is no condition.  Answers map questions to        *)
(* values; "blank" is an empty field.  Formats, lengths and option lists    *)
(* are two things: "allowed", what _coerce_answer accepts, and "reads", the *)
(* texts that the field of the form accepts with the value it makes of each.*)
(* They differ for dates: DateField reads 2024-1-5 and hands over           *)
(* 2024-01-05, date.fromisoformat refuses the first and accepts 20240105.   *)
(***************************************************************************)
EXTENDS Naturals, Sequences, FiniteSets, SequencesExt

Asked(schema) == {n \in DOMAIN schema : schema[n].kind # "section"}
IdsOf(schema, lines) == {schema[n].id : n \in lines \cap Asked(schema)}
Ids(schema) == IdsOf(schema, DOMAIN schema)
Question(schema, id) == schema[CHOOSE n \in Asked(schema) : schema[n].id = id]

(* The JSON lists of sections and questions, as a sequence of lines.         *)
IsTemplate(schema) ==
  /\ schema \in Seq(Range(schema))
  /\ \A n \in DOMAIN schema :
       LET line == schema[n] IN
       /\ line.section \in 0..(n - 1)
       /\ line.kind = "section" <=> line.section = 0
       /\ line.section # 0 => /\ schema[line.section].kind = "section"
                              /\ (line.section + 1)..n \subseteq Asked(schema)
       /\ \A i \in DOMAIN line.when :
            line.when[i].op \in {"all", "any"} => line.when[i].parts \subseteq 1..(i - 1)
       /\ {"none", "blank"} \cap (line.allowed \cup DOMAIN line.reads) = {}
       /\ \A text \in DOMAIN line.reads :
            /\ line.reads[text] \in line.allowed
            /\ line.kind # "date" \/ text \in line.allowed => line.reads[text] = text

(* A loop over 1..n that collects: i is added when adds[i] has the set of    *)
(* what was added before it.                                                 *)
Scan(n, adds) ==
  LET upto[i \in 0..n] ==
        IF i = 0 THEN {}
        ELSE LET before == upto[i - 1]
             IN IF before \in adds[i] THEN before \cup {i} ELSE before
  IN upto[n]

(* _coerce_answer: a text without minimum length accepts the empty string.   *)
Coerces(q, value) == value \in q.allowed \/ (q.kind = "text" /\ value = "blank")

Answer(answers, id) == IF id \in DOMAIN answers THEN answers[id] ELSE "none"

(* evaluate_condition.                                                       *)
Holds(node, held, answers) ==
  \/ node.op = "all" /\ node.parts \subseteq held
  \/ node.op = "any" /\ node.parts \cap held # {}
  \/ node.op \in {"equals", "in"} /\ Answer(answers, node.field) \in node.values
  \/ node.op = "not_equals" /\ Answer(answers, node.field) \notin node.values
Evaluate(c, answers) ==
  \/ c = <<>>
  \/ Len(c) \in Scan(Len(c), [i \in DOMAIN c |->
                                {held \in SUBSET (1..(i - 1)) : Holds(c[i], held, answers)}])

Leaves(c) == {c[i] : i \in {j \in DOMAIN c : c[j].op \in {"equals", "in", "not_equals"}}}

(* The questions that the condition of line n may compare.                   *)
(* Mutant: every question of the schema.                                     *)
KnownQuestions(schema, n) == Ids(schema)
Earlier(schema, n) == IdsOf(schema, 1..(n - 1))

(* validate_template_schema: identifiers are unique, no section is empty; a  *)
(* condition compares earlier questions with values those questions accept.  *)
ValidTemplateSchema(schema) ==
  /\ schema # <<>>
  /\ \A i, j \in Asked(schema) : schema[i].id = schema[j].id => i = j
  /\ \A n \in DOMAIN schema \ Asked(schema) : n + 1 \in Asked(schema)
  /\ \A n \in DOMAIN schema : \A node \in Range(schema[n].when) :
       node.op \in {"all", "any"} => node.parts # {}
  /\ \A n \in DOMAIN schema : \A leaf \in Leaves(schema[n].when) :
       /\ leaf.field \in Earlier(schema, n)
       /\ leaf.values # {}
       /\ \A value \in leaf.values : Coerces(Question(schema, leaf.field), value)

(* The loop that sanitize_answers and get_active_sections share: a line is   *)
(* active when its section is and its condition holds of the answers taken   *)
(* from active lines before it.                                              *)
ActiveLines(schema, data, taken) ==
  Scan(Len(schema), [n \in DOMAIN schema |->
    {before \in SUBSET (1..(n - 1)) :
       /\ schema[n].section \in before \cup {0}
       /\ Evaluate(schema[n].when, Restrict(data, taken \cap IdsOf(schema, before)))}])

Coercible(schema, data) ==
  {id \in Ids(schema) \cap DOMAIN data : Coerces(Question(schema, id), data[id])}
Given(data) == {id \in DOMAIN data : data[id] # "blank"}

(* get_active_sections: an invalid value activates nothing.                  *)
Active(schema, data) ==
  IdsOf(schema, ActiveLines(schema, data, Coercible(schema, data)))

(* sanitize_answers.  The comparison of the married partner with the names   *)
(* of the partners is not modelled: it only adds an error.                   *)
SanitizeAnswers(schema, data, complete) ==
  LET taken == Coercible(schema, data) \cap Given(data)
      active == IdsOf(schema, ActiveLines(schema, data, taken))
  IN [answers |-> Restrict(data, taken \cap active),
      errors |-> {id \in active : \/ id \in Given(data) \ taken
                                  \/ complete /\ Question(schema, id).required /\ id \notin Given(data)}]

(* format_answers: what the consolidated document shows.                     *)
FormatAnswers(schema, answers) == Active(schema, answers) \cap DOMAIN answers

(* BriefingAnswersForm: errors and values of inactive questions are dropped. *)
(* What is active is decided on the raw data, what is handed over is what    *)
(* the fields made of it; a control that was not sent is empty.              *)
FormValid(schema, data) ==
  \A id \in Active(schema, data) \cap Given(data) : data[id] \in DOMAIN Question(schema, id).reads
(* Mutant: the data of hidden questions go along.                            *)
PayloadWhole(schema, data) ==
  [id \in Ids(schema) |->
     IF id \in Given(data) /\ data[id] \in DOMAIN Question(schema, id).reads
     THEN Question(schema, id).reads[data[id]] ELSE "blank"]
Payload(schema, data) ==
  [id \in Ids(schema) |->
     IF id \in Active(schema, data) \cap Given(data) THEN Question(schema, id).reads[data[id]]
     ELSE "blank"]

(* The answers whose text the form has changed.                              *)
Rewritten(schema, data) ==
  {id \in Active(schema, data) \cap Given(data) : Question(schema, id).reads[data[id]] # data[id]}

(* What may be posted: the browser leaves hidden controls out, other clients *)
(* need not.                                                                 *)
Texts(schema) ==
  {"blank", "bad"} \cup UNION {schema[n].allowed \cup DOMAIN schema[n].reads : n \in Asked(schema)}
Raw(schema) == UNION {[ids -> Texts(schema)] : ids \in SUBSET Ids(schema)}

(* The distinct answers that the form of a schema can hand to the service.    *)
FilledForms(schema) ==
  {[payload |-> Payload(schema, data), rewritten |-> Rewritten(schema, data)] :
     data \in {d \in Raw(schema) : FormValid(schema, d)}}

(* app.js: visibility is the same loop over what is typed in visible fields; *)
(* the controls of hidden questions are disabled and not posted.             *)
Shown(schema, typed) == IdsOf(schema, ActiveLines(schema, typed, Given(typed)))
Posted(schema, typed) == Restrict(typed, Shown(schema, typed))

(* What the widgets let a person type or choose: nothing, or a value in the  *)
(* form in which it is stored.                                               *)
Typed(schema) ==
  {typed \in [Ids(schema) -> Texts(schema)] : \A id \in Given(typed) :
     LET q == Question(schema, id)
     IN typed[id] \in DOMAIN q.reads /\ q.reads[typed[id]] = typed[id]}
=============================================================================
