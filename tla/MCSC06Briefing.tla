--------------------------- MODULE MCSC06Briefing ---------------------------
(* Instances of SC06Briefing for TLC: two or three questions in one or two   *)
(* sections, with every kind of condition, and schemas to be refused.        *)
EXTENDS SC06Briefing, TLC

Always == <<>>
Leaf(op, field, values) == [op |-> op, field |-> field, values |-> values]
Group(op, parts) == [op |-> op, parts |-> parts]

AsIs(texts) == [text \in texts |-> text]
Header(when) ==
  [kind |-> "section", section |-> 0, id |-> "none", allowed |-> {}, reads |-> AsIs({}),
   required |-> FALSE, when |-> when]
Ask(section, id, kind, allowed, required, when) ==
  [kind |-> kind, section |-> section, id |-> id, allowed |-> allowed, reads |-> AsIs(allowed),
   required |-> required, when |-> when]

(* A section that depends on a question which itself depends on another: its *)
(* question is asked while that one is hidden, and hidden by its answer.     *)
Chained ==
  <<Header(Always),
    Ask(1, "a", "choice", {"x", "y"}, TRUE, Always),
    Ask(1, "b", "text", {"x"}, FALSE, <<Leaf("equals", "a", {"x"})>>),
    Header(<<Leaf("not_equals", "b", {"x"})>>),
    Ask(4, "c", "choice", {"x"}, TRUE, Always)>>

(* Combined conditions, and a section that a missing answer hides: b is asked *)
(* when a is y, or when a is x and t is not.                                 *)
Combined ==
  <<Header(Always),
    Ask(1, "a", "choice", {"x", "y"}, FALSE, Always),
    Ask(1, "t", "text", {"x"}, FALSE, Always),
    Header(<<Leaf("in", "a", {"x", "y"})>>),
    Ask(4, "b", "text", {"x"}, TRUE,
        <<Leaf("equals", "a", {"y"}),
          Leaf("equals", "a", {"x"}), Leaf("not_equals", "t", {"x"}), Group("all", {2, 3}),
          Group("any", {1, 4})>>)>>

(* Compares with the empty text.                                             *)
Blank ==
  <<Header(Always),
    Ask(1, "a", "text", {"x"}, FALSE, Always),
    Ask(1, "b", "choice", {"x"}, TRUE, <<Leaf("not_equals", "a", {"blank"})>>)>>

(* A date: the form reads a loose text too, only the service a compact one.  *)
Dated ==
  <<Header(Always),
    [Ask(1, "a", "date", {"x", "compact"}, FALSE, Always)
       EXCEPT !.reads = [text \in {"x", "loose"} |-> "x"]],
    Ask(1, "b", "text", {"x"}, TRUE, <<Leaf("not_equals", "a", {"x"})>>)>>

(* Refused: a question and a section that depend on later questions.         *)
Forward ==
  <<Header(Always),
    Ask(1, "a", "choice", {"x"}, FALSE, <<Leaf("not_equals", "b", {"x"})>>),
    Ask(1, "b", "choice", {"x"}, FALSE, Always)>>
ForwardSection ==
  <<Header(<<Leaf("not_equals", "a", {"x"})>>),
    Ask(1, "a", "choice", {"x"}, FALSE, Always)>>

AllCandidates == {Chained, Combined, Blank, Dated, Forward, ForwardSection}
OnlyBlank == {Blank}

Symmetry == Permutations(People)
=============================================================================
