----------------------------- MODULE MCAnswers -----------------------------
(* Small instances of Answers for TLC. *)
EXTENDS Answers, TLC

CONSTANTS a, b, c, s1, s2

MCQuestions == {a, b, c}
MCSections == {s1, s2}
MCValues == {<<1>>, <<2, 1>>}

Always == [display |-> "alwaysShow", link |-> NoQuestion, test |-> "none", value |-> <<>>]
RuleOf(d, q, t, v) == [display |-> d, link |-> q, test |-> t, value |-> v]

\* a and b in the first section, c alone in the second.
Built(ofB, ofC, ofS2) ==
    [section |-> (a :> s1 @@ b :> s1 @@ c :> s2),
     ofSection |-> (s1 :> Always @@ s2 :> ofS2),
     ofQuestion |-> (a :> Always @@ b :> ofB @@ c :> ofC)]

MCForms ==
    {\* a chain: b tests a and c tests b
     Built(RuleOf("showIf", a, "equals", <<1>>),
           RuleOf("dontShowIf", b, "lessThanOrEqual", <<1>>), Always),
     \* c tests a and its section tests b
     Built(Always, RuleOf("showIf", a, "excludes", <<2>>),
           RuleOf("showIf", b, "includes", <<2, 3>>)),
     \* c and its section test the same question, with opposite outcomes
     Built(Always, RuleOf("showIf", a, "moreThan", <<1>>),
           RuleOf("dontShowIf", a, "moreThanOrEqual", <<2>>))}

SlotSymmetry == Permutations(Handlers)
=============================================================================
