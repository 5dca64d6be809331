------------------------------ MODULE Answers ------------------------------
(***************************************************************************)
(* The answers to one form of one candidate: createAnswer with the display *)
(* rules that enable and disable questions, and submitForm (src/src/answers *)
(* and src/src/forms-candidates).                                          *)
(*                                                                         *)
(* A question is shown by its own rule or by the rule of its section, each *)
(* of which tests the answer to one earlier question.  createAnswer reads  *)
(* its row and the rules, then writes the answer and the flags of the      *)
(* questions that depend on it in one transaction; (question, form) is not *)
(* UNIQUE, so concurrent requests can leave several rows for a question.   *)
(*                                                                         *)
(* An answer is the list of the values that its text joins with "||":      *)
(* numbers, or ids of options.  Access codes and the answer period are in  *)
(* FormLifecycle; here they only refuse.                                   *)
(***************************************************************************)
EXTENDS Integers, Sequences, FiniteSets, Functions

CONSTANTS
    Questions, Sections,
    NoQuestion,   \* the link of a rule without one
    Null,         \* the value of a row made for a question not answered yet
    Values,       \* the answers people give
    Forms,        \* how the form may be built
    Handlers,     \* requests in progress at once
    MaxAnswers    \* bound: the answers people send

Displays == {"alwaysShow", "showIf", "dontShowIf"}
Tests == {"none", "equals", "moreThan", "lessThan", "moreThanOrEqual",
          "lessThanOrEqual", "includes", "excludes"}
Rule == [display : Displays, link : Questions \cup {NoQuestion}, test : Tests,
         value : Seq(Int)]
Form == [section : [Questions -> Sections], ofSection : [Sections -> Rule],
         ofQuestion : [Questions -> Rule]]

ASSUME FormsAssumption ==
    /\ Forms \subseteq Form
    /\ NoQuestion \notin Questions
    \* Links go to earlier questions (questions.helper, form-sections.helper).
    /\ \A f \in Forms, q \in Questions :
          /\ f.ofQuestion[q].link # q
          /\ f.ofSection[f.section[q]].link # q

ASSUME ValuesAssumption ==
    /\ Values \subseteq Seq(Int) \ {<<>>}
    /\ Null \notin Values

ASSUME HandlersAssumption == IsFiniteSet(Handlers)

ASSUME BoundAssumption == MaxAnswers \in Nat

VARIABLES
    form,      \* Questions and FormSections, as the form was built
    rows,      \* table Answers: the rows of each question, in commit order
    status,    \* formCandidateStatus
    handler,   \* the requests in progress
    late,      \* history: an answer was committed after the answers submitted were read
    sent       \* counter of the bound MaxAnswers

vars == <<form, rows, status, handler, late, sent>>

MAILED == 2
STARTED == 4
SUBMITTED == 5

Row == [value : Values \cup {Null}, valid : BOOLEAN]
NoRow == 0
RowOf(q) == IF rows[q] = <<>> THEN {NoRow} ELSE DOMAIN rows[q]
NoRows == [q \in Questions |-> NoRow]

Handler ==
    [pc : {"idle", "find", "save", "commit", "started", "check", "finish"},
     question : Questions \cup {NoQuestion}, value : Values \cup {Null},
     seen : {MAILED, STARTED}, row : Nat, deps : [Questions -> Nat]]
Idle == [pc |-> "idle", question |-> NoQuestion, value |-> Null,
         seen |-> MAILED, row |-> NoRow, deps |-> NoRows]
Goto(h, r) == handler' = [handler EXCEPT ![h] = r]

-----------------------------------------------------------------------------
(* The display rules *)

\* evaluateAnswerDisplayRule; parseFloat reads the first value of a list.
Passes(v, test, d) ==
    CASE test = "equals"          -> Len(v) = Len(d) /\ Range(v) \subseteq Range(d)
      [] test = "moreThan"        -> Head(v) > Head(d)
      [] test = "lessThan"        -> Head(v) < Head(d)
      [] test = "moreThanOrEqual" -> Head(v) >= Head(d)
      [] test = "lessThanOrEqual" -> Head(v) <= Head(d)
      [] test = "includes"        -> Range(v) \cap Range(d) # {}
      [] test = "excludes"        -> Range(v) \cap Range(d) = {}

\* processDependentValidity
Enables(rule, v) ==
    LET passes == /\ rule.test # "none"
                  /\ rule.value # <<>>
                  /\ Passes(v, rule.test, rule.value)
    IN  IF rule.display = "dontShowIf" THEN ~passes ELSE passes

\* buildDependentsArray: the questions of the sections that test q, by the rule
\* of the section, and the other questions that test q, by their own.
BySection(q) == {p \in Questions : form.ofSection[form.section[p]].link = q}
ByQuestion(q) == {p \in Questions : form.ofQuestion[p].link = q}
RuleOn(p, q) == IF p \in BySection(q) THEN form.ofSection[form.section[p]]
                                      ELSE form.ofQuestion[p]
Dependents(q) == {p \in BySection(q) \cup ByQuestion(q) :
                     RuleOn(p, q).display # "alwaysShow"}

-----------------------------------------------------------------------------
(* POST /answers *)

\* validateFormCandidateForAnswer
StartAnswer(h, q, v) ==
    /\ handler[h].pc = "idle"
    /\ status <= STARTED
    /\ sent < MaxAnswers /\ sent' = sent + 1
    /\ Goto(h, [pc |-> "find", question |-> q, value |-> v, seen |-> status,
                row |-> NoRow, deps |-> NoRows])
    /\ UNCHANGED <<form, rows, status, late>>

\* findAnswerByQuestionAndFormCandidate: some row of the question, if it has one.
\* A disabled one refuses the answer.
\* Mutant: the rows of the question are not looked for.
FindAnswerNever(h) ==
    /\ handler[h].pc = "find"
    /\ Goto(h, [handler[h] EXCEPT !.pc = "save"])
    /\ UNCHANGED <<form, rows, status, late, sent>>

FindAnswer(h) ==
    /\ handler[h].pc = "find"
    /\ \E r \in RowOf(handler[h].question) :
          IF r # NoRow /\ ~rows[handler[h].question][r].valid
          THEN Goto(h, Idle)
          ELSE Goto(h, [handler[h] EXCEPT !.pc = "save", !.row = r])
    /\ UNCHANGED <<form, rows, status, late, sent>>

\* A check refuses the value or the submission; or a query rejects, and takes its
\* transaction with it.
Abandon(h) ==
    /\ handler[h].pc # "idle"
    /\ Goto(h, Idle)
    /\ UNCHANGED <<form, rows, status, late, sent>>

\* An UPDATE holds its row until its transaction ends.
Locked(g, q, r) == /\ handler[g].pc = "commit"
                   /\ handler[g].question = q
                   /\ handler[g].row = r
Free(q, r) == r = NoRow \/ \A g \in Handlers : ~Locked(g, q, r)

\* The transaction writes the answer and reads the rows of the dependents, some
\* one of each (answersMap), ...
SaveAnswer(h) ==
    LET q == handler[h].question
    IN  /\ handler[h].pc = "save"
        /\ Free(q, handler[h].row)
        /\ \E deps \in [Questions -> {NoRow} \cup UNION {RowOf(p) : p \in Questions}] :
              /\ \A p \in Questions :
                    deps[p] \in IF p \in Dependents(q) THEN RowOf(p) ELSE {NoRow}
              /\ Goto(h, [handler[h] EXCEPT !.pc = "commit", !.deps = deps])
        /\ UNCHANGED <<form, rows, status, late, sent>>

\* ... writes their flags and commits.  The flag is written even if it is the same:
\* the driver reads it as a number, which is never === a boolean.
\* Mutant: an answer enables its question.
AnswerEnables(s, r, v) ==
    IF r = NoRow THEN Append(s, [value |-> v, valid |-> TRUE])
                 ELSE [s EXCEPT ![r] = [value |-> v, valid |-> TRUE]]
Answer(s, r, v) ==
    IF r = NoRow THEN Append(s, [value |-> v, valid |-> TRUE])
                 ELSE [s EXCEPT ![r].value = v]
\* Mutant: the flag of a question that has no row is kept for later.
EnableExisting(s, r, b) ==
    IF r = NoRow THEN s ELSE [s EXCEPT ![r].valid = b]
Enable(s, r, b) ==
    IF r = NoRow THEN Append(s, [value |-> Null, valid |-> b])
                 ELSE [s EXCEPT ![r].valid = b]

CommitAnswer(h) ==
    LET q == handler[h].question
        v == handler[h].value
        deps == handler[h].deps
    IN  /\ handler[h].pc = "commit"
        /\ \A p \in Dependents(q) : Free(p, deps[p])
        /\ rows' = [p \in Questions |->
                      IF p = q THEN Answer(rows[q], handler[h].row, v)
                      ELSE IF p \in Dependents(q)
                           THEN Enable(rows[p], deps[p], Enables(RuleOn(p, q), v))
                           ELSE rows[p]]
        /\ late' = (late \/ status = SUBMITTED
                         \/ \E g \in Handlers : handler[g].pc = "finish")
        /\ Goto(h, [Idle EXCEPT !.pc = "started", !.seen = handler[h].seen])
        /\ UNCHANGED <<form, status, sent>>

\* updateToStartedIfNeeded
UpdateToStarted(h) ==
    /\ handler[h].pc = "started"
    /\ status' = IF handler[h].seen < STARTED THEN STARTED ELSE status
    /\ Goto(h, Idle)
    /\ UNCHANGED <<form, rows, late, sent>>

-----------------------------------------------------------------------------
(* submitForm *)

StartSubmit(h) ==
    /\ handler[h].pc = "idle"
    /\ status <= STARTED
    /\ Goto(h, [Idle EXCEPT !.pc = "check"])
    /\ UNCHANGED <<form, rows, status, late, sent>>

\* Every question has a row, and the one looked at (answersByQuestionId) passes:
\* it is disabled, or it has a value.
\* Mutant: the flag the other way round.
CompleteInverted == \A q \in Questions : \E r \in DOMAIN rows[q] :
    ~rows[q][r].valid => rows[q][r].value # Null

Complete == \A q \in Questions : \E r \in DOMAIN rows[q] :
    rows[q][r].valid => rows[q][r].value # Null

\* A form that is not complete is refused: Abandon.
CheckAnswers(h) ==
    /\ handler[h].pc = "check"
    /\ Complete
    /\ Goto(h, [handler[h] EXCEPT !.pc = "finish"])
    /\ UNCHANGED <<form, rows, status, late, sent>>

FinishSubmit(h) ==
    /\ handler[h].pc = "finish"
    /\ status' = SUBMITTED
    /\ Goto(h, Idle)
    /\ UNCHANGED <<form, rows, late, sent>>

-----------------------------------------------------------------------------

Init ==
    /\ form \in Forms
    /\ rows = [q \in Questions |-> <<>>]
    /\ status = MAILED
    /\ handler = [h \in Handlers |-> Idle]
    /\ late = FALSE
    /\ sent = 0

HandlerStep(h) ==
    \/ \E q \in Questions, v \in Values : StartAnswer(h, q, v)
    \/ FindAnswer(h)
    \/ SaveAnswer(h)
    \/ CommitAnswer(h)
    \/ UpdateToStarted(h)
    \/ StartSubmit(h)
    \/ CheckAnswers(h)
    \/ FinishSubmit(h)
    \/ Abandon(h)

Next == \E h \in Handlers : HandlerStep(h)

Spec == Init /\ [][Next]_vars

-----------------------------------------------------------------------------
(* Properties *)

TypeOK ==
    /\ form \in Forms
    /\ rows \in [Questions -> Seq(Row)]
    /\ status \in {MAILED, STARTED, SUBMITTED}
    /\ handler \in [Handlers -> Handler]
    /\ late \in BOOLEAN
    /\ sent \in 0..MaxAnswers

\* As long as no question has two rows, a question whose rule tests an answer that
\* was given has a row, and is enabled exactly as the current value of such an
\* answer says: the last one of them to be saved, whatever other requests did
\* between the reads of createAnswer and its transaction.
Governors(p) == {g \in Questions : p \in Dependents(g)}
AnsweredGovernors(p) == {g \in Governors(p) : rows[g] # <<>> /\ rows[g][1].value # Null}
FlagsFollowAnswers ==
    (\A q \in Questions : Len(rows[q]) <= 1) =>
        \A p \in Questions : AnsweredGovernors(p) # {} =>
            /\ rows[p] # <<>>
            /\ \E g \in AnsweredGovernors(p) :
                  rows[p][1].valid = Enables(RuleOn(p, g), rows[g][1].value)

\* Nothing in the table stops a question from having several rows, but a row is
\* only added by a request that read the table before there was one: the rows there
\* are and the rows on their way never outnumber the requests in progress at once.
Adding(q) == {h \in Handlers :
    \/ handler[h].pc \in {"save", "commit"} /\ handler[h].question = q
                                            /\ handler[h].row = NoRow
    \/ handler[h].pc = "commit" /\ q \in Dependents(handler[h].question)
                                /\ handler[h].deps[q] = NoRow}
RowsBoundedByConcurrency ==
    \A q \in Questions : Len(rows[q]) + Cardinality(Adding(q)) <= Cardinality(Handlers)

\* A submitted form is complete, disabled questions aside, unless an answer was
\* committed after the submission had read the answers: submitForm does not lock
\* what it checks.
SubmittedIsComplete == status = SUBMITTED /\ ~late =>
    \A q \in Questions : \E r \in DOMAIN rows[q] :
        rows[q][r].valid => rows[q][r].value # Null

\* What FormLifecycle says a transaction does to the answers it keeps, while no
\* question has two rows: the one answered gets a value and keeps its flag, or is
\* enabled if it is new; any other keeps its value and only its flag may change.
Single == \A q \in Questions : Len(rows[q]) <= 1
Seen(q) == IF rows[q] = <<>> THEN [value |-> "absent", valid |-> TRUE]
           ELSE [value |-> IF rows[q][1].value = Null THEN "null" ELSE "given",
                 valid |-> rows[q][1].valid]
GivesValue(a, b) == b = [value |-> "given", valid |-> a.value = "absent" \/ a.valid]
KeepsValue(a, b) == b = a \/ b.value = IF a.value = "absent" THEN "null" ELSE a.value
WritesAsFlow ==
    [][Single /\ Single' /\ rows' # rows => \E q \in Questions :
          /\ GivesValue(Seen(q), Seen(q)')
          /\ \A p \in Questions \ {q} : KeepsValue(Seen(p), Seen(p)')]_vars
=============================================================================
