--------------------------- MODULE FormStructure ---------------------------
(***************************************************************************)
(* The structure of the forms: their sections, the questions of the        *)
(* sections, the orders of both and the display rules that tie them.       *)
(*                                                                         *)
(* A request of an administrator is checked against what its queries find  *)
(* and written later, in one transaction: a request slot holds an edit     *)
(* between its check and its write.  Only the content that decides about   *)
(* structure is kept: kinds of question, options, validations, scores and  *)
(* answers can only make a handler refuse, and a refused request changes   *)
(* nothing.                                                                *)
(*                                                                         *)
(* The database runs a transaction under repeatable read, its default: the *)
(* plain SELECTs see the tables as they were at the first of them, and     *)
(* what the transaction wrote itself; UPDATE, DELETE and the foreign keys  *)
(* work on the rows there are now, and lock what they scan until it        *)
(* commits.  So a transaction that reads before it writes takes two steps: *)
(* Begin keeps what it will see, and its write step does everything else,  *)
(* in the order of the commits.                                            *)
(***************************************************************************)
EXTENDS Naturals, FiniteSets, Functions

CONSTANTS
    Forms,          \* forms that exist throughout
    Requests,       \* slots for requests being served
    None,           \* SQL NULL
    MaxSections,    \* bound on the sections ever inserted
    MaxQuestions,   \* bound on the questions ever inserted
    Sizes,          \* the pairs of sections and questions to be ever inserted
    MaxOrder,       \* bound on the orders of requests
    MaxMissed       \* bound on the commits a transaction misses

ASSUME BoundsAreNatural ==
    /\ MaxSections \in Nat /\ MaxQuestions \in Nat
    /\ MaxOrder \in Nat /\ MaxMissed \in Nat
ASSUME NoneIsNoId == None \notin Nat

VARIABLES
    section,        \* table FormSections: the rows by id
    question,       \* table Questions: the rows by id
    nextSection,    \* auto-increment values of the two tables
    nextQuestion,
    request,        \* the edit of each slot that is checked and not written
    snapshot        \* the rows its transaction has read, and the commits missed since

vars == <<section, question, nextSection, nextQuestion, request, snapshot>>
tables == <<section, question, nextSection, nextQuestion>>

----------------------------------------------------------------------------
(* Rows *)

SectionIds == 1 .. MaxSections
QuestionIds == 1 .. MaxQuestions
Orders == 1 .. MaxOrder

\* A display rule, with its links to a section and to one of its questions.
Rule == [conditional : BOOLEAN,
         section : SectionIds \cup {None}, question : QuestionIds \cup {None}]

Always == [conditional |-> FALSE, section |-> None, question |-> None]

\* The rules a request can carry: both links or none.
Requested == {Always} \cup
    [conditional : {TRUE}, section : SectionIds, question : QuestionIds]

Section == [form : Forms, order : Nat \ {0}, rule : Rule]
Question == [section : SectionIds, order : Nat \ {0}, rule : Rule]

SectionsOf(f) == {s \in DOMAIN section : section[s].form = f}
FormOf(q) == section[question[q].section].form
QuestionsIn(S) == {q \in DOMAIN question : question[q].section \in S}

----------------------------------------------------------------------------
(* Edits and their checks *)

\* The new orders of a reorder request, by id.
Renumbering(Ids) == UNION {[D -> Orders] : D \in SUBSET Ids}

Edits ==
    UNION {
        [kind : {"createSection"}, form : Forms, order : Orders, rule : Requested],
        [kind : {"updateSection"}, section : SectionIds, rule : Requested],
        [kind : {"deleteSection"}, section : SectionIds],
        [kind : {"reorderSections"}, new : Renumbering(SectionIds)],
        [kind : {"createQuestion"}, section : SectionIds, order : Orders,
         rule : Requested],
        [kind : {"updateQuestion"}, question : QuestionIds, rule : Requested],
        [kind : {"deleteQuestion"}, question : QuestionIds],
        [kind : {"reorderQuestions"}, new : Renumbering(QuestionIds)],
        [kind : {"copyForm"}, source : Forms, target : Forms]}

\* The edits whose transactions read rows before they write any.
ReadFirst == {"deleteSection", "reorderSections", "deleteQuestion", "copyForm"}

\* validateDisplayLinkOrder and the checks around it: the linked section is an
\* earlier one of form f, the linked question one of its questions.
\* Mutant: whose section the linked question is in is not checked.
SectionRuleOKAnyQuestion(rule, f, order) ==
    rule.conditional =>
        /\ rule.section \in SectionsOf(f)
        /\ section[rule.section].order < order
        /\ rule.question \in DOMAIN question

SectionRuleOK(rule, f, order) ==
    rule.conditional =>
        /\ rule.section \in SectionsOf(f)
        /\ section[rule.section].order < order
        /\ rule.question \in QuestionsIn({rule.section})

\* validateDisplayRule: the linked section is not a later one of the same form,
\* the linked question has a smaller order, wherever it is.
QuestionRuleOK(rule, s, order) ==
    /\ s \in DOMAIN section
    /\ rule.conditional =>
        /\ rule.section \in SectionsOf(section[s].form)
        /\ section[rule.section].order <= section[s].order
        /\ rule.question \in DOMAIN question
        /\ question[rule.question].order < order

NoRuleLinksSection(s) ==
    /\ \A t \in DOMAIN section : section[t].rule.section # s
    /\ \A q \in DOMAIN question : question[q].rule.section # s

NoRuleLinksQuestion(q) ==
    /\ \A t \in DOMAIN section : section[t].rule.question # q
    /\ \A p \in DOMAIN question : question[p].rule.question # q

\* All sections of one form, numbered 1, 2, ...; what a section depends on is
\* looked up with the order it has now, not the one it is about to get.
SectionReorderOK(new) ==
    /\ \E f \in Forms : DOMAIN new = SectionsOf(f) /\ SectionsOf(f) # {}
    /\ new \in Bijection(DOMAIN new, 1 .. Cardinality(DOMAIN new))
    /\ \A s \in DOMAIN new : section[s].rule.conditional =>
           /\ section[s].rule.section \in DOMAIN new
           /\ section[section[s].rule.section].order < new[s]

\* All questions of one section, numbered from the smallest order they have
\* now, each after the one it depends on if that is in the section.
QuestionReorderOK(new) ==
    /\ \E s \in DOMAIN section : DOMAIN new = QuestionsIn({s})
    /\ \E p \in DOMAIN new : \E r \in DOMAIN new :
        LET first == question[p].order IN
        /\ \A q \in DOMAIN new : question[q].order >= first
        /\ question[r].order > first
        /\ new \in Bijection(DOMAIN new, first .. first + Cardinality(DOMAIN new) - 1)
    /\ \A q \in DOMAIN new :
        question[q].rule.question \in DOMAIN new =>
            new[question[q].rule.question] < new[q]

Accepted(e) ==
    \/ e.kind = "createSection" /\ SectionRuleOK(e.rule, e.form, e.order)
    \/ /\ e.kind = "updateSection"
       /\ e.section \in DOMAIN section
       /\ SectionRuleOK(e.rule, section[e.section].form, section[e.section].order)
    \/ e.kind = "deleteSection" /\ NoRuleLinksSection(e.section)
    \/ e.kind = "reorderSections" /\ SectionReorderOK(e.new)
    \/ e.kind = "createQuestion" /\ QuestionRuleOK(e.rule, e.section, e.order)
    \/ /\ e.kind = "updateQuestion"
       /\ e.question \in DOMAIN question
       /\ QuestionRuleOK(e.rule, question[e.question].section,
                         question[e.question].order)
    \/ e.kind = "deleteQuestion" /\ NoRuleLinksQuestion(e.question)
    \/ e.kind = "reorderQuestions" /\ QuestionReorderOK(e.new)
    \/ e.kind = "copyForm"

----------------------------------------------------------------------------
(* Writes: foreign keys, cascades, renumbering *)

Insert(rows, id, row) ==
    [i \in DOMAIN rows \cup {id} |-> IF i = id THEN row ELSE rows[i]]

Without(rows, Ids) == [i \in DOMAIN rows \ Ids |-> rows[i]]

Renumber(rows, new) ==
    [i \in DOMAIN rows |->
        IF i \in DOMAIN new THEN [rows[i] EXCEPT !.order = new[i]] ELSE rows[i]]

\* increment and decrement, of the rows Ids from an order on and above it.
\* Mutant: the row that has the order itself stays where it is.
UpAbove(rows, Ids, order) ==
    [i \in {i \in Ids : rows[i].order > order} |-> rows[i].order + 1]

Up(rows, Ids, order) ==
    [i \in {i \in Ids : rows[i].order >= order} |-> rows[i].order + 1]

\* Mutant: so does the row that has the order itself.
DownFrom(rows, Ids, order) ==
    [i \in {i \in Ids : rows[i].order >= order} |-> rows[i].order - 1]

Down(rows, Ids, order) ==
    [i \in {i \in Ids : rows[i].order > order} |-> rows[i].order - 1]

\* An update to "always" sets the links to NULL; knex would leave alone what the
\* request does not carry.
Updated(rows, id, rule) ==
    [i \in DOMAIN rows |->
        IF i = id THEN [rows[i] EXCEPT !.rule = IF rule.conditional THEN rule ELSE Always]
                  ELSE rows[i]]

\* The foreign keys of the two links of a row.
\* Mutant: the one of the section is missing.
LinksExistQuestion(rule) == rule.question \in DOMAIN question \cup {None}

LinksExist(rule) ==
    /\ rule.section \in DOMAIN section \cup {None}
    /\ rule.question \in DOMAIN question \cup {None}

\* ON DELETE CASCADE: with a section go its questions, with a section or a
\* question go the sections whose rule is linked to it.
Cascades(S, Q) ==
    \A t \in DOMAIN section :
        section[t].rule.section \in S \/ section[t].rule.question \in Q \cup QuestionsIn(S)
            => t \in S

Taken(S, Q) ==
    {t \in DOMAIN section :
        \A T \in SUBSET DOMAIN section : S \subseteq T /\ Cascades(T, Q) => t \in T}

\* ON DELETE RESTRICT: no rule of a question that stays is linked to a row that goes.
Unlinked(S, Q) ==
    \A q \in DOMAIN question \ Q :
        question[q].rule.section \notin S /\ question[q].rule.question \notin Q

\* ... or to a row that goes after it: the questions of a section go in the order
\* of their ids, each checked as it goes.
GoInOrder(s) ==
    \A p, q \in QuestionsIn({s}) : question[p].rule.question = q => p < q

\* The questions that rows has in the sections S, numbered through: section after
\* section by the rank of the section, within one by their orders.  Ties fall
\* either way.
Numberings(S, rank, rows) ==
    LET Q == {q \in DOMAIN rows : rows[q].section \in S} IN
    {pos \in Bijection(Q, 1 .. Cardinality(Q)) :
        \A p, q \in Q :
            LET sp == rows[p].section
                sq == rows[q].section IN
            /\ rank[sp] < rank[sq] => pos[p] < pos[q]
            /\ sp = sq /\ rows[p].order < rows[q].order => pos[p] < pos[q]
            /\ sp = sq => \A r \in Q :
                   pos[p] < pos[r] /\ pos[r] < pos[q] => rows[r].section = sp}

----------------------------------------------------------------------------
(* Requests *)

Init ==
    /\ section = << >>
    /\ question = << >>
    /\ nextSection = 1
    /\ nextQuestion = 1
    /\ request = [r \in Requests |-> None]
    /\ snapshot = [r \in Requests |-> None]

\* Bounds: s sections and q questions inserted are not too many; a request puts a
\* row at most one place behind those ever inserted.
Room(s, q) == s <= MaxSections /\ q <= MaxQuestions /\ <<s, q>> \in Sizes

InBounds(e) ==
    /\ e.kind = "createSection" =>
           Room(nextSection, nextQuestion - 1) /\ e.order <= nextSection
    /\ e.kind = "createQuestion" =>
           Room(nextSection - 1, nextQuestion) /\ e.order <= nextQuestion

\* The handler's checks pass: processCreateFormSection, validateSectionDeletion,
\* validateReorderData, transformCreateDto ...
Check(r) ==
    /\ request[r] = None
    /\ \E e \in Edits : InBounds(e) /\ Accepted(e) /\ request' = [request EXCEPT ![r] = e]
    /\ UNCHANGED <<tables, snapshot>>

\* The sections whose rows the transaction of an edit reads, with their questions.
SectionsRead(e) ==
    {s \in DOMAIN section :
        \/ /\ e.kind = "deleteSection"
           /\ e.section \in DOMAIN section
           /\ section[s].form = section[e.section].form
        \/ e.kind = "reorderSections" /\ s \in DOMAIN e.new
        \/ /\ e.kind = "deleteQuestion"
           /\ e.question \in DOMAIN question
           /\ s = question[e.question].section
        \/ e.kind = "copyForm" /\ section[s].form = e.source}

\* Rows as an edit reads them: only a copy looks at the rules.
Read(rows, Ids, e) ==
    [i \in Ids |-> [rows[i] EXCEPT !.rule = IF e.kind = "copyForm" THEN @ ELSE Always]]

\* The first SELECT of the transaction, which finds the rows it is about.
Begin(r) ==
    LET e == request[r]
        S == SectionsRead(e) IN
    /\ e # None
    /\ snapshot[r] = None
    /\ S # {}
    /\ snapshot' = [snapshot EXCEPT ![r] = [section |-> Read(section, S, e),
                                           question |-> Read(question, QuestionsIn(S), e), missed |-> 0]]
    /\ UNCHANGED <<tables, request>>

Due(r, kind) ==
    /\ request[r] # None
    /\ request[r].kind = kind
    /\ kind \in ReadFirst => snapshot[r] # None

\* Bounds: the other open transactions miss at most MaxMissed commits.
Done(r) ==
    /\ \A o \in Requests \ {r} : snapshot[o] # None => snapshot[o].missed < MaxMissed
    /\ request' = [request EXCEPT ![r] = None]
    /\ snapshot' = [o \in Requests |->
           IF o = r \/ snapshot[o] = None THEN None
                                        ELSE [snapshot[o] EXCEPT !.missed = @ + 1]]

\* createFormSectionWithReorder
CreateSection(r) ==
    LET e == request[r]
        later == Up(section, SectionsOf(e.form), e.order) IN
    /\ Due(r, "createSection")
    /\ LinksExist(e.rule)
    /\ Room(nextSection, nextQuestion - 1)
    /\ section' = Insert(Renumber(section, later), nextSection,
                         [form |-> e.form, order |-> e.order, rule |-> e.rule])
    /\ nextSection' = nextSection + 1
    /\ Done(r)
    /\ UNCHANGED <<question, nextQuestion>>

\* updateFormSection: a row that is gone is not updated, and nobody notices.
UpdateSection(r) ==
    LET e == request[r] IN
    /\ Due(r, "updateSection")
    /\ e.section \in DOMAIN section => LinksExist(e.rule)
    /\ section' = Updated(section, e.section, e.rule)
    /\ Done(r)
    /\ UNCHANGED <<question, nextSection, nextQuestion>>

\* deleteFormSection: the questions, the section, what the foreign keys take
\* along; then the orders of the sections behind the place it was read at, and
\* of all questions the transaction sees in the sections it sees: those of the
\* snapshot that it did not delete, and those it has just moved up.
DeleteSection(r) ==
    LET s == request[r].section
        seen == snapshot[r] IN
    /\ Due(r, "deleteSection")
    /\ LET S == Taken({s} \cap DOMAIN section, {})
           Q == QuestionsIn(S)
           f == seen.section[s].form
           down == Down(section, SectionsOf(f) \ S, seen.section[s].order)
           same == DOMAIN seen.section \ (S \cup DOMAIN down)
           rank == [t \in DOMAIN down \cup same |->
                       IF t \in DOMAIN down THEN down[t] ELSE seen.section[t].order] IN
       /\ Unlinked(S, Q) /\ GoInOrder(s)
       /\ \E pos \in Numberings(DOMAIN rank, rank, seen.question) :
              question' = Renumber(Without(question, Q), pos)
       /\ section' = Renumber(Without(section, S), down)
    /\ Done(r)
    /\ UNCHANGED <<nextSection, nextQuestion>>

\* reorderFormSections: the rows of the array that are still there, if its first
\* one was seen, and the questions seen in these sections.
ReorderSections(r) ==
    LET new == request[r].new
        seen == snapshot[r] IN
    /\ Due(r, "reorderSections")
    /\ section' = Renumber(section, new)
    /\ \E pos \in Numberings(DOMAIN new, new, seen.question) :
           question' = Renumber(question, pos)
    /\ Done(r)
    /\ UNCHANGED <<nextSection, nextQuestion>>

\* QuestionsRepo.create
CreateQuestion(r) ==
    LET e == request[r] IN
    /\ Due(r, "createQuestion")
    /\ e.section \in DOMAIN section
    /\ LinksExist(e.rule)
    /\ Room(nextSection - 1, nextQuestion)
    /\ LET later == Up(question, QuestionsIn(SectionsOf(section[e.section].form)), e.order) IN
       question' = Insert(Renumber(question, later), nextQuestion,
              [section |-> e.section, order |-> e.order, rule |-> e.rule])
    /\ nextQuestion' = nextQuestion + 1
    /\ Done(r)
    /\ UNCHANGED <<section, nextSection>>

\* updateQuestionWithOptions
UpdateQuestion(r) ==
    LET e == request[r] IN
    /\ Due(r, "updateQuestion")
    /\ e.question \in DOMAIN question => LinksExist(e.rule)
    /\ question' = Updated(question, e.question, e.rule)
    /\ Done(r)
    /\ UNCHANGED <<section, nextSection, nextQuestion>>

\* deleteQuestionCompletely: the questions behind the place it was read at move up.
DeleteQuestion(r) ==
    LET q == request[r].question
        seen == snapshot[r] IN
    /\ Due(r, "deleteQuestion")
    /\ LET gone == {q} \cap DOMAIN question
           S == Taken({}, gone)
           Q == gone \cup QuestionsIn(S)
           f == seen.section[seen.question[q].section].form
           left == QuestionsIn(SectionsOf(f)) \ Q IN
       /\ Unlinked(S, Q)
       /\ question' = Renumber(Without(question, Q),
                               Down(question, left, seen.question[q].order))
       /\ section' = Without(section, S)
    /\ Done(r)
    /\ UNCHANGED <<nextSection, nextQuestion>>

\* reorderQuestions
ReorderQuestions(r) ==
    /\ Due(r, "reorderQuestions")
    /\ question' = Renumber(question, request[r].new)
    /\ Done(r)
    /\ UNCHANGED <<section, nextSection, nextQuestion>>

\* The transaction changes nothing: the row is gone, a foreign key objects, the
\* database fails.
NothingWritten(r) ==
    /\ request[r] # None
    /\ request' = [request EXCEPT ![r] = None]
    /\ snapshot' = [snapshot EXCEPT ![r] = None]
    /\ UNCHANGED tables

\* A rule copied, its links mapped to the copies of the rows, or to none.
CopiedRule(rule, newSection, newQuestion) ==
    [conditional |-> rule.conditional,
     section |-> IF rule.section \in DOMAIN newSection THEN newSection[rule.section] ELSE None,
     question |-> IF rule.question \in DOMAIN newQuestion THEN newQuestion[rule.question]
                                                          ELSE None]

\* copySForm: no check but that the source exists.  The copies are those of the
\* rows seen, and keep their orders whatever the target already has.  Which copy
\* gets which of the next ids is left open.
CopyForm(r) ==
    LET e == request[r]
        seen == snapshot[r]
        S == DOMAIN seen.section
        Q == DOMAIN seen.question IN
    /\ Due(r, "copyForm")
    /\ Room(nextSection + Cardinality(S) - 1, nextQuestion + Cardinality(Q) - 1)
    /\ \E newSection \in Bijection(S, nextSection .. nextSection + Cardinality(S) - 1),
          newQuestion \in Bijection(Q, nextQuestion .. nextQuestion + Cardinality(Q) - 1) :
        /\ section' =
            [i \in DOMAIN section \cup Range(newSection) |->
                IF i \in DOMAIN section THEN section[i]
                ELSE LET s == CHOOSE s \in S : newSection[s] = i
                         row == seen.section[s] IN
                     [form |-> e.target, order |-> row.order,
                      rule |-> CopiedRule(row.rule, newSection, newQuestion)]]
        /\ question' =
            [i \in DOMAIN question \cup Range(newQuestion) |->
                IF i \in DOMAIN question THEN question[i]
                ELSE LET q == CHOOSE q \in Q : newQuestion[q] = i
                         row == seen.question[q] IN
                     [section |-> newSection[row.section], order |-> row.order,
                      rule |-> CopiedRule(row.rule, newSection, newQuestion)]]
    /\ nextSection' = nextSection + Cardinality(S)
    /\ nextQuestion' = nextQuestion + Cardinality(Q)
    /\ Done(r)

Write(r) ==
    \/ CreateSection(r) \/ UpdateSection(r) \/ DeleteSection(r) \/ ReorderSections(r)
    \/ CreateQuestion(r) \/ UpdateQuestion(r) \/ DeleteQuestion(r) \/ ReorderQuestions(r)

Next ==
    \E r \in Requests : Check(r) \/ Begin(r) \/ Write(r) \/ CopyForm(r) \/ NothingWritten(r)

Spec == Init /\ [][Next]_vars

----------------------------------------------------------------------------
(* Properties *)

\* Rows that existed, read at most MaxMissed commits ago.
SnapshotOK(seen) ==
    /\ DOMAIN seen.section \subseteq 1 .. nextSection - 1
    /\ seen.section \in [DOMAIN seen.section -> Section]
    /\ DOMAIN seen.question \subseteq 1 .. nextQuestion - 1
    /\ seen.question \in [DOMAIN seen.question -> Question]
    /\ seen.missed \in 0 .. MaxMissed

\* Every variable keeps its type.
TypeOK ==
    /\ DOMAIN section \subseteq 1 .. nextSection - 1
    /\ section \in [DOMAIN section -> Section]
    /\ DOMAIN question \subseteq 1 .. nextQuestion - 1
    /\ question \in [DOMAIN question -> Question]
    /\ nextSection \in 1 .. MaxSections + 1
    /\ nextQuestion \in 1 .. MaxQuestions + 1
    /\ request \in [Requests -> Edits \cup {None}]
    /\ snapshot \in [Requests -> Range(snapshot)]
    /\ \A r \in Requests : snapshot[r] # None => SnapshotOK(snapshot[r])

\* What a section depends on is there: a conditional rule has both links, to a
\* section of the same form and to a question of that section, and an
\* unconditional one has none, although nothing is locked between the check and
\* the write, rows vanish by cascade, and a copy keeps only the links it can map
\* (processCreateFormSection, processUpdateFormSection, updateFormSection,
\* copyForm, the foreign keys).
SectionRulesHaveTargets ==
    \A s \in DOMAIN section :
        LET rule == section[s].rule IN
        /\ rule.conditional =>
            /\ rule.section \in SectionsOf(section[s].form)
            /\ rule.question \in QuestionsIn({rule.section})
        /\ ~rule.conditional => rule = Always

\* Every question is in a section.  A conditional rule is linked to a section of
\* the question's form, and to a question that is there or, in a copy, to none.
QuestionRulesStayInForm ==
    \A q \in DOMAIN question :
        LET rule == question[q].rule IN
        /\ question[q].section \in DOMAIN section
        /\ rule.conditional =>
            /\ rule.section \in SectionsOf(FormOf(q))
            /\ rule.question \in DOMAIN question \cup {None}
        /\ ~rule.conditional => rule = Always

\* Parts of what the checks are there to keep.
SectionsDistinct ==
    \A s, t \in DOMAIN section :
        s # t /\ section[s].form = section[t].form => section[s].order # section[t].order

QuestionsDistinct ==
    \A p, q \in DOMAIN question :
        p # q /\ FormOf(p) = FormOf(q) => question[p].order # question[q].order

QuestionsFollowSections ==
    \A p, q \in DOMAIN question :
        /\ FormOf(p) = FormOf(q)
        /\ section[question[p].section].order < section[question[q].section].order
            => question[p].order < question[q].order

SectionRulesPointBack ==
    \A s \in DOMAIN section :
        LET rule == section[s].rule IN
        rule.section \in DOMAIN section => section[rule.section].order < section[s].order

QuestionRulesPointBack ==
    \A q \in DOMAIN question :
        LET rule == question[q].rule IN
        rule.question \in DOMAIN question /\ FormOf(q) = FormOf(rule.question)
            => question[rule.question].order < question[q].order

\* The row an edit deletes is still where its transaction read it.
RowCurrent(r) ==
    LET e == request[r]
        seen == snapshot[r] IN
    /\ e.kind = "deleteSection" =>
        /\ e.section \in DOMAIN section
        /\ section[e.section].order = seen.section[e.section].order
    /\ e.kind = "deleteQuestion" =>
        /\ e.question \in DOMAIN question
        /\ question[e.question].order = seen.question[e.question].order

SameOrders(rows, Ids, seen) ==
    Ids = DOMAIN seen /\ \A i \in Ids : rows[i].order = seen[i].order

\* Where an edit numbers questions through, the rows and orders are those it has read.
NumbersCurrent(r) ==
    LET S == SectionsRead(request[r])
        seen == snapshot[r] IN
    request[r].kind \in {"deleteSection", "reorderSections"} =>
        /\ SameOrders(section, S, seen.section)
        /\ SameOrders(question, QuestionsIn(S), seen.question)

\* The checks are enough, unless a transaction works on places that are stale: an
\* edit that would still be accepted when it is written, and whose own row has not
\* moved since its transaction read it, keeps the orders of sections distinct; if
\* besides no question has moved since it read them, it keeps the orders of
\* questions distinct; and it leaves every rule pointing back, to what the
\* candidate answers before (deleteFormSection, deleteQuestionCompletely and
\* reorderFormSections work with orders they have read before others commit).  A
\* copy into a form with sections may have made the orders equal before; and three
\* gaps are in the code: a reorder of sections (validateReorderData compares with
\* the old order and ignores the rules of questions), and for questions a form in
\* which they are not in the order of its sections, which a creation may bring
\* about.
ChecksSuffice ==
    [][\A r \in Requests :
        Write(r) /\ Accepted(request[r]) /\ RowCurrent(r) /\ SectionsDistinct =>
            /\ SectionsDistinct'
            /\ request[r].kind # "reorderSections" /\ SectionRulesPointBack
                   => SectionRulesPointBack'
            /\ NumbersCurrent(r) /\ QuestionsDistinct /\ QuestionsFollowSections =>
                /\ QuestionsDistinct'
                /\ request[r].kind # "reorderSections" /\ QuestionRulesPointBack
                       => QuestionRulesPointBack']_vars
=============================================================================
