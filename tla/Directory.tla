----------------------------- MODULE Directory -----------------------------
(***************************************************************************)
(* What administrators maintain and the mailing cron goes by: the forms of *)
(* the processes, each with the question whose answer says who the form is *)
(* mailed to, the kinds of these questions, and the ministers of the       *)
(* fields.                                                                 *)
(*                                                                         *)
(* A request is checked against what its queries find and written later.   *)
(* The import of ministers is one transaction: it goes on reading the      *)
(* tables as they were at its first query, but deactivates the rows that   *)
(* are there when it gets to them.  Unions only group the fields and are   *)
(* left out; the telephones, the mail addresses and the secretary of a     *)
(* minister are one value.                                                 *)
(***************************************************************************)
EXTENDS Naturals, FiniteSetsExt, SequencesExt

CONSTANTS
    Requests,       \* numbered slots for requests of administrators
    Processes,      \* ids of the processes: numbers, as those of the forms
    MaxForms,       \* bound on the forms ever created
    Questions,      \* questions that exist throughout
    FirstKind,      \* the kind each of them has at first
    Replied,        \* the questions that candidates had answered by then
    FieldNames,     \* names and acronyms of fields
    Acronyms,
    MinisterNames,  \* numbers, for their order
    Contacts,       \* what is known of a minister, an address among it
    NoContact,      \* ... or no address
    Files,          \* the files of ministers there are to import
    None,           \* SQL NULL
    MaxEdits        \* bound on the requests of administrators

Kinds == {"email", "fields", "other"}
Types == {"candidate", "ministerial", "normal"}
FormIds == 1 .. MaxForms
Persons == [name : MinisterNames, contact : Contacts \cup {NoContact}]

\* A line of a file: a field and, perhaps, its minister.
Lines == [name : FieldNames, acronym : Acronyms, minister : Persons \cup {None}]

ASSUME DirectoryAssumption ==
    /\ Requests \subseteq Nat /\ Processes \subseteq Nat /\ MaxForms \in Nat /\ MaxEdits \in Nat
    /\ FirstKind \in [Questions -> Kinds] /\ Replied \subseteq Questions
    /\ MinisterNames \subseteq Nat
    /\ Files \subseteq Seq(Lines)
    /\ None \notin Questions /\ None \notin Persons /\ NoContact \notin Contacts

VARIABLES
    form,           \* table SForms: the rows by id
    nextForm,
    answered,       \* the forms somebody has answered
    kind,           \* table Questions: questionType
    field,          \* table Fields, by id
    minister,       \* table Ministerials, by id
    request,        \* the edit of each slot that is checked and not written
    edits,          \* requests so far
    raced           \* an edit was written that would no longer be accepted

directoryVars ==
    <<form, nextForm, answered, kind, field, minister, request, edits, raced>>

Form == [process : Processes, type : Types, question : Questions \cup {None}]
Field == [name : FieldNames, acronym : Acronyms]

\* byHand: an administrator ticked it as active, no import did.
Minister == [name : MinisterNames, contact : Contacts \cup {NoContact},
             field : Nat, active : BOOLEAN, byHand : BOOLEAN]

Active == {m \in DOMAIN minister : minister[m].active}

----------------------------------------------------------------------------
(* The import of a file *)

PersonOf(row) == [name |-> row.name, contact |-> row.contact]

\* What a transaction reads from its first query on: the fields by their ids, the
\* ministers by id.
Reading == [fields |-> DOMAIN field, ministers |-> [m \in DOMAIN minister |-> PersonOf(minister[m])]]

\* What a transaction works on: the tables it writes and what it reads of them.
View(reads) == [field |-> field, minister |-> minister, reads |-> reads]

\* The fields that have the name or the acronym of a line, in whatever union.
Matching(view, line) ==
    {f \in view.reads.fields : \/ view.field[f].name = line.name
                               \/ view.field[f].acronym = line.acronym}

\* The first of them, or a new row.
FieldFor(view, line) ==
    IF Matching(view, line) = {} THEN Len(view.field) + 1 ELSE Min(Matching(view, line))

WithField(view, line) ==
    IF Matching(view, line) # {} THEN view
    ELSE [view EXCEPT !.field = Append(view.field, [name |-> line.name, acronym |-> line.acronym]),
                      !.reads.fields = view.reads.fields \cup {FieldFor(view, line)}]

\* compareMinisterialData: some row has the name and all the data, in whatever
\* field it is and whether or not it is active.
Known(view, person) == person \in Range(view.reads.ministers)

NewRow(f, person) == [name |-> person.name, contact |-> person.contact, field |-> f,
                      active |-> TRUE, byHand |-> FALSE]

\* The ministers of field f are deactivated and the new one is inserted; the
\* transaction now reads what it has written.
\* Mutant: only an earlier row of the same person is deactivated.
ReplacedSameName(view, f, person) ==
    LET gone == {m \in DOMAIN view.minister :
                    /\ view.minister[m].field = f /\ view.minister[m].active
                    /\ view.minister[m].name = person.name}
        rows == [m \in DOMAIN view.minister |->
                    IF m \in gone
                    THEN [view.minister[m] EXCEPT !.active = FALSE, !.byHand = FALSE]
                    ELSE view.minister[m]] IN
    [view EXCEPT
        !.minister = Append(rows, NewRow(f, person)),
        !.reads.ministers = (Len(rows) + 1 :> person)
                                @@ [m \in gone |-> PersonOf(rows[m])] @@ view.reads.ministers]

\* Mutant: the new row is inserted first and deactivated with the others.
ReplacedInsertFirst(view, f, person) ==
    LET rows == Append(view.minister, NewRow(f, person)) IN
    [view EXCEPT
        !.minister = [m \in DOMAIN rows |->
                         IF rows[m].field = f
                         THEN [rows[m] EXCEPT !.active = FALSE, !.byHand = FALSE]
                         ELSE rows[m]],
        !.reads.ministers = (Len(rows) :> person) @@ view.reads.ministers]

Replaced(view, f, person) ==
    LET gone == {m \in DOMAIN view.minister :
                    view.minister[m].field = f /\ view.minister[m].active}
        rows == [m \in DOMAIN view.minister |->
                    IF m \in gone
                    THEN [view.minister[m] EXCEPT !.active = FALSE, !.byHand = FALSE]
                    ELSE view.minister[m]] IN
    [view EXCEPT
        !.minister = Append(rows, NewRow(f, person)),
        !.reads.ministers = (Len(rows) + 1 :> person)
                                @@ [m \in gone |-> PersonOf(rows[m])] @@ view.reads.ministers]

\* Mutant: the field of a new minister is not inserted.
ImportLineWithoutField(view, line) ==
    IF line.minister = None THEN WithField(view, line)
    ELSE IF Known(view, line.minister) THEN view
    ELSE Replaced(view, FieldFor(view, line), line.minister)

ImportLine(view, line) ==
    LET found == WithField(view, line) IN
    IF line.minister = None \/ Known(found, line.minister) THEN found
    ELSE Replaced(found, FieldFor(view, line), line.minister)

\* The lines of a file are taken one after the other.
ImportAll(view, file) ==
    LET after[n \in 0 .. Len(file)] ==
            IF n = 0 THEN view ELSE ImportLine(after[n - 1], file[n]) IN
    after[Len(file)]

Imported(reads, file) == ImportAll(View(reads), file)

----------------------------------------------------------------------------
(* Edits and their checks *)

Edits ==
    UNION {
        [kind : {"createForm"}, process : Processes, type : Types,
         question : Questions \cup {None}],
        [kind : {"updateForm"}, form : FormIds, type : Types, question : Questions \cup {None}],
        [kind : {"deleteForm"}, form : FormIds],
        [kind : {"updateQuestion"}, question : Questions, to : Kinds]}

FormsOfProcess(p) == {f \in DOMAIN form : form[f].process = p}

\* The question that names the recipient: none for the candidate's own form, one
\* of the right kind for the others.
QuestionFits(type, q) ==
    \/ type = "candidate" /\ q = None
    \/ type = "normal" /\ q \in Questions /\ kind[q] = "email"
    \/ type = "ministerial" /\ q \in Questions /\ kind[q] = "fields"

\* No other of the forms F is the candidate's own one, or the minister's.
OneOfAType(type, F) == type # "normal" => \A f \in F : form[f].type # type

\* validateUpdateQuestion: a question that was for an address and is used stays
\* one; a question for a field is not looked at.
\* Mutant: whether a form uses the question is not looked at.
KindMayChangeAnyway(q, to) == TRUE

KindMayChange(q, to) ==
    kind[q] = "email" /\ to # "email" => \A f \in DOMAIN form : form[f].question # q

\* hasAnswersForForm
HasAnswers(f) == f \in answered

\* An answered question is not edited any more; one that is answered later stays
\* open here.  The forms of a process are looked up by the id of the form, on an update.
Accepted(e) ==
    \/ /\ e.kind = "createForm"
       /\ QuestionFits(e.type, e.question)
       /\ OneOfAType(e.type, FormsOfProcess(e.process))
    \/ /\ e.kind = "updateForm"
       /\ ~HasAnswers(e.form)
       /\ QuestionFits(e.type, e.question)
       /\ OneOfAType(e.type, FormsOfProcess(e.form) \ {e.form})
    \/ e.kind = "deleteForm" /\ ~HasAnswers(e.form)
    \/ /\ e.kind = "updateQuestion"
       /\ e.question \notin Replied
       /\ KindMayChange(e.question, e.to)

----------------------------------------------------------------------------
(* Requests *)

\* The tables when the cron begins: the forms and which of them somebody has
\* answered; a first file of ministers has been imported.
DirectoryInit(forms, filled, file) ==
    /\ form = forms /\ nextForm = Cardinality(DOMAIN forms) + 1
    /\ answered = filled
    /\ kind = FirstKind
    /\ LET nothing == [field |-> <<>>, minister |-> <<>>,
                       reads |-> [fields |-> {}, ministers |-> <<>>]]
           first == ImportAll(nothing, file) IN
       field = first.field /\ minister = first.minister
    /\ request = [r \in Requests |-> None]
    /\ edits = 0
    /\ raced = FALSE

\* A request takes the first slot that is free; which one makes no difference.
Free(r) == request[r] = None /\ \A q \in Requests : q < r => request[q] # None

AskEdit(r) ==
    /\ Free(r) /\ edits < MaxEdits
    /\ \E e \in Edits :
        /\ Accepted(e)
        /\ e.kind = "createForm" => nextForm <= MaxForms
        /\ request' = [request EXCEPT ![r] = e]
    /\ edits' = edits + 1
    /\ UNCHANGED <<form, nextForm, answered, kind, field, minister, raced>>

Due(r, k) == request[r] # None /\ request[r].kind = k

Done(r) == request' = [request EXCEPT ![r] = None]

\* Remembered: whether the edit would still be accepted.
Judge(r) == raced' = (raced \/ ~Accepted(request[r]))

CreateForm(r) ==
    LET e == request[r] IN
    /\ Due(r, "createForm") /\ nextForm <= MaxForms
    /\ form' = [f \in DOMAIN form \cup {nextForm} |->
                   IF f = nextForm
                   THEN [process |-> e.process, type |-> e.type, question |-> e.question]
                   ELSE form[f]]
    /\ nextForm' = nextForm + 1
    /\ Done(r) /\ Judge(r)
    /\ UNCHANGED <<answered, kind, field, minister, edits>>

\* transformUpdateDto: a form that is not normal loses its question.
QuestionWritten(type, q) == IF type = "normal" THEN q ELSE None

UpdateForm(r) ==
    LET e == request[r] IN
    /\ Due(r, "updateForm")
    /\ form' = [f \in DOMAIN form |->
                   IF f = e.form
                   THEN [form[f] EXCEPT !.type = e.type,
                                        !.question = QuestionWritten(e.type, e.question)]
                   ELSE form[f]]
    /\ Done(r) /\ Judge(r)
    /\ UNCHANGED <<nextForm, answered, kind, field, minister, edits>>

\* ... unless a foreign key refers to the form: the rows F of candidates do.
DeleteForm(r, F) ==
    LET f == request[r].form IN
    /\ Due(r, "deleteForm") /\ f \notin F
    /\ form' = [g \in DOMAIN form \ {f} |-> form[g]]
    /\ Done(r) /\ Judge(r)
    /\ UNCHANGED <<nextForm, answered, kind, field, minister, edits>>

UpdateQuestion(r) ==
    LET e == request[r] IN
    /\ Due(r, "updateQuestion")
    /\ kind' = [kind EXCEPT ![e.question] = e.to]
    /\ Done(r) /\ Judge(r)
    /\ UNCHANGED <<form, nextForm, answered, field, minister, edits>>

\* createMinisterialsWithTransaction, from its first query ...
BeginImport(r) ==
    /\ Free(r) /\ edits < MaxEdits
    /\ \E file \in Files :
        request' = [request EXCEPT ![r] = [kind |-> "import", file |-> file, reads |-> Reading]]
    /\ edits' = edits + 1
    /\ UNCHANGED <<form, nextForm, answered, kind, field, minister, raced>>

\* ... to the commit; its row locks make it wait for one that wrote before.
CommitImport(r) ==
    /\ Due(r, "import")
    /\ LET after == Imported(request[r].reads, request[r].file) IN
       field' = after.field /\ minister' = after.minister
    /\ Done(r)
    /\ UNCHANGED <<form, nextForm, answered, kind, edits, raced>>

\* updateMinisterial: one statement, without a look at the other rows.
UpdateMinister(m, person, tick) ==
    /\ edits < MaxEdits
    /\ LET row == [minister[m] EXCEPT !.name = person.name, !.contact = person.contact] IN
       minister' = [minister EXCEPT ![m] =
           IF tick = None THEN row ELSE [row EXCEPT !.active = tick, !.byHand = tick]]
    /\ edits' = edits + 1
    /\ UNCHANGED <<form, nextForm, answered, kind, field, request, raced>>

\* The row is gone, a foreign key objects, two imports deadlock, the database fails.
NothingWritten(r) ==
    /\ request[r] # None
    /\ Done(r)
    /\ UNCHANGED <<form, nextForm, answered, kind, field, minister, edits, raced>>

DirectoryNext(F) ==
    \/ \E r \in Requests :
        \/ AskEdit(r) \/ CreateForm(r) \/ UpdateForm(r) \/ DeleteForm(r, F)
        \/ UpdateQuestion(r) \/ BeginImport(r) \/ CommitImport(r) \/ NothingWritten(r)
    \/ \E m \in DOMAIN minister, person \in Persons, tick \in BOOLEAN \cup {None} :
           UpdateMinister(m, person, tick)

----------------------------------------------------------------------------
(* Properties *)

DirectoryTypeOK ==
    /\ DOMAIN form \subseteq 1 .. nextForm - 1
    /\ form \in [DOMAIN form -> Form]
    /\ nextForm \in 1 .. MaxForms + 1
    /\ answered \subseteq FormIds
    /\ kind \in [Questions -> Kinds]
    /\ field \in Seq(Field)
    /\ minister \in Seq(Minister)
    /\ \A m \in DOMAIN minister : minister[m].field \in DOMAIN field
    /\ edits \in 0 .. MaxEdits
    /\ raced \in BOOLEAN

\* Whatever files are imported, also at once, a field has at most one active
\* minister, besides those an administrator activated by hand: an import
\* deactivates the rows that are there, not those it knew at its first query
\* (createMinisterialsWithTransaction).
OneMinisterPerField ==
    \A m, n \in Active :
        minister[m].field = minister[n].field /\ ~minister[m].byHand /\ ~minister[n].byHand
            => m = n

\* Only an administrator takes a minister out of office without a successor: an
\* import that does has one in office in the same field when it commits, even if
\* later lines of the file replace him in turn, and whatever others imported
\* since it began (createMinisterialsWithTransaction).
ReplacedBySuccessor ==
    [][\A m \in Active \ Active' :
          \/ edits' # edits
          \/ \E n \in Active' \ DOMAIN minister :
                minister'[n].field = minister[m].field]_directoryVars

\* Unless edits raced, a normal form is mailed to the answer to a question for an
\* address, however forms and questions are edited in between, and the
\* candidate's own form to nobody's answer (validateCreateDto, validateUpdateDto,
\* validateUpdateQuestion, transformUpdateDto).
RecipientQuestionFits ==
    ~raced => \A f \in DOMAIN form :
        /\ form[f].type = "normal" =>
               form[f].question \in Questions /\ kind[form[f].question] = "email"
        /\ form[f].type = "candidate" => form[f].question = None
=============================================================================
