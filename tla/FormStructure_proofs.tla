------------------------ MODULE FormStructure_proofs ------------------------
(***************************************************************************)
(* Theorems about FormStructure, for any forms, requests and bounds:       *)
(* types, the links of the display rules, and that the checks suffice.     *)
(***************************************************************************)
EXTENDS FormStructure, FiniteSetTheorems, TLAPS

SectionCreation ==
    [kind : {"createSection"}, form : Forms, order : Orders, rule : Requested]
SectionUpdate == [kind : {"updateSection"}, section : SectionIds, rule : Requested]
SectionDeletion == [kind : {"deleteSection"}, section : SectionIds]
SectionReorder == [kind : {"reorderSections"}, new : Renumbering(SectionIds)]
QuestionCreation ==
    [kind : {"createQuestion"}, section : SectionIds, order : Orders, rule : Requested]
QuestionUpdate == [kind : {"updateQuestion"}, question : QuestionIds, rule : Requested]
QuestionDeletion == [kind : {"deleteQuestion"}, question : QuestionIds]
QuestionReorder == [kind : {"reorderQuestions"}, new : Renumbering(QuestionIds)]
FormCopy == [kind : {"copyForm"}, source : Forms, target : Forms]

\* The kind of an edit tells which fields it has.
LEMMA EditShape ==
    ASSUME NEW e \in Edits
    PROVE /\ e.kind = "createSection" => e \in SectionCreation
          /\ e.kind = "updateSection" => e \in SectionUpdate
          /\ e.kind = "deleteSection" => e \in SectionDeletion
          /\ e.kind = "reorderSections" => e \in SectionReorder
          /\ e.kind = "createQuestion" => e \in QuestionCreation
          /\ e.kind = "updateQuestion" => e \in QuestionUpdate
          /\ e.kind = "deleteQuestion" => e \in QuestionDeletion
          /\ e.kind = "reorderQuestions" => e \in QuestionReorder
          /\ e.kind = "copyForm" => e \in FormCopy
BY DEF Edits, SectionCreation, SectionUpdate, SectionDeletion, SectionReorder,
       QuestionCreation, QuestionUpdate, QuestionDeletion, QuestionReorder, FormCopy

\* What a request can carry as a rule.
LEMMA RequestedRule ==
    ASSUME NEW rule \in Requested
    PROVE /\ rule \in Rule
          /\ rule.conditional \in BOOLEAN
          /\ rule.conditional => rule.section \in SectionIds /\ rule.question \in QuestionIds
          /\ ~rule.conditional => rule = Always
<1>1. CASE rule = Always
    <2>1. Always.conditional = FALSE /\ Always \in Rule
        BY DEF Always, Rule
    <2> QED
        BY <1>1, <2>1
<1>2. CASE rule \in [conditional : {TRUE}, section : SectionIds, question : QuestionIds]
    <2>1. /\ rule.conditional = TRUE
          /\ rule.section \in SectionIds
          /\ rule.question \in QuestionIds
          /\ rule \in Rule
        BY <1>2 DEF Rule
    <2> QED
        BY <2>1
<1> QED
    BY <1>1, <1>2 DEF Requested

LEMMA AlwaysRule == Always \in Rule /\ Always.conditional = FALSE
BY DEF Rule, Always

\* Renumbering changes orders only.
LEMMA RenumberSections ==
    ASSUME NEW D, NEW rows \in [D -> Section], NEW new,
           \A i \in D \cap DOMAIN new : new[i] \in Nat \ {0}
    PROVE /\ Renumber(rows, new) \in [D -> Section]
          /\ \A i \in D :
              /\ Renumber(rows, new)[i].form = rows[i].form
              /\ Renumber(rows, new)[i].rule = rows[i].rule
              /\ i \in DOMAIN new => Renumber(rows, new)[i].order = new[i]
              /\ i \notin DOMAIN new => Renumber(rows, new)[i] = rows[i]
<1>1. \A i \in D : i \in DOMAIN new => [rows[i] EXCEPT !.order = new[i]] \in Section
    BY DEF Section
<1>2. \A i \in D : rows[i] \in Section
    OBVIOUS
<1> QED
    BY <1>1, <1>2 DEF Renumber, Section

LEMMA RenumberQuestions ==
    ASSUME NEW D, NEW rows \in [D -> Question], NEW new,
           \A i \in D \cap DOMAIN new : new[i] \in Nat \ {0}
    PROVE /\ Renumber(rows, new) \in [D -> Question]
          /\ \A i \in D :
              /\ Renumber(rows, new)[i].section = rows[i].section
              /\ Renumber(rows, new)[i].rule = rows[i].rule
              /\ i \in DOMAIN new => Renumber(rows, new)[i].order = new[i]
              /\ i \notin DOMAIN new => Renumber(rows, new)[i] = rows[i]
<1>1. \A i \in D : i \in DOMAIN new => [rows[i] EXCEPT !.order = new[i]] \in Question
    BY DEF Question
<1>2. \A i \in D : rows[i] \in Question
    OBVIOUS
<1> QED
    BY <1>1, <1>2 DEF Renumber, Question

\* Increments and decrements leave orders positive.
LEMMA UpPositive ==
    ASSUME NEW rows, NEW Ids, NEW order, \A i \in Ids : rows[i].order \in Nat \ {0}
    PROVE /\ DOMAIN Up(rows, Ids, order) \subseteq Ids
          /\ \A i \in DOMAIN Up(rows, Ids, order) : Up(rows, Ids, order)[i] \in Nat \ {0}
BY DEF Up

LEMMA DownPositive ==
    ASSUME NEW rows, NEW Ids, NEW order \in Nat \ {0}, \A i \in Ids : rows[i].order \in Nat \ {0}
    PROVE /\ DOMAIN Down(rows, Ids, order) \subseteq Ids
          /\ \A i \in DOMAIN Down(rows, Ids, order) : Down(rows, Ids, order)[i] \in Nat \ {0}
BY DEF Down


LEMMA WithoutRows ==
    ASSUME NEW D, NEW T, NEW rows \in [D -> T], NEW Ids
    PROVE /\ Without(rows, Ids) \in [D \ Ids -> T]
          /\ \A i \in D \ Ids : Without(rows, Ids)[i] = rows[i]
BY DEF Without

\* What goes with some sections and questions is closed under the cascades.
LEMMA TakenClosed ==
    ASSUME NEW S \in SUBSET DOMAIN section, NEW Q
    PROVE /\ S \subseteq Taken(S, Q)
          /\ Taken(S, Q) \subseteq DOMAIN section
          /\ Cascades(Taken(S, Q), Q)
<1>1. S \subseteq Taken(S, Q) /\ Taken(S, Q) \subseteq DOMAIN section
    BY DEF Taken
<1>2. ASSUME NEW t \in DOMAIN section,
             \/ section[t].rule.section \in Taken(S, Q)
             \/ section[t].rule.question \in Q \cup QuestionsIn(Taken(S, Q))
      PROVE t \in Taken(S, Q)
    <2>1. SUFFICES ASSUME NEW T \in SUBSET DOMAIN section, S \subseteq T, Cascades(T, Q)
                   PROVE t \in T
        BY DEF Taken
    <2>2. Taken(S, Q) \subseteq T
        BY <2>1 DEF Taken
    <2>3. QuestionsIn(Taken(S, Q)) \subseteq QuestionsIn(T)
        BY <2>2 DEF QuestionsIn
    <2> QED
        BY <1>2, <2>1, <2>2, <2>3 DEF Cascades
<1> QED
    BY <1>1, <1>2 DEF Cascades

\* The rows of the two tables and the sets of questions are finite.
LEMMA FiniteTables ==
    ASSUME TypeOK
    PROVE /\ IsFiniteSet(DOMAIN section)
          /\ IsFiniteSet(DOMAIN question)
          /\ \A S : IsFiniteSet(QuestionsIn(S)) /\ Cardinality(QuestionsIn(S)) \in Nat
          /\ \A f : IsFiniteSet(SectionsOf(f)) /\ Cardinality(SectionsOf(f)) \in Nat
<1>1. /\ nextSection - 1 \in Int /\ nextQuestion - 1 \in Int
      /\ DOMAIN section \subseteq 1 .. nextSection - 1
      /\ DOMAIN question \subseteq 1 .. nextQuestion - 1
    BY BoundsAreNatural DEF TypeOK
<1>2. IsFiniteSet(1 .. nextSection - 1) /\ IsFiniteSet(1 .. nextQuestion - 1)
    BY <1>1, FS_Interval
<1>3. IsFiniteSet(DOMAIN section) /\ IsFiniteSet(DOMAIN question)
    BY <1>1, <1>2, FS_Subset
<1>4. ASSUME NEW S
      PROVE IsFiniteSet(QuestionsIn(S)) /\ Cardinality(QuestionsIn(S)) \in Nat
    <2>1. QuestionsIn(S) \subseteq DOMAIN question
        BY DEF QuestionsIn
    <2> QED
        BY <2>1, <1>3, FS_Subset, FS_CardinalityType
<1>5. ASSUME NEW f
      PROVE IsFiniteSet(SectionsOf(f)) /\ Cardinality(SectionsOf(f)) \in Nat
    <2>1. SectionsOf(f) \subseteq DOMAIN section
        BY DEF SectionsOf
    <2> QED
        BY <2>1, <1>3, FS_Subset, FS_CardinalityType
<1> QED
    BY <1>3, <1>4, <1>5

\* What a transaction has read is finite too.
LEMMA FiniteSnapshot ==
    ASSUME TypeOK, NEW seen, SnapshotOK(seen)
    PROVE /\ IsFiniteSet(DOMAIN seen.section) /\ Cardinality(DOMAIN seen.section) \in Nat
          /\ \A Q \in SUBSET DOMAIN seen.question :
                 IsFiniteSet(Q) /\ Cardinality(Q) \in Nat
<1>1. /\ nextSection - 1 \in Int /\ nextQuestion - 1 \in Int
      /\ DOMAIN seen.section \subseteq 1 .. nextSection - 1
      /\ DOMAIN seen.question \subseteq 1 .. nextQuestion - 1
    BY BoundsAreNatural DEF TypeOK, SnapshotOK
<1>2. IsFiniteSet(1 .. nextSection - 1) /\ IsFiniteSet(1 .. nextQuestion - 1)
    BY <1>1, FS_Interval
<1>3. IsFiniteSet(DOMAIN seen.section) /\ IsFiniteSet(DOMAIN seen.question)
    BY <1>1, <1>2, FS_Subset
<1>4. \A Q \in SUBSET DOMAIN seen.question : IsFiniteSet(Q)
    BY <1>3, FS_Subset
<1> QED
    BY <1>3, <1>4, FS_CardinalityType

\* The questions that rows has in the sections S.
Of(rows, S) == {q \in DOMAIN rows : rows[q].section \in S}

\* Numbering questions through numbers exactly those read in the sections.
LEMMA NumberingsPositive ==
    ASSUME TypeOK, NEW seen, SnapshotOK(seen), NEW S, NEW rank,
           NEW pos \in Numberings(S, rank, seen.question)
    PROVE /\ DOMAIN pos = Of(seen.question, S)
          /\ \A q \in DOMAIN pos : pos[q] \in Nat \ {0}
<1> DEFINE Q == Of(seen.question, S)
<1>1. Q \in SUBSET DOMAIN seen.question
    BY DEF Of
<1>2. Cardinality(Q) \in Nat
    BY <1>1, FiniteSnapshot
<1>3. pos \in [Q -> 1 .. Cardinality(Q)]
    BY DEF Numberings, Bijection, Injection, Of
<1> QED
    BY <1>2, <1>3

----------------------------------------------------------------------------
(* The inductive invariant *)

\* What a checked edit refers to existed when it was checked.  Ids are never
\* used again and no row changes its place, so what is still there when the edit
\* is written is where the check found it.
Traceable(e) ==
    /\ e.kind = "createSection" /\ e.rule.conditional =>
        /\ e.rule.section < nextSection
        /\ e.rule.question < nextQuestion
        /\ e.rule.section \in DOMAIN section => section[e.rule.section].form = e.form
        /\ e.rule.question \in DOMAIN question
               => question[e.rule.question].section = e.rule.section
    /\ e.kind = "updateSection" =>
        /\ e.section < nextSection
        /\ e.rule.conditional =>
            /\ e.rule.section < nextSection
            /\ e.rule.question < nextQuestion
            /\ e.section \in DOMAIN section /\ e.rule.section \in DOMAIN section
                   => section[e.rule.section].form = section[e.section].form
            /\ e.rule.question \in DOMAIN question
                   => question[e.rule.question].section = e.rule.section
    /\ e.kind = "createQuestion" =>
        /\ e.section < nextSection
        /\ e.rule.conditional =>
            /\ e.rule.section < nextSection
            /\ e.section \in DOMAIN section /\ e.rule.section \in DOMAIN section
                   => section[e.rule.section].form = section[e.section].form
    /\ e.kind = "updateQuestion" =>
        /\ e.question < nextQuestion
        /\ e.rule.conditional =>
            /\ e.rule.section < nextSection
            /\ e.question \in DOMAIN question /\ e.rule.section \in DOMAIN section
                   => section[e.rule.section].form = FormOf(e.question)

EditsTraceable == \A r \in Requests : request[r] # None => Traceable(request[r])

\* The rules of the rows a copy has read lead to rows it has read.
RulesSeen(seen) ==
    /\ \A s \in DOMAIN seen.section :
        LET rule == seen.section[s].rule IN
        /\ rule.conditional =>
            /\ rule.section \in DOMAIN seen.section
            /\ rule.question \in DOMAIN seen.question
            /\ seen.question[rule.question].section = rule.section
        /\ ~rule.conditional => rule = Always
    /\ \A q \in DOMAIN seen.question :
        LET rule == seen.question[q].rule IN
        /\ rule.conditional => rule.section \in DOMAIN seen.section
        /\ ~rule.conditional => rule = Always

\* What the transaction of e has read: rows that are, if anywhere, where they were
\* read, and those the edit is about among them.
Remembered(e, seen) ==
    /\ \A s \in DOMAIN seen.section \cap DOMAIN section :
           seen.section[s].form = section[s].form
    /\ \A q \in DOMAIN seen.question :
        /\ seen.question[q].section \in DOMAIN seen.section
        /\ q \in DOMAIN question => seen.question[q].section = question[q].section
    /\ e.kind = "deleteSection" =>
        /\ e.section \in DOMAIN seen.section
        /\ \A s \in DOMAIN seen.section : seen.section[s].form = seen.section[e.section].form
    /\ e.kind = "deleteQuestion" => e.question \in DOMAIN seen.question
    /\ e.kind = "copyForm" => RulesSeen(seen)

ReadsRemembered ==
    \A r \in Requests : snapshot[r] # None =>
        request[r] # None /\ Remembered(request[r], snapshot[r])

Inv ==
    /\ TypeOK
    /\ SectionRulesHaveTargets
    /\ QuestionRulesStayInForm
    /\ EditsTraceable
    /\ ReadsRemembered

\* Rows keep their form and their section, and new ones get new ids.
PlacesKept ==
    /\ nextSection' \in Nat /\ nextSection' >= nextSection
    /\ nextQuestion' \in Nat /\ nextQuestion' >= nextQuestion
    /\ \A s \in DOMAIN section' :
        \/ s \in DOMAIN section /\ section'[s].form = section[s].form
        \/ s \in Nat /\ s >= nextSection
    /\ \A q \in DOMAIN question' :
        \/ q \in DOMAIN question /\ question'[q].section = question[q].section
        \/ q \in Nat /\ q >= nextQuestion

\* What the invariant says of the tables.
TablesOK ==
    /\ DOMAIN section \subseteq 1 .. nextSection - 1
    /\ section \in [DOMAIN section -> Section]
    /\ DOMAIN question \subseteq 1 .. nextQuestion - 1
    /\ question \in [DOMAIN question -> Question]
    /\ nextSection \in 1 .. MaxSections + 1
    /\ nextQuestion \in 1 .. MaxQuestions + 1
    /\ SectionRulesHaveTargets
    /\ QuestionRulesStayInForm

\* An edit stays traceable while others write.
LEMMA TraceableKept ==
    ASSUME Inv, TablesOK', PlacesKept, NEW e \in Edits, Traceable(e)
    PROVE Traceable(e)'
<1>1. /\ nextSection \in Nat /\ nextQuestion \in Nat
      /\ \A s \in DOMAIN section : s \in Nat /\ s < nextSection
      /\ \A q \in DOMAIN question : q \in Nat /\ q < nextQuestion
    BY BoundsAreNatural DEF Inv, TypeOK
<1>2. ASSUME NEW s \in SectionIds, s < nextSection
      PROVE /\ s < nextSection'
            /\ s \in DOMAIN section' =>
                   s \in DOMAIN section /\ section'[s].form = section[s].form
    BY <1>1, <1>2 DEF PlacesKept, SectionIds
<1>3. ASSUME NEW q \in QuestionIds, q < nextQuestion
      PROVE /\ q < nextQuestion'
            /\ q \in DOMAIN question' =>
                   q \in DOMAIN question /\ question'[q].section = question[q].section
    BY <1>1, <1>3 DEF PlacesKept, QuestionIds
<1>4. ASSUME e.kind = "createSection", e.rule.conditional
      PROVE /\ e.rule.section < nextSection'
            /\ e.rule.question < nextQuestion'
            /\ e.rule.section \in DOMAIN section' => section'[e.rule.section].form = e.form
            /\ e.rule.question \in DOMAIN question'
                   => question'[e.rule.question].section = e.rule.section
    <2>1. e.rule \in Requested
        BY <1>4, EditShape DEF SectionCreation
    <2>2. e.rule.section \in SectionIds /\ e.rule.question \in QuestionIds
        BY <1>4, <2>1, RequestedRule
    <2> QED
        BY <1>2, <1>3, <1>4, <2>2 DEF Traceable
<1>5. ASSUME e.kind = "updateSection"
      PROVE /\ e.section < nextSection'
            /\ e.rule.conditional =>
                /\ e.rule.section < nextSection'
                /\ e.rule.question < nextQuestion'
                /\ e.section \in DOMAIN section' /\ e.rule.section \in DOMAIN section'
                       => section'[e.rule.section].form = section'[e.section].form
                /\ e.rule.question \in DOMAIN question'
                       => question'[e.rule.question].section = e.rule.section
    <2>1. e.rule \in Requested /\ e.section \in SectionIds
        BY <1>5, EditShape DEF SectionUpdate
    <2>2. e.rule.conditional => e.rule.section \in SectionIds /\ e.rule.question \in QuestionIds
        BY <2>1, RequestedRule
    <2> QED
        BY <1>2, <1>3, <1>5, <2>1, <2>2 DEF Traceable
<1>6. ASSUME e.kind = "createQuestion"
      PROVE /\ e.section < nextSection'
            /\ e.rule.conditional =>
                /\ e.rule.section < nextSection'
                /\ e.section \in DOMAIN section' /\ e.rule.section \in DOMAIN section'
                       => section'[e.rule.section].form = section'[e.section].form
    <2>1. e.rule \in Requested /\ e.section \in SectionIds
        BY <1>6, EditShape DEF QuestionCreation
    <2>2. e.rule.conditional => e.rule.section \in SectionIds
        BY <2>1, RequestedRule
    <2> QED
        BY <1>2, <1>6, <2>1, <2>2 DEF Traceable
<1>7. ASSUME e.kind = "updateQuestion"
      PROVE /\ e.question < nextQuestion'
            /\ e.rule.conditional =>
                /\ e.rule.section < nextSection'
                /\ e.question \in DOMAIN question' /\ e.rule.section \in DOMAIN section'
                       => section'[e.rule.section].form = FormOf(e.question)'
    <2>1. e.rule \in Requested /\ e.question \in QuestionIds
        BY <1>7, EditShape DEF QuestionUpdate
    <2>2. e.rule.conditional => e.rule.section \in SectionIds
        BY <2>1, RequestedRule
    <2>3. e.question < nextQuestion
        BY <1>7 DEF Traceable
    <2>4. ASSUME e.question \in DOMAIN question'
          PROVE e.question \in DOMAIN question /\ FormOf(e.question)' = FormOf(e.question)
        <3>1. /\ e.question \in DOMAIN question
              /\ question'[e.question].section = question[e.question].section
            BY <1>3, <2>1, <2>3, <2>4
        <3>2. question'[e.question].section \in DOMAIN section'
            BY <2>4 DEF TablesOK, QuestionRulesStayInForm
        <3>3. /\ question[e.question].section \in DOMAIN section
              /\ question[e.question].section \in SectionIds
            BY <3>1 DEF Inv, TypeOK, Question, QuestionRulesStayInForm
        <3>4. section'[question[e.question].section].form
                  = section[question[e.question].section].form
            BY <1>1, <1>2, <3>1, <3>2, <3>3
        <3> QED
            BY <3>1, <3>4 DEF FormOf
    <2> QED
        BY <1>2, <1>3, <1>7, <2>1, <2>2, <2>3, <2>4 DEF Traceable
<1> QED
    BY <1>4, <1>5, <1>6, <1>7 DEF Traceable

----------------------------------------------------------------------------
(* Each write keeps the tables in order *)

LEMMA InvTables == ASSUME Inv PROVE TablesOK
BY DEF Inv, TypeOK, TablesOK

\* The facts of the invariant each write starts from.
LEMMA RowFacts ==
    ASSUME TablesOK
    PROVE /\ nextSection \in Nat \ {0} /\ nextQuestion \in Nat \ {0}
          /\ \A s \in DOMAIN section :
              /\ s \in SectionIds /\ s < nextSection
              /\ section[s] \in Section
              /\ section[s].rule \in Rule
              /\ section[s].form \in Forms
              /\ section[s].order \in Nat \ {0}
          /\ \A q \in DOMAIN question :
              /\ q \in QuestionIds /\ q < nextQuestion
              /\ question[q] \in Question
              /\ question[q].rule \in Rule
              /\ question[q].order \in Nat \ {0}
              /\ question[q].section \in DOMAIN section
<1>1. /\ nextSection \in Nat \ {0} /\ nextQuestion \in Nat \ {0}
      /\ nextSection <= MaxSections + 1 /\ nextQuestion <= MaxQuestions + 1
    BY BoundsAreNatural DEF TablesOK
<1>2. \A s \in DOMAIN section : s \in SectionIds /\ s < nextSection
    BY <1>1, BoundsAreNatural DEF TablesOK, SectionIds
<1>3. \A q \in DOMAIN question : q \in QuestionIds /\ q < nextQuestion
    BY <1>1, BoundsAreNatural DEF TablesOK, QuestionIds
<1> QED
    BY <1>1, <1>2, <1>3 DEF TablesOK, Section, Question, QuestionRulesStayInForm

\* The two invariants of the rules, for one rule of a row of form f.
SectionRuleHolds(rule, f) ==
    /\ rule.conditional =>
        /\ rule.section \in DOMAIN section
        /\ section[rule.section].form = f
        /\ rule.question \in DOMAIN question
        /\ question[rule.question].section = rule.section
    /\ ~rule.conditional => rule = Always

QuestionRuleHolds(rule, f) ==
    /\ rule.conditional =>
        /\ rule.section \in DOMAIN section
        /\ section[rule.section].form = f
        /\ rule.question \in DOMAIN question \cup {None}
    /\ ~rule.conditional => rule = Always

LEMMA RulesHold ==
    /\ SectionRulesHaveTargets <=>
        \A s \in DOMAIN section : SectionRuleHolds(section[s].rule, section[s].form)
    /\ QuestionRulesStayInForm <=>
        \A q \in DOMAIN question :
            /\ question[q].section \in DOMAIN section
            /\ QuestionRuleHolds(question[q].rule, FormOf(q))
BY DEF SectionRulesHaveTargets, QuestionRulesStayInForm, SectionsOf, QuestionsIn,
       SectionRuleHolds, QuestionRuleHolds

\* The types of the tables.
TablesTyped ==
    /\ DOMAIN section \subseteq 1 .. nextSection - 1
    /\ section \in [DOMAIN section -> Section]
    /\ DOMAIN question \subseteq 1 .. nextQuestion - 1
    /\ question \in [DOMAIN question -> Question]
    /\ nextSection \in 1 .. MaxSections + 1
    /\ nextQuestion \in 1 .. MaxQuestions + 1

LEMMA TablesParts ==
    TablesOK <=> TablesTyped /\ SectionRulesHaveTargets /\ QuestionRulesStayInForm
BY DEF TablesOK, TablesTyped

\* No row goes and none changes its place.
RowsStay ==
    /\ \A s \in DOMAIN section :
           s \in DOMAIN section' /\ section'[s].form = section[s].form
    /\ \A q \in DOMAIN question :
           q \in DOMAIN question' /\ question'[q].section = question[q].section

\* What a rule is linked to is there after the step if it was before.
LEMMA RulesStillHold ==
    ASSUME RowsStay, NEW rule, NEW f
    PROVE /\ SectionRuleHolds(rule, f) => SectionRuleHolds(rule, f)'
          /\ QuestionRuleHolds(rule, f) => QuestionRuleHolds(rule, f)'
BY DEF RowsStay, SectionRuleHolds, QuestionRuleHolds

LEMMA TablesGrow ==
    ASSUME TablesOK, TablesTyped', RowsStay,
           \A s \in DOMAIN section' : SectionRuleHolds(section'[s].rule, section'[s].form),
           \A q \in DOMAIN question' :
               /\ question'[q].section \in DOMAIN section'
               /\ QuestionRuleHolds(question'[q].rule, section'[question'[q].section].form)
    PROVE TablesOK'
<1>1. ASSUME NEW s \in DOMAIN section'
      PROVE SectionRuleHolds(section[s].rule, section[s].form)'
    <2>1. PICK rule, f : rule = section'[s].rule /\ f = section'[s].form
        OBVIOUS
    <2>2. SectionRuleHolds(rule, f)
        BY <2>1
    <2>3. SectionRuleHolds(rule, f)'
        BY <2>2, RulesStillHold
    <2> QED
        BY <2>1, <2>3 DEF SectionRuleHolds
<1>2. ASSUME NEW q \in DOMAIN question'
      PROVE QuestionRuleHolds(question[q].rule, FormOf(q))'
    <2>1. PICK rule, f : rule = question'[q].rule /\ f = FormOf(q)'
        OBVIOUS
    <2>2. QuestionRuleHolds(rule, f)
        BY <2>1 DEF FormOf
    <2>3. QuestionRuleHolds(rule, f)'
        BY <2>2, RulesStillHold
    <2> QED
        BY <2>1, <2>3 DEF QuestionRuleHolds
<1>3. SectionRulesHaveTargets' /\ QuestionRulesStayInForm'
    BY <1>1, <1>2 DEF SectionRulesHaveTargets, QuestionRulesStayInForm, SectionsOf,
       QuestionsIn, SectionRuleHolds, QuestionRuleHolds
<1> QED
    BY <1>3 DEF TablesOK, TablesTyped

\* Some sections S and questions Q go, with all that the foreign keys cascade to
\* and unless one restricts.
LEMMA TablesShrink ==
    ASSUME TablesOK, NEW S, NEW Q,
           Cascades(S, Q), Unlinked(S, Q), QuestionsIn(S) \subseteq Q,
           nextSection' = nextSection, nextQuestion' = nextQuestion,
           section' \in [DOMAIN section \ S -> Section],
           \A s \in DOMAIN section \ S :
               section'[s].form = section[s].form /\ section'[s].rule = section[s].rule,
           question' \in [DOMAIN question \ Q -> Question],
           \A q \in DOMAIN question \ Q :
               question'[q].section = question[q].section /\ question'[q].rule = question[q].rule
    PROVE TablesOK' /\ PlacesKept
<1>1. /\ DOMAIN section' = DOMAIN section \ S
      /\ DOMAIN question' = DOMAIN question \ Q
    OBVIOUS
<1>2. TablesTyped'
    BY <1>1, TablesParts DEF TablesTyped
<1>3. PlacesKept
    BY <1>1, RowFacts DEF PlacesKept
<1>4. ASSUME NEW s \in DOMAIN section'
      PROVE SectionRuleHolds(section[s].rule, section[s].form)'
    <2>1. SectionRuleHolds(section[s].rule, section[s].form)
        BY <1>1, RulesHold, TablesParts
    <2>2. section[s].rule.section \notin S /\ section[s].rule.question \notin Q
        BY <1>1, <2>1 DEF Cascades
    <2> QED
        BY <1>1, <2>1, <2>2 DEF SectionRuleHolds
<1>5. ASSUME NEW q \in DOMAIN question'
      PROVE /\ question'[q].section \in DOMAIN section'
            /\ QuestionRuleHolds(question[q].rule, FormOf(q))'
    <2>1. QuestionRuleHolds(question[q].rule, FormOf(q)) /\ question[q].section \in DOMAIN section
        BY <1>1, RulesHold, TablesParts
    <2>2. question[q].rule.section \notin S /\ question[q].rule.question \notin Q
        BY <1>1 DEF Unlinked
    <2>3. question[q].section \notin S
        BY <1>1 DEF QuestionsIn
    <2> QED
        BY <1>1, <2>1, <2>2, <2>3 DEF QuestionRuleHolds, FormOf
<1>6. SectionRulesHaveTargets' /\ QuestionRulesStayInForm'
    BY <1>4, <1>5 DEF SectionRulesHaveTargets, QuestionRulesStayInForm, SectionsOf,
       QuestionsIn, SectionRuleHolds, QuestionRuleHolds
<1> QED
    BY <1>2, <1>3, <1>6 DEF TablesOK, TablesTyped

\* Setting a display rule changes nothing else.
LEMMA UpdatedSections ==
    ASSUME NEW D, NEW rows \in [D -> Section], NEW id, NEW rule \in Requested
    PROVE /\ Updated(rows, id, rule) \in [D -> Section]
          /\ \A i \in D :
              /\ Updated(rows, id, rule)[i].form = rows[i].form
              /\ Updated(rows, id, rule)[i].order = rows[i].order
              /\ i # id => Updated(rows, id, rule)[i] = rows[i]
              /\ i = id => Updated(rows, id, rule)[i].rule = rule
<1>1. rule \in Rule /\ (IF rule.conditional THEN rule ELSE Always) = rule
    BY RequestedRule
<1>2. Updated(rows, id, rule) =
          [i \in D |-> IF i = id THEN [rows[i] EXCEPT !.rule = rule] ELSE rows[i]]
    BY <1>1 DEF Updated
<1>3. \A i \in D : [rows[i] EXCEPT !.rule = rule] \in Section
    BY <1>1 DEF Section
<1>4. \A i \in D : rows[i] \in Section
    OBVIOUS
<1> QED
    BY <1>2, <1>3, <1>4 DEF Section

LEMMA UpdatedQuestions ==
    ASSUME NEW D, NEW rows \in [D -> Question], NEW id, NEW rule \in Requested
    PROVE /\ Updated(rows, id, rule) \in [D -> Question]
          /\ \A i \in D :
              /\ Updated(rows, id, rule)[i].section = rows[i].section
              /\ Updated(rows, id, rule)[i].order = rows[i].order
              /\ i # id => Updated(rows, id, rule)[i] = rows[i]
              /\ i = id => Updated(rows, id, rule)[i].rule = rule
<1>1. rule \in Rule /\ (IF rule.conditional THEN rule ELSE Always) = rule
    BY RequestedRule
<1>2. Updated(rows, id, rule) =
          [i \in D |-> IF i = id THEN [rows[i] EXCEPT !.rule = rule] ELSE rows[i]]
    BY <1>1 DEF Updated
<1>3. \A i \in D : [rows[i] EXCEPT !.rule = rule] \in Question
    BY <1>1 DEF Question
<1>4. \A i \in D : rows[i] \in Question
    OBVIOUS
<1> QED
    BY <1>2, <1>3, <1>4 DEF Question

LEMMA CreateSectionTables ==
    ASSUME Inv, NEW r \in Requests, CreateSection(r)
    PROVE TablesOK' /\ PlacesKept
<1>1. PICK e, later, R, row :
          /\ e = request[r]
          /\ later = Up(section, SectionsOf(e.form), e.order)
          /\ R = Renumber(section, later)
          /\ row = [form |-> e.form, order |-> e.order, rule |-> e.rule]
    OBVIOUS
<1>2. TablesOK
    BY InvTables
<1>3. e \in SectionCreation /\ Traceable(e) /\ e.kind = "createSection"
    BY <1>1, EditShape DEF Inv, TypeOK, EditsTraceable, CreateSection, Due
<1>4. /\ e.rule \in Requested /\ e.rule \in Rule
      /\ e.form \in Forms /\ e.order \in Nat \ {0}
    BY <1>3, RequestedRule, BoundsAreNatural DEF SectionCreation, Orders
<1>5. /\ R \in [DOMAIN section -> Section]
      /\ \A i \in DOMAIN section : R[i].form = section[i].form /\ R[i].rule = section[i].rule
    <2>1. /\ \A i \in SectionsOf(e.form) : section[i].order \in Nat \ {0}
          /\ section \in [DOMAIN section -> Section]
        BY <1>2, RowFacts DEF SectionsOf, TablesOK
    <2>2. \A i \in DOMAIN section \cap DOMAIN later : later[i] \in Nat \ {0}
        BY <1>1, <2>1, UpPositive
    <2> QED
        BY <1>1, <2>1, <2>2, RenumberSections
<1>6. /\ nextSection \notin DOMAIN section /\ row \in Section
      /\ row.form = e.form /\ row.rule = e.rule
    BY <1>1, <1>2, <1>4, RowFacts DEF Section
<1>7. /\ section' = Insert(R, nextSection, row)
      /\ nextSection' = nextSection + 1
      /\ question' = question /\ nextQuestion' = nextQuestion
      /\ nextSection <= MaxSections
      /\ LinksExist(e.rule)
    BY <1>1 DEF CreateSection, Room
<1>8. /\ section' \in [DOMAIN section \cup {nextSection} -> Section]
      /\ section'[nextSection] = row
      /\ \A i \in DOMAIN section : section'[i] = R[i]
    BY <1>5, <1>6, <1>7 DEF Insert
<1>9. DOMAIN section' = DOMAIN section \cup {nextSection}
    BY <1>8
<1>10. PlacesKept
    BY <1>2, <1>5, <1>7, <1>8, <1>9, RowFacts DEF PlacesKept
<1>11. TablesTyped'
    <2>1. /\ nextSection' \in 1 .. MaxSections + 1
          /\ DOMAIN section' \subseteq 1 .. nextSection' - 1
        BY <1>2, <1>7, <1>9, RowFacts, BoundsAreNatural DEF SectionIds
    <2> QED
        BY <1>2, <1>7, <1>8, <1>9, <2>1, TablesParts DEF TablesTyped
<1>12. RowsStay
    BY <1>5, <1>7, <1>8, <1>9 DEF RowsStay
<1>13. SectionRuleHolds(e.rule, e.form)
    <2>1. e.rule.conditional => e.rule.section \in SectionIds /\ e.rule.question \in QuestionIds
        BY <1>4, RequestedRule
    <2> QED
        BY <1>3, <1>4, <1>7, <2>1, RequestedRule, NoneIsNoId
        DEF Traceable, LinksExist, SectionIds, QuestionIds, SectionRuleHolds
<1>14. \A s \in DOMAIN section' : SectionRuleHolds(section'[s].rule, section'[s].form)
    BY <1>2, <1>5, <1>6, <1>8, <1>9, <1>13, RulesHold, TablesParts
<1>15. \A q \in DOMAIN question' :
           /\ question'[q].section \in DOMAIN section'
           /\ QuestionRuleHolds(question'[q].rule, section'[question'[q].section].form)
    BY <1>2, <1>5, <1>7, <1>8, <1>9, RulesHold, TablesParts DEF FormOf
<1> QED
    BY <1>2, <1>10, <1>11, <1>12, <1>14, <1>15, TablesGrow

LEMMA UpdateSectionTables ==
    ASSUME Inv, NEW r \in Requests, UpdateSection(r)
    PROVE TablesOK' /\ PlacesKept
<1>1. PICK e : e = request[r]
    OBVIOUS
<1>2. TablesOK
    BY InvTables
<1>3. e \in SectionUpdate /\ Traceable(e) /\ e.kind = "updateSection"
    BY <1>1, EditShape DEF Inv, TypeOK, EditsTraceable, UpdateSection, Due
<1>4. e.rule \in Requested
    BY <1>3 DEF SectionUpdate
<1>5. /\ section' = Updated(section, e.section, e.rule)
      /\ nextSection' = nextSection
      /\ question' = question /\ nextQuestion' = nextQuestion
      /\ e.section \in DOMAIN section => LinksExist(e.rule)
    BY <1>1 DEF UpdateSection
<1>6. /\ section' \in [DOMAIN section -> Section]
      /\ \A i \in DOMAIN section :
          /\ section'[i].form = section[i].form
          /\ i # e.section => section'[i] = section[i]
          /\ i = e.section => section'[i].rule = e.rule
    <2>1. section \in [DOMAIN section -> Section]
        BY <1>2 DEF TablesOK
    <2> QED
        BY <1>4, <1>5, <2>1, UpdatedSections
<1>7. DOMAIN section' = DOMAIN section
    BY <1>6
<1>8. PlacesKept
    BY <1>2, <1>5, <1>6, <1>7, RowFacts DEF PlacesKept
<1>9. TablesTyped'
    BY <1>2, <1>5, <1>6, <1>7, TablesParts DEF TablesTyped
<1>10. RowsStay
    BY <1>5, <1>6, <1>7 DEF RowsStay
<1>11. e.section \in DOMAIN section => SectionRuleHolds(e.rule, section[e.section].form)
    <2>1. e.rule.conditional => e.rule.section \in SectionIds /\ e.rule.question \in QuestionIds
        BY <1>4, RequestedRule
    <2> QED
        BY <1>3, <1>4, <1>5, <2>1, RequestedRule, NoneIsNoId
        DEF Traceable, LinksExist, SectionIds, QuestionIds, SectionRuleHolds
<1>12. \A s \in DOMAIN section' : SectionRuleHolds(section'[s].rule, section'[s].form)
    BY <1>2, <1>6, <1>7, <1>11, RulesHold, TablesParts
<1>13. \A q \in DOMAIN question' :
           /\ question'[q].section \in DOMAIN section'
           /\ QuestionRuleHolds(question'[q].rule, section'[question'[q].section].form)
    BY <1>2, <1>5, <1>6, <1>7, RulesHold, TablesParts DEF FormOf
<1> QED
    BY <1>2, <1>8, <1>9, <1>10, <1>12, <1>13, TablesGrow

\* What is known of the rows a transaction has read.
LEMMA SeenFacts ==
    ASSUME Inv, NEW r \in Requests, snapshot[r] # None, NEW seen, seen = snapshot[r]
    PROVE /\ SnapshotOK(seen) /\ Remembered(request[r], seen) /\ request[r] \in Edits
          /\ \A s \in DOMAIN seen.section :
              /\ s \in SectionIds /\ s < nextSection
              /\ seen.section[s] \in Section
              /\ seen.section[s].rule \in Rule
              /\ seen.section[s].order \in Nat \ {0}
          /\ \A q \in DOMAIN seen.question :
              /\ q \in QuestionIds /\ q < nextQuestion
              /\ seen.question[q] \in Question
              /\ seen.question[q].rule \in Rule
              /\ seen.question[q].order \in Nat \ {0}
<1>1. SnapshotOK(seen) /\ Remembered(request[r], seen) /\ request[r] \in Edits
    BY DEF Inv, TypeOK, ReadsRemembered
<1>2. /\ nextSection \in 1 .. MaxSections + 1
      /\ nextQuestion \in 1 .. MaxQuestions + 1
    BY DEF Inv, TypeOK
<1>3. \A s \in DOMAIN seen.section : s \in 1 .. nextSection - 1 /\ seen.section[s] \in Section
    BY <1>1 DEF SnapshotOK
<1>4. \A q \in DOMAIN seen.question : q \in 1 .. nextQuestion - 1 /\ seen.question[q] \in Question
    BY <1>1 DEF SnapshotOK
<1>5. \A s \in DOMAIN seen.section : s \in SectionIds /\ s < nextSection
    BY <1>2, <1>3, BoundsAreNatural DEF SectionIds
<1>6. \A q \in DOMAIN seen.question : q \in QuestionIds /\ q < nextQuestion
    BY <1>2, <1>4, BoundsAreNatural DEF QuestionIds
<1> QED
    BY <1>1, <1>3, <1>4, <1>5, <1>6 DEF Section, Question

LEMMA DeleteSectionTables ==
    ASSUME Inv, NEW r \in Requests, DeleteSection(r)
    PROVE TablesOK' /\ PlacesKept
<1>1. PICK s, seen, S, Q, left :
          /\ s = request[r].section
          /\ seen = snapshot[r]
          /\ S = Taken({s} \cap DOMAIN section, {})
          /\ Q = QuestionsIn(S)
          /\ left = SectionsOf(seen.section[s].form) \ S
    OBVIOUS
<1>2. PICK down : down = Down(section, left, seen.section[s].order)
    OBVIOUS
<1>3. TablesOK /\ TypeOK
    BY InvTables DEF Inv
<1>4. /\ seen # None /\ request[r].kind = "deleteSection"
      /\ Unlinked(S, Q)
      /\ section' = Renumber(Without(section, S), down)
      /\ nextSection' = nextSection /\ nextQuestion' = nextQuestion
    BY <1>1, <1>2 DEF DeleteSection, Due, ReadFirst
<1>5. PICK rank : \E pos \in Numberings(DOMAIN rank, rank, seen.question) :
                      question' = Renumber(Without(question, Q), pos)
    BY <1>1 DEF DeleteSection
<1>6. PICK pos \in Numberings(DOMAIN rank, rank, seen.question) :
          question' = Renumber(Without(question, Q), pos)
    BY <1>5
<1>7. Cascades(S, {})
    BY <1>1, TakenClosed
<1>8. Cascades(S, Q)
    BY <1>1, <1>7 DEF Cascades
<1>9. SnapshotOK(seen) /\ seen.section[s].order \in Nat \ {0}
    BY <1>1, <1>4, SeenFacts DEF Remembered
<1>10. /\ section' \in [DOMAIN section \ S -> Section]
       /\ \A t \in DOMAIN section \ S :
              section'[t].form = section[t].form /\ section'[t].rule = section[t].rule
    <2>1. /\ Without(section, S) \in [DOMAIN section \ S -> Section]
          /\ \A t \in DOMAIN section \ S : Without(section, S)[t] = section[t]
        BY <1>3 DEF Without, TablesOK
    <2>2. \A t \in left : section[t].order \in Nat \ {0}
        BY <1>1, <1>3, RowFacts DEF SectionsOf
    <2>3. \A t \in (DOMAIN section \ S) \cap DOMAIN down : down[t] \in Nat \ {0}
        BY <1>2, <1>9, <2>2, DownPositive
    <2> QED
        BY <1>4, <2>1, <2>3, RenumberSections
<1>11. /\ question' \in [DOMAIN question \ Q -> Question]
       /\ \A q \in DOMAIN question \ Q :
              question'[q].section = question[q].section /\ question'[q].rule = question[q].rule
    <2>1. /\ Without(question, Q) \in [DOMAIN question \ Q -> Question]
          /\ \A q \in DOMAIN question \ Q : Without(question, Q)[q] = question[q]
        BY <1>3 DEF Without, TablesOK
    <2>2. \A q \in (DOMAIN question \ Q) \cap DOMAIN pos : pos[q] \in Nat \ {0}
        BY <1>3, <1>9, NumberingsPositive
    <2> QED
        BY <1>6, <2>1, <2>2, RenumberQuestions
<1>12. QuestionsIn(S) \subseteq Q
    BY <1>1
<1> QED
    BY <1>3, <1>4, <1>8, <1>10, <1>11, <1>12, TablesShrink

LEMMA DeleteQuestionTables ==
    ASSUME Inv, NEW r \in Requests, DeleteQuestion(r)
    PROVE TablesOK' /\ PlacesKept
<1>1. PICK q, seen, gone, S, Q, left :
          /\ q = request[r].question
          /\ seen = snapshot[r]
          /\ gone = {q} \cap DOMAIN question
          /\ S = Taken({}, gone)
          /\ Q = gone \cup QuestionsIn(S)
          /\ left = QuestionsIn(SectionsOf(seen.section[seen.question[q].section].form)) \ Q
    OBVIOUS
<1>2. PICK down : down = Down(question, left, seen.question[q].order)
    OBVIOUS
<1>3. TablesOK /\ TypeOK
    BY InvTables DEF Inv
<1>4. /\ seen # None /\ request[r].kind = "deleteQuestion"
      /\ Unlinked(S, Q)
      /\ question' = Renumber(Without(question, Q), down)
      /\ section' = Without(section, S)
      /\ nextSection' = nextSection /\ nextQuestion' = nextQuestion
    BY <1>1, <1>2 DEF DeleteQuestion, Due, ReadFirst
<1>5. Cascades(S, gone)
    BY <1>1, TakenClosed
<1>6. Cascades(S, Q)
    BY <1>1, <1>5 DEF Cascades
<1>7. /\ section' \in [DOMAIN section \ S -> Section]
      /\ \A t \in DOMAIN section \ S :
             section'[t].form = section[t].form /\ section'[t].rule = section[t].rule
    BY <1>3, <1>4 DEF Without, TablesOK
<1>8. /\ question' \in [DOMAIN question \ Q -> Question]
      /\ \A p \in DOMAIN question \ Q :
             question'[p].section = question[p].section /\ question'[p].rule = question[p].rule
    <2>1. /\ Without(question, Q) \in [DOMAIN question \ Q -> Question]
          /\ \A p \in DOMAIN question \ Q : Without(question, Q)[p] = question[p]
        BY <1>3 DEF Without, TablesOK
    <2>2. \A p \in left : question[p].order \in Nat \ {0}
        BY <1>1, <1>3, RowFacts DEF QuestionsIn
    <2>3. seen.question[q].order \in Nat \ {0}
        BY <1>1, <1>4, SeenFacts DEF Remembered
    <2>4. \A p \in (DOMAIN question \ Q) \cap DOMAIN down : down[p] \in Nat \ {0}
        BY <1>2, <2>2, <2>3, DownPositive
    <2> QED
        BY <1>4, <2>1, <2>4, RenumberQuestions
<1>9. QuestionsIn(S) \subseteq Q
    BY <1>1
<1> QED
    BY <1>3, <1>4, <1>6, <1>7, <1>8, <1>9, TablesShrink

\* A step that changes orders only.
LEMMA TablesReordered ==
    ASSUME TablesOK,
           nextSection' = nextSection, nextQuestion' = nextQuestion,
           section' \in [DOMAIN section -> Section],
           \A s \in DOMAIN section :
               section'[s].form = section[s].form /\ section'[s].rule = section[s].rule,
           question' \in [DOMAIN question -> Question],
           \A q \in DOMAIN question :
               question'[q].section = question[q].section /\ question'[q].rule = question[q].rule
    PROVE TablesOK' /\ PlacesKept
<1>1. Cascades({}, {}) /\ Unlinked({}, {}) /\ QuestionsIn({}) \subseteq {}
    BY DEF Cascades, Unlinked, QuestionsIn
<1>2. DOMAIN section \ {} = DOMAIN section /\ DOMAIN question \ {} = DOMAIN question
    OBVIOUS
<1> QED
    BY <1>1, <1>2, TablesShrink

\* The new orders of a reorder request.
LEMMA RenumberingPositive ==
    ASSUME NEW Ids, NEW new \in Renumbering(Ids)
    PROVE \A i \in DOMAIN new : new[i] \in Nat \ {0}
BY BoundsAreNatural DEF Renumbering, Orders

LEMMA ReorderSectionsTables ==
    ASSUME Inv, NEW r \in Requests, ReorderSections(r)
    PROVE TablesOK' /\ PlacesKept
<1>1. PICK e, new, seen :
          e = request[r] /\ new = e.new /\ seen = snapshot[r]
    OBVIOUS
<1>2. TablesOK /\ TypeOK
    BY InvTables DEF Inv
<1>3. e \in SectionReorder /\ seen # None
    BY <1>1, EditShape DEF Inv, TypeOK, ReorderSections, Due, ReadFirst
<1>4. \A i \in DOMAIN new : new[i] \in Nat \ {0}
    BY <1>1, <1>3, RenumberingPositive DEF SectionReorder
<1>5. /\ section' = Renumber(section, new)
      /\ nextSection' = nextSection /\ nextQuestion' = nextQuestion
      /\ \E pos \in Numberings(DOMAIN new, new, seen.question) :
             question' = Renumber(question, pos)
    BY <1>1 DEF ReorderSections
<1>6. PICK pos \in Numberings(DOMAIN new, new, seen.question) :
          question' = Renumber(question, pos)
    BY <1>5
<1>7. SnapshotOK(seen)
    BY <1>1, <1>3, SeenFacts
<1>8. \A q \in DOMAIN question \cap DOMAIN pos : pos[q] \in Nat \ {0}
    BY <1>2, <1>7, NumberingsPositive
<1>9. section \in [DOMAIN section -> Section] /\ question \in [DOMAIN question -> Question]
    BY <1>2 DEF TablesOK
<1>10. /\ section' \in [DOMAIN section -> Section]
       /\ \A s \in DOMAIN section :
              section'[s].form = section[s].form /\ section'[s].rule = section[s].rule
    BY <1>4, <1>5, <1>9, RenumberSections
<1>11. /\ question' \in [DOMAIN question -> Question]
       /\ \A q \in DOMAIN question :
              question'[q].section = question[q].section /\ question'[q].rule = question[q].rule
    BY <1>6, <1>8, <1>9, RenumberQuestions
<1> QED
    BY <1>2, <1>5, <1>10, <1>11, TablesReordered

LEMMA ReorderQuestionsTables ==
    ASSUME Inv, NEW r \in Requests, ReorderQuestions(r)
    PROVE TablesOK' /\ PlacesKept
<1>1. PICK e, new : e = request[r] /\ new = e.new
    OBVIOUS
<1>2. TablesOK
    BY InvTables
<1>3. e \in QuestionReorder
    BY <1>1, EditShape DEF Inv, TypeOK, ReorderQuestions, Due
<1>4. \A i \in DOMAIN new : new[i] \in Nat \ {0}
    BY <1>1, <1>3, RenumberingPositive DEF QuestionReorder
<1>5. /\ question' = Renumber(question, new)
      /\ section' = section
      /\ nextSection' = nextSection /\ nextQuestion' = nextQuestion
    BY <1>1 DEF ReorderQuestions
<1>6. section \in [DOMAIN section -> Section] /\ question \in [DOMAIN question -> Question]
    BY <1>2 DEF TablesOK
<1>7. /\ question' \in [DOMAIN question -> Question]
      /\ \A q \in DOMAIN question :
             question'[q].section = question[q].section /\ question'[q].rule = question[q].rule
    BY <1>4, <1>5, <1>6, RenumberQuestions
<1> QED
    BY <1>2, <1>5, <1>6, <1>7, TablesReordered

LEMMA CreateQuestionTables ==
    ASSUME Inv, NEW r \in Requests, CreateQuestion(r)
    PROVE TablesOK' /\ PlacesKept
<1>1. PICK e, later, R, row :
          /\ e = request[r]
          /\ later = Up(question, QuestionsIn(SectionsOf(section[e.section].form)), e.order)
          /\ R = Renumber(question, later)
          /\ row = [section |-> e.section, order |-> e.order, rule |-> e.rule]
    OBVIOUS
<1>2. TablesOK
    BY InvTables
<1>3. e \in QuestionCreation /\ Traceable(e) /\ e.kind = "createQuestion"
    BY <1>1, EditShape DEF Inv, TypeOK, EditsTraceable, CreateQuestion, Due
<1>4. /\ e.rule \in Requested /\ e.rule \in Rule
      /\ e.section \in SectionIds /\ e.order \in Nat \ {0}
    BY <1>3, RequestedRule, BoundsAreNatural DEF QuestionCreation, Orders
<1>5. /\ R \in [DOMAIN question -> Question]
      /\ \A i \in DOMAIN question :
             R[i].section = question[i].section /\ R[i].rule = question[i].rule
    <2>1. PICK Ids : later = Up(question, Ids, e.order) /\ Ids \subseteq DOMAIN question
        BY <1>1 DEF QuestionsIn
    <2>2. /\ \A i \in Ids : question[i].order \in Nat \ {0}
          /\ question \in [DOMAIN question -> Question]
        BY <1>2, <2>1, RowFacts DEF TablesOK
    <2>3. \A i \in DOMAIN question \cap DOMAIN later : later[i] \in Nat \ {0}
        BY <2>1, <2>2, UpPositive
    <2> QED
        BY <1>1, <2>2, <2>3, RenumberQuestions
<1>6. /\ nextQuestion \notin DOMAIN question /\ row \in Question
      /\ row.section = e.section /\ row.rule = e.rule
    BY <1>1, <1>2, <1>4, RowFacts DEF Question
<1>7. /\ question' = Insert(R, nextQuestion, row)
      /\ nextQuestion' = nextQuestion + 1
      /\ section' = section /\ nextSection' = nextSection
      /\ nextQuestion <= MaxQuestions
      /\ e.section \in DOMAIN section
      /\ LinksExist(e.rule)
    BY <1>1 DEF CreateQuestion, Room
<1>8. /\ question' \in [DOMAIN question \cup {nextQuestion} -> Question]
      /\ question'[nextQuestion] = row
      /\ \A i \in DOMAIN question : question'[i] = R[i]
    BY <1>5, <1>6, <1>7 DEF Insert
<1>9. DOMAIN question' = DOMAIN question \cup {nextQuestion}
    BY <1>8
<1>10. PlacesKept
    BY <1>2, <1>5, <1>7, <1>8, <1>9, RowFacts DEF PlacesKept
<1>11. TablesTyped'
    <2>1. /\ nextQuestion' \in 1 .. MaxQuestions + 1
          /\ DOMAIN question' \subseteq 1 .. nextQuestion' - 1
        BY <1>2, <1>7, <1>9, RowFacts, BoundsAreNatural DEF QuestionIds
    <2> QED
        BY <1>2, <1>7, <1>8, <1>9, <2>1, TablesParts DEF TablesTyped
<1>12. RowsStay
    BY <1>5, <1>7, <1>8, <1>9 DEF RowsStay
<1>13. QuestionRuleHolds(e.rule, section[e.section].form)
    <2>1. e.rule.conditional => e.rule.section \in SectionIds /\ e.rule.question \in QuestionIds
        BY <1>4, RequestedRule
    <2> QED
        BY <1>3, <1>4, <1>7, <2>1, RequestedRule, NoneIsNoId
        DEF Traceable, LinksExist, SectionIds, QuestionIds, QuestionRuleHolds
<1>14. \A s \in DOMAIN section' : SectionRuleHolds(section'[s].rule, section'[s].form)
    BY <1>2, <1>7, RulesHold, TablesParts
<1>15. ASSUME NEW q \in DOMAIN question'
       PROVE /\ question'[q].section \in DOMAIN section'
             /\ QuestionRuleHolds(question'[q].rule, section'[question'[q].section].form)
    <2>1. CASE q = nextQuestion
        BY <1>6, <1>7, <1>8, <1>13, <2>1
    <2>2. CASE q \in DOMAIN question
        <3>1. /\ question[q].section \in DOMAIN section
              /\ QuestionRuleHolds(question[q].rule, section[question[q].section].form)
            BY <1>2, <2>2, RulesHold, TablesParts DEF FormOf
        <3> QED
            BY <1>5, <1>7, <1>8, <2>2, <3>1
    <2> QED
        BY <1>9, <2>1, <2>2
<1> QED
    BY <1>2, <1>10, <1>11, <1>12, <1>14, <1>15, TablesGrow

LEMMA UpdateQuestionTables ==
    ASSUME Inv, NEW r \in Requests, UpdateQuestion(r)
    PROVE TablesOK' /\ PlacesKept
<1>1. PICK e : e = request[r]
    OBVIOUS
<1>2. TablesOK
    BY InvTables
<1>3. e \in QuestionUpdate /\ Traceable(e) /\ e.kind = "updateQuestion"
    BY <1>1, EditShape DEF Inv, TypeOK, EditsTraceable, UpdateQuestion, Due
<1>4. e.rule \in Requested
    BY <1>3 DEF QuestionUpdate
<1>5. /\ question' = Updated(question, e.question, e.rule)
      /\ nextSection' = nextSection
      /\ section' = section /\ nextQuestion' = nextQuestion
      /\ e.question \in DOMAIN question => LinksExist(e.rule)
    BY <1>1 DEF UpdateQuestion
<1>6. /\ question' \in [DOMAIN question -> Question]
      /\ \A i \in DOMAIN question :
          /\ question'[i].section = question[i].section
          /\ i # e.question => question'[i] = question[i]
          /\ i = e.question => question'[i].rule = e.rule
    <2>1. question \in [DOMAIN question -> Question]
        BY <1>2 DEF TablesOK
    <2> QED
        BY <1>4, <1>5, <2>1, UpdatedQuestions
<1>7. DOMAIN question' = DOMAIN question
    BY <1>6
<1>8. PlacesKept
    BY <1>2, <1>5, <1>6, <1>7, RowFacts DEF PlacesKept
<1>9. TablesTyped'
    BY <1>2, <1>5, <1>6, <1>7, TablesParts DEF TablesTyped
<1>10. RowsStay
    BY <1>5, <1>6, <1>7 DEF RowsStay
<1>11. e.question \in DOMAIN question => QuestionRuleHolds(e.rule, FormOf(e.question))
    <2>1. e.rule.conditional => e.rule.section \in SectionIds /\ e.rule.question \in QuestionIds
        BY <1>4, RequestedRule
    <2> QED
        BY <1>3, <1>4, <1>5, <2>1, RequestedRule, NoneIsNoId
        DEF Traceable, LinksExist, SectionIds, QuestionIds, QuestionRuleHolds
<1>12. \A s \in DOMAIN section' : SectionRuleHolds(section'[s].rule, section'[s].form)
    BY <1>2, <1>5, RulesHold, TablesParts
<1>13. \A q \in DOMAIN question' :
           /\ question'[q].section \in DOMAIN section'
           /\ QuestionRuleHolds(question'[q].rule, section'[question'[q].section].form)
    BY <1>2, <1>5, <1>6, <1>7, <1>11, RulesHold, TablesParts DEF FormOf
<1> QED
    BY <1>2, <1>8, <1>9, <1>10, <1>12, <1>13, TablesGrow

\* A rule copied: what can be mapped is in the new rows.
LEMMA CopiedRuleType ==
    ASSUME NEW rule \in Rule, NEW newSection, NEW newQuestion,
           \A s \in DOMAIN newSection : newSection[s] \in SectionIds,
           \A q \in DOMAIN newQuestion : newQuestion[q] \in QuestionIds
    PROVE /\ CopiedRule(rule, newSection, newQuestion) \in Rule
          /\ CopiedRule(rule, newSection, newQuestion).conditional = rule.conditional
          /\ CopiedRule(rule, newSection, newQuestion).section =
                 IF rule.section \in DOMAIN newSection THEN newSection[rule.section] ELSE None
          /\ CopiedRule(rule, newSection, newQuestion).question =
                 IF rule.question \in DOMAIN newQuestion THEN newQuestion[rule.question] ELSE None
BY DEF CopiedRule, Rule

\* A copy adds, under new ids, a row for each row of the source, whose links lead
\* to other new rows.
LEMMA CopyFormTables ==
    ASSUME Inv, NEW r \in Requests, CopyForm(r)
    PROVE TablesOK' /\ PlacesKept
<1> DEFINE target == request[r].target
           seen == snapshot[r]
           S == DOMAIN seen.section
           Q == DOMAIN seen.question
           m == Cardinality(S)
           n == Cardinality(Q)
<1>1. /\ snapshot[r] # None /\ request[r].kind = "copyForm"
      /\ Room(nextSection + m - 1, nextQuestion + n - 1)
      /\ nextSection' = nextSection + m /\ nextQuestion' = nextQuestion + n
    BY DEF CopyForm, Due, ReadFirst
<1>2. /\ TablesOK /\ TypeOK
      /\ target \in Forms
      /\ SnapshotOK(seen) /\ RulesSeen(seen)
      /\ \A q \in Q : seen.question[q].section \in S
      /\ \A s \in S : s \in SectionIds /\ seen.section[s].order \in Nat \ {0}
                       /\ seen.section[s].rule \in Rule
      /\ \A q \in Q : q \in QuestionIds /\ seen.question[q].order \in Nat \ {0}
                       /\ seen.question[q].rule \in Rule
    <2>1. request[r] \in FormCopy
        BY <1>1, SeenFacts, EditShape
    <2> QED
        BY <1>1, <2>1, SeenFacts, InvTables DEF Remembered, FormCopy, Inv
<1>3. /\ m \in Nat /\ n \in Nat
      /\ nextSection \in Nat \ {0} /\ nextQuestion \in Nat \ {0}
      /\ nextSection + m - 1 <= MaxSections
      /\ nextQuestion + n - 1 <= MaxQuestions
      /\ nextSection' = nextSection + m /\ nextQuestion' = nextQuestion + n
    <2>1. m \in Nat /\ n \in Nat
        BY <1>2, FiniteSnapshot
    <2> QED
        BY <1>1, <1>2, <2>1, RowFacts DEF Room
<1>4. PICK newSection \in Bijection(S, nextSection .. nextSection + m - 1),
           newQuestion \in Bijection(Q, nextQuestion .. nextQuestion + n - 1) :
        /\ section' =
            [i \in DOMAIN section \cup Range(newSection) |->
                IF i \in DOMAIN section THEN section[i]
                ELSE LET s == CHOOSE s \in S : newSection[s] = i
                         row == seen.section[s] IN
                     [form |-> target, order |-> row.order,
                      rule |-> CopiedRule(row.rule, newSection, newQuestion)]]
        /\ question' =
            [i \in DOMAIN question \cup Range(newQuestion) |->
                IF i \in DOMAIN question THEN question[i]
                ELSE LET q == CHOOSE q \in Q : newQuestion[q] = i
                         row == seen.question[q] IN
                     [section |-> newSection[row.section], order |-> row.order,
                      rule |-> CopiedRule(row.rule, newSection, newQuestion)]]
    BY DEF CopyForm
<1> HIDE DEF target, seen, S, Q, m, n
<1>5. /\ newSection \in [S -> nextSection .. nextSection + m - 1]
      /\ newQuestion \in [Q -> nextQuestion .. nextQuestion + n - 1]
    BY DEF Bijection, Injection
<1>6. /\ \A s \in S : /\ newSection[s] \in SectionIds /\ newSection[s] >= nextSection
                      /\ newSection[s] < nextSection' /\ newSection[s] \in Nat
      /\ \A q \in Q : /\ newQuestion[q] \in QuestionIds /\ newQuestion[q] >= nextQuestion
                      /\ newQuestion[q] < nextQuestion' /\ newQuestion[q] \in Nat
    <2>1. /\ nextSection .. nextSection + m - 1 \subseteq SectionIds
          /\ nextQuestion .. nextQuestion + n - 1 \subseteq QuestionIds
        BY <1>3, BoundsAreNatural DEF SectionIds, QuestionIds
    <2>2. \A s \in S : newSection[s] \in nextSection .. nextSection + m - 1
        BY <1>5
    <2>3. \A q \in Q : newQuestion[q] \in nextQuestion .. nextQuestion + n - 1
        BY <1>5
    <2> QED
        BY <1>3, <2>1, <2>2, <2>3
<1>7. /\ DOMAIN newSection = S /\ DOMAIN newQuestion = Q
      /\ \A s \in S : newSection[s] \in Range(newSection)
      /\ \A q \in Q : newQuestion[q] \in Range(newQuestion)
    BY <1>5 DEF Range
<1>8. /\ DOMAIN section' = DOMAIN section \cup Range(newSection)
      /\ DOMAIN question' = DOMAIN question \cup Range(newQuestion)
      /\ \A s \in DOMAIN section : section'[s] = section[s]
      /\ \A q \in DOMAIN question : question'[q] = question[q]
    BY <1>4
<1>9. ASSUME NEW i \in DOMAIN section', i \notin DOMAIN section
      PROVE \E s \in S : /\ i = newSection[s]
                         /\ section'[i] =
                              [form |-> target, order |-> seen.section[s].order,
                               rule |-> CopiedRule(seen.section[s].rule, newSection, newQuestion)]
    <2>1. \E s \in S : newSection[s] = i
        BY <1>5, <1>8, <1>9 DEF Range
    <2>2. PICK s : s = (CHOOSE o \in S : newSection[o] = i)
        OBVIOUS
    <2>3. s \in S /\ newSection[s] = i
        BY <2>1, <2>2
    <2>4. section'[i] = [form |-> target, order |-> seen.section[s].order,
                         rule |-> CopiedRule(seen.section[s].rule, newSection, newQuestion)]
        BY <1>4, <1>8, <1>9, <2>2
    <2> QED
        BY <2>3, <2>4
<1>10. ASSUME NEW i \in DOMAIN question', i \notin DOMAIN question
       PROVE \E q \in Q : /\ i = newQuestion[q]
                          /\ question'[i] =
                               [section |-> newSection[seen.question[q].section],
                                order |-> seen.question[q].order,
                                rule |-> CopiedRule(seen.question[q].rule, newSection, newQuestion)]
    <2>1. \E q \in Q : newQuestion[q] = i
        BY <1>5, <1>8, <1>10 DEF Range
    <2>2. PICK q : q = (CHOOSE o \in Q : newQuestion[o] = i)
        OBVIOUS
    <2>3. q \in Q /\ newQuestion[q] = i
        BY <2>1, <2>2
    <2>4. question'[i] = [section |-> newSection[seen.question[q].section],
                          order |-> seen.question[q].order,
                          rule |-> CopiedRule(seen.question[q].rule, newSection, newQuestion)]
        BY <1>4, <1>8, <1>10, <2>2
    <2> QED
        BY <2>3, <2>4
<1>11. /\ \A s \in S : newSection[s] \notin DOMAIN section
       /\ \A q \in Q : newQuestion[q] \notin DOMAIN question
    BY <1>2, <1>3, <1>6, RowFacts DEF SectionIds, QuestionIds
<1>12. /\ \A s \in S : /\ newSection[s] \in DOMAIN section'
                       /\ section'[newSection[s]].form = target
       /\ \A q \in Q : /\ newQuestion[q] \in DOMAIN question'
                       /\ question'[newQuestion[q]].section = newSection[seen.question[q].section]
    <2>1. ASSUME NEW s \in S
          PROVE newSection[s] \in DOMAIN section' /\ section'[newSection[s]].form = target
        <3>1. newSection[s] \in DOMAIN section' /\ newSection[s] \notin DOMAIN section
            BY <1>7, <1>8, <1>11
        <3>2. PICK o \in S :
                  section'[newSection[s]] =
                      [form |-> target, order |-> seen.section[o].order,
                       rule |-> CopiedRule(seen.section[o].rule, newSection, newQuestion)]
            BY <1>9, <3>1
        <3>3. PICK rule : rule = CopiedRule(seen.section[o].rule, newSection, newQuestion)
            OBVIOUS
        <3>4. section'[newSection[s]] =
                  [form |-> target, order |-> seen.section[o].order, rule |-> rule]
            BY <3>2, <3>3
        <3> QED
            BY <3>1, <3>4
    <2>2. ASSUME NEW q \in Q
          PROVE /\ newQuestion[q] \in DOMAIN question'
                /\ question'[newQuestion[q]].section = newSection[seen.question[q].section]
        <3>1. newQuestion[q] \in DOMAIN question' /\ newQuestion[q] \notin DOMAIN question
            BY <1>7, <1>8, <1>11
        <3>2. PICK p \in Q : /\ newQuestion[q] = newQuestion[p]
                             /\ question'[newQuestion[q]].section
                                    = newSection[seen.question[p].section]
            BY <1>10, <3>1
        <3>3. p = q
            BY <1>7, <3>2 DEF Bijection, Injection, IsInjective
        <3> QED
            BY <3>1, <3>2, <3>3
    <2> QED
        BY <2>1, <2>2
<1>13. ASSUME NEW rule \in Rule
       PROVE /\ CopiedRule(rule, newSection, newQuestion) \in Rule
             /\ CopiedRule(rule, newSection, newQuestion).conditional = rule.conditional
             /\ CopiedRule(rule, newSection, newQuestion).section =
                    IF rule.section \in S THEN newSection[rule.section] ELSE None
             /\ CopiedRule(rule, newSection, newQuestion).question =
                    IF rule.question \in Q THEN newQuestion[rule.question] ELSE None
    BY <1>6, <1>7, CopiedRuleType
<1>14. ASSUME NEW rule \in Rule, ~rule.conditional => rule = Always
       PROVE ~rule.conditional => CopiedRule(rule, newSection, newQuestion) = Always
    <2>1. None \notin S /\ None \notin Q
        BY <1>2, NoneIsNoId DEF SectionIds, QuestionIds
    <2>2. ASSUME ~rule.conditional
          PROVE CopiedRule(rule, newSection, newQuestion) = Always
        <3>1. rule = Always
            BY <1>14, <2>2
        <3>2. CopiedRule(rule, newSection, newQuestion)
                  = [conditional |-> FALSE, section |-> None, question |-> None]
            BY <1>7, <2>1, <3>1 DEF CopiedRule, Always
        <3> QED
            BY <3>2 DEF Always
    <2> QED
        BY <2>2
<1>15. ASSUME NEW s \in DOMAIN section'
       PROVE /\ section'[s] \in Section
             /\ s < nextSection'
             /\ \/ s \in DOMAIN section /\ section'[s].form = section[s].form
                \/ s \in Nat /\ s >= nextSection
             /\ SectionRuleHolds(section[s].rule, section[s].form)'
    <2>1. CASE s \in DOMAIN section
        <3>1. section'[s] = section[s] /\ section[s] \in Section /\ s < nextSection
            BY <1>2, <1>8, <2>1, RowFacts
        <3>2. SectionRuleHolds(section[s].rule, section[s].form)
            BY <1>2, <2>1, RulesHold, TablesParts
        <3>3. SectionRuleHolds(section[s].rule, section[s].form)'
            BY <1>8, <3>1, <3>2 DEF SectionRuleHolds
        <3>4. s < nextSection'
            BY <1>2, <1>3, <2>1, <3>1, RowFacts DEF SectionIds
        <3> QED
            BY <2>1, <3>1, <3>3, <3>4
    <2>2. CASE s \notin DOMAIN section
        <3>1. PICK o \in S :
                  /\ s = newSection[o]
                  /\ section'[s] =
                       [form |-> target, order |-> seen.section[o].order,
                        rule |-> CopiedRule(seen.section[o].rule, newSection, newQuestion)]
            BY <1>9, <2>2
        <3>2. PICK rule, copy, f :
                  /\ rule = seen.section[o].rule
                  /\ copy = CopiedRule(rule, newSection, newQuestion)
                  /\ f = target
            OBVIOUS
        <3>3. /\ rule \in Rule /\ seen.section[o].order \in Nat \ {0}
              /\ rule.conditional =>
                  /\ rule.section \in S /\ rule.question \in Q
                  /\ seen.question[rule.question].section = rule.section
              /\ ~rule.conditional => rule = Always
            BY <1>2, <3>1, <3>2 DEF RulesSeen, S, Q
        <3>4. /\ copy \in Rule
              /\ copy.conditional = rule.conditional
              /\ copy.section = IF rule.section \in S THEN newSection[rule.section] ELSE None
              /\ copy.question = IF rule.question \in Q THEN newQuestion[rule.question] ELSE None
              /\ ~rule.conditional => copy = Always
            BY <1>13, <1>14, <3>2, <3>3
        <3>5. section'[s] = [form |-> target, order |-> seen.section[o].order, rule |-> copy]
            BY <3>1, <3>2
        <3>6. /\ section'[s] \in Section /\ section'[s].form = f
              /\ section'[s].rule = copy
            BY <1>2, <3>2, <3>3, <3>4, <3>5 DEF Section
        <3>7. SectionRuleHolds(copy, f)'
            BY <1>12, <3>2, <3>3, <3>4 DEF SectionRuleHolds
        <3>8. SectionRuleHolds(section[s].rule, section[s].form)'
            BY <3>6, <3>7 DEF SectionRuleHolds
        <3> QED
            BY <1>6, <3>1, <3>6, <3>8
    <2> QED
        BY <2>1, <2>2
<1>16. ASSUME NEW q \in DOMAIN question'
       PROVE /\ question'[q] \in Question
             /\ q < nextQuestion'
             /\ \/ q \in DOMAIN question /\ question'[q].section = question[q].section
                \/ q \in Nat /\ q >= nextQuestion
             /\ question'[q].section \in DOMAIN section'
             /\ QuestionRuleHolds(question[q].rule, FormOf(q))'
    <2>1. CASE q \in DOMAIN question
        <3>1. question'[q] = question[q] /\ question[q] \in Question /\ q < nextQuestion
            BY <1>2, <1>8, <2>1, RowFacts
        <3>2. /\ question[q].section \in DOMAIN section
              /\ QuestionRuleHolds(question[q].rule, section[question[q].section].form)
            BY <1>2, <2>1, RulesHold, TablesParts DEF FormOf
        <3>3. /\ question'[q].section \in DOMAIN section'
              /\ QuestionRuleHolds(question[q].rule, FormOf(q))'
            BY <1>8, <3>1, <3>2 DEF QuestionRuleHolds, FormOf
        <3>4. q < nextQuestion'
            BY <1>2, <1>3, <2>1, <3>1, RowFacts DEF QuestionIds
        <3> QED
            BY <2>1, <3>1, <3>3, <3>4
    <2>2. CASE q \notin DOMAIN question
        <3>1. PICK o \in Q :
                  /\ q = newQuestion[o]
                  /\ question'[q] =
                       [section |-> newSection[seen.question[o].section],
                        order |-> seen.question[o].order,
                        rule |-> CopiedRule(seen.question[o].rule, newSection, newQuestion)]
            BY <1>10, <2>2
        <3>2. PICK rule, copy, place, f :
                  /\ rule = seen.question[o].rule
                  /\ copy = CopiedRule(rule, newSection, newQuestion)
                  /\ f = target
                  /\ place = newSection[seen.question[o].section]
            OBVIOUS
        <3>3. /\ rule \in Rule /\ seen.question[o].order \in Nat \ {0}
              /\ rule.conditional => rule.section \in S
              /\ ~rule.conditional => rule = Always
            BY <1>2, <3>1, <3>2 DEF RulesSeen, S, Q
        <3>4. /\ copy \in Rule
              /\ copy.conditional = rule.conditional
              /\ copy.section = IF rule.section \in S THEN newSection[rule.section] ELSE None
              /\ copy.question = IF rule.question \in Q THEN newQuestion[rule.question] ELSE None
              /\ ~rule.conditional => copy = Always
            BY <1>13, <1>14, <3>2, <3>3
        <3>5. question'[q] = [section |-> place, order |-> seen.question[o].order, rule |-> copy]
            BY <3>1, <3>2
        <3>6. /\ place \in SectionIds /\ place \in DOMAIN section'
              /\ section'[place].form = f
            BY <1>2, <1>6, <1>12, <3>1, <3>2
        <3>7. /\ question'[q] \in Question /\ question'[q].section = place
              /\ question'[q].rule = copy
            BY <3>3, <3>4, <3>5, <3>6 DEF Question
        <3>8. QuestionRuleHolds(copy, f)'
            BY <1>12, <3>2, <3>3, <3>4 DEF QuestionRuleHolds
        <3>9. QuestionRuleHolds(question[q].rule, FormOf(q))'
            BY <3>6, <3>7, <3>8 DEF QuestionRuleHolds, FormOf
        <3> QED
            BY <1>6, <3>1, <3>6, <3>7, <3>9
    <2> QED
        BY <2>1, <2>2
<1>17. PlacesKept
    BY <1>3, <1>15, <1>16 DEF PlacesKept
<1>18. /\ nextSection' \in 1 .. MaxSections + 1
       /\ nextQuestion' \in 1 .. MaxQuestions + 1
       /\ DOMAIN section' \subseteq 1 .. nextSection' - 1
       /\ DOMAIN question' \subseteq 1 .. nextQuestion' - 1
    <2>1. /\ \A s \in DOMAIN section' : s \in Nat \ {0}
          /\ \A q \in DOMAIN question' : q \in Nat \ {0}
        BY <1>2, <1>3, <1>15, <1>16, RowFacts DEF SectionIds, QuestionIds
    <2>2. nextSection' \in Nat /\ nextQuestion' \in Nat
        BY <1>3
    <2> QED
        BY <1>3, <1>15, <1>16, <2>1, <2>2, BoundsAreNatural
<1>19. /\ section' \in [DOMAIN section' -> Section]
       /\ question' \in [DOMAIN question' -> Question]
    <2>1. section' = [s \in DOMAIN section' |-> section'[s]]
        BY <1>4
    <2>2. question' = [q \in DOMAIN question' |-> question'[q]]
        BY <1>4
    <2> QED
        BY <1>15, <1>16, <2>1, <2>2
<1>20. SectionRulesHaveTargets' /\ QuestionRulesStayInForm'
    BY <1>15, <1>16 DEF SectionRulesHaveTargets, QuestionRulesStayInForm, SectionsOf,
       QuestionsIn, SectionRuleHolds, QuestionRuleHolds
<1> QED
    BY <1>17, <1>18, <1>19, <1>20 DEF TablesOK

----------------------------------------------------------------------------
(* The invariant *)

\* What the checks of an edit find is enough to trace it.
LEMMA AcceptedTraceable ==
    ASSUME TablesOK, NEW e \in Edits, Accepted(e)
    PROVE Traceable(e)
<1>1. /\ \A s \in DOMAIN section : s < nextSection
      /\ \A q \in DOMAIN question : q < nextQuestion
    BY RowFacts
<1>2. CASE e.kind = "createSection"
    <2>1. SectionRuleOK(e.rule, e.form, e.order)
        BY <1>2 DEF Accepted
    <2> QED
        BY <1>1, <1>2, <2>1 DEF Traceable, SectionRuleOK, SectionsOf, QuestionsIn
<1>3. CASE e.kind = "updateSection"
    <2>1. /\ e.section \in DOMAIN section
          /\ SectionRuleOK(e.rule, section[e.section].form, section[e.section].order)
        BY <1>3 DEF Accepted
    <2> QED
        BY <1>1, <1>3, <2>1 DEF Traceable, SectionRuleOK, SectionsOf, QuestionsIn
<1>4. CASE e.kind = "createQuestion"
    <2>1. QuestionRuleOK(e.rule, e.section, e.order)
        BY <1>4 DEF Accepted
    <2> QED
        BY <1>1, <1>4, <2>1 DEF Traceable, QuestionRuleOK, SectionsOf
<1>5. CASE e.kind = "updateQuestion"
    <2>1. /\ e.question \in DOMAIN question
          /\ QuestionRuleOK(e.rule, question[e.question].section, question[e.question].order)
        BY <1>5 DEF Accepted
    <2> QED
        BY <1>1, <1>5, <2>1 DEF Traceable, QuestionRuleOK, SectionsOf, FormOf
<1>6. CASE e.kind \notin {"createSection", "updateSection", "createQuestion", "updateQuestion"}
    BY <1>6 DEF Traceable
<1> QED
    BY <1>2, <1>3, <1>4, <1>5, <1>6

\* What a transaction has read is remembered while others write.
LEMMA RememberedKept ==
    ASSUME Inv, TablesOK', PlacesKept, NEW e, NEW seen, SnapshotOK(seen), Remembered(e, seen)
    PROVE /\ Remembered(e, seen)'
          /\ DOMAIN seen.section \subseteq 1 .. nextSection' - 1
          /\ DOMAIN seen.question \subseteq 1 .. nextQuestion' - 1
<1>1. /\ nextSection \in Nat /\ nextQuestion \in Nat
      /\ nextSection' \in Nat /\ nextQuestion' \in Nat
      /\ nextSection' >= nextSection /\ nextQuestion' >= nextQuestion
    BY BoundsAreNatural DEF Inv, TypeOK, PlacesKept
<1>2. /\ DOMAIN seen.section \subseteq 1 .. nextSection - 1
      /\ DOMAIN seen.question \subseteq 1 .. nextQuestion - 1
    BY DEF SnapshotOK
<1>3. \A s \in DOMAIN seen.section \cap DOMAIN section' :
          s \in DOMAIN section /\ section'[s].form = section[s].form
    BY <1>1, <1>2 DEF PlacesKept
<1>4. \A q \in DOMAIN seen.question \cap DOMAIN question' :
          q \in DOMAIN question /\ question'[q].section = question[q].section
    BY <1>1, <1>2 DEF PlacesKept
<1>5. Remembered(e, seen)'
    BY <1>3, <1>4 DEF Remembered, RulesSeen
<1> QED
    BY <1>1, <1>2, <1>5

\* An edit is done with, or it stays and its transaction has missed a commit at most.
Waits(r) ==
    \/ request'[r] = None /\ snapshot'[r] = None
    \/ /\ request'[r] = request[r]
       /\ \/ snapshot'[r] = snapshot[r]
          \/ /\ snapshot[r] # None
             /\ snapshot'[r].section = snapshot[r].section
             /\ snapshot'[r].question = snapshot[r].question
             /\ snapshot'[r].missed \in 0 .. MaxMissed

\* A step that keeps the tables in order, checks no edit and begins no transaction
\* keeps the invariant.
LEMMA WriteInv ==
    ASSUME Inv, TablesOK', PlacesKept,
           request' \in [Requests -> Edits \cup {None}],
           snapshot' \in [Requests -> Range(snapshot')],
           \A r \in Requests : Waits(r)
    PROVE Inv'
<1>1. ASSUME NEW r \in Requests, request'[r] # None
      PROVE Traceable(request[r])'
    <2>1. PICK e : e = request[r]
        OBVIOUS
    <2>2. request'[r] = e /\ e \in Edits /\ Traceable(e)
        BY <1>1, <2>1 DEF Inv, TypeOK, EditsTraceable, Waits
    <2>3. Traceable(e)'
        BY <2>2, TraceableKept
    <2> QED
        BY <2>2, <2>3 DEF Traceable
<1>2. EditsTraceable'
    BY <1>1 DEF EditsTraceable
<1>3. ASSUME NEW r \in Requests, snapshot'[r] # None
      PROVE SnapshotOK(snapshot[r])' /\ request'[r] # None /\ Remembered(request[r], snapshot[r])'
    <2>1. PICK e, seen, now : e = request[r] /\ seen = snapshot[r] /\ now = snapshot'[r]
        OBVIOUS
    <2>2. /\ request'[r] = e /\ seen # None
          /\ now.section = seen.section /\ now.question = seen.question
          /\ now = seen \/ now.missed \in 0 .. MaxMissed
        BY <1>3, <2>1 DEF Waits
    <2>3. SnapshotOK(seen) /\ e # None /\ Remembered(e, seen)
        BY <2>1, <2>2 DEF Inv, TypeOK, ReadsRemembered
    <2>4. /\ Remembered(e, seen)'
          /\ DOMAIN seen.section \subseteq 1 .. nextSection' - 1
          /\ DOMAIN seen.question \subseteq 1 .. nextQuestion' - 1
        BY <2>3, RememberedKept
    <2>5. Remembered(e, now)'
        BY <2>2, <2>4 DEF Remembered, RulesSeen
    <2>6. SnapshotOK(now)'
        BY <2>2, <2>3, <2>4 DEF SnapshotOK
    <2> QED
        BY <2>1, <2>2, <2>3, <2>5, <2>6 DEF Remembered, SnapshotOK, RulesSeen
<1>4. ReadsRemembered' /\ \A r \in Requests : snapshot'[r] # None => SnapshotOK(snapshot[r])'
    BY <1>3 DEF ReadsRemembered
<1> QED
    BY <1>2, <1>4 DEF Inv, TypeOK, TablesOK

\* The rows a transaction begins with.
LEMMA BeginInv ==
    ASSUME Inv, NEW r \in Requests, Begin(r)
    PROVE Inv'
<1> DEFINE e == request[r]
           S == SectionsRead(e)
           seen == [section |-> Read(section, S, e),
                    question |-> Read(question, QuestionsIn(S), e), missed |-> 0]
<1>1. TablesOK /\ e \in Edits /\ e # None /\ S # {} /\ S \subseteq DOMAIN section
    BY InvTables DEF Begin, Inv, TypeOK, SectionsRead
<1>2. snapshot' = [snapshot EXCEPT ![r] = seen] /\ UNCHANGED <<tables, request>>
    BY DEF Begin
<1>3. /\ seen.section = Read(section, S, e)
      /\ seen.question = Read(question, QuestionsIn(S), e)
      /\ seen.missed = 0
    OBVIOUS
<1> HIDE DEF seen
<1>4. /\ seen.section \in [S -> Section] /\ DOMAIN seen.section = S
      /\ \A s \in S :
          /\ seen.section[s].form = section[s].form
          /\ seen.section[s].order = section[s].order
          /\ e.kind = "copyForm" => seen.section[s].rule = section[s].rule
    <2>1. \A s \in S : section[s] \in Section
        BY <1>1, RowFacts
    <2>2. Always \in Rule
        BY AlwaysRule
    <2> QED
        BY <1>3, <2>1, <2>2 DEF Read, Section
<1>5. /\ seen.question \in [QuestionsIn(S) -> Question]
      /\ DOMAIN seen.question = QuestionsIn(S)
      /\ \A q \in QuestionsIn(S) :
          /\ q \in DOMAIN question
          /\ seen.question[q].section = question[q].section
          /\ seen.question[q].section \in S
          /\ seen.question[q].order = question[q].order
          /\ e.kind = "copyForm" => seen.question[q].rule = question[q].rule
    <2>1. \A q \in QuestionsIn(S) : /\ q \in DOMAIN question
                                    /\ question[q] \in Question
                                    /\ question[q].section \in S
        BY <1>1, RowFacts DEF QuestionsIn
    <2>2. Always \in Rule
        BY AlwaysRule
    <2> QED
        BY <1>3, <2>1, <2>2 DEF Read, Question
<1>6. SnapshotOK(seen)
    <2>1. S \subseteq 1 .. nextSection - 1 /\ QuestionsIn(S) \subseteq 1 .. nextQuestion - 1
        BY <1>1 DEF TablesOK, QuestionsIn
    <2> QED
        BY <1>3, <1>4, <1>5, <2>1, BoundsAreNatural DEF SnapshotOK
<1>7. ASSUME e.kind = "copyForm"
      PROVE RulesSeen(seen)
    <2>1. \A s \in DOMAIN section : s \in S <=> section[s].form = e.source
        BY <1>7 DEF SectionsRead
    <2>2. ASSUME NEW s \in S
          PROVE LET rule == seen.section[s].rule IN
                /\ rule.conditional =>
                    /\ rule.section \in DOMAIN seen.section
                    /\ rule.question \in DOMAIN seen.question
                    /\ seen.question[rule.question].section = rule.section
                /\ ~rule.conditional => rule = Always
        <3>1. SectionRuleHolds(section[s].rule, e.source)
            BY <1>1, <2>1, RulesHold, TablesParts
        <3>2. PICK rule : rule = section[s].rule /\ rule = seen.section[s].rule
            BY <1>4, <1>7
        <3>3. rule.conditional => rule.section \in S /\ rule.question \in QuestionsIn(S)
                                  /\ question[rule.question].section = rule.section
            BY <2>1, <3>1, <3>2 DEF SectionRuleHolds, QuestionsIn
        <3> QED
            BY <1>4, <1>5, <3>1, <3>2, <3>3 DEF SectionRuleHolds
    <2>3. ASSUME NEW q \in QuestionsIn(S)
          PROVE LET rule == seen.question[q].rule IN
                /\ rule.conditional => rule.section \in DOMAIN seen.section
                /\ ~rule.conditional => rule = Always
        <3>1. q \in DOMAIN question /\ FormOf(q) = e.source
            BY <1>1, <1>5, <2>1 DEF FormOf
        <3>2. QuestionRuleHolds(question[q].rule, e.source)
            BY <1>1, <3>1, RulesHold, TablesParts
        <3> QED
            BY <1>4, <1>5, <1>7, <2>1, <3>2 DEF QuestionRuleHolds
    <2> QED
        BY <1>4, <1>5, <2>2, <2>3 DEF RulesSeen
<1>8. Remembered(e, seen)
    <2>1. e.kind = "deleteSection" =>
              e.section \in S /\ \A s \in S : section[s].form = section[e.section].form
        BY <1>1 DEF SectionsRead
    <2>2. e.kind = "deleteQuestion" => e.question \in QuestionsIn(S)
        BY <1>1 DEF SectionsRead, QuestionsIn
    <2> QED
        BY <1>4, <1>5, <1>7, <2>1, <2>2 DEF Remembered
<1>9. snapshot' \in [Requests -> Range(snapshot')]
    BY <1>2 DEF Inv, TypeOK, Range
<1>10. \A x \in Requests : snapshot'[x] = IF x = r THEN seen ELSE snapshot[x]
    BY <1>2 DEF Inv, TypeOK
<1> HIDE DEF e, S
<1>11. ASSUME NEW x \in Requests, snapshot'[x] # None
       PROVE SnapshotOK(snapshot[x])' /\ request'[x] # None /\ Remembered(request[x], snapshot[x])'
    <2>1. PICK d, v : d = request[x] /\ v = snapshot'[x] /\ d = request'[x]
        BY <1>2
    <2>2. d # None /\ SnapshotOK(v) /\ Remembered(d, v)
        BY <1>1, <1>6, <1>8, <1>10, <1>11, <2>1 DEF Inv, TypeOK, ReadsRemembered, e
    <2>3. SnapshotOK(v)' /\ Remembered(d, v)'
        BY <1>2, <2>2 DEF tables, SnapshotOK, Remembered, RulesSeen
    <2> QED
        BY <2>1, <2>2, <2>3 DEF SnapshotOK, Remembered, RulesSeen
<1>12. EditsTraceable'
    BY <1>2 DEF tables, Inv, EditsTraceable, Traceable, FormOf
<1> QED
    BY <1>2, <1>9, <1>11, <1>12 DEF tables, Inv, TypeOK, SectionRulesHaveTargets,
       QuestionRulesStayInForm, SectionsOf, QuestionsIn, FormOf, ReadsRemembered

\* What the end of a transaction does to the slots.
LEMMA DoneWaits ==
    ASSUME Inv, NEW r \in Requests, Done(r)
    PROVE /\ request' \in [Requests -> Edits \cup {None}]
          /\ snapshot' \in [Requests -> Range(snapshot')]
          /\ \A x \in Requests : Waits(x)
<1>1. /\ request' = [request EXCEPT ![r] = None]
      /\ snapshot' = [o \in Requests |->
             IF o = r \/ snapshot[o] = None THEN None
                                          ELSE [snapshot[o] EXCEPT !.missed = @ + 1]]
      /\ \A o \in Requests \ {r} : snapshot[o] # None => snapshot[o].missed < MaxMissed
    BY DEF Done
<1>2. request \in [Requests -> Edits \cup {None}]
    BY DEF Inv, TypeOK
<1>3. ASSUME NEW x \in Requests, x # r, snapshot[x] # None
      PROVE /\ request'[x] = request[x]
            /\ snapshot'[x].section = snapshot[x].section
            /\ snapshot'[x].question = snapshot[x].question
            /\ snapshot'[x].missed \in 0 .. MaxMissed
    <2>1. snapshot[x].missed \in 0 .. MaxMissed
        BY <1>3 DEF Inv, TypeOK, SnapshotOK
    <2> QED
        BY <1>1, <1>2, <1>3, <2>1, BoundsAreNatural
<1>4. \A x \in Requests : Waits(x)
    BY <1>1, <1>2, <1>3 DEF Waits
<1> QED
    BY <1>1, <1>2, <1>4 DEF Range

LEMMA NextInv == Inv /\ [Next]_vars => Inv'
<1> SUFFICES ASSUME Inv, [Next]_vars
             PROVE Inv'
    OBVIOUS
<1>1. request \in [Requests -> Edits \cup {None}]
    BY DEF Inv, TypeOK
<1>2. ASSUME NEW r \in Requests, Check(r)
      PROVE Inv'
    <2>1. PICK e \in Edits : Accepted(e) /\ request' = [request EXCEPT ![r] = e]
        BY <1>2 DEF Check
    <2>2. request[r] = None /\ UNCHANGED <<section, question, nextSection, nextQuestion, snapshot>>
        BY <1>2 DEF Check, tables
    <2>3. Traceable(e)
        BY <2>1, AcceptedTraceable, InvTables
    <2>4. request' \in [Requests -> Edits \cup {None}]
        BY <1>1, <2>1
    <2>5. EditsTraceable'
        <3>1. ASSUME NEW x \in Requests, request'[x] # None
              PROVE Traceable(request[x])'
            <4>1. PICK d : d = request'[x]
                OBVIOUS
            <4>2. Traceable(d)
                BY <1>1, <2>1, <2>3, <3>1, <4>1 DEF Inv, EditsTraceable
            <4> QED
                BY <2>2, <4>1, <4>2 DEF Traceable, FormOf
        <3> QED
            BY <3>1 DEF EditsTraceable
    <2>6. ReadsRemembered'
        <3>1. ASSUME NEW x \in Requests, snapshot'[x] # None
              PROVE request'[x] # None /\ Remembered(request[x], snapshot[x])'
            <4>1. PICK d, v : d = request[x] /\ v = snapshot[x]
                OBVIOUS
            <4>2. x # r /\ d # None /\ Remembered(d, v)
                BY <2>2, <3>1, <4>1 DEF Inv, ReadsRemembered
            <4>3. request'[x] = d /\ snapshot'[x] = v
                BY <1>1, <2>1, <2>2, <4>1, <4>2
            <4> QED
                BY <2>2, <4>2, <4>3 DEF Remembered, RulesSeen
        <3> QED
            BY <3>1 DEF ReadsRemembered
    <2> QED
        BY <2>2, <2>4, <2>5, <2>6 DEF Inv, TypeOK, SnapshotOK, Range, SectionRulesHaveTargets,
           QuestionRulesStayInForm, SectionsOf, QuestionsIn, FormOf
<1>3. ASSUME NEW r \in Requests, Write(r) \/ CopyForm(r)
      PROVE Inv'
    <2>1. Done(r)
        BY <1>3 DEF Write, CreateSection, UpdateSection, DeleteSection, ReorderSections,
           CreateQuestion, UpdateQuestion, DeleteQuestion, ReorderQuestions, CopyForm
    <2>2. /\ request' \in [Requests -> Edits \cup {None}]
          /\ snapshot' \in [Requests -> Range(snapshot')]
          /\ \A x \in Requests : Waits(x)
        BY <2>1, DoneWaits
    <2>3. TablesOK' /\ PlacesKept
        BY <1>3, CreateSectionTables, UpdateSectionTables, DeleteSectionTables,
           ReorderSectionsTables, CreateQuestionTables, UpdateQuestionTables,
           DeleteQuestionTables, ReorderQuestionsTables, CopyFormTables DEF Write
    <2> QED
        BY <2>2, <2>3, WriteInv
<1>4. ASSUME NEW r \in Requests, NothingWritten(r)
      PROVE Inv'
    <2>1. /\ request' = [request EXCEPT ![r] = None]
          /\ snapshot' = [snapshot EXCEPT ![r] = None]
          /\ UNCHANGED <<section, question, nextSection, nextQuestion>>
        BY <1>4 DEF NothingWritten, tables
    <2>2. /\ request' \in [Requests -> Edits \cup {None}]
          /\ snapshot' \in [Requests -> Range(snapshot')]
          /\ \A x \in Requests : Waits(x)
        BY <1>1, <2>1 DEF Inv, TypeOK, Waits, Range
    <2>3. TablesOK' /\ PlacesKept
        <3>1. TablesOK /\ section \in [DOMAIN section -> Section]
                       /\ question \in [DOMAIN question -> Question]
            BY InvTables DEF TablesOK
        <3> QED
            BY <2>1, <3>1, TablesReordered
    <2> QED
        BY <2>2, <2>3, WriteInv
<1>5. CASE UNCHANGED vars
    <2>1. UNCHANGED <<section, question, nextSection, nextQuestion, request, snapshot>>
        BY <1>5 DEF vars
    <2> QED
        BY <2>1 DEF Inv, TypeOK, SnapshotOK, Range, SectionRulesHaveTargets,
           QuestionRulesStayInForm, SectionsOf, QuestionsIn, FormOf, EditsTraceable, Traceable,
           ReadsRemembered, Remembered, RulesSeen
<1> QED
    BY <1>2, <1>3, <1>4, <1>5, BeginInv DEF Next

LEMMA InitInv == Init => Inv
<1> SUFFICES ASSUME Init
             PROVE Inv
    OBVIOUS
<1>1. DOMAIN section = {} /\ DOMAIN question = {}
    BY DEF Init
<1>2. /\ section \in [DOMAIN section -> Section]
      /\ question \in [DOMAIN question -> Question]
    BY <1>1 DEF Init
<1>3. TypeOK
    <2>1. /\ snapshot \in [Requests -> Range(snapshot)]
          /\ \A r \in Requests : snapshot[r] = None
        BY DEF Init, Range
    <2> QED
        BY <1>1, <1>2, <2>1, BoundsAreNatural DEF Init, TypeOK
<1> QED
    BY <1>1, <1>3 DEF Init, Inv, SectionRulesHaveTargets, QuestionRulesStayInForm,
       EditsTraceable, ReadsRemembered

\* The inductive invariant holds in every behaviour.
THEOREM SpecInv == Spec => []Inv
BY InitInv, NextInv, PTL DEF Spec

\* Every variable keeps its type, whatever the forms, the requests and the bounds.
THEOREM TypeCorrect == Spec => []TypeOK
<1>1. Inv => TypeOK
    BY DEF Inv
<1> QED
    BY <1>1, SpecInv, PTL

\* What a section depends on is there, whatever requests run side by side:
\* every conditional rule of a section is linked to a section of its form and to
\* one of that section's questions.
THEOREM SectionTargets == Spec => []SectionRulesHaveTargets
<1>1. Inv => SectionRulesHaveTargets
    BY DEF Inv
<1> QED
    BY <1>1, SpecInv, PTL

\* The rules of questions stay in their form, and no question is without section.
THEOREM QuestionTargets == Spec => []QuestionRulesStayInForm
<1>1. Inv => QuestionRulesStayInForm
    BY DEF Inv
<1> QED
    BY <1>1, SpecInv, PTL

----------------------------------------------------------------------------
(* The checks are enough *)

\* ChecksSuffice for the sections, and for everything if nothing numbered is stale.
SectionsSuffice(e) ==
    /\ SectionsDistinct'
    /\ e.kind # "reorderSections" /\ SectionRulesPointBack => SectionRulesPointBack'

Suffices(e) ==
    /\ SectionsSuffice(e)
    /\ QuestionsDistinct /\ QuestionsFollowSections =>
        /\ QuestionsDistinct'
        /\ e.kind # "reorderSections" /\ QuestionRulesPointBack => QuestionRulesPointBack'

\* A step that leaves the sections alone leaves what is said of them alone.
LEMMA SectionsAlone ==
    ASSUME UNCHANGED section
    PROVE /\ SectionsDistinct => SectionsDistinct'
          /\ SectionRulesPointBack => SectionRulesPointBack'
BY DEF SectionsDistinct, SectionRulesPointBack

\* A step that leaves the questions alone and keeps the form of every section does
\* so for the questions.
LEMMA QuestionsAlone ==
    ASSUME TablesOK, UNCHANGED question,
           \A s \in DOMAIN section : s \in DOMAIN section' /\ section'[s].form = section[s].form
    PROVE /\ QuestionsDistinct => QuestionsDistinct'
          /\ QuestionRulesPointBack => QuestionRulesPointBack'
<1>1. \A q \in DOMAIN question : FormOf(q)' = FormOf(q)
    BY RowFacts DEF FormOf
<1> QED
    BY <1>1 DEF QuestionsDistinct, QuestionRulesPointBack

\* A link that is there leads to a row: of a section's rule into its form.
LEMMA LinkedRows ==
    ASSUME TablesOK
    PROVE /\ \A s \in DOMAIN section : section[s].rule.section \in Nat =>
              /\ section[s].rule.conditional
              /\ section[s].rule.section \in DOMAIN section
              /\ section[section[s].rule.section].form = section[s].form
              /\ section[s].rule.question \in DOMAIN question
              /\ question[section[s].rule.question].section = section[s].rule.section
          /\ \A q \in DOMAIN question : question[q].rule.question \in Nat =>
              question[q].rule.conditional /\ question[q].rule.question \in DOMAIN question
<1>1. ASSUME NEW s \in DOMAIN section, section[s].rule.section \in Nat
      PROVE section[s].rule.conditional /\ SectionRuleHolds(section[s].rule, section[s].form)
    <2>1. SectionRuleHolds(section[s].rule, section[s].form)
        BY RulesHold, TablesParts
    <2>2. section[s].rule # Always
        BY <1>1, NoneIsNoId DEF Always
    <2> QED
        BY <2>1, <2>2 DEF SectionRuleHolds
<1>2. ASSUME NEW q \in DOMAIN question, question[q].rule.question \in Nat
      PROVE question[q].rule.conditional /\ question[q].rule.question \in DOMAIN question
    <2>1. QuestionRuleHolds(question[q].rule, FormOf(q))
        BY RulesHold, TablesParts
    <2>2. question[q].rule # Always
        BY <1>2, NoneIsNoId DEF Always
    <2> QED
        BY <1>2, <2>1, <2>2, NoneIsNoId DEF QuestionRuleHolds
<1> QED
    BY <1>1, <1>2 DEF SectionRuleHolds

\* A creation moves up the sections behind the new one.
LEMMA CreateSectionOrders ==
    ASSUME Inv, NEW r \in Requests, CreateSection(r), NEW e, e = request[r]
    PROVE /\ DOMAIN section' = DOMAIN section \cup {nextSection}
          /\ nextSection \notin DOMAIN section
          /\ section'[nextSection].form = e.form
          /\ section'[nextSection].order = e.order
          /\ section'[nextSection].rule = e.rule
          /\ e.order \in Nat
          /\ \A s \in DOMAIN section :
              /\ section'[s].form = section[s].form
              /\ section'[s].rule = section[s].rule
              /\ section[s].form = e.form /\ section[s].order >= e.order
                     => section'[s].order = section[s].order + 1
              /\ ~ (section[s].form = e.form /\ section[s].order >= e.order)
                     => section'[s].order = section[s].order
<1>1. PICK later, R, row :
          /\ later = Up(section, SectionsOf(e.form), e.order)
          /\ R = Renumber(section, later)
          /\ row = [form |-> e.form, order |-> e.order, rule |-> e.rule]
    OBVIOUS
<1>2. TablesOK
    BY InvTables
<1>3. e \in SectionCreation
    BY EditShape DEF Inv, TypeOK, CreateSection, Due
<1>4. e.order \in Nat \ {0}
    BY <1>3, BoundsAreNatural DEF SectionCreation, Orders
<1>5. /\ \A i \in SectionsOf(e.form) : section[i].order \in Nat \ {0}
      /\ section \in [DOMAIN section -> Section]
    BY <1>2, RowFacts DEF SectionsOf, TablesOK
<1>6. \A i \in DOMAIN section \cap DOMAIN later : later[i] \in Nat \ {0}
    BY <1>1, <1>5, UpPositive
<1>7. /\ R \in [DOMAIN section -> Section]
      /\ \A i \in DOMAIN section :
          /\ R[i].form = section[i].form /\ R[i].rule = section[i].rule
          /\ i \in DOMAIN later => R[i].order = later[i]
          /\ i \notin DOMAIN later => R[i] = section[i]
    BY <1>1, <1>5, <1>6, RenumberSections
<1>8. /\ \A i : i \in DOMAIN later <=>
              i \in DOMAIN section /\ section[i].form = e.form /\ section[i].order >= e.order
      /\ \A i \in DOMAIN later : later[i] = section[i].order + 1
    BY <1>1 DEF Up, SectionsOf
<1>9. section' = Insert(R, nextSection, row)
    BY <1>1 DEF CreateSection
<1>10. /\ nextSection \notin DOMAIN section
       /\ row.form = e.form /\ row.order = e.order /\ row.rule = e.rule
    BY <1>1, <1>2, RowFacts
<1>11. /\ DOMAIN section' = DOMAIN section \cup {nextSection}
       /\ section'[nextSection] = row
       /\ \A i \in DOMAIN section : section'[i] = R[i]
    BY <1>7, <1>9, <1>10 DEF Insert
<1> QED
    BY <1>4, <1>7, <1>8, <1>10, <1>11

LEMMA CreateSectionSuffices ==
    ASSUME Inv, NEW r \in Requests, CreateSection(r), NEW e, e = request[r], Accepted(e),
           SectionsDistinct
    PROVE Suffices(e)
<1>1. TablesOK /\ e.kind = "createSection" /\ UNCHANGED question
    BY InvTables DEF CreateSection, Due
<1>2. SectionRuleOK(e.rule, e.form, e.order)
    BY <1>1 DEF Accepted
<1>3. \A s \in DOMAIN section : section[s].order \in Nat
    BY <1>1, RowFacts
<1>4. SectionsDistinct'
    BY <1>3, CreateSectionOrders DEF SectionsDistinct
<1>5. e.rule \in Requested
    BY EditShape DEF Inv, TypeOK, CreateSection, Due, SectionCreation
<1>6. \A s \in DOMAIN section' : s \in Nat
    BY <1>1, RowFacts, CreateSectionOrders DEF SectionIds
<1>7. ASSUME SectionRulesPointBack, NEW s \in DOMAIN section',
             section'[s].rule.section \in DOMAIN section'
      PROVE section'[section'[s].rule.section].order < section'[s].order
    <2>1. CASE s = nextSection
        <3>1. section'[s].rule = e.rule /\ section'[s].order = e.order
            BY <2>1, CreateSectionOrders
        <3>2. e.rule.conditional
            BY <1>5, <1>7, <3>1, RequestedRule, CreateSectionOrders, NoneIsNoId
            DEF Always, Inv, TypeOK
        <3>3. e.rule.section \in DOMAIN section /\ section[e.rule.section].order < e.order
            BY <1>2, <3>2 DEF SectionRuleOK, SectionsOf
        <3> QED
            BY <1>3, <3>1, <3>3, CreateSectionOrders
    <2>2. CASE s \in DOMAIN section
        <3>1. section'[s].rule = section[s].rule
            BY <2>2, CreateSectionOrders
        <3>2. PICK t : t = section[s].rule.section
            OBVIOUS
        <3>3. t \in DOMAIN section /\ section[t].form = section[s].form
            BY <1>1, <1>7, <1>6, <2>2, <3>1, <3>2, LinkedRows
        <3>4. section[t].order < section[s].order
            BY <1>7, <2>2, <3>2, <3>3 DEF SectionRulesPointBack
        <3> QED
            BY <1>3, <2>2, <3>1, <3>2, <3>3, <3>4, CreateSectionOrders
    <2> QED
        BY <2>1, <2>2, CreateSectionOrders
<1>8. SectionRulesPointBack => SectionRulesPointBack'
    BY <1>7 DEF SectionRulesPointBack
<1>9. /\ QuestionsDistinct => QuestionsDistinct'
      /\ QuestionRulesPointBack => QuestionRulesPointBack'
    BY <1>1, QuestionsAlone, CreateSectionOrders
<1> QED
    BY <1>4, <1>8, <1>9 DEF Suffices, SectionsSuffice

LEMMA UpdateSectionSuffices ==
    ASSUME Inv, NEW r \in Requests, UpdateSection(r), NEW e, e = request[r], Accepted(e),
           SectionsDistinct
    PROVE Suffices(e)
<1>1. TablesOK /\ e.kind = "updateSection" /\ UNCHANGED question
    BY InvTables DEF UpdateSection, Due
<1>2. e.rule \in Requested
    BY EditShape DEF Inv, TypeOK, UpdateSection, Due, SectionUpdate
<1>3. SectionRuleOK(e.rule, section[e.section].form, section[e.section].order)
    BY <1>1 DEF Accepted
<1>4. /\ DOMAIN section' = DOMAIN section
      /\ \A i \in DOMAIN section :
          /\ section'[i].form = section[i].form
          /\ section'[i].order = section[i].order
          /\ i # e.section => section'[i] = section[i]
          /\ i = e.section => section'[i].rule = e.rule
    <2>1. section \in [DOMAIN section -> Section] /\ section' = Updated(section, e.section, e.rule)
        BY <1>1 DEF TablesOK, UpdateSection
    <2> QED
        BY <1>2, <2>1, UpdatedSections
<1>5. SectionsDistinct'
    BY <1>4 DEF SectionsDistinct
<1>6. ASSUME SectionRulesPointBack, NEW s \in DOMAIN section',
             section'[s].rule.section \in DOMAIN section'
      PROVE section'[section'[s].rule.section].order < section'[s].order
    <2>1. CASE s = e.section
        <3>1. section'[s].rule = e.rule /\ section'[s].order = section[e.section].order
            BY <1>4, <2>1
        <3>2. e.rule.section # None
            BY <1>1, <1>4, <1>6, <3>1, RowFacts, NoneIsNoId DEF SectionIds
        <3>3. e.rule.conditional
            BY <1>2, <3>2, RequestedRule DEF Always
        <3>4. /\ e.rule.section \in DOMAIN section
              /\ section[e.rule.section].order < section[e.section].order
            BY <1>3, <3>3 DEF SectionRuleOK, SectionsOf
        <3> QED
            BY <1>4, <3>1, <3>4
    <2>2. CASE s # e.section
        BY <1>4, <1>6, <2>2 DEF SectionRulesPointBack
    <2> QED
        BY <2>1, <2>2
<1>7. SectionRulesPointBack => SectionRulesPointBack'
    BY <1>6 DEF SectionRulesPointBack
<1>8. /\ QuestionsDistinct => QuestionsDistinct'
      /\ QuestionRulesPointBack => QuestionRulesPointBack'
    BY <1>1, <1>4, QuestionsAlone
<1> QED
    BY <1>5, <1>7, <1>8 DEF Suffices, SectionsSuffice

\* A creation moves up the questions of the form behind the new one.
LEMMA CreateQuestionOrders ==
    ASSUME Inv, NEW r \in Requests, CreateQuestion(r), NEW e, e = request[r]
    PROVE /\ DOMAIN question' = DOMAIN question \cup {nextQuestion}
          /\ nextQuestion \notin DOMAIN question
          /\ question'[nextQuestion].section = e.section
          /\ question'[nextQuestion].order = e.order
          /\ question'[nextQuestion].rule = e.rule
          /\ e.order \in Nat /\ e.section \in DOMAIN section
          /\ \A q \in DOMAIN question :
              /\ question'[q].section = question[q].section
              /\ question'[q].rule = question[q].rule
              /\ FormOf(q) = section[e.section].form /\ question[q].order >= e.order
                     => question'[q].order = question[q].order + 1
              /\ ~ (FormOf(q) = section[e.section].form /\ question[q].order >= e.order)
                     => question'[q].order = question[q].order
<1>1. PICK Ids, later, R, row :
          /\ Ids = QuestionsIn(SectionsOf(section[e.section].form))
          /\ later = Up(question, Ids, e.order)
          /\ R = Renumber(question, later)
          /\ row = [section |-> e.section, order |-> e.order, rule |-> e.rule]
    OBVIOUS
<1>2. TablesOK
    BY InvTables
<1>3. e \in QuestionCreation
    BY EditShape DEF Inv, TypeOK, CreateQuestion, Due
<1>4. e.order \in Nat \ {0} /\ e.section \in DOMAIN section
    BY <1>3, BoundsAreNatural DEF QuestionCreation, Orders, CreateQuestion
<1>5. /\ Ids \subseteq DOMAIN question
      /\ \A i \in Ids : question[i].order \in Nat \ {0}
      /\ question \in [DOMAIN question -> Question]
    BY <1>1, <1>2, RowFacts DEF QuestionsIn, TablesOK
<1>6. \A i \in DOMAIN question \cap DOMAIN later : later[i] \in Nat \ {0}
    BY <1>1, <1>5, UpPositive
<1>7. /\ R \in [DOMAIN question -> Question]
      /\ \A i \in DOMAIN question :
          /\ R[i].section = question[i].section /\ R[i].rule = question[i].rule
          /\ i \in DOMAIN later => R[i].order = later[i]
          /\ i \notin DOMAIN later => R[i] = question[i]
    BY <1>1, <1>5, <1>6, RenumberQuestions
<1>8. \A q \in DOMAIN question : q \in Ids <=> FormOf(q) = section[e.section].form
    BY <1>1, <1>2, RowFacts DEF QuestionsIn, SectionsOf, FormOf
<1>9. /\ \A i : i \in DOMAIN later <=> i \in Ids /\ question[i].order >= e.order
      /\ \A i \in DOMAIN later : later[i] = question[i].order + 1
    BY <1>1 DEF Up
<1>10. question' = Insert(R, nextQuestion, row)
    BY <1>1 DEF CreateQuestion
<1>11. /\ nextQuestion \notin DOMAIN question
       /\ row.section = e.section /\ row.order = e.order /\ row.rule = e.rule
    BY <1>1, <1>2, RowFacts
<1>12. /\ DOMAIN question' = DOMAIN question \cup {nextQuestion}
       /\ question'[nextQuestion] = row
       /\ \A i \in DOMAIN question : question'[i] = R[i]
    BY <1>7, <1>10, <1>11 DEF Insert
<1> QED
    BY <1>4, <1>5, <1>7, <1>8, <1>9, <1>11, <1>12

LEMMA CreateQuestionSuffices ==
    ASSUME Inv, NEW r \in Requests, CreateQuestion(r), NEW e, e = request[r], Accepted(e),
           SectionsDistinct
    PROVE Suffices(e)
<1>1. TablesOK /\ e.kind = "createQuestion" /\ UNCHANGED section
    BY InvTables DEF CreateQuestion, Due
<1>2. QuestionRuleOK(e.rule, e.section, e.order)
    BY <1>1 DEF Accepted
<1>3. /\ \A q \in DOMAIN question : question[q].order \in Nat /\ q \in Nat
      /\ nextQuestion \in Nat
    BY <1>1, RowFacts DEF QuestionIds
<1>4. /\ \A q \in DOMAIN question :
          section'[question'[q].section].form = FormOf(q)
      /\ section'[question'[nextQuestion].section].form = section[e.section].form
    BY <1>1, CreateQuestionOrders DEF FormOf
<1>5. e.rule \in Requested
    BY EditShape DEF Inv, TypeOK, CreateQuestion, Due, QuestionCreation
<1>6. ASSUME QuestionsDistinct, NEW p \in DOMAIN question', NEW q \in DOMAIN question', p # q,
             section'[question'[p].section].form = section'[question'[q].section].form
      PROVE question'[p].order # question'[q].order
    <2>1. ASSUME NEW i \in DOMAIN question,
                 FormOf(i) = section[e.section].form
          PROVE question'[i].order # e.order
        BY <1>3, <2>1, CreateQuestionOrders
    <2>2. CASE p \in DOMAIN question /\ q \in DOMAIN question
        <3>1. FormOf(p) = FormOf(q) /\ question[p].order # question[q].order
            BY <1>4, <1>6, <2>2 DEF QuestionsDistinct
        <3> QED
            BY <1>3, <2>2, <3>1, CreateQuestionOrders
    <2>3. CASE p = nextQuestion
        BY <1>4, <1>6, <2>1, <2>3, CreateQuestionOrders
    <2>4. CASE q = nextQuestion
        BY <1>4, <1>6, <2>1, <2>4, CreateQuestionOrders
    <2> QED
        BY <2>2, <2>3, <2>4, CreateQuestionOrders
<1>7. ASSUME QuestionRulesPointBack, NEW q \in DOMAIN question', NEW p,
             p = question'[q].rule.question, p \in DOMAIN question',
             section'[question'[q].section].form = section'[question'[p].section].form
      PROVE question'[p].order < question'[q].order
    <2>1. p \in Nat
        BY <1>3, <1>7, CreateQuestionOrders
    <2>2. CASE q = nextQuestion
        <3>1. p = e.rule.question /\ question'[q].order = e.order
            BY <1>7, <2>2, CreateQuestionOrders
        <3>2. e.rule.conditional
            BY <1>5, <2>1, <3>1, RequestedRule, NoneIsNoId DEF Always
        <3>3. p \in DOMAIN question /\ question[p].order < e.order
            BY <1>2, <3>1, <3>2 DEF QuestionRuleOK
        <3> QED
            BY <1>3, <3>1, <3>3, CreateQuestionOrders
    <2>3. CASE q \in DOMAIN question
        <3>1. p = question[q].rule.question
            BY <1>7, <2>3, CreateQuestionOrders
        <3>2. p \in DOMAIN question
            BY <1>1, <2>1, <2>3, <3>1, LinkedRows
        <3>3. question[p].order < question[q].order /\ FormOf(q) = FormOf(p)
            BY <1>4, <1>7, <2>3, <3>1, <3>2 DEF QuestionRulesPointBack
        <3> QED
            BY <1>3, <2>3, <3>2, <3>3, CreateQuestionOrders
    <2> QED
        BY <1>7, <2>2, <2>3, CreateQuestionOrders
<1>8. QuestionRulesPointBack => QuestionRulesPointBack'
    BY <1>7 DEF QuestionRulesPointBack, FormOf
<1>9. QuestionsDistinct => QuestionsDistinct'
    BY <1>6 DEF QuestionsDistinct, FormOf
<1> QED
    BY <1>1, <1>8, <1>9, SectionsAlone DEF Suffices, SectionsSuffice

LEMMA UpdateQuestionSuffices ==
    ASSUME Inv, NEW r \in Requests, UpdateQuestion(r), NEW e, e = request[r], Accepted(e),
           SectionsDistinct
    PROVE Suffices(e)
<1>1. TablesOK /\ e.kind = "updateQuestion" /\ UNCHANGED section
    BY InvTables DEF UpdateQuestion, Due
<1>2. e.rule \in Requested
    BY EditShape DEF Inv, TypeOK, UpdateQuestion, Due, QuestionUpdate
<1>3. QuestionRuleOK(e.rule, question[e.question].section, question[e.question].order)
    BY <1>1 DEF Accepted
<1>4. /\ DOMAIN question' = DOMAIN question
      /\ \A i \in DOMAIN question :
          /\ question'[i].section = question[i].section
          /\ question'[i].order = question[i].order
          /\ i # e.question => question'[i] = question[i]
          /\ i = e.question => question'[i].rule = e.rule
    <2>1. /\ question \in [DOMAIN question -> Question]
          /\ question' = Updated(question, e.question, e.rule)
        BY <1>1 DEF TablesOK, UpdateQuestion
    <2> QED
        BY <1>2, <2>1, UpdatedQuestions
<1>5. \A q \in DOMAIN question : section'[question'[q].section].form = FormOf(q)
    BY <1>1, <1>4 DEF FormOf
<1>6. QuestionsDistinct => QuestionsDistinct'
    BY <1>4, <1>5 DEF QuestionsDistinct, FormOf
<1>7. ASSUME QuestionRulesPointBack, NEW q \in DOMAIN question', NEW p,
             p = question'[q].rule.question, p \in DOMAIN question',
             section'[question'[q].section].form = section'[question'[p].section].form
      PROVE question'[p].order < question'[q].order
    <2>1. CASE q = e.question
        <3>1. p = e.rule.question /\ question'[q].order = question[e.question].order
            BY <1>4, <1>7, <2>1
        <3>2. p # None
            BY <1>1, <1>4, <1>7, RowFacts, NoneIsNoId DEF QuestionIds
        <3>3. e.rule.conditional
            BY <1>2, <3>1, <3>2, RequestedRule DEF Always
        <3>4. p \in DOMAIN question /\ question[p].order < question[e.question].order
            BY <1>3, <3>1, <3>3 DEF QuestionRuleOK
        <3> QED
            BY <1>4, <3>1, <3>4
    <2>2. CASE q # e.question
        <3>1. /\ q \in DOMAIN question /\ p \in DOMAIN question
              /\ p = question[q].rule.question /\ FormOf(q) = FormOf(p)
            BY <1>4, <1>5, <1>7, <2>2
        <3>2. question[p].order < question[q].order
            BY <1>7, <3>1 DEF QuestionRulesPointBack
        <3> QED
            BY <1>4, <3>1, <3>2
    <2> QED
        BY <2>1, <2>2
<1>8. QuestionRulesPointBack => QuestionRulesPointBack'
    BY <1>7 DEF QuestionRulesPointBack, FormOf
<1> QED
    BY <1>1, <1>6, <1>8, SectionsAlone DEF Suffices, SectionsSuffice

\* A deletion of a question no rule is linked to takes nothing along, and moves
\* down the questions of the form behind it.
LEMMA DeleteQuestionOrders ==
    ASSUME Inv, NEW r \in Requests, DeleteQuestion(r), RowCurrent(r),
           NEW e, e = request[r], Accepted(e)
    PROVE /\ e.question \in DOMAIN question
          /\ section' = section
          /\ \A q : q \in DOMAIN question' <=> q \in DOMAIN question /\ q # e.question
          /\ \A q \in DOMAIN question' :
              /\ question'[q].section = question[q].section
              /\ question'[q].rule = question[q].rule
              /\ FormOf(q) = FormOf(e.question) /\ question[q].order > question[e.question].order
                     => question'[q].order = question[q].order - 1
              /\ ~ (FormOf(q) = FormOf(e.question) /\ question[q].order > question[e.question].order)
                     => question'[q].order = question[q].order
<1>1. PICK q, seen, gone, S, Q, left :
          /\ q = request[r].question
          /\ seen = snapshot[r]
          /\ gone = {q} \cap DOMAIN question
          /\ S = Taken({}, gone)
          /\ Q = gone \cup QuestionsIn(S)
          /\ left = QuestionsIn(SectionsOf(seen.section[seen.question[q].section].form)) \ Q
    OBVIOUS
<1>2. PICK down, W :
          down = Down(question, left, seen.question[q].order) /\ W = Without(question, Q)
    OBVIOUS
<1>3. TablesOK /\ e.kind = "deleteQuestion" /\ q = e.question /\ seen # None
    BY <1>1, InvTables DEF DeleteQuestion, Due, ReadFirst
<1>4. /\ q \in DOMAIN question /\ gone = {q}
      /\ seen.question[q].order = question[q].order
      /\ seen.section[seen.question[q].section].form = FormOf(q)
      /\ question' = Renumber(W, down)
      /\ section' = Without(section, S)
    <2>1. q \in DOMAIN question /\ seen.question[q].order = question[q].order
        BY <1>1, <1>3 DEF RowCurrent
    <2>2. Remembered(e, seen)
        BY <1>1, <1>3, SeenFacts
    <2>3. /\ seen.question[q].section = question[q].section
          /\ seen.question[q].section \in DOMAIN seen.section
        BY <1>3, <2>1, <2>2 DEF Remembered
    <2>4. question[q].section \in DOMAIN section
        BY <1>3, <2>1, RowFacts
    <2>5. seen.section[seen.question[q].section].form = FormOf(q)
        BY <2>2, <2>3, <2>4 DEF Remembered, FormOf
    <2> QED
        BY <1>1, <1>2, <2>1, <2>5 DEF DeleteQuestion
<1>5. NoRuleLinksQuestion(q)
    BY <1>3 DEF Accepted
<1>6. S = {} /\ Q = {q}
    <2>1. QuestionsIn({}) = {}
        BY DEF QuestionsIn
    <2>2. Cascades({}, {q})
        BY <1>5, <2>1 DEF Cascades, NoRuleLinksQuestion
    <2> QED
        BY <1>1, <1>4, <2>1, <2>2 DEF Taken
<1>7. section' = section
    <2>1. section \in [DOMAIN section -> Section]
        BY <1>3 DEF TablesOK
    <2> QED
        BY <1>4, <1>6, <2>1 DEF Without
<1>8. /\ W \in [DOMAIN question \ {q} -> Question]
      /\ \A p \in DOMAIN question \ {q} : W[p] = question[p]
    BY <1>2, <1>3, <1>6 DEF Without, TablesOK
<1>9. \A p \in DOMAIN question \ {q} : p \in left <=> FormOf(p) = FormOf(q)
    BY <1>1, <1>3, <1>4, <1>6, RowFacts DEF QuestionsIn, SectionsOf, FormOf
<1>10. /\ \A p : p \in DOMAIN down <=> p \in left /\ question[p].order > question[q].order
       /\ \A p \in DOMAIN down : down[p] = question[p].order - 1
    BY <1>2, <1>4 DEF Down
<1>11. \A p \in (DOMAIN question \ {q}) \cap DOMAIN down : down[p] \in Nat \ {0}
    BY <1>3, <1>4, <1>10, RowFacts
<1>12. /\ question' \in [DOMAIN question \ {q} -> Question]
       /\ \A i \in DOMAIN question \ {q} :
           /\ question'[i].section = W[i].section /\ question'[i].rule = W[i].rule
           /\ i \in DOMAIN down => question'[i].order = down[i]
           /\ i \notin DOMAIN down => question'[i] = W[i]
    BY <1>4, <1>8, <1>11, RenumberQuestions
<1> QED
    BY <1>3, <1>4, <1>7, <1>8, <1>9, <1>10, <1>12

LEMMA DeleteQuestionSuffices ==
    ASSUME Inv, NEW r \in Requests, DeleteQuestion(r), RowCurrent(r),
           NEW e, e = request[r], Accepted(e), SectionsDistinct
    PROVE Suffices(e)
<1>1. TablesOK /\ section' = section
    BY InvTables, DeleteQuestionOrders
<1>2. PICK g : g = e.question
    OBVIOUS
<1>3. /\ g \in DOMAIN question
      /\ \A q : q \in DOMAIN question' <=> q \in DOMAIN question /\ q # g
      /\ \A q \in DOMAIN question' :
          /\ question'[q].section = question[q].section
          /\ question'[q].rule = question[q].rule
          /\ FormOf(q) = FormOf(g) /\ question[q].order > question[g].order
                 => question'[q].order = question[q].order - 1
          /\ ~ (FormOf(q) = FormOf(g) /\ question[q].order > question[g].order)
                 => question'[q].order = question[q].order
    BY <1>2, DeleteQuestionOrders
<1>4. \A q \in DOMAIN question : question[q].order \in Nat
    BY <1>1, RowFacts
<1>5. \A q \in DOMAIN question' : section'[question'[q].section].form = FormOf(q)
    BY <1>1, DeleteQuestionOrders DEF FormOf
\* Of two questions of one form the order is kept.
<1>6. ASSUME QuestionsDistinct, NEW p \in DOMAIN question', NEW q \in DOMAIN question',
             FormOf(p) = FormOf(q), question[p].order < question[q].order
      PROVE question'[p].order < question'[q].order
    <2>1. /\ p \in DOMAIN question /\ q \in DOMAIN question /\ p # g /\ q # g
          /\ g \in DOMAIN question
        BY <1>3
    <2>2. FormOf(p) = FormOf(g) =>
              /\ question[p].order # question[g].order
              /\ question[q].order # question[g].order
        BY <1>6, <2>1 DEF QuestionsDistinct
    <2> QED
        BY <1>4, <1>6, <2>1, <2>2, <1>3
<1>7. ASSUME QuestionsDistinct, NEW p \in DOMAIN question', NEW q \in DOMAIN question', p # q,
             section'[question'[p].section].form = section'[question'[q].section].form
      PROVE question'[p].order # question'[q].order
    <2>1. /\ p \in DOMAIN question /\ q \in DOMAIN question
          /\ FormOf(p) = FormOf(q) /\ question[p].order # question[q].order
        BY <1>5, <1>7, <1>3 DEF QuestionsDistinct
    <2>2. /\ question[p].order \in Nat /\ question[q].order \in Nat
          /\ question'[p].order \in Int /\ question'[q].order \in Int
        BY <1>4, <2>1, <1>3
    <2>3. question[p].order < question[q].order \/ question[q].order < question[p].order
        BY <2>1, <2>2
    <2> QED
        BY <1>6, <1>7, <2>1, <2>2, <2>3
<1>8. ASSUME QuestionsDistinct, QuestionRulesPointBack, NEW q \in DOMAIN question', NEW p,
             p = question'[q].rule.question, p \in DOMAIN question',
             section'[question'[q].section].form = section'[question'[p].section].form
      PROVE question'[p].order < question'[q].order
    <2>1. /\ p \in DOMAIN question /\ q \in DOMAIN question /\ FormOf(p) = FormOf(q)
          /\ p = question[q].rule.question
        BY <1>5, <1>8, <1>3
    <2>2. question[p].order < question[q].order
        BY <1>8, <2>1 DEF QuestionRulesPointBack
    <2> QED
        BY <1>6, <1>8, <2>1, <2>2
<1>9. /\ QuestionsDistinct => QuestionsDistinct'
      /\ QuestionsDistinct /\ QuestionRulesPointBack => QuestionRulesPointBack'
    BY <1>7, <1>8 DEF QuestionsDistinct, QuestionRulesPointBack, FormOf
<1> QED
    BY <1>1, <1>9, SectionsAlone DEF Suffices, SectionsSuffice

\* A reorder gives the questions of one section the new orders.
LEMMA ReorderQuestionsOrders ==
    ASSUME Inv, NEW r \in Requests, ReorderQuestions(r), NEW e, e = request[r]
    PROVE /\ section' = section
          /\ DOMAIN question' = DOMAIN question
          /\ \A q \in DOMAIN question :
              /\ question'[q].section = question[q].section
              /\ question'[q].rule = question[q].rule
              /\ q \in DOMAIN e.new => question'[q].order = e.new[q]
              /\ q \notin DOMAIN e.new => question'[q].order = question[q].order
<1>1. TablesOK
    BY InvTables
<1>2. e \in QuestionReorder
    BY EditShape DEF Inv, TypeOK, ReorderQuestions, Due
<1>3. PICK new : new = e.new
    OBVIOUS
<1>4. \A i \in DOMAIN new : new[i] \in Nat \ {0}
    BY <1>2, <1>3, RenumberingPositive DEF QuestionReorder
<1>5. question' = Renumber(question, new) /\ section' = section
    BY <1>3 DEF ReorderQuestions
<1>6. question \in [DOMAIN question -> Question]
    BY <1>1 DEF TablesOK
<1> QED
    BY <1>3, <1>4, <1>5, <1>6, RenumberQuestions

\* Among n different orders from first on one is at least first + n - 1.
LEMMA OrdersReach ==
    ASSUME NEW D, IsFiniteSet(D), NEW n \in Nat, n = Cardinality(D), n # 0,
           NEW ord \in [D -> Nat], NEW first \in Nat, \A i \in D : ord[i] >= first,
           \A i, j \in D : i # j => ord[i] # ord[j]
    PROVE \E i \in D : ord[i] >= first + n - 1
<1>1. SUFFICES ASSUME \A i \in D : ord[i] < first + n - 1
               PROVE FALSE
    OBVIOUS
<1>2. PICK a, b, R : /\ a = first /\ b = first + n - 2 /\ R = a .. b
                   /\ a \in Int /\ b \in Int
    OBVIOUS
<1>3. IsFiniteSet(R) /\ Cardinality(R) < n
    <2>1. /\ IsFiniteSet(R)
          /\ a > b => Cardinality(R) = 0
          /\ ~ (a > b) => Cardinality(R) = b - a + 1
        BY <1>2, FS_Interval
    <2> QED
        BY <1>2, <2>1
<1>4. ord \in [D -> R]
    BY <1>1, <1>2
<1>5. \E i, j \in D : i # j /\ ord[i] = ord[j]
    BY <1>3, <1>4, FS_PigeonHole
<1> QED
    BY <1>5

\* The questions of section s get new orders between the smallest one and at most
\* the largest one they had.
LEMMA NewQuestionOrders ==
    ASSUME TypeOK, TablesOK, NEW new, QuestionReorderOK(new), QuestionsDistinct
    PROVE \E s \in DOMAIN section : \E p, t \in DOMAIN question :
              /\ question[p].section = s /\ question[t].section = s
              /\ \A q \in DOMAIN question : q \in DOMAIN new <=> question[q].section = s
              /\ \A q \in DOMAIN new :
                  new[q] \in Nat /\ question[p].order <= new[q] /\ new[q] <= question[t].order
              /\ \A q, i \in DOMAIN new : q # i => new[q] # new[i]
<1>1. PICK s \in DOMAIN section : DOMAIN new = QuestionsIn({s})
    BY DEF QuestionReorderOK
<1>2. PICK p \in DOMAIN new :
          /\ \A q \in DOMAIN new : question[q].order >= question[p].order
          /\ new \in Bijection(DOMAIN new,
                               question[p].order .. question[p].order + Cardinality(DOMAIN new) - 1)
    BY DEF QuestionReorderOK
<1>3. PICK D, n, first : D = DOMAIN new /\ n = Cardinality(D) /\ first = question[p].order
    OBVIOUS
<1>4. \A q : q \in D <=> q \in DOMAIN question /\ question[q].section = s
    BY <1>1, <1>3 DEF QuestionsIn
<1>5. IsFiniteSet(D) /\ n \in Nat /\ first \in Nat /\ p \in D
    BY <1>1, <1>2, <1>3, <1>4, FiniteTables, RowFacts
<1>6. n # 0
    BY <1>3, <1>5, FS_EmptySet
<1>7. new \in [D -> first .. first + n - 1] /\ \A q, i \in D : q # i => new[q] # new[i]
    BY <1>2, <1>3 DEF Bijection, Injection, IsInjective
<1>8. PICK ord : ord = [i \in D |-> question[i].order]
    OBVIOUS
<1>9. /\ ord \in [D -> Nat]
      /\ \A i \in D : ord[i] >= first
      /\ \A i, j \in D : i # j => ord[i] # ord[j]
    <2>1. \A i \in D : question[i].order \in Nat /\ question[i].order >= first
        BY <1>2, <1>3, <1>4, RowFacts
    <2>2. \A i, j \in D : i # j => question[i].order # question[j].order
        BY <1>4 DEF QuestionsDistinct, FormOf
    <2> QED
        BY <1>8, <2>1, <2>2
<1>10. PICK t \in D : ord[t] >= first + n - 1
    BY <1>5, <1>6, <1>3, <1>9, OrdersReach
<1>11. ord[t] = question[t].order /\ question[t].order \in Nat
    BY <1>4, <1>8, RowFacts
<1>12. \A q \in D : new[q] \in Nat /\ first <= new[q] /\ new[q] <= question[t].order
    BY <1>5, <1>7, <1>10, <1>11
<1> QED
    BY <1>1, <1>3, <1>4, <1>5, <1>7, <1>12

LEMMA ReorderQuestionsSuffices ==
    ASSUME Inv, NEW r \in Requests, ReorderQuestions(r), NEW e, e = request[r], Accepted(e),
           SectionsDistinct
    PROVE Suffices(e)
<1>1. TypeOK /\ TablesOK /\ UNCHANGED section /\ e.kind = "reorderQuestions"
    BY InvTables, ReorderQuestionsOrders DEF Inv, ReorderQuestions, Due
<1>2. PICK new : new = e.new
    OBVIOUS
<1>3. QuestionReorderOK(new)
    BY <1>1, <1>2 DEF Accepted
<1>4. /\ DOMAIN question' = DOMAIN question
      /\ \A q \in DOMAIN question :
          /\ question'[q].section = question[q].section
          /\ question'[q].rule = question[q].rule
          /\ q \in DOMAIN new => question'[q].order = new[q]
          /\ q \notin DOMAIN new => question'[q].order = question[q].order
    BY <1>2, ReorderQuestionsOrders
<1>5. \A q \in DOMAIN question : section'[question'[q].section].form = FormOf(q)
    BY <1>1, <1>4 DEF FormOf
<1>6. \A q \in DOMAIN question : question[q].order \in Nat /\ question[q].section \in DOMAIN section
    BY <1>1, RowFacts
\* Outside the section, what is before stays before and what is behind stays behind.
<1>7. ASSUME QuestionsDistinct, QuestionsFollowSections, NEW p \in DOMAIN question,
             NEW q \in DOMAIN question, FormOf(p) = FormOf(q),
             question[p].order < question[q].order,
             ~ (p \in DOMAIN new /\ q \in DOMAIN new)
      PROVE question'[p].order < question'[q].order
    <2>1. PICK s \in DOMAIN section : \E a, b \in DOMAIN question :
              /\ question[a].section = s /\ question[b].section = s
              /\ \A i \in DOMAIN question : i \in DOMAIN new <=> question[i].section = s
              /\ \A i \in DOMAIN new :
                  new[i] \in Nat /\ question[a].order <= new[i] /\ new[i] <= question[b].order
        BY <1>1, <1>3, <1>7, NewQuestionOrders
    <2>2. PICK a \in DOMAIN question, b \in DOMAIN question :
              /\ question[a].section = s /\ question[b].section = s
              /\ \A i \in DOMAIN question : i \in DOMAIN new <=> question[i].section = s
              /\ \A i \in DOMAIN new :
                  new[i] \in Nat /\ question[a].order <= new[i] /\ new[i] <= question[b].order
        BY <2>1
    <2>3. CASE p \in DOMAIN new /\ q \notin DOMAIN new
        <3>1. /\ question[p].section = s /\ question[q].section # s
              /\ FormOf(q) = FormOf(b) /\ FormOf(p) = section[s].form
            BY <1>7, <2>2, <2>3 DEF FormOf
        <3>2. section[s].order # section[question[q].section].order
            BY <1>6, <1>7, <3>1 DEF SectionsDistinct, FormOf
        <3>3. ~ (section[question[q].section].order < section[s].order)
            BY <1>6, <1>7, <3>1 DEF QuestionsFollowSections
        <3>4. section[s].order < section[question[q].section].order
            BY <1>1, <1>6, <3>2, <3>3, RowFacts
        <3>5. question[b].order < question[q].order
            BY <1>7, <2>2, <3>1, <3>4 DEF QuestionsFollowSections
        <3> QED
            BY <1>4, <1>6, <2>2, <2>3, <3>5
    <2>4. CASE p \notin DOMAIN new /\ q \in DOMAIN new
        <3>1. /\ question[q].section = s /\ question[p].section # s
              /\ FormOf(p) = FormOf(a) /\ FormOf(q) = section[s].form
            BY <1>7, <2>2, <2>4 DEF FormOf
        <3>2. section[s].order # section[question[p].section].order
            BY <1>6, <1>7, <3>1 DEF SectionsDistinct, FormOf
        <3>3. ~ (section[s].order < section[question[p].section].order)
            BY <1>6, <1>7, <3>1 DEF QuestionsFollowSections
        <3>4. section[question[p].section].order < section[s].order
            BY <1>1, <1>6, <3>2, <3>3, RowFacts
        <3>5. question[p].order < question[a].order
            BY <1>7, <2>2, <3>1, <3>4 DEF QuestionsFollowSections
        <3> QED
            BY <1>4, <1>6, <2>2, <2>4, <3>5
    <2>5. CASE p \notin DOMAIN new /\ q \notin DOMAIN new
        BY <1>4, <1>7, <2>5
    <2> QED
        BY <1>7, <2>3, <2>4, <2>5
<1>8. ASSUME QuestionsDistinct, QuestionsFollowSections, NEW p \in DOMAIN question',
             NEW q \in DOMAIN question', p # q,
             section'[question'[p].section].form = section'[question'[q].section].form
      PROVE question'[p].order # question'[q].order
    <2>1. /\ p \in DOMAIN question /\ q \in DOMAIN question /\ FormOf(p) = FormOf(q)
          /\ question[p].order # question[q].order
        BY <1>4, <1>5, <1>8 DEF QuestionsDistinct
    <2>2. CASE p \in DOMAIN new /\ q \in DOMAIN new
        <3>1. new[p] # new[q]
            BY <1>1, <1>3, <1>8, <2>2, NewQuestionOrders
        <3> QED
            BY <1>4, <2>1, <2>2, <3>1
    <2>3. CASE ~ (p \in DOMAIN new /\ q \in DOMAIN new)
        <3>1. question[p].order < question[q].order \/ question[q].order < question[p].order
            BY <1>6, <2>1
        <3>2. question'[p].order < question'[q].order \/ question'[q].order < question'[p].order
            BY <1>7, <1>8, <2>1, <2>3, <3>1
        <3>3. question'[p].order \in Nat /\ question'[q].order \in Nat
            <4>1. \A i \in DOMAIN new : new[i] \in Nat
                BY <1>1, <1>3, <1>8, NewQuestionOrders
            <4> QED
                BY <1>4, <1>6, <2>1, <4>1
        <3> QED
            BY <3>2, <3>3
    <2> QED
        BY <2>2, <2>3
<1>9. ASSUME QuestionsDistinct, QuestionsFollowSections, QuestionRulesPointBack,
             NEW q \in DOMAIN question', NEW p,
             p = question'[q].rule.question, p \in DOMAIN question',
             section'[question'[q].section].form = section'[question'[p].section].form
      PROVE question'[p].order < question'[q].order
    <2>1. /\ p \in DOMAIN question /\ q \in DOMAIN question /\ FormOf(p) = FormOf(q)
          /\ p = question[q].rule.question
        BY <1>4, <1>5, <1>9
    <2>2. question[p].order < question[q].order
        BY <1>9, <2>1 DEF QuestionRulesPointBack
    <2>3. CASE p \in DOMAIN new /\ q \in DOMAIN new
        <3>1. new[p] < new[q]
            BY <1>3, <2>1, <2>3 DEF QuestionReorderOK
        <3> QED
            BY <1>4, <2>1, <2>3, <3>1
    <2>4. CASE ~ (p \in DOMAIN new /\ q \in DOMAIN new)
        BY <1>7, <1>9, <2>1, <2>2, <2>4
    <2> QED
        BY <2>3, <2>4
<1>10. QuestionsDistinct /\ QuestionsFollowSections =>
           /\ QuestionsDistinct'
           /\ QuestionRulesPointBack => QuestionRulesPointBack'
    BY <1>8, <1>9 DEF QuestionsDistinct, QuestionRulesPointBack, FormOf
<1> QED
    BY <1>1, <1>10, SectionsAlone DEF Suffices, SectionsSuffice

\* Where nothing numbered is stale, the rows read are the rows there are.
LEMMA SeenNumbers ==
    ASSUME Inv, NEW r \in Requests, snapshot[r] # None, NEW seen, seen = snapshot[r],
           NEW e, e = request[r], e.kind \in {"deleteSection", "reorderSections"},
           NumbersCurrent(r)
    PROVE /\ DOMAIN seen.section = SectionsRead(e)
          /\ \A s \in SectionsRead(e) : seen.section[s].order = section[s].order
          /\ DOMAIN seen.question = QuestionsIn(SectionsRead(e))
          /\ \A q \in DOMAIN seen.question :
              /\ q \in DOMAIN question
              /\ seen.question[q].section = question[q].section
              /\ seen.question[q].order = question[q].order
<1>1. /\ SameOrders(section, SectionsRead(e), seen.section)
      /\ SameOrders(question, QuestionsIn(SectionsRead(e)), seen.question)
    BY DEF NumbersCurrent
<1>2. Remembered(e, seen)
    BY SeenFacts
<1>3. \A q \in QuestionsIn(SectionsRead(e)) : q \in DOMAIN question
    BY DEF QuestionsIn
<1> QED
    BY <1>1, <1>2, <1>3 DEF SameOrders, Remembered

\* Different numbers for the questions of the sections S, smaller ones in a
\* section of smaller rank, and within one by their orders.
InSequence(pos, S, rank) ==
    /\ DOMAIN pos = QuestionsIn(S)
    /\ \A p, q \in QuestionsIn(S) :
        /\ p # q => pos[p] # pos[q]
        /\ rank[question[p].section] < rank[question[q].section] => pos[p] < pos[q]
        /\ question[p].section = question[q].section /\ question[p].order < question[q].order
               => pos[p] < pos[q]

LEMMA NumberedThrough ==
    ASSUME Inv, NEW r \in Requests, snapshot[r] # None, NEW seen, seen = snapshot[r],
           NEW e, e = request[r], e.kind \in {"deleteSection", "reorderSections"},
           NumbersCurrent(r),
           NEW S, S \subseteq SectionsRead(e), NEW rank,
           NEW pos \in Numberings(S, rank, seen.question)
    PROVE InSequence(pos, S, rank)
<1>1. PICK Q : Q = Of(seen.question, S)
    OBVIOUS
<1>2. /\ pos \in [Q -> 1 .. Cardinality(Q)]
      /\ \A p, q \in Q : pos[p] = pos[q] => p = q
      /\ \A p, q \in Q :
          LET sp == seen.question[p].section
              sq == seen.question[q].section IN
          /\ rank[sp] < rank[sq] => pos[p] < pos[q]
          /\ sp = sq /\ seen.question[p].order < seen.question[q].order => pos[p] < pos[q]
    BY <1>1 DEF Numberings, Of, Bijection, Injection, IsInjective
<1>3. /\ DOMAIN seen.question = QuestionsIn(SectionsRead(e))
      /\ \A q \in DOMAIN seen.question :
          /\ q \in DOMAIN question
          /\ seen.question[q].section = question[q].section
          /\ seen.question[q].order = question[q].order
    BY SeenNumbers
<1>4. Q = QuestionsIn(S)
    BY <1>1, <1>3 DEF Of, QuestionsIn
<1>5. \A q \in Q : q \in DOMAIN seen.question
    BY <1>1 DEF Of
<1> QED
    BY <1>2, <1>3, <1>4, <1>5 DEF InSequence

\* A reorder gives the sections of a form the new orders, and new ones to all
\* their questions.
LEMMA ReorderSectionsSuffices ==
    ASSUME Inv, NEW r \in Requests, ReorderSections(r), NEW e, e = request[r], Accepted(e),
           SectionsDistinct
    PROVE SectionsSuffice(e) /\ (NumbersCurrent(r) => Suffices(e))
<1>1. PICK new, seen : new = e.new /\ seen = snapshot[r]
    OBVIOUS
<1>2. TablesOK /\ TypeOK /\ e.kind = "reorderSections" /\ seen # None
    BY <1>1, InvTables DEF Inv, ReorderSections, Due, ReadFirst
<1>3. e \in SectionReorder
    BY <1>2, EditShape DEF Inv, TypeOK, ReorderSections, Due
<1>4. \A i \in DOMAIN new : new[i] \in Nat \ {0}
    BY <1>1, <1>3, RenumberingPositive DEF SectionReorder
<1>5. SectionReorderOK(new)
    BY <1>1, <1>2 DEF Accepted
<1>6. PICK f \in Forms : DOMAIN new = SectionsOf(f)
    BY <1>5 DEF SectionReorderOK
<1>7. \A s, t \in DOMAIN new : s # t => new[s] # new[t]
    BY <1>5 DEF SectionReorderOK, Bijection, Injection, IsInjective
<1>8. /\ section' = Renumber(section, new)
      /\ \E pos \in Numberings(DOMAIN new, new, seen.question) :
             question' = Renumber(question, pos)
    BY <1>1 DEF ReorderSections
<1>9. PICK pos \in Numberings(DOMAIN new, new, seen.question) :
          question' = Renumber(question, pos)
    BY <1>8
<1>10. \A q \in DOMAIN question \cap DOMAIN pos : pos[q] \in Nat \ {0}
    <2>1. SnapshotOK(seen)
        BY <1>1, <1>2, SeenFacts
    <2> QED
        BY <1>2, <1>9, <2>1, NumberingsPositive
<1>11. section \in [DOMAIN section -> Section] /\ question \in [DOMAIN question -> Question]
    BY <1>2 DEF TablesOK
<1>12. /\ DOMAIN section' = DOMAIN section
       /\ \A s \in DOMAIN section :
           /\ section'[s].form = section[s].form
           /\ s \in DOMAIN new => section'[s].order = new[s]
           /\ s \notin DOMAIN new => section'[s].order = section[s].order
    BY <1>4, <1>8, <1>11, RenumberSections
<1>13. /\ DOMAIN question' = DOMAIN question
       /\ \A q \in DOMAIN question :
           /\ question'[q].section = question[q].section
           /\ q \in DOMAIN pos => question'[q].order = pos[q]
           /\ q \notin DOMAIN pos => question'[q].order = question[q].order
    BY <1>9, <1>10, <1>11, RenumberQuestions
<1>14. SectionsDistinct'
    <2>1. \A s \in DOMAIN section : s \in DOMAIN new <=> section[s].form = f
        BY <1>6 DEF SectionsOf
    <2> QED
        BY <1>7, <1>12, <2>1 DEF SectionsDistinct
<1>15. SectionsSuffice(e)
    BY <1>2, <1>14 DEF SectionsSuffice
<1>16. \A q \in DOMAIN question : section'[question'[q].section].form = FormOf(q)
    BY <1>2, <1>12, <1>13, RowFacts DEF FormOf
<1>17. ASSUME NumbersCurrent(r)
       PROVE /\ InSequence(pos, DOMAIN new, new)
             /\ \A q \in DOMAIN question : q \in DOMAIN pos <=> FormOf(q) = f
    <2>1. DOMAIN new \subseteq SectionsRead(e)
        BY <1>1, <1>2, <1>6 DEF SectionsRead, SectionsOf
    <2>2. InSequence(pos, DOMAIN new, new)
        BY <1>1, <1>2, <1>9, <1>17, <2>1, NumberedThrough
    <2>3. \A q \in DOMAIN question : q \in DOMAIN pos <=> FormOf(q) = f
        BY <1>2, <1>6, <2>2, RowFacts DEF InSequence, QuestionsIn, SectionsOf, FormOf
    <2> QED
        BY <2>2, <2>3
<1>18. ASSUME NumbersCurrent(r), QuestionsDistinct,
              NEW p \in DOMAIN question', NEW q \in DOMAIN question', p # q,
              section'[question'[p].section].form = section'[question'[q].section].form
       PROVE question'[p].order # question'[q].order
    <2>1. /\ p \in DOMAIN question /\ q \in DOMAIN question /\ FormOf(p) = FormOf(q)
          /\ question[p].order # question[q].order
        BY <1>13, <1>16, <1>18 DEF QuestionsDistinct
    <2>2. CASE FormOf(p) = f
        <3>1. p \in DOMAIN pos /\ q \in DOMAIN pos
            BY <1>17, <1>18, <2>1, <2>2
        <3>2. pos[p] # pos[q]
            BY <1>17, <1>18, <3>1 DEF InSequence
        <3> QED
            BY <1>13, <2>1, <3>1, <3>2
    <2>3. CASE FormOf(p) # f
        BY <1>13, <1>17, <1>18, <2>1, <2>3
    <2> QED
        BY <2>2, <2>3
<1>19. NumbersCurrent(r) /\ QuestionsDistinct => QuestionsDistinct'
    BY <1>18 DEF QuestionsDistinct, FormOf
<1> QED
    BY <1>2, <1>15, <1>19 DEF Suffices

\* What a deletion of section s does to the questions left: those in the sections
\* left of the form are numbered through by the orders these have now.
QuestionsNumbered(s, r, left, rank, pos) ==
    /\ \A q \in DOMAIN question' :
        /\ question'[q].section = question[q].section
        /\ question'[q].rule = question[q].rule
        /\ q \in DOMAIN pos => question'[q].order = pos[q]
        /\ q \notin DOMAIN pos => question'[q].order = question[q].order
    /\ \A t : t \in left <=> t \in DOMAIN section' /\ section[t].form = section[s].form
    /\ NumbersCurrent(r) =>
        /\ InSequence(pos, left, rank)
        /\ \A t \in left : rank[t] = section'[t].order

\* A deletion of a section no rule is linked to takes only its questions along,
\* moves down the sections behind it and numbers the questions left through.
LEMMA DeleteSectionOrders ==
    ASSUME Inv, NEW r \in Requests, DeleteSection(r), RowCurrent(r),
           NEW e, e = request[r], Accepted(e), NEW s, s = e.section
    PROVE /\ s \in DOMAIN section
          /\ \A t : t \in DOMAIN section' <=> t \in DOMAIN section /\ t # s
          /\ \A t \in DOMAIN section' :
              /\ section'[t].form = section[t].form
              /\ section'[t].rule = section[t].rule
              /\ section[t].form = section[s].form /\ section[t].order > section[s].order
                     => section'[t].order = section[t].order - 1
              /\ ~ (section[t].form = section[s].form /\ section[t].order > section[s].order)
                     => section'[t].order = section[t].order
          /\ \A q : q \in DOMAIN question' <=> q \in DOMAIN question /\ question[q].section # s
          /\ \E left, rank, pos : QuestionsNumbered(s, r, left, rank, pos)
<1>1. PICK seen, S : seen = snapshot[r] /\ S = Taken({s} \cap DOMAIN section, {})
    OBVIOUS
<1>2. PICK left : left = SectionsOf(seen.section[s].form) \ S
    OBVIOUS
<1>3. PICK down : down = Down(section, left, seen.section[s].order)
    OBVIOUS
<1>4. PICK Q, W, V, same :
          /\ Q = QuestionsIn(S)
          /\ W = Without(section, S)
          /\ V = Without(question, Q)
          /\ same = DOMAIN seen.section \ (S \cup DOMAIN down)
    OBVIOUS
<1>5. PICK rows, rank :
          /\ rows = Renumber(W, down)
          /\ rank = [t \in DOMAIN down \cup same |->
                        IF t \in DOMAIN down THEN down[t] ELSE seen.section[t].order]
    OBVIOUS
<1>6. /\ seen = snapshot[r] /\ S = Taken({s} \cap DOMAIN section, {})
      /\ Q = QuestionsIn(S) /\ left = SectionsOf(seen.section[s].form) \ S
      /\ down = Down(section, left, seen.section[s].order)
      /\ same = DOMAIN seen.section \ (S \cup DOMAIN down)
      /\ rank = [t \in DOMAIN down \cup same |->
                    IF t \in DOMAIN down THEN down[t] ELSE seen.section[t].order]
      /\ W = Without(section, S) /\ V = Without(question, Q) /\ rows = Renumber(W, down)
    BY <1>1, <1>2, <1>3, <1>4, <1>5
<1>7. /\ TablesOK /\ TypeOK /\ e.kind = "deleteSection" /\ seen # None
      /\ s = request[r].section
    BY <1>6, InvTables DEF Inv, DeleteSection, Due, ReadFirst
<1>8. /\ s \in DOMAIN section /\ {s} \cap DOMAIN section = {s}
      /\ s \in DOMAIN seen.section
      /\ seen.section[s].order = section[s].order
      /\ seen.section[s].form = section[s].form
    <2>1. s \in DOMAIN section /\ seen.section[s].order = section[s].order
        BY <1>6, <1>7 DEF RowCurrent
    <2>2. Remembered(e, seen)
        BY <1>6, <1>7, SeenFacts
    <2> QED
        BY <1>7, <2>1, <2>2 DEF Remembered
<1>9. /\ section' = rows
      /\ \E pos \in Numberings(DOMAIN rank, rank, seen.question) : question' = Renumber(V, pos)
    BY <1>6, <1>7 DEF DeleteSection
<1>10. NoRuleLinksSection(s)
    BY <1>7 DEF Accepted
<1>11. S = {s}
    <2>1. ASSUME NEW t \in DOMAIN section
          PROVE section[t].rule.section # s /\ section[t].rule.question \notin QuestionsIn({s})
        <3>1. section[t].rule.section # s
            BY <1>10 DEF NoRuleLinksSection
        <3>2. ASSUME section[t].rule.question \in QuestionsIn({s}) PROVE FALSE
            <4>1. section[t].rule.question \in DOMAIN question
                BY <3>2 DEF QuestionsIn
            <4>2. section[t].rule.question \in Nat
                BY <1>7, <4>1, RowFacts DEF QuestionIds
            <4>3. SectionRuleHolds(section[t].rule, section[t].form)
                BY <1>7, RulesHold, TablesParts
            <4>4. section[t].rule.conditional
                BY <4>2, <4>3, NoneIsNoId DEF SectionRuleHolds, Always
            <4>5. question[section[t].rule.question].section = section[t].rule.section
                BY <4>3, <4>4 DEF SectionRuleHolds
            <4> QED
                BY <3>1, <3>2, <4>5 DEF QuestionsIn
        <3> QED
            BY <3>1, <3>2
    <2>2. Cascades({s}, {})
        BY <2>1 DEF Cascades
    <2>3. {s} \in SUBSET DOMAIN section
        BY <1>8
    <2> QED
        BY <1>6, <1>8, <2>2, <2>3 DEF Taken
<1>12. \A t : t \in left <=> t \in DOMAIN section \ {s} /\ section[t].form = section[s].form
    BY <1>6, <1>8, <1>11 DEF SectionsOf
<1>13. /\ W \in [DOMAIN section \ {s} -> Section]
      /\ \A t \in DOMAIN section \ {s} : W[t] = section[t]
    BY <1>6, <1>7, <1>11 DEF Without, TablesOK
<1>14. /\ \A t : t \in DOMAIN down <=> t \in left /\ section[t].order > section[s].order
      /\ \A t \in DOMAIN down : down[t] = section[t].order - 1
    BY <1>6, <1>8 DEF Down
<1>15. \A t \in (DOMAIN section \ {s}) \cap DOMAIN down : down[t] \in Nat \ {0}
    BY <1>7, <1>8, <1>12, <1>14, RowFacts
<1>16. /\ rows \in [DOMAIN section \ {s} -> Section]
       /\ \A t \in DOMAIN section \ {s} :
           /\ rows[t].form = W[t].form /\ rows[t].rule = W[t].rule
           /\ t \in DOMAIN down => rows[t].order = down[t]
           /\ t \notin DOMAIN down => rows[t] = W[t]
    <2>1. rows = Renumber(W, down)
        BY <1>6
    <2> QED
        BY <1>13, <1>15, <2>1, RenumberSections
<1>17. /\ \A t : t \in DOMAIN section' <=> t \in DOMAIN section /\ t # s
       /\ \A t \in DOMAIN section' :
           /\ section'[t].form = section[t].form
           /\ section'[t].rule = section[t].rule
           /\ section[t].form = section[s].form /\ section[t].order > section[s].order
                  => section'[t].order = section[t].order - 1
           /\ ~ (section[t].form = section[s].form /\ section[t].order > section[s].order)
                  => section'[t].order = section[t].order
    BY <1>9, <1>12, <1>13, <1>14, <1>16
<1>18. \A q : q \in Q <=> q \in DOMAIN question /\ question[q].section = s
    BY <1>6, <1>11 DEF QuestionsIn
<1>19. /\ V \in [DOMAIN question \ Q -> Question]
       /\ \A q \in DOMAIN question \ Q : V[q] = question[q]
    BY <1>6, <1>7 DEF Without, TablesOK
<1>20. PICK pos \in Numberings(DOMAIN rank, rank, seen.question) : question' = Renumber(V, pos)
    BY <1>9
<1>21. \A q \in (DOMAIN question \ Q) \cap DOMAIN pos : pos[q] \in Nat \ {0}
    <2>1. SnapshotOK(seen)
        BY <1>6, <1>7, SeenFacts
    <2> QED
        BY <1>7, <1>20, <2>1, NumberingsPositive
<1>22. /\ question' \in [DOMAIN question \ Q -> Question]
       /\ \A q \in DOMAIN question \ Q :
           /\ question'[q].section = V[q].section /\ question'[q].rule = V[q].rule
           /\ q \in DOMAIN pos => question'[q].order = pos[q]
           /\ q \notin DOMAIN pos => question'[q] = V[q]
    BY <1>19, <1>20, <1>21, RenumberQuestions
<1>23. \A q : q \in DOMAIN question' <=> q \in DOMAIN question /\ question[q].section # s
    BY <1>18, <1>22
<1>24. \A q \in DOMAIN question' :
           /\ question'[q].section = question[q].section
           /\ question'[q].rule = question[q].rule
           /\ q \in DOMAIN pos => question'[q].order = pos[q]
           /\ q \notin DOMAIN pos => question'[q].order = question[q].order
    BY <1>19, <1>22
<1>25. \A t : t \in left <=> t \in DOMAIN section' /\ section[t].form = section[s].form
    BY <1>12, <1>17
<1>26. ASSUME NumbersCurrent(r)
       PROVE InSequence(pos, left, rank) /\ \A t \in left : rank[t] = section'[t].order
    <2>1. \A t : t \in SectionsRead(e) <=> t \in DOMAIN section /\ section[t].form = section[s].form
        BY <1>7, <1>8 DEF SectionsRead
    <2>2. /\ DOMAIN seen.section = SectionsRead(e)
          /\ \A t \in SectionsRead(e) : seen.section[t].order = section[t].order
        <3>1. /\ e.kind \in {"deleteSection", "reorderSections"}
              /\ snapshot[r] # None /\ seen = snapshot[r]
            BY <1>6, <1>7
        <3> QED
            BY <1>26, <3>1, SeenNumbers
    <2>3. DOMAIN rank = left
        <3>1. DOMAIN rank = DOMAIN down \cup (DOMAIN seen.section \ (S \cup DOMAIN down))
            BY <1>6
        <3>2. \A t : t \in left <=> t \in DOMAIN seen.section /\ t \notin S
            BY <1>11, <1>12, <2>1, <2>2
        <3>3. \A t \in DOMAIN down : t \in left
            BY <1>14
        <3> QED
            BY <3>1, <3>2, <3>3
    <2>4. \A t \in left : rank[t] = section'[t].order
        <3>1. SUFFICES ASSUME NEW t \in left PROVE rank[t] = section'[t].order
            OBVIOUS
        <3>2. t \in DOMAIN section \ {s} /\ t \in DOMAIN rank /\ t \in SectionsRead(e)
            BY <1>12, <2>1, <2>3, <3>1
        <3>3. CASE t \in DOMAIN down
            BY <1>6, <1>9, <1>16, <3>2, <3>3
        <3>4. CASE t \notin DOMAIN down
            <4>1. rank[t] = seen.section[t].order
                BY <1>6, <3>2, <3>4
            <4> QED
                BY <1>9, <1>13, <1>16, <2>2, <3>2, <3>4, <4>1
        <3> QED
            BY <3>3, <3>4
    <2>5. left \subseteq SectionsRead(e)
        BY <1>12, <2>1
    <2>6. InSequence(pos, left, rank)
        BY <1>6, <1>7, <1>20, <1>26, <2>3, <2>5, NumberedThrough
    <2> QED
        BY <2>4, <2>6
<1>27. QuestionsNumbered(s, r, left, rank, pos)
    BY <1>24, <1>25, <1>26 DEF QuestionsNumbered
<1> QED
    BY <1>8, <1>17, <1>23, <1>27

LEMMA DeleteSectionSuffices ==
    ASSUME Inv, NEW r \in Requests, DeleteSection(r), RowCurrent(r),
           NEW e, e = request[r], Accepted(e), SectionsDistinct
    PROVE SectionsSuffice(e) /\ (NumbersCurrent(r) => Suffices(e))
<1>1. PICK s : s = e.section
    OBVIOUS
<1>2. TablesOK
    BY InvTables
<1>3. /\ s \in DOMAIN section
      /\ \A t : t \in DOMAIN section' <=> t \in DOMAIN section /\ t # s
      /\ \A t \in DOMAIN section' :
          /\ section'[t].form = section[t].form
          /\ section'[t].rule = section[t].rule
          /\ section[t].form = section[s].form /\ section[t].order > section[s].order
                 => section'[t].order = section[t].order - 1
          /\ ~ (section[t].form = section[s].form /\ section[t].order > section[s].order)
                 => section'[t].order = section[t].order
    BY <1>1, DeleteSectionOrders
<1>4. \A q : q \in DOMAIN question' <=> q \in DOMAIN question /\ question[q].section # s
    BY <1>1, DeleteSectionOrders
<1>5. PICK left, rank, pos : QuestionsNumbered(s, r, left, rank, pos)
    BY <1>1, DeleteSectionOrders
<1>6. \A t \in DOMAIN section : section[t].order \in Nat
    BY <1>2, RowFacts
\* Of two sections of one form the order is kept.
<1>7. ASSUME NEW t \in DOMAIN section', NEW u \in DOMAIN section',
             section[t].form = section[u].form, section[t].order < section[u].order
      PROVE section'[t].order < section'[u].order
    <2>1. t \in DOMAIN section /\ u \in DOMAIN section /\ t # s /\ u # s
        BY <1>3
    <2>2. section[t].form = section[s].form =>
              section[t].order # section[s].order /\ section[u].order # section[s].order
        BY <1>3, <1>7, <2>1 DEF SectionsDistinct
    <2> QED
        BY <1>3, <1>6, <1>7, <2>1, <2>2
<1>8. ASSUME NEW t \in DOMAIN section', NEW u \in DOMAIN section', t # u,
             section'[t].form = section'[u].form
      PROVE section'[t].order # section'[u].order
    <2>1. /\ t \in DOMAIN section /\ u \in DOMAIN section /\ section[t].form = section[u].form
          /\ section[t].order # section[u].order
        BY <1>3, <1>8 DEF SectionsDistinct
    <2>2. section[t].order < section[u].order \/ section[u].order < section[t].order
        BY <1>6, <2>1
    <2>3. section'[t].order \in Int /\ section'[u].order \in Int
        BY <1>3, <1>6, <2>1
    <2> QED
        BY <1>7, <2>1, <2>2, <2>3
<1>9. ASSUME SectionRulesPointBack, NEW t \in DOMAIN section', NEW u,
             u = section'[t].rule.section, u \in DOMAIN section'
      PROVE section'[u].order < section'[t].order
    <2>1. t \in DOMAIN section /\ u \in DOMAIN section /\ u = section[t].rule.section
        BY <1>3, <1>9
    <2>2. u \in Nat
        BY <1>2, <2>1, RowFacts DEF SectionIds
    <2>3. section[u].form = section[t].form
        BY <1>2, <2>1, <2>2, LinkedRows
    <2>4. section[u].order < section[t].order
        BY <1>9, <2>1 DEF SectionRulesPointBack
    <2> QED
        BY <1>7, <1>9, <2>3, <2>4
<1>10. SectionsSuffice(e)
    BY <1>8, <1>9 DEF SectionsDistinct, SectionRulesPointBack, SectionsSuffice
<1>11. ASSUME NEW q \in DOMAIN question'
       PROVE /\ q \in DOMAIN question /\ question[q].section \in DOMAIN section'
             /\ section'[question'[q].section].form = FormOf(q)
             /\ q \in QuestionsIn(left) <=> FormOf(q) = section[s].form
    <2>1. q \in DOMAIN question /\ question[q].section # s
        BY <1>4
    <2>2. question[q].section \in DOMAIN section'
        BY <1>2, <1>3, <2>1, RowFacts
    <2>3. section'[question'[q].section].form = FormOf(q)
        BY <1>3, <1>5, <2>2 DEF FormOf, QuestionsNumbered
    <2>4. q \in QuestionsIn(left) <=> FormOf(q) = section[s].form
        BY <1>5, <2>1, <2>2 DEF QuestionsIn, FormOf, QuestionsNumbered
    <2> QED
        BY <2>1, <2>2, <2>3, <2>4
<1>12. ASSUME NumbersCurrent(r)
       PROVE /\ DOMAIN pos = QuestionsIn(left)
             /\ \A t \in left : rank[t] = section'[t].order
             /\ \A p, q \in QuestionsIn(left) :
                 /\ p # q => pos[p] # pos[q]
                 /\ rank[question[p].section] < rank[question[q].section] => pos[p] < pos[q]
                 /\ question[p].section = question[q].section /\ question[p].order < question[q].order
                        => pos[p] < pos[q]
    BY <1>5, <1>12 DEF InSequence, QuestionsNumbered
<1>13. ASSUME NumbersCurrent(r), QuestionsDistinct,
              NEW p \in DOMAIN question', NEW q \in DOMAIN question', p # q,
              section'[question'[p].section].form = section'[question'[q].section].form
       PROVE question'[p].order # question'[q].order
    <2>1. FormOf(p) = FormOf(q) /\ p \in DOMAIN question /\ q \in DOMAIN question
        BY <1>11, <1>13
    <2>2. question[p].order # question[q].order
        BY <1>13, <2>1 DEF QuestionsDistinct
    <2>3. CASE FormOf(p) = section[s].form
        BY <1>5, <1>11, <1>12, <1>13, <2>1, <2>3 DEF QuestionsNumbered
    <2>4. CASE FormOf(p) # section[s].form
        BY <1>5, <1>11, <1>12, <1>13, <2>1, <2>2, <2>4 DEF QuestionsNumbered
    <2> QED
        BY <2>3, <2>4
<1>14. ASSUME NumbersCurrent(r), QuestionsFollowSections, QuestionRulesPointBack,
              NEW q \in DOMAIN question', NEW p, p = question'[q].rule.question, p \in DOMAIN question',
              section'[question'[q].section].form = section'[question'[p].section].form
       PROVE question'[p].order < question'[q].order
    <2>1. /\ FormOf(p) = FormOf(q) /\ p \in DOMAIN question /\ q \in DOMAIN question
          /\ p = question[q].rule.question
        BY <1>5, <1>11, <1>14 DEF QuestionsNumbered
    <2>2. question[p].order < question[q].order
        BY <1>14, <2>1 DEF QuestionRulesPointBack
    <2>3. CASE FormOf(p) # section[s].form
        BY <1>5, <1>11, <1>12, <1>14, <2>1, <2>2, <2>3 DEF QuestionsNumbered
    <2>4. CASE FormOf(p) = section[s].form
        <3>1. p \in QuestionsIn(left) /\ q \in QuestionsIn(left)
            BY <1>11, <1>14, <2>1, <2>4
        <3>2. PICK t, u : t = question[p].section /\ u = question[q].section
            OBVIOUS
        <3>3. /\ t \in DOMAIN section' /\ u \in DOMAIN section'
              /\ t \in DOMAIN section /\ u \in DOMAIN section
              /\ section[t].form = section[u].form
              /\ t \in left /\ u \in left
            BY <1>3, <1>11, <1>14, <2>1, <3>1, <3>2 DEF FormOf, QuestionsIn
        <3>4. ~ (section[u].order < section[t].order)
            <4>1. question[p].order \in Nat /\ question[q].order \in Nat
                BY <1>2, <2>1, RowFacts
            <4> QED
                BY <1>14, <2>1, <2>2, <3>2, <4>1 DEF QuestionsFollowSections
        <3>5. pos[p] < pos[q]
            <4>1. CASE t = u
                BY <1>12, <1>14, <2>2, <3>1, <3>2, <4>1
            <4>2. CASE t # u
                <5>1. section[t].order # section[u].order
                    BY <3>3, <4>2 DEF SectionsDistinct
                <5>2. section[t].order < section[u].order
                    BY <1>6, <3>3, <3>4, <5>1
                <5>3. rank[t] < rank[u]
                    BY <1>7, <1>12, <1>14, <3>3, <5>2
                <5> QED
                    BY <1>12, <1>14, <3>1, <3>2, <5>3
            <4> QED
                BY <4>1, <4>2
        <3> QED
            BY <1>5, <1>12, <1>14, <3>1, <3>5 DEF QuestionsNumbered
    <2> QED
        BY <2>3, <2>4
<1>15. NumbersCurrent(r) =>
           /\ QuestionsDistinct => QuestionsDistinct'
           /\ QuestionsFollowSections /\ QuestionRulesPointBack => QuestionRulesPointBack'
    BY <1>13, <1>14 DEF QuestionsDistinct, QuestionRulesPointBack, FormOf
<1> QED
    BY <1>10, <1>15 DEF Suffices

\* An edit that would still be accepted when it is written, and whose places are
\* not stale, keeps the orders distinct and the rules pointing back, whatever the
\* bounds, the other transactions and the commits missed: the checks of the
\* handlers suffice for their writes, but for the gaps ChecksSuffice names.
THEOREM ChecksAreEnough == Spec => ChecksSuffice
<1>1. ASSUME Inv, NEW r \in Requests, Write(r), Accepted(request[r]), RowCurrent(r),
             SectionsDistinct
      PROVE SectionsSuffice(request[r]) /\ (NumbersCurrent(r) => Suffices(request[r]))
    <2>1. PICK e : e = request[r]
        OBVIOUS
    <2>2. SectionsSuffice(e) /\ (NumbersCurrent(r) => Suffices(e))
        <3>1. CASE DeleteSection(r) \/ ReorderSections(r)
            BY <1>1, <2>1, <3>1, DeleteSectionSuffices, ReorderSectionsSuffices
        <3>2. CASE ~ (DeleteSection(r) \/ ReorderSections(r))
            <4>1. Suffices(e)
                BY <1>1, <2>1, <3>2, CreateSectionSuffices, UpdateSectionSuffices,
                   CreateQuestionSuffices, UpdateQuestionSuffices, DeleteQuestionSuffices,
                   ReorderQuestionsSuffices DEF Write
            <4> QED
                BY <4>1 DEF Suffices
        <3> QED
            BY <3>1, <3>2
    <2> QED
        BY <2>1, <2>2 DEF Suffices, SectionsSuffice
<1>2. Inv /\ [Next]_vars =>
          [\A r \in Requests :
              Write(r) /\ Accepted(request[r]) /\ RowCurrent(r) /\ SectionsDistinct =>
                  /\ SectionsDistinct'
                  /\ request[r].kind # "reorderSections" /\ SectionRulesPointBack
                         => SectionRulesPointBack'
                  /\ NumbersCurrent(r) /\ QuestionsDistinct /\ QuestionsFollowSections =>
                      /\ QuestionsDistinct'
                      /\ request[r].kind # "reorderSections" /\ QuestionRulesPointBack
                             => QuestionRulesPointBack']_vars
    BY <1>1 DEF Suffices, SectionsSuffice
<1> QED
    BY <1>2, SpecInv, PTL DEF Spec, ChecksSuffice
=============================================================================
