-------------------------- MODULE Answers_proofs --------------------------
(***************************************************************************)
(* Proofs about Answers, for any form, answers and concurrent requests.    *)
(***************************************************************************)
EXTENDS Answers, FiniteSetTheorems, TLAPS

USE DEF NoRow

\* The rows a request refers to exist.
Known(q, r) == r # NoRow => r \in 1..Len(rows[q])
Bound(r) ==
    /\ r.pc \in {"find", "save", "commit"} => r.question \in Questions /\ r.value \in Values
    /\ r.pc \in {"save", "commit"} => Known(r.question, r.row)
    /\ r.pc = "commit" => \A p \in Questions : Known(p, r.deps[p])
Typed == TypeOK /\ \A h \in Handlers : Bound(handler[h])

-----------------------------------------------------------------------------
(* The operators on rows *)

LEMMA AnswerWrites ==
    ASSUME NEW s \in Seq(Row), NEW r \in Nat, r # NoRow => r \in 1..Len(s),
           NEW v \in Values
    PROVE  /\ Answer(s, r, v) \in Seq(Row)
           /\ Len(Answer(s, r, v)) = IF r = NoRow THEN Len(s) + 1 ELSE Len(s)
<1>1. CASE r = NoRow
  <2>1. [value |-> v, valid |-> TRUE] \in Row
    BY DEF Row
  <2> QED
    BY <1>1, <2>1 DEF Answer
<1>2. CASE r # NoRow
  <2>1. s[r] \in Row
    BY <1>2
  <2>2. [s[r] EXCEPT !.value = v] \in Row
    BY <2>1 DEF Row
  <2>3. /\ [s EXCEPT ![r] = [s[r] EXCEPT !.value = v]] \in Seq(Row)
        /\ Len([s EXCEPT ![r] = [s[r] EXCEPT !.value = v]]) = Len(s)
    BY <1>2, <2>2
  <2> QED
    BY <1>2, <2>3 DEF Answer
<1> QED
  BY <1>1, <1>2

LEMMA EnableWrites ==
    ASSUME NEW s \in Seq(Row), NEW r \in Nat, r # NoRow => r \in 1..Len(s),
           NEW b \in BOOLEAN
    PROVE  /\ Enable(s, r, b) \in Seq(Row)
           /\ Len(Enable(s, r, b)) = IF r = NoRow THEN Len(s) + 1 ELSE Len(s)
<1>1. CASE r = NoRow
  <2>1. [value |-> Null, valid |-> b] \in Row
    BY DEF Row
  <2> QED
    BY <1>1, <2>1 DEF Enable
<1>2. CASE r # NoRow
  <2>1. s[r] \in Row
    BY <1>2
  <2>2. [s[r] EXCEPT !.valid = b] \in Row
    BY <2>1 DEF Row
  <2>3. /\ [s EXCEPT ![r] = [s[r] EXCEPT !.valid = b]] \in Seq(Row)
        /\ Len([s EXCEPT ![r] = [s[r] EXCEPT !.valid = b]]) = Len(s)
    BY <1>2, <2>2
  <2> QED
    BY <1>2, <2>3 DEF Enable
<1> QED
  BY <1>1, <1>2

\* What becomes of a question that has one row at most.
LEMMA AnsweredFirst ==
    ASSUME NEW s \in Seq(Row), NEW r \in Nat, r # NoRow => r \in 1..Len(s),
           NEW v \in Values, NEW t, t = Answer(s, r, v), Len(t) <= 1
    PROVE  /\ t # <<>>
           /\ t[1].value = v
           /\ s = <<>> => t[1] = [value |-> v, valid |-> TRUE]
           /\ s # <<>> => t[1].valid = s[1].valid
<1>1. Len(s) \in Nat /\ (Len(s) = 0 <=> s = <<>>)
  OBVIOUS
<1>2. Len(t) = IF r = NoRow THEN Len(s) + 1 ELSE Len(s)
  BY AnswerWrites
<1>3. CASE r = NoRow
  <2>1. s = <<>> /\ t = Append(s, [value |-> v, valid |-> TRUE])
    BY <1>1, <1>2, <1>3 DEF Answer
  <2>2. t = <<[value |-> v, valid |-> TRUE]>>
    BY <2>1
  <2>3. t # <<>> /\ t[1] = [value |-> v, valid |-> TRUE]
    BY <2>2
  <2>4. t[1].value = v
    BY <2>3
  <2> QED
    BY <2>1, <2>3, <2>4
<1>4. CASE r # NoRow
  <2>1. r = 1 /\ s # <<>> /\ Len(s) = 1 /\ s[1] \in Row
    BY <1>1, <1>2, <1>4
  <2>2. t = [s EXCEPT ![1].value = v] /\ Len(t) = 1
    BY <1>2, <1>4, <2>1 DEF Answer
  <2>3. t[1].value = v /\ t[1].valid = s[1].valid
    BY <2>1, <2>2 DEF Row
  <2> QED
    BY <2>1, <2>2, <2>3
<1> QED
  BY <1>3, <1>4

LEMMA EnabledFirst ==
    ASSUME NEW s \in Seq(Row), NEW r \in Nat, r # NoRow => r \in 1..Len(s),
           NEW b \in BOOLEAN, NEW t, t = Enable(s, r, b), Len(t) <= 1
    PROVE  /\ t # <<>>
           /\ t[1].valid = b
           /\ s = <<>> => t[1].value = Null
           /\ s # <<>> => t[1].value = s[1].value
<1>1. Len(s) \in Nat /\ (Len(s) = 0 <=> s = <<>>)
  OBVIOUS
<1>2. Len(t) = IF r = NoRow THEN Len(s) + 1 ELSE Len(s)
  BY EnableWrites
<1>3. CASE r = NoRow
  <2>1. s = <<>> /\ t = Append(s, [value |-> Null, valid |-> b])
    BY <1>1, <1>2, <1>3 DEF Enable
  <2>2. t = <<[value |-> Null, valid |-> b]>>
    BY <2>1
  <2>3. t # <<>> /\ t[1] = [value |-> Null, valid |-> b]
    BY <2>2
  <2>4. t[1].valid = b /\ t[1].value = Null
    BY <2>3
  <2> QED
    BY <2>1, <2>3, <2>4
<1>4. CASE r # NoRow
  <2>1. r = 1 /\ s # <<>> /\ Len(s) = 1 /\ s[1] \in Row
    BY <1>1, <1>2, <1>4
  <2>2. t = [s EXCEPT ![1].valid = b] /\ Len(t) = 1
    BY <1>2, <1>4, <2>1 DEF Enable
  <2>3. t[1].valid = b /\ t[1].value = s[1].value
    BY <2>1, <2>2 DEF Row
  <2> QED
    BY <2>1, <2>2, <2>3
<1> QED
  BY <1>3, <1>4

LEMMA EnablesIsBoolean ==
    ASSUME NEW rule, NEW v
    PROVE  Enables(rule, v) \in BOOLEAN
  BY DEF Enables

\* No question tests its own answer.
LEMMA DependentsAreOthers ==
    ASSUME TypeOK, NEW q \in Questions
    PROVE  Dependents(q) \subseteq Questions \ {q}
  BY FormsAssumption DEF TypeOK, Dependents, BySection, ByQuestion

-----------------------------------------------------------------------------
(* Types *)

LEMMA IdleTyped == Idle \in Handler /\ Bound(Idle)
  BY ValuesAssumption DEF Idle, Handler, Bound, NoRows, MAILED, STARTED

LEMMA InitTyped == Init => Typed
<1> SUFFICES ASSUME Init PROVE Typed
  OBVIOUS
<1>1. rows \in [Questions -> Seq(Row)]
  BY DEF Init
<1>2. handler \in [Handlers -> Handler] /\ \A h \in Handlers : Bound(handler[h])
  BY IdleTyped DEF Init
<1>3. form \in Forms /\ status = MAILED /\ sent \in 0..MaxAnswers
  BY BoundAssumption DEF Init
<1>4. late \in BOOLEAN
  BY DEF Init
<1> QED
  BY <1>1, <1>2, <1>3, <1>4 DEF Typed, TypeOK

\* Rows are added and changed, never removed.
Grows == \A q \in Questions : Len(rows[q]) <= Len(rows'[q])

LEMMA KnownLasts ==
    ASSUME Typed, rows' \in [Questions -> Seq(Row)], Grows,
           NEW q \in Questions, NEW r \in Nat, Known(q, r)
    PROVE  r # NoRow => r \in 1..Len(rows'[q])
<1>1. Len(rows[q]) \in Nat /\ Len(rows'[q]) \in Nat /\ Len(rows[q]) <= Len(rows'[q])
  BY DEF Typed, TypeOK, Grows
<1> QED
  BY <1>1 DEF Known

\* A step of one request that leaves it in a record that fits the rows.
LEMMA GotoTyped ==
    ASSUME Typed, rows' \in [Questions -> Seq(Row)], Grows, NEW h \in Handlers,
           NEW r \in Handler, Goto(h, r),
           r.pc \in {"find", "save", "commit"} => r.question \in Questions /\ r.value \in Values,
           r.pc \in {"save", "commit"} => (r.row # NoRow => r.row \in 1..Len(rows'[r.question])),
           r.pc = "commit" => \A p \in Questions :
               r.deps[p] # NoRow => r.deps[p] \in 1..Len(rows'[p])
    PROVE  handler' \in [Handlers -> Handler] /\ \A g \in Handlers : Bound(handler[g])'
<1>1. handler' \in [Handlers -> Handler] /\ handler'[h] = r
  BY DEF Goto, Typed, TypeOK
<1>2. ASSUME NEW g \in Handlers PROVE Bound(handler[g])'
  <2>1. CASE g = h
    BY <2>1, <1>1 DEF Bound, Known
  <2>2. CASE g # h
    <3>1. handler'[g] = handler[g] /\ handler[g] \in Handler /\ Bound(handler[g])
      BY <2>2 DEF Goto, Typed, TypeOK
    <3>2. handler[g].row \in Nat /\ \A p \in Questions : handler[g].deps[p] \in Nat
      BY <3>1 DEF Handler
    <3> QED
      BY <3>1, <3>2, KnownLasts DEF Bound, Known
  <2> QED
    BY <2>1, <2>2
<1> QED
  BY <1>1, <1>2

\* What a transaction writes.
LEMMA CommitWrites ==
    ASSUME Typed, NEW h \in Handlers, CommitAnswer(h),
           NEW q, q = handler[h].question, NEW v, v = handler[h].value
    PROVE  /\ q \in Questions /\ v \in Values
           /\ handler[h].row \in Nat /\ Known(q, handler[h].row)
           /\ rows' \in [Questions -> Seq(Row)]
           /\ rows'[q] = Answer(rows[q], handler[h].row, v)
           /\ \A p \in Dependents(q) :
                 /\ p \in Questions /\ p # q
                 /\ handler[h].deps[p] \in Nat /\ Known(p, handler[h].deps[p])
                 /\ rows'[p] = Enable(rows[p], handler[h].deps[p], Enables(RuleOn(p, q), v))
           /\ \A p \in Questions : p # q /\ p \notin Dependents(q) => rows'[p] = rows[p]
           /\ Grows
<1>1. /\ q \in Questions /\ v \in Values
      /\ handler[h] \in Handler /\ Known(q, handler[h].row)
      /\ \A p \in Questions : Known(p, handler[h].deps[p])
  BY DEF CommitAnswer, Typed, TypeOK, Bound
<1>2. handler[h].row \in Nat /\ \A p \in Questions : handler[h].deps[p] \in Nat
  BY <1>1 DEF Handler
<1>3. \A p \in Dependents(q) : p \in Questions /\ p # q
  BY <1>1, DependentsAreOthers DEF Typed
<1>4. rows' = [p \in Questions |->
                 IF p = q THEN Answer(rows[q], handler[h].row, v)
                 ELSE IF p \in Dependents(q)
                      THEN Enable(rows[p], handler[h].deps[p], Enables(RuleOn(p, q), v))
                      ELSE rows[p]]
  BY DEF CommitAnswer
<1>5. rows'[q] = Answer(rows[q], handler[h].row, v)
  BY <1>1, <1>4
<1>6. \A p \in Dependents(q) :
         rows'[p] = Enable(rows[p], handler[h].deps[p], Enables(RuleOn(p, q), v))
  BY <1>3, <1>4
<1>7. \A p \in Questions : p # q /\ p \notin Dependents(q) => rows'[p] = rows[p]
  BY <1>4
<1>8. ASSUME NEW p \in Questions
      PROVE  rows'[p] \in Seq(Row) /\ Len(rows[p]) <= Len(rows'[p])
  <2>1. rows[p] \in Seq(Row) /\ Len(rows[p]) \in Nat
    BY DEF Typed, TypeOK
  <2>2. CASE p = q
    <3>1. handler[h].row # NoRow => handler[h].row \in 1..Len(rows[p])
      BY <1>1, <2>2 DEF Known
    <3>2. rows'[p] = Answer(rows[p], handler[h].row, v)
      BY <1>5, <2>2
    <3>3. /\ Answer(rows[p], handler[h].row, v) \in Seq(Row)
          /\ Len(Answer(rows[p], handler[h].row, v))
                = IF handler[h].row = NoRow THEN Len(rows[p]) + 1 ELSE Len(rows[p])
      BY <1>1, <1>2, <2>1, <3>1, AnswerWrites
    <3> QED
      BY <2>1, <3>2, <3>3
  <2>3. CASE p \in Dependents(q)
    <3> DEFINE r == handler[h].deps[p]
               b == Enables(RuleOn(p, q), v)
    <3>1. (r # NoRow => r \in 1..Len(rows[p])) /\ r \in Nat /\ b \in BOOLEAN
      BY <1>1, <1>2, EnablesIsBoolean DEF Known
    <3>2. rows'[p] = Enable(rows[p], r, b)
      BY <1>6, <2>3
    <3> HIDE DEF r, b
    <3>3. /\ Enable(rows[p], r, b) \in Seq(Row)
          /\ Len(Enable(rows[p], r, b)) = IF r = NoRow THEN Len(rows[p]) + 1 ELSE Len(rows[p])
      BY <1>1, <2>1, <3>1, EnableWrites
    <3> QED
      BY <2>1, <3>2, <3>3
  <2>4. CASE p # q /\ p \notin Dependents(q)
    BY <2>1, <2>4, <1>7
  <2> QED
    BY <2>2, <2>3, <2>4
<1>9. rows' \in [Questions -> Seq(Row)]
  BY <1>4, <1>8
<1> QED
  BY <1>1, <1>2, <1>3, <1>5, <1>6, <1>7, <1>8, <1>9 DEF Grows

LEMMA NextTyped == Typed /\ [Next]_vars => Typed'
<1> SUFFICES ASSUME Typed, [Next]_vars PROVE Typed'
  OBVIOUS
<1>1. CASE UNCHANGED vars
  BY <1>1 DEF vars, Typed, TypeOK, Bound, Known
<1>2. ASSUME NEW h \in Handlers, HandlerStep(h) PROVE Typed'
  <2> DEFINE r == handler[h]
  <2>1. r \in Handler /\ Bound(r)
    BY DEF Typed, TypeOK
  <2>2. ASSUME UNCHANGED rows
        PROVE  rows' \in [Questions -> Seq(Row)] /\ Grows
    <3>1. rows' = rows /\ rows \in [Questions -> Seq(Row)]
      BY <2>2 DEF Typed, TypeOK
    <3>2. \A q \in Questions : Len(rows[q]) \in Nat
      BY <3>1
    <3> QED
      BY <3>1, <3>2 DEF Grows
  \* A step is typed when the variables it writes are, and its request is.
  <2>3. ASSUME rows' \in [Questions -> Seq(Row)],
               handler' \in [Handlers -> Handler], \A g \in Handlers : Bound(handler[g])',
               form' = form, status' \in {MAILED, STARTED, SUBMITTED},
               late' \in BOOLEAN, sent' \in 0..MaxAnswers
        PROVE  Typed'
    BY <2>3 DEF Typed, TypeOK
  <2>4. /\ form \in Forms /\ status \in {MAILED, STARTED, SUBMITTED}
        /\ late \in BOOLEAN /\ sent \in 0..MaxAnswers
        /\ MaxAnswers \in Nat
    BY BoundAssumption DEF Typed, TypeOK
  <2>5. ASSUME NEW n \in Handler, Goto(h, n), n.pc \notin {"find", "save", "commit"},
               rows' \in [Questions -> Seq(Row)], Grows
        PROVE  handler' \in [Handlers -> Handler] /\ \A g \in Handlers : Bound(handler[g])'
    BY <2>5, GotoTyped
  <2>6. Idle \in Handler /\ Idle.pc \notin {"find", "save", "commit"}
    BY IdleTyped DEF Idle
  <2>7. ASSUME NEW q \in Questions, NEW v \in Values, StartAnswer(h, q, v) PROVE Typed'
    <3> DEFINE n == [pc |-> "find", question |-> q, value |-> v, seen |-> status,
                     row |-> NoRow, deps |-> NoRows]
    <3>1. /\ Goto(h, n) /\ UNCHANGED <<form, rows, status, late>>
          /\ sent < MaxAnswers /\ sent' = sent + 1 /\ status <= STARTED
      BY <2>7 DEF StartAnswer
    <3>2. status \in {MAILED, STARTED}
      BY <2>4, <3>1 DEF MAILED, STARTED, SUBMITTED
    <3>3. NoRows \in [Questions -> Nat]
      BY DEF NoRows
    <3>4. n \in Handler /\ n.pc = "find" /\ n.question \in Questions /\ n.value \in Values
      BY <3>2, <3>3 DEF Handler
    <3> HIDE DEF n
    <3>5. handler' \in [Handlers -> Handler] /\ \A g \in Handlers : Bound(handler[g])'
      BY <2>2, <3>1, <3>4, GotoTyped
    <3>6. sent' \in 0..MaxAnswers
      BY <2>4, <3>1
    <3> QED
      BY <2>2, <2>3, <2>4, <3>1, <3>5, <3>6
  <2>8. CASE FindAnswer(h)
    <3>1. /\ r.pc = "find" /\ UNCHANGED <<form, rows, status, late, sent>>
          /\ r.question \in Questions /\ r.value \in Values
      BY <2>1, <2>8 DEF FindAnswer, Bound
    <3>2. PICK i \in RowOf(r.question) :
             \/ Goto(h, Idle)
             \/ Goto(h, [r EXCEPT !.pc = "save", !.row = i])
      BY <2>8 DEF FindAnswer
    <3>3. i \in Nat /\ (i # NoRow => i \in 1..Len(rows[r.question]))
      <4>1. rows[r.question] \in Seq(Row)
        BY <3>1 DEF Typed, TypeOK
      <4> QED
        BY <4>1 DEF RowOf
    <3>4. CASE Goto(h, Idle)
      BY <2>2, <2>3, <2>4, <2>5, <2>6, <3>1, <3>4
    <3>5. CASE Goto(h, [r EXCEPT !.pc = "save", !.row = i])
      <4> DEFINE n == [r EXCEPT !.pc = "save", !.row = i]
      <4>1. /\ n \in Handler /\ n.pc = "save" /\ n.question = r.question
            /\ n.value = r.value /\ n.row = i
        BY <2>1, <3>3 DEF Handler
      <4> HIDE DEF n
      <4>2. Goto(h, n)
        BY <3>5 DEF n
      <4>3. handler' \in [Handlers -> Handler] /\ \A g \in Handlers : Bound(handler[g])'
        BY <2>2, <3>1, <3>3, <4>1, <4>2, GotoTyped
      <4> QED
        BY <2>2, <2>3, <2>4, <3>1, <4>3
    <3> QED
      BY <3>2, <3>4, <3>5
  <2>9. CASE SaveAnswer(h)
    <3>1. /\ r.pc = "save" /\ UNCHANGED <<form, rows, status, late, sent>>
          /\ r.question \in Questions /\ r.value \in Values /\ Known(r.question, r.row)
      BY <2>1, <2>9 DEF SaveAnswer, Bound
    <3>2. PICK deps \in [Questions -> {NoRow} \cup UNION {RowOf(p) : p \in Questions}] :
             /\ \A p \in Questions :
                   deps[p] \in IF p \in Dependents(r.question) THEN RowOf(p) ELSE {NoRow}
             /\ Goto(h, [r EXCEPT !.pc = "commit", !.deps = deps])
      BY <2>9 DEF SaveAnswer
    <3>3. ASSUME NEW p \in Questions
          PROVE  deps[p] \in Nat /\ (deps[p] # NoRow => deps[p] \in 1..Len(rows[p]))
      <4>1. rows[p] \in Seq(Row)
        BY DEF Typed, TypeOK
      <4>2. deps[p] \in RowOf(p) \/ deps[p] = NoRow
        BY <3>2
      <4> QED
        BY <4>1, <4>2 DEF RowOf
    <3> DEFINE n == [r EXCEPT !.pc = "commit", !.deps = deps]
    <3>4. deps \in [Questions -> Nat]
      BY <3>2, <3>3
    <3>5. n \in Handler /\ n.pc = "commit" /\ n.deps = deps
      BY <2>1, <3>4 DEF Handler
    <3>6. n.question = r.question /\ n.value = r.value /\ n.row = r.row
      BY <2>1 DEF Handler
    <3> HIDE DEF n
    <3>7. Goto(h, n)
      BY <3>2 DEF n
    <3>8. handler' \in [Handlers -> Handler] /\ \A g \in Handlers : Bound(handler[g])'
      BY <2>2, <3>1, <3>3, <3>5, <3>6, <3>7, GotoTyped DEF Known
    <3> QED
      BY <2>2, <2>3, <2>4, <3>1, <3>8
  <2>10. CASE CommitAnswer(h)
    <3>1. rows' \in [Questions -> Seq(Row)] /\ Grows
      BY <2>10, CommitWrites
    <3> DEFINE n == [Idle EXCEPT !.pc = "started", !.seen = handler[h].seen]
    <3>2. Goto(h, n) /\ UNCHANGED <<form, status, sent>> /\ late' \in BOOLEAN
      BY <2>4, <2>10 DEF CommitAnswer
    <3>3. n \in Handler /\ n.pc = "started"
      BY <2>1, <2>6 DEF Handler
    <3> HIDE DEF n
    <3>4. handler' \in [Handlers -> Handler] /\ \A g \in Handlers : Bound(handler[g])'
      BY <2>5, <3>1, <3>2, <3>3
    <3> QED
      BY <2>3, <2>4, <3>1, <3>2, <3>4
  <2>11. CASE UpdateToStarted(h)
    <3>1. /\ Goto(h, Idle) /\ UNCHANGED <<form, rows, late, sent>>
          /\ status' \in {status, STARTED}
      BY <2>11 DEF UpdateToStarted
    <3> QED
      BY <2>2, <2>3, <2>4, <2>5, <2>6, <3>1
  <2>12. CASE StartSubmit(h)
    <3> DEFINE n == [Idle EXCEPT !.pc = "check"]
    <3>1. Goto(h, n) /\ UNCHANGED <<form, rows, status, late, sent>>
      BY <2>12 DEF StartSubmit
    <3>2. n \in Handler /\ n.pc = "check"
      BY <2>6 DEF Handler
    <3> HIDE DEF n
    <3> QED
      BY <2>2, <2>3, <2>4, <2>5, <3>1, <3>2
  <2>13. CASE CheckAnswers(h)
    <3> DEFINE n == [r EXCEPT !.pc = "finish"]
    <3>1. Goto(h, n) /\ UNCHANGED <<form, rows, status, late, sent>>
      BY <2>13 DEF CheckAnswers
    <3>2. n \in Handler /\ n.pc = "finish"
      BY <2>1 DEF Handler
    <3> HIDE DEF n
    <3> QED
      BY <2>2, <2>3, <2>4, <2>5, <3>1, <3>2
  <2>14. CASE FinishSubmit(h)
    <3>1. /\ Goto(h, Idle) /\ UNCHANGED <<form, rows, late, sent>>
          /\ status' = SUBMITTED
      BY <2>14 DEF FinishSubmit
    <3> QED
      BY <2>2, <2>3, <2>4, <2>5, <2>6, <3>1
  <2>15. CASE Abandon(h)
    <3>1. Goto(h, Idle) /\ UNCHANGED <<form, rows, status, late, sent>>
      BY <2>15 DEF Abandon
    <3> QED
      BY <2>2, <2>3, <2>4, <2>5, <2>6, <3>1
  <2> QED
    BY <1>2, <2>7, <2>8, <2>9, <2>10, <2>11, <2>12, <2>13, <2>14, <2>15 DEF HandlerStep
<1> QED
  BY <1>1, <1>2 DEF Next

\* Every variable keeps its type, for any form, answers and requests: in particular
\* the status of the form is only ever MAILED, STARTED or SUBMITTED, and a request
\* never writes to a row that is not there.
THEOREM AnswersTypeCorrect == Spec => []TypeOK
<1>1. Typed => TypeOK
  BY DEF Typed
<1> QED
  BY InitTyped, NextTyped, <1>1, PTL DEF Spec

-----------------------------------------------------------------------------
(* Steps *)

\* Only a transaction writes rows, and no step builds the form again.
LEMMA OnlyCommitWrites ==
    ASSUME [Next]_vars, ~ \E h \in Handlers : CommitAnswer(h)
    PROVE  rows' = rows
  BY DEF Next, HandlerStep, vars, StartAnswer, FindAnswer, SaveAnswer, UpdateToStarted,
         StartSubmit, CheckAnswers, FinishSubmit, Abandon

LEMMA FormStays ==
    ASSUME [Next]_vars
    PROVE  form' = form
  BY DEF Next, HandlerStep, vars, StartAnswer, FindAnswer, SaveAnswer, CommitAnswer,
         UpdateToStarted, StartSubmit, CheckAnswers, FinishSubmit, Abandon

\* So the rules stay.
LEMMA RulesStay ==
    ASSUME form' = form
    PROVE  /\ \A q : Dependents(q)' = Dependents(q)
           /\ \A p, q : RuleOn(p, q)' = RuleOn(p, q)
           /\ \A p : Governors(p)' = Governors(p)
<1>1. \A q : BySection(q)' = BySection(q) /\ ByQuestion(q)' = ByQuestion(q)
  BY DEF BySection, ByQuestion
<1>2. \A p, q : RuleOn(p, q)' = RuleOn(p, q)
  BY <1>1 DEF RuleOn
<1>3. \A q : Dependents(q)' = Dependents(q)
  BY <1>1, <1>2 DEF Dependents
<1> QED
  BY <1>2, <1>3 DEF Governors

\* What a transaction leaves in a form whose questions have one row at most.
LEMMA CommitFirstRows ==
    ASSUME Typed, NEW h \in Handlers, CommitAnswer(h), Single',
           NEW q, q = handler[h].question, NEW v, v = handler[h].value
    PROVE  /\ Single
           /\ q \in Questions /\ v # Null
           /\ rows'[q] # <<>> /\ rows'[q][1].value = v
           /\ rows[q] = <<>> => rows'[q][1] = [value |-> v, valid |-> TRUE]
           /\ rows[q] # <<>> => rows'[q][1].valid = rows[q][1].valid
           /\ \A p \in Dependents(q) :
                 /\ p \in Questions /\ p # q /\ rows'[p] # <<>>
                 /\ rows'[p][1].valid = Enables(RuleOn(p, q), v)
                 /\ rows[p] = <<>> => rows'[p][1].value = Null
                 /\ rows[p] # <<>> => rows'[p][1].value = rows[p][1].value
           /\ \A p \in Questions : p # q /\ p \notin Dependents(q) => rows'[p] = rows[p]
<1>1. \A p \in Questions : /\ rows[p] \in Seq(Row) /\ Len(rows[p]) \in Nat
                           /\ Len(rows'[p]) \in Nat /\ Len(rows'[p]) <= 1
  <2>1. rows \in [Questions -> Seq(Row)] /\ rows' \in [Questions -> Seq(Row)]
    BY CommitWrites DEF Typed, TypeOK
  <2> QED
    BY <2>1 DEF Single
<1>2. Single
  <2>1. Grows
    BY CommitWrites
  <2> QED
    BY <1>1, <2>1 DEF Single, Grows
<1>3. q \in Questions /\ v \in Values
  BY CommitWrites
<1>4. /\ rows'[q] # <<>> /\ rows'[q][1].value = v
      /\ rows[q] = <<>> => rows'[q][1] = [value |-> v, valid |-> TRUE]
      /\ rows[q] # <<>> => rows'[q][1].valid = rows[q][1].valid
  <2> DEFINE r == handler[h].row
  <2>1. r \in Nat /\ (r # NoRow => r \in 1..Len(rows[q])) /\ rows'[q] = Answer(rows[q], r, v)
    BY CommitWrites DEF Known
  <2>2. Len(rows'[q]) <= 1
    BY <1>1, <1>3, <2>1
  <2> HIDE DEF r
  <2>3. TRUE \in BOOLEAN /\ rows[q] \in Seq(Row)
    BY <1>1, <1>3
  <2> QED
    BY <1>3, <2>1, <2>2, <2>3, AnsweredFirst
<1>5. ASSUME NEW p \in Dependents(q)
      PROVE  /\ p \in Questions /\ p # q /\ rows'[p] # <<>>
             /\ rows'[p][1].valid = Enables(RuleOn(p, q), v)
             /\ rows[p] = <<>> => rows'[p][1].value = Null
             /\ rows[p] # <<>> => rows'[p][1].value = rows[p][1].value
  <2> DEFINE r == handler[h].deps[p]
             b == Enables(RuleOn(p, q), v)
  <2>0. /\ p \in Questions /\ p # q /\ handler[h].deps[p] \in Nat
        /\ Known(p, handler[h].deps[p])
        /\ rows'[p] = Enable(rows[p], handler[h].deps[p], Enables(RuleOn(p, q), v))
    BY CommitWrites
  <2>1. /\ p \in Questions /\ p # q /\ r \in Nat /\ (r # NoRow => r \in 1..Len(rows[p]))
        /\ rows'[p] = Enable(rows[p], r, b)
    BY <2>0 DEF Known
  <2>2. Len(rows'[p]) <= 1 /\ b \in BOOLEAN
    BY <1>1, <2>1, EnablesIsBoolean
  <2> HIDE DEF r, b
  <2>3. /\ rows'[p] # <<>> /\ rows'[p][1].valid = b
        /\ rows[p] = <<>> => rows'[p][1].value = Null
        /\ rows[p] # <<>> => rows'[p][1].value = rows[p][1].value
    BY <1>1, <1>3, <2>1, <2>2, EnabledFirst
  <2> QED
    BY <2>1, <2>3 DEF b
<1>6. \A p \in Questions : p # q /\ p \notin Dependents(q) => rows'[p] = rows[p]
  BY CommitWrites
<1> QED
  BY <1>2, <1>3, <1>4, <1>5, <1>6, ValuesAssumption

-----------------------------------------------------------------------------
(* The flags *)

LEMMA FlagsCommitted ==
    ASSUME Typed, FlagsFollowAnswers, NEW h \in Handlers, CommitAnswer(h)
    PROVE  FlagsFollowAnswers'
<1> SUFFICES ASSUME Single', NEW p \in Questions, AnsweredGovernors(p)' # {}
             PROVE  /\ rows'[p] # <<>>
                    /\ \E g \in AnsweredGovernors(p)' :
                          rows'[p][1].valid = Enables(RuleOn(p, g)', rows'[g][1].value)
  BY DEF FlagsFollowAnswers, Single
<1> PICK q, v : q = handler[h].question /\ v = handler[h].value
  OBVIOUS
<1>1. /\ Single /\ q \in Questions /\ v # Null
      /\ rows'[q] # <<>> /\ rows'[q][1].value = v
      /\ rows[q] = <<>> => rows'[q][1] = [value |-> v, valid |-> TRUE]
      /\ rows[q] # <<>> => rows'[q][1].valid = rows[q][1].valid
      /\ \A x \in Dependents(q) :
            /\ x \in Questions /\ x # q /\ rows'[x] # <<>>
            /\ rows'[x][1].valid = Enables(RuleOn(x, q), v)
            /\ rows[x] = <<>> => rows'[x][1].value = Null
            /\ rows[x] # <<>> => rows'[x][1].value = rows[x][1].value
      /\ \A x \in Questions : x # q /\ x \notin Dependents(q) => rows'[x] = rows[x]
  BY CommitFirstRows
<1>2. /\ \A x, y : RuleOn(x, y)' = RuleOn(x, y)
      /\ \A x : Governors(x)' = Governors(x)
  BY RulesStay DEF CommitAnswer
<1>3. CASE p \in Dependents(q)
  <2>1. q \in AnsweredGovernors(p)'
    BY <1>1, <1>2, <1>3 DEF Governors, AnsweredGovernors
  <2> QED
    BY <1>1, <1>2, <1>3, <2>1
<1>4. CASE p \notin Dependents(q)
  <2>1. \A g \in Governors(p) :
           /\ g \in Questions /\ g # q
           /\ rows'[g] # <<>> /\ rows'[g][1].value # Null
                 <=> rows[g] # <<>> /\ rows[g][1].value # Null
           /\ rows[g] # <<>> /\ rows[g][1].value # Null => rows'[g][1].value = rows[g][1].value
    BY <1>1, <1>4 DEF Governors
  <2>2. /\ AnsweredGovernors(p)' = AnsweredGovernors(p)
        /\ \A g \in AnsweredGovernors(p) : rows'[g][1].value = rows[g][1].value
    BY <1>2, <2>1 DEF AnsweredGovernors
  <2>3. PICK g \in AnsweredGovernors(p) :
           rows[p] # <<>> /\ rows[p][1].valid = Enables(RuleOn(p, g), rows[g][1].value)
    BY <1>1, <2>2 DEF FlagsFollowAnswers, Single
  <2>4. rows'[p] # <<>> /\ rows'[p][1].valid = rows[p][1].valid
    BY <1>1, <1>4, <2>3
  <2>5. rows'[p][1].valid = Enables(RuleOn(p, g)', rows'[g][1].value)
    BY <1>2, <2>2, <2>3, <2>4
  <2> QED
    BY <2>2, <2>4, <2>5
<1> QED
  BY <1>3, <1>4

\* As long as no question has two rows, the flag of a question that depends on
\* answers given is the one that one of them, as it is now, calls for.
THEOREM FlagsFollow == Spec => []FlagsFollowAnswers
<1>1. Init => FlagsFollowAnswers
  BY DEF Init, FlagsFollowAnswers, AnsweredGovernors, Governors
<1>2. Typed /\ FlagsFollowAnswers /\ [Next]_vars => FlagsFollowAnswers'
  <2> SUFFICES ASSUME Typed, FlagsFollowAnswers, [Next]_vars PROVE FlagsFollowAnswers'
    OBVIOUS
  <2>1. CASE \E h \in Handlers : CommitAnswer(h)
    BY <2>1, FlagsCommitted
  <2>2. CASE ~ \E h \in Handlers : CommitAnswer(h)
    <3>1. rows' = rows /\ form' = form
      BY <2>2, OnlyCommitWrites, FormStays
    <3>2. /\ \A x, y : RuleOn(x, y)' = RuleOn(x, y)
          /\ \A x : Governors(x)' = Governors(x)
      BY <3>1, RulesStay
    <3>3. \A p : AnsweredGovernors(p)' = AnsweredGovernors(p)
      BY <3>1, <3>2 DEF AnsweredGovernors
    <3> QED
      BY <3>1, <3>2, <3>3 DEF FlagsFollowAnswers
  <2> QED
    BY <2>1, <2>2
<1> QED
  BY InitTyped, NextTyped, <1>1, <1>2, PTL DEF Spec

\* As long as no question has two rows, a step writes to them what FormLifecycle
\* says a transaction does.
THEOREM WritesFollowFlow == Spec => WritesAsFlow
<1> DEFINE Writes == Single /\ Single' /\ rows' # rows => \E q \in Questions :
                        /\ GivesValue(Seen(q), Seen(q)')
                        /\ \A p \in Questions \ {q} : KeepsValue(Seen(p), Seen(p)')
<1>1. Typed /\ [Next]_vars => [Writes]_vars
  <2> SUFFICES ASSUME Typed, [Next]_vars, Single, Single', rows' # rows
               PROVE  \E q \in Questions :
                         /\ GivesValue(Seen(q), Seen(q)')
                         /\ \A p \in Questions \ {q} : KeepsValue(Seen(p), Seen(p)')
    OBVIOUS
  <2>1. PICK h \in Handlers : CommitAnswer(h)
    BY OnlyCommitWrites
  <2> PICK q, v : q = handler[h].question /\ v = handler[h].value
    OBVIOUS
  <2>2. /\ q \in Questions /\ v # Null
        /\ rows'[q] # <<>> /\ rows'[q][1].value = v
        /\ rows[q] = <<>> => rows'[q][1] = [value |-> v, valid |-> TRUE]
        /\ rows[q] # <<>> => rows'[q][1].valid = rows[q][1].valid
        /\ \A p \in Dependents(q) :
              /\ p \in Questions /\ p # q /\ rows'[p] # <<>>
              /\ rows[p] = <<>> => rows'[p][1].value = Null
              /\ rows[p] # <<>> => rows'[p][1].value = rows[p][1].value
        /\ \A p \in Questions : p # q /\ p \notin Dependents(q) => rows'[p] = rows[p]
    BY <2>1, CommitFirstRows
  <2>3. GivesValue(Seen(q), Seen(q)')
    <3>1. Seen(q)' = [value |-> "given", valid |-> rows'[q][1].valid]
      BY <2>2 DEF Seen
    <3>2. /\ rows[q] = <<>> => Seen(q).value = "absent"
          /\ rows[q] # <<>> => Seen(q).value # "absent" /\ Seen(q).valid = rows[q][1].valid
      BY DEF Seen
    <3>3. ASSUME rows[q] # <<>> PROVE rows[q][1].valid \in BOOLEAN
      <4>1. rows[q][1] \in Row
        BY <2>2, <3>3 DEF Typed, TypeOK
      <4> QED
        BY <4>1 DEF Row
    <3>4. CASE rows[q] = <<>>
      <4>1. rows'[q][1] = [value |-> v, valid |-> TRUE] /\ Seen(q).value = "absent"
        BY <2>2, <3>2, <3>4
      <4>2. rows'[q][1].valid = TRUE
        BY <4>1
      <4>3. (Seen(q).value = "absent" \/ Seen(q).valid) = TRUE
        BY <4>1
      <4> QED
        BY <3>1, <4>2, <4>3 DEF GivesValue
    <3>5. CASE rows[q] # <<>>
      <4>1. rows'[q][1].valid = (Seen(q).value = "absent" \/ Seen(q).valid)
        BY <2>2, <3>2, <3>3, <3>5
      <4> QED
        BY <3>1, <4>1 DEF GivesValue
    <3> QED
      BY <3>4, <3>5
  <2>4. ASSUME NEW p \in Questions \ {q} PROVE KeepsValue(Seen(p), Seen(p)')
    <3>1. CASE p \in Dependents(q)
      BY <2>2, <3>1 DEF KeepsValue, Seen
    <3>2. CASE p \notin Dependents(q)
      BY <2>2, <3>2 DEF KeepsValue, Seen
    <3> QED
      BY <3>1, <3>2
  <2> QED
    BY <2>2, <2>3, <2>4
<1> QED
  BY InitTyped, NextTyped, <1>1, PTL DEF Spec, WritesAsFlow

-----------------------------------------------------------------------------
(* Submissions *)

\* What is checked stays complete until the submission ends, unless an answer comes.
Checked == ~late /\ (status = SUBMITTED \/ \E g \in Handlers : handler[g].pc = "finish")
               => Complete

\* A submitted form is complete, unless an answer was committed after the submission
\* had read the answers.
THEOREM SubmittedComplete == Spec => []SubmittedIsComplete
<1>1. Init => Checked
  BY DEF Init, Checked, Idle, MAILED, SUBMITTED
<1>2. Typed /\ Checked /\ [Next]_vars => Checked'
  <2> SUFFICES ASSUME Typed, Checked, [Next]_vars, ~late',
                      status' = SUBMITTED \/ \E g \in Handlers : handler'[g].pc = "finish"
               PROVE  Complete'
    BY DEF Checked
  <2>1. CASE UNCHANGED vars
    BY <2>1 DEF vars, Checked, Complete
  <2>2. ASSUME NEW h \in Handlers, HandlerStep(h) PROVE Complete'
    <3>1. handler \in [Handlers -> Handler]
      BY DEF Typed, TypeOK
    <3>2. ASSUME NEW n, Goto(h, n), n.pc # "finish", rows' = rows, late' = late,
                 status' = SUBMITTED => status = SUBMITTED \/ handler[h].pc = "finish"
          PROVE  Complete'
      BY <3>1, <3>2 DEF Goto, Checked, Complete
    <3>3. Idle.pc # "finish"
      BY DEF Idle
    <3>4. ASSUME NEW q, NEW v, StartAnswer(h, q, v) PROVE Complete'
      BY <3>2, <3>4 DEF StartAnswer
    <3>5. CASE FindAnswer(h)
      <4>1. PICK i : \/ Goto(h, Idle)
                     \/ Goto(h, [handler[h] EXCEPT !.pc = "save", !.row = i])
        BY <3>5 DEF FindAnswer
      <4>2. [handler[h] EXCEPT !.pc = "save", !.row = i].pc # "finish"
        BY <3>1 DEF Handler
      <4> QED
        BY <3>2, <3>3, <3>5, <4>1, <4>2 DEF FindAnswer
    <3>6. CASE SaveAnswer(h)
      <4>1. PICK deps : Goto(h, [handler[h] EXCEPT !.pc = "commit", !.deps = deps])
        BY <3>6 DEF SaveAnswer
      <4>2. [handler[h] EXCEPT !.pc = "commit", !.deps = deps].pc # "finish"
        BY <3>1 DEF Handler
      <4> QED
        BY <3>2, <3>6, <4>1, <4>2 DEF SaveAnswer
    <3>7. CASE CommitAnswer(h)
      <4>1. /\ status # SUBMITTED /\ \A g \in Handlers : handler[g].pc # "finish"
            /\ status' = status
            /\ Goto(h, [Idle EXCEPT !.pc = "started", !.seen = handler[h].seen])
        BY <3>7 DEF CommitAnswer
      <4>2. [Idle EXCEPT !.pc = "started", !.seen = handler[h].seen].pc # "finish"
        BY DEF Idle
      <4> QED
        BY <3>1, <4>1, <4>2 DEF Goto
    <3>8. CASE UpdateToStarted(h)
      BY <3>2, <3>3, <3>8 DEF UpdateToStarted, STARTED, SUBMITTED
    <3>9. CASE StartSubmit(h)
      <4>1. [Idle EXCEPT !.pc = "check"].pc # "finish"
        BY DEF Idle
      <4> QED
        BY <3>2, <3>9, <4>1 DEF StartSubmit
    <3>10. CASE CheckAnswers(h)
      BY <3>10 DEF CheckAnswers, Complete
    <3>11. CASE FinishSubmit(h)
      BY <3>2, <3>3, <3>11 DEF FinishSubmit
    <3>12. CASE Abandon(h)
      BY <3>2, <3>3, <3>12 DEF Abandon
    <3> QED
      BY <2>2, <3>4, <3>5, <3>6, <3>7, <3>8, <3>9, <3>10, <3>11, <3>12 DEF HandlerStep
  <2> QED
    BY <2>1, <2>2 DEF Next
<1>3. Checked => SubmittedIsComplete
  BY DEF Checked, SubmittedIsComplete, Complete
<1> QED
  BY InitTyped, NextTyped, <1>1, <1>2, <1>3, PTL DEF Spec

-----------------------------------------------------------------------------
(* Duplicates *)

\* Requests counted.
LEMMA AddingCounted ==
    ASSUME NEW A, A \subseteq Handlers
    PROVE  /\ IsFiniteSet(A) /\ Cardinality(A) \in Nat
           /\ Cardinality(A) <= Cardinality(Handlers)
           /\ \A B : B \subseteq A => Cardinality(B) <= Cardinality(A)
           /\ \A h \in A : \A B : B \subseteq A \ {h} => Cardinality(B) + 1 <= Cardinality(A)
<1>1. IsFiniteSet(A) /\ Cardinality(A) \in Nat /\ Cardinality(A) <= Cardinality(Handlers)
  BY HandlersAssumption, FS_Subset, FS_CardinalityType
<1>2. ASSUME NEW B, B \subseteq A PROVE Cardinality(B) <= Cardinality(A)
  BY <1>1, <1>2, FS_Subset
<1>3. ASSUME NEW h \in A, NEW B, B \subseteq A \ {h} PROVE Cardinality(B) + 1 <= Cardinality(A)
  <2>1. IsFiniteSet(A \ {h}) /\ Cardinality(A \ {h}) = Cardinality(A) - 1
    BY <1>1, FS_RemoveElement
  <2>2. Cardinality(B) <= Cardinality(A \ {h}) /\ Cardinality(B) \in Nat
    BY <1>3, <2>1, FS_Subset, FS_CardinalityType
  <2> QED
    BY <1>1, <2>1, <2>2
<1> QED
  BY <1>1, <1>2, <1>3

\* A request that becomes one to add a row found none, and the one that adds it is
\* done.
LEMMA AddingAfter ==
    ASSUME Typed, [Next]_vars, NEW q \in Questions
    PROVE  \/ rows'[q] = rows[q] /\ (rows[q] = <<>> \/ Adding(q)' \subseteq Adding(q))
           \/ Len(rows'[q]) = Len(rows[q]) /\ Adding(q)' \subseteq Adding(q)
           \/ \E h \in Adding(q) : /\ Len(rows'[q]) = Len(rows[q]) + 1
                                   /\ Adding(q)' \subseteq Adding(q) \ {h}
<1>1. CASE UNCHANGED vars
  BY <1>1 DEF vars, Adding, Dependents, BySection, ByQuestion, RuleOn
<1>2. ASSUME NEW h \in Handlers, HandlerStep(h)
      PROVE  \/ rows'[q] = rows[q] /\ (rows[q] = <<>> \/ Adding(q)' \subseteq Adding(q))
             \/ Len(rows'[q]) = Len(rows[q]) /\ Adding(q)' \subseteq Adding(q)
             \/ \E g \in Adding(q) : /\ Len(rows'[q]) = Len(rows[q]) + 1
                                     /\ Adding(q)' \subseteq Adding(q) \ {g}
  <2>1. handler \in [Handlers -> Handler] /\ Bound(handler[h])
    BY DEF Typed, TypeOK
  <2>2. \A x : Dependents(x)' = Dependents(x)
    BY FormStays, RulesStay
  <2>3. ASSUME NEW n, Goto(h, n)
        PROVE  /\ handler'[h] = n
               /\ \A g \in Handlers : g # h => handler'[g] = handler[g]
    BY <2>1, <2>3 DEF Goto
  \* The others add what they did.
  <2>4. ASSUME NEW n, Goto(h, n)
        PROVE  /\ Adding(q)' \subseteq Adding(q) \cup {h}
               /\ n.pc \notin {"save", "commit"} => Adding(q)' \subseteq Adding(q) \ {h}
               /\ ~ (\/ n.pc \in {"save", "commit"} /\ n.question = q /\ n.row = NoRow
                     \/ n.pc = "commit" /\ q \in Dependents(n.question) /\ n.deps[q] = NoRow)
                  => Adding(q)' \subseteq Adding(q)
    <3>1. \A g \in Handlers : g # h => (g \in Adding(q)' <=> g \in Adding(q))
      BY <2>2, <2>3, <2>4 DEF Adding
    <3>2. h \in Adding(q)' <=>
             \/ n.pc \in {"save", "commit"} /\ n.question = q /\ n.row = NoRow
             \/ n.pc = "commit" /\ q \in Dependents(n.question) /\ n.deps[q] = NoRow
      BY <2>2, <2>3, <2>4 DEF Adding
    <3>3. Adding(q)' \subseteq Handlers
      BY DEF Adding
    <3>4. n.pc \notin {"save", "commit"} => h \notin Adding(q)'
      BY <3>2
    <3>5. h \notin Adding(q)' => Adding(q)' \subseteq Adding(q) \ {h}
      BY <3>1, <3>3
    <3>6. Adding(q)' \subseteq Adding(q) \cup {h}
      BY <3>1, <3>3
    <3> QED
      BY <3>1, <3>2, <3>3, <3>4, <3>5, <3>6
  <2>5. ASSUME NEW n, Goto(h, n), n.pc \notin {"save", "commit"}, rows' = rows
        PROVE  rows'[q] = rows[q] /\ Adding(q)' \subseteq Adding(q)
    BY <2>4, <2>5
  <2>6. Idle.pc \notin {"save", "commit"}
    BY DEF Idle
  <2>7. ASSUME NEW x, NEW v, StartAnswer(h, x, v)
        PROVE  rows'[q] = rows[q] /\ Adding(q)' \subseteq Adding(q)
    BY <2>5, <2>7 DEF StartAnswer
  <2>8. CASE FindAnswer(h)
    <3>1. PICK i \in RowOf(handler[h].question) :
             \/ Goto(h, Idle)
             \/ Goto(h, [handler[h] EXCEPT !.pc = "save", !.row = i])
      BY <2>8 DEF FindAnswer
    <3>2. rows' = rows
      BY <2>8 DEF FindAnswer
    <3>3. CASE Goto(h, Idle)
      BY <2>5, <2>6, <3>2, <3>3
    <3>4. CASE Goto(h, [handler[h] EXCEPT !.pc = "save", !.row = i])
      <4> DEFINE n == [handler[h] EXCEPT !.pc = "save", !.row = i]
      <4>1. n.pc = "save" /\ n.row = i /\ n.question = handler[h].question
        BY <2>1 DEF Handler
      <4> HIDE DEF n
      <4>2. rows[q] = <<>> \/ ~(n.question = q /\ n.row = NoRow)
        <5>1. rows[q] \in Seq(Row)
          BY DEF Typed, TypeOK
        <5> QED
          BY <3>1, <4>1, <5>1 DEF RowOf
      <4>3. Goto(h, n)
        BY <3>4 DEF n
      <4> QED
        BY <2>4, <3>2, <4>1, <4>2, <4>3
    <3> QED
      BY <3>1, <3>3, <3>4
  <2>9. CASE SaveAnswer(h)
    <3>1. PICK deps : /\ \A p \in Questions :
                            deps[p] \in IF p \in Dependents(handler[h].question)
                                        THEN RowOf(p) ELSE {NoRow}
                      /\ Goto(h, [handler[h] EXCEPT !.pc = "commit", !.deps = deps])
      BY <2>9 DEF SaveAnswer
    <3>2. rows' = rows /\ handler[h].pc = "save"
      BY <2>9 DEF SaveAnswer
    <3> DEFINE n == [handler[h] EXCEPT !.pc = "commit", !.deps = deps]
    <3>3. /\ n.pc = "commit" /\ n.row = handler[h].row /\ n.question = handler[h].question
          /\ n.deps = deps
      BY <2>1 DEF Handler
    <3> HIDE DEF n
    <3>4. Goto(h, n)
      BY <3>1 DEF n
    <3>5. CASE h \in Adding(q)
      BY <2>4, <3>2, <3>4, <3>5
    <3>6. CASE h \notin Adding(q)
      <4>1. ~(n.question = q /\ n.row = NoRow)
        BY <3>2, <3>3, <3>6 DEF Adding
      <4>2. rows[q] = <<>> \/ ~(q \in Dependents(n.question) /\ n.deps[q] = NoRow)
        <5>1. rows[q] \in Seq(Row)
          BY DEF Typed, TypeOK
        <5> QED
          BY <3>1, <3>3, <5>1 DEF RowOf
      <4> QED
        BY <2>4, <3>2, <3>4, <4>1, <4>2
    <3> QED
      BY <3>5, <3>6
  <2>10. CASE CommitAnswer(h)
    <3> PICK x, v : x = handler[h].question /\ v = handler[h].value
      OBVIOUS
    <3>1. Adding(q)' \subseteq Adding(q) \ {h}
      <4> DEFINE n == [Idle EXCEPT !.pc = "started", !.seen = handler[h].seen]
      <4>1. n.pc = "started"
        BY DEF Idle
      <4>2. Goto(h, n)
        BY <2>10 DEF CommitAnswer
      <4> HIDE DEF n
      <4> QED
        BY <2>4, <4>1, <4>2
    <3>2. /\ x \in Questions /\ v \in Values
          /\ handler[h].row \in Nat /\ Known(x, handler[h].row)
          /\ rows'[x] = Answer(rows[x], handler[h].row, v)
          /\ \A p \in Dependents(x) :
                /\ p \in Questions /\ p # x
                /\ handler[h].deps[p] \in Nat /\ Known(p, handler[h].deps[p])
                /\ rows'[p] = Enable(rows[p], handler[h].deps[p], Enables(RuleOn(p, x), v))
          /\ \A p \in Questions : p # x /\ p \notin Dependents(x) => rows'[p] = rows[p]
      BY <2>10, CommitWrites
    <3>3. rows[q] \in Seq(Row) /\ handler[h].pc = "commit"
      BY <2>10 DEF CommitAnswer, Typed, TypeOK
    <3>4. CASE q = x
      <4>1. handler[h].row # NoRow => handler[h].row \in 1..Len(rows[q])
        BY <3>2, <3>4 DEF Known
      <4>2. Len(rows'[q]) = IF handler[h].row = NoRow THEN Len(rows[q]) + 1 ELSE Len(rows[q])
        BY <3>2, <3>3, <3>4, <4>1, AnswerWrites
      <4>3. handler[h].row = NoRow => h \in Adding(q)
        BY <3>3, <3>4 DEF Adding
      <4> QED
        BY <3>1, <4>2, <4>3
    <3>5. CASE q \in Dependents(x)
      <4> DEFINE r == handler[h].deps[q]
                 b == Enables(RuleOn(q, x), v)
      <4>1. /\ r \in Nat /\ (r # NoRow => r \in 1..Len(rows[q]))
            /\ rows'[q] = Enable(rows[q], r, b) /\ b \in BOOLEAN
        BY <3>2, <3>5, EnablesIsBoolean DEF Known
      <4>2. r = NoRow => h \in Adding(q)
        BY <3>3, <3>5 DEF Adding
      <4> HIDE DEF r, b
      <4>3. Len(rows'[q]) = IF r = NoRow THEN Len(rows[q]) + 1 ELSE Len(rows[q])
        BY <3>3, <4>1, EnableWrites
      <4> QED
        BY <3>1, <4>2, <4>3
    <3>6. CASE q # x /\ q \notin Dependents(x)
      BY <3>1, <3>2, <3>6
    <3> QED
      BY <3>4, <3>5, <3>6
  <2>11. CASE UpdateToStarted(h)
    BY <2>5, <2>6, <2>11 DEF UpdateToStarted
  <2>12. CASE StartSubmit(h)
    <3>1. [Idle EXCEPT !.pc = "check"].pc \notin {"save", "commit"}
      BY DEF Idle
    <3> QED
      BY <2>5, <2>12, <3>1 DEF StartSubmit
  <2>13. CASE CheckAnswers(h)
    <3>1. [handler[h] EXCEPT !.pc = "finish"].pc \notin {"save", "commit"}
      BY <2>1 DEF Handler
    <3> QED
      BY <2>5, <2>13, <3>1 DEF CheckAnswers
  <2>14. CASE FinishSubmit(h)
    BY <2>5, <2>6, <2>14 DEF FinishSubmit
  <2>15. CASE Abandon(h)
    BY <2>5, <2>6, <2>15 DEF Abandon
  <2> QED
    BY <1>2, <2>7, <2>8, <2>9, <2>10, <2>11, <2>12, <2>13, <2>14, <2>15 DEF HandlerStep
<1> QED
  BY <1>1, <1>2 DEF Next

\* The rows of a question never outnumber the requests in progress at once.
THEOREM RowsAreBounded == Spec => []RowsBoundedByConcurrency
<1>1. Init => RowsBoundedByConcurrency
  <2> SUFFICES ASSUME Init, NEW q \in Questions
               PROVE  Len(rows[q]) + Cardinality(Adding(q)) <= Cardinality(Handlers)
    BY DEF RowsBoundedByConcurrency
  <2>1. Len(rows[q]) = 0
    BY DEF Init
  <2> QED
    BY <2>1, AddingCounted DEF Adding
<1>2. Typed /\ RowsBoundedByConcurrency /\ [Next]_vars => RowsBoundedByConcurrency'
  <2> SUFFICES ASSUME Typed, RowsBoundedByConcurrency, [Next]_vars, NEW q \in Questions
               PROVE  Len(rows'[q]) + Cardinality(Adding(q)') <= Cardinality(Handlers)
    BY DEF RowsBoundedByConcurrency
  <2> DEFINE A == Adding(q)
             B == Adding(q)'
  <2>1. Len(rows[q]) + Cardinality(A) <= Cardinality(Handlers)
    BY DEF RowsBoundedByConcurrency
  <2>2. A \subseteq Handlers /\ B \subseteq Handlers
    BY DEF Adding
  <2>3. Len(rows[q]) \in Nat /\ (rows[q] = <<>> => Len(rows[q]) = 0)
    BY DEF Typed, TypeOK
  <2>4. \/ rows'[q] = rows[q] /\ (rows[q] = <<>> \/ B \subseteq A)
        \/ Len(rows'[q]) = Len(rows[q]) /\ B \subseteq A
        \/ \E h \in A : Len(rows'[q]) = Len(rows[q]) + 1 /\ B \subseteq A \ {h}
    BY AddingAfter
  <2> HIDE DEF A, B
  <2>5. /\ Cardinality(A) \in Nat /\ Cardinality(B) \in Nat
        /\ Cardinality(B) <= Cardinality(Handlers)
        /\ B \subseteq A => Cardinality(B) <= Cardinality(A)
        /\ \A h \in A : B \subseteq A \ {h} => Cardinality(B) + 1 <= Cardinality(A)
    BY <2>2, AddingCounted
  <2>6. Cardinality(Handlers) \in Nat
    BY HandlersAssumption, FS_CardinalityType
  <2>7. Len(rows'[q]) + Cardinality(B) <= Cardinality(Handlers)
    BY <2>1, <2>3, <2>4, <2>5, <2>6
  <2> QED
    BY <2>7 DEF B
<1> QED
  BY InitTyped, NextTyped, <1>1, <1>2, PTL DEF Spec
=============================================================================
