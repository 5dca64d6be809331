------------------------ MODULE FormLifecycle_proofs ------------------------
(***************************************************************************)
(* Proofs about FormLifecycle, for any rows, cron runs, code holders and   *)
(* bounds.                                                                 *)
(***************************************************************************)
EXTENDS FormLifecycle, TLAPS

USE RowsAssumption, BoundsAssumption

-----------------------------------------------------------------------------
(* Types *)

LEMMA RecordTypes ==
    /\ Source \in Rows
    /\ NoRow \in RowCode
    /\ Off \in Run
    /\ Idle \in Holder
    /\ Linked \subseteq Rows
    /\ Own \subseteq Rows
  BY DEF NoRow, RowCode, Off, Run, Idle, Holder, UNUSEFULL, Linked, Own

LEMMA SnapshotTyped ==
    ASSUME TypeOK, NEW S, S \subseteq Rows
    PROVE  /\ Snapshot(S) \subseteq RowCode
           /\ Generated(S) \subseteq S
           /\ \A t \in Snapshot(S) : t.row \in S
<1>1. \A f \in S : [row |-> f, code |-> code[f]] \in RowCode
  BY DEF TypeOK, RowCode
<1> QED
  BY <1>1 DEF Snapshot, Generated

LEMMA InitTyped == Init => TypeOK
  BY RecordTypes DEF Init, TypeOK, LinkAnswer, Linked, GENERATED

\* What the record of a run may become.
LEMMA SetRunTyped ==
    ASSUME TypeOK, NEW k \in Runs, NEW q \in Run, SetRun(k, q)
    PROVE  run' \in [Runs -> Run]
  BY DEF TypeOK, SetRun

LEMMA SetHolderTyped ==
    ASSUME TypeOK, NEW h \in Holders, NEW q \in Holder, SetHolder(h, q)
    PROVE  holder' \in [Holders -> Holder]
  BY DEF TypeOK, SetHolder

LEMMA SetStatusTyped ==
    ASSUME TypeOK, NEW f \in Rows, NEW s \in {UNUSEFULL, GENERATED, MAILED, STARTED, SUBMITTED},
           SetStatus(f, s)
    PROVE  status' \in [Rows -> {UNUSEFULL, GENERATED, MAILED, STARTED, SUBMITTED}]
  BY DEF TypeOK, SetStatus

LEMMA ReplaceCodeTyped ==
    ASSUME TypeOK, NEW f \in Rows, ReplaceCode(f)
    PROVE  code' \in [Rows -> Nat] /\ expired' \in [Rows -> BOOLEAN]
  BY DEF TypeOK, ReplaceCode

LEMMA RunFields ==
    ASSUME NEW q \in Run
    PROVE  /\ q.at \in RowCode /\ q.at.row \in Rows /\ q.at.code \in Nat
           /\ q.todo \subseteq RowCode /\ q.bad \subseteq Rows
           /\ \A t \in q.todo : t \in RowCode /\ t.row \in Rows
           /\ \A todo \in SUBSET RowCode : [q EXCEPT !.pc = "own", !.todo = todo] \in Run
           /\ \A todo \in SUBSET RowCode : [q EXCEPT !.pc = "linked", !.todo = todo] \in Run
           /\ \A bad \in SUBSET Rows : [q EXCEPT !.pc = "own", !.bad = bad] \in Run
           /\ \A bad \in SUBSET Rows : [q EXCEPT !.pc = "linked", !.bad = bad] \in Run
           /\ \A t \in RowCode : [q EXCEPT !.pc = "markOwn", !.at = t, !.todo = @ \ {t}] \in Run
           /\ \A pc \in {"linked", "disable", "rotate"}, at \in RowCode, t \in RowCode :
                 [q EXCEPT !.pc = pc, !.at = at, !.todo = @ \ {t}] \in Run
           /\ \A pc \in {"own", "linked"} : [q EXCEPT !.pc = pc, !.at = NoRow] \in Run
           /\ [q EXCEPT !.pc = "markLinked"] \in Run
           /\ \A f \in Rows : [q EXCEPT !.bad = @ \ {f}] \in Run
           /\ \A n \in Nat : [q EXCEPT !.pc = "mail", !.at.code = n] \in Run
<1>1. q.at \in RowCode /\ q.at.row \in Rows /\ q.at.code \in Nat
  BY DEF Run, RowCode
<1>2. q.todo \subseteq RowCode /\ q.bad \subseteq Rows
  BY DEF Run
<1>3. \A t \in q.todo : t \in RowCode /\ t.row \in Rows
  BY <1>2 DEF RowCode
<1>4. \A n \in Nat : [q EXCEPT !.pc = "mail", !.at.code = n] \in Run
  <2> TAKE n \in Nat
  <2>1. [q.at EXCEPT !.code = n] \in RowCode
    BY <1>1 DEF RowCode
  <2> QED
    BY <2>1 DEF Run
<1>5. \A pc \in {"own", "linked"} : [q EXCEPT !.pc = pc, !.at = NoRow] \in Run
  BY RecordTypes DEF Run
<1>6. /\ \A t \in RowCode : [q EXCEPT !.pc = "markOwn", !.at = t, !.todo = @ \ {t}] \in Run
      /\ \A pc \in {"linked", "disable", "rotate"}, at \in RowCode, t \in RowCode :
            [q EXCEPT !.pc = pc, !.at = at, !.todo = @ \ {t}] \in Run
  BY <1>2 DEF Run
<1>7. /\ \A todo \in SUBSET RowCode : [q EXCEPT !.pc = "own", !.todo = todo] \in Run
      /\ \A todo \in SUBSET RowCode : [q EXCEPT !.pc = "linked", !.todo = todo] \in Run
      /\ \A bad \in SUBSET Rows : [q EXCEPT !.pc = "own", !.bad = bad] \in Run
      /\ \A bad \in SUBSET Rows : [q EXCEPT !.pc = "linked", !.bad = bad] \in Run
  BY DEF Run
<1>8. /\ [q EXCEPT !.pc = "markLinked"] \in Run
      /\ \A f \in Rows : [q EXCEPT !.bad = @ \ {f}] \in Run
  BY <1>2 DEF Run
<1> QED
  BY <1>1, <1>2, <1>3, <1>4, <1>5, <1>6, <1>7, <1>8

LEMMA RunTyped ==
    ASSUME TypeOK, NEW k \in Runs, RunStart(k) \/ RunStep(k) \/ RunFails(k)
    PROVE  TypeOK'
<1> USE RecordTypes
<1>r. run[k] \in Run
  BY DEF TypeOK
<1>q. ASSUME NEW q \in Run, SetRun(k, q)
      PROVE  run' \in [Runs -> Run]
  BY <1>q, SetRunTyped
<1>1. CASE RunStart(k)
  <2>1. [Off EXCEPT !.pc = "start", !.active = (phase = "open")] \in Run
    BY DEF Off, Run
  <2> QED
    BY <1>1, <2>1, <1>q DEF RunStart, TypeOK
<1>2. CASE ReadOwnRows(k)
  <2>1. PICK q \in Run : SetRun(k, q)
    BY <1>2, <1>r, RunFields, SnapshotTyped DEF ReadOwnRows
  <2> QED
    BY <1>2, <2>1, <1>q DEF ReadOwnRows, TypeOK
<1>3. CASE MailOwn(k)
  <2>1. PICK t \in run[k].todo :
           /\ \/ mailed' = mailed \cup {t} /\ UNCHANGED faults
              \/ mailed' = mailed /\ Fault
           /\ SetRun(k, [run[k] EXCEPT !.pc = "markOwn", !.at = t, !.todo = @ \ {t}])
    BY <1>3 DEF MailOwn
  <2>2. t \in RowCode /\ [run[k] EXCEPT !.pc = "markOwn", !.at = t, !.todo = @ \ {t}] \in Run
    BY <1>r, RunFields
  <2>3. run' \in [Runs -> Run]
    BY <2>1, <2>2, <1>q
  <2> QED
    BY <1>3, <2>1, <2>2, <2>3 DEF MailOwn, TypeOK, Fault
<1>4. CASE MarkOwn(k)
  <2>1. run' \in [Runs -> Run]
    BY <1>4, <1>r, <1>q, RunFields DEF MarkOwn
  <2>2. run[k].at.row \in Rows
    BY <1>r, RunFields
  <2> QED
    BY <1>4, <2>1, <2>2, SetStatusTyped DEF MarkOwn, TypeOK
<1>5. CASE ReadLinkedRows(k)
  <2>1. run[k].bad \cup Generated(Linked) \in SUBSET Rows
    BY <1>r, RunFields, SnapshotTyped
  <2>2. PICK q \in Run : SetRun(k, q)
    BY <1>5, <2>1, <1>r, RunFields, SnapshotTyped DEF ReadLinkedRows
  <2> QED
    BY <1>5, <2>2, <1>q DEF ReadLinkedRows, TypeOK
<1>6. CASE ReadLink(k)
  <2>1. PICK t \in run[k].todo, pc \in {"linked", "disable", "rotate"}, at \in RowCode :
           SetRun(k, [run[k] EXCEPT !.pc = pc, !.at = at, !.todo = @ \ {t}])
    BY <1>6, <1>r, RunFields DEF ReadLink
  <2>2. [run[k] EXCEPT !.pc = pc, !.at = at, !.todo = @ \ {t}] \in Run
    BY <1>r, RunFields
  <2> QED
    BY <1>6, <2>1, <2>2, <1>q DEF ReadLink, TypeOK
<1>7. CASE Disable(k)
  <2>1. run' \in [Runs -> Run]
    BY <1>7, <1>r, <1>q, RunFields DEF Disable
  <2>2. run[k].at.row \in Rows
    BY <1>r, RunFields
  <2> QED
    BY <1>7, <2>1, <2>2, SetStatusTyped DEF Disable, TypeOK
<1>8. CASE RotateCode(k)
  <2>1. run[k].at.row \in Rows
    BY <1>r, RunFields
  <2>2. code[run[k].at.row] + 1 \in Nat
    BY <2>1 DEF TypeOK
  <2>3. run' \in [Runs -> Run]
    BY <1>8, <2>2, <1>r, <1>q, RunFields DEF RotateCode
  <2> QED
    BY <1>8, <2>1, <2>3, ReplaceCodeTyped DEF RotateCode, TypeOK
<1>9. CASE MailLinked(k)
  <2>1. run' \in [Runs -> Run] /\ run[k].at \in RowCode
    BY <1>9, <1>r, <1>q, RunFields DEF MailLinked
  <2> QED
    BY <1>9, <2>1 DEF MailLinked, TypeOK
<1>10. CASE MarkLinked(k)
  <2>1. run' \in [Runs -> Run]
    BY <1>10, <1>r, <1>q, RunFields DEF MarkLinked
  <2>2. run[k].at.row \in Rows
    BY <1>r, RunFields
  <2> QED
    BY <1>10, <2>1, <2>2, SetStatusTyped DEF MarkLinked, TypeOK
<1>11. CASE MarkUseless(k)
  <2>1. PICK f \in run[k].bad :
           SetStatus(f, UNUSEFULL) /\ SetRun(k, [run[k] EXCEPT !.bad = @ \ {f}])
    BY <1>11 DEF MarkUseless
  <2>2. f \in Rows
    BY <1>r, RunFields
  <2>3. run' \in [Runs -> Run]
    BY <2>1, <2>2, <1>r, <1>q, RunFields
  <2> QED
    BY <1>11, <2>1, <2>2, <2>3, SetStatusTyped DEF MarkUseless, TypeOK
<1>12. CASE RunEnd(k)
  BY <1>12, <1>q DEF RunEnd, TypeOK
<1>13. CASE RunFails(k)
  <2>1. run' \in [Runs -> Run] /\ run[k].at \in RowCode
    BY <1>13, <1>r, <1>q, RunFields DEF RunFails
  <2>2. mailed' \subseteq RowCode
    BY <1>13, <2>1 DEF RunFails, TypeOK
  <2> QED
    BY <1>13, <2>1, <2>2 DEF RunFails, TypeOK, Fault
<1> QED
  BY <1>1, <1>2, <1>3, <1>4, <1>5, <1>6, <1>7, <1>8, <1>9, <1>10, <1>11, <1>12, <1>13
     DEF RunStep

LEMMA HolderFields ==
    ASSUME NEW q \in Holder
    PROVE  /\ q.at \in RowCode /\ q.at.row \in Rows /\ q.at.code \in Nat
           /\ \A pc \in {"started", "finish"} : [q EXCEPT !.pc = pc] \in Holder
           /\ \A pc \in {"write", "check"}, n \in 0..5 :
                 [q EXCEPT !.pc = pc, !.seen = n] \in Holder
           /\ \A n \in Nat : [q EXCEPT !.pc = "resend", !.at.code = n] \in Holder
<1>1. q.at \in RowCode /\ q.at.row \in Rows /\ q.at.code \in Nat
  BY DEF Holder, RowCode
<1>2. \A pc \in {"started", "finish"} : [q EXCEPT !.pc = pc] \in Holder
  BY DEF Holder
<1>3. \A pc \in {"write", "check"}, n \in 0..5 : [q EXCEPT !.pc = pc, !.seen = n] \in Holder
  BY DEF Holder
<1>4. \A n \in Nat : [q EXCEPT !.pc = "resend", !.at.code = n] \in Holder
  <2> TAKE n \in Nat
  <2>1. [q.at EXCEPT !.code = n] \in RowCode
    BY <1>1 DEF RowCode
  <2> QED
    BY <2>1 DEF Holder
<1> QED
  BY <1>1, <1>2, <1>3, <1>4

\* A step of a code holder's handler.
LEMMA HolderTyped ==
    ASSUME TypeOK, NEW h \in Holders, HolderStep(h)
    PROVE  TypeOK'
<1> USE RecordTypes
<1>h. holder[h] \in Holder
  BY DEF TypeOK
<1>q. ASSUME NEW q \in Holder, SetHolder(h, q)
      PROVE  holder' \in [Holders -> Holder]
  BY <1>q, SetHolderTyped
<1>1. ASSUME NEW m \in mailed, NEW op \in {"answer", "submit"}, UseCode(h, m, op)
      PROVE  TypeOK'
  <2>1. m \in RowCode
    BY DEF TypeOK
  <2>2. [Idle EXCEPT !.pc = "validate", !.op = op, !.at = m] \in Holder
    BY <2>1 DEF Idle, Holder, UNUSEFULL
  <2> QED
    BY <1>1, <2>2, <1>q DEF UseCode, TypeOK
<1>2. ASSUME NEW m \in mailed, UseExpiredCode(h, m)
      PROVE  TypeOK'
  <2>1. m \in RowCode
    BY DEF TypeOK
  <2>2. [Idle EXCEPT !.pc = "replace", !.at = m] \in Holder
    BY <2>1 DEF Idle, Holder, UNUSEFULL
  <2> QED
    BY <1>2, <2>2, <1>q DEF UseExpiredCode, TypeOK
<1>3. CASE ReplaceExpired(h)
  <2>1. holder[h].at.row \in Rows
    BY <1>h, HolderFields
  <2>2. code[holder[h].at.row] + 1 \in Nat
    BY <2>1 DEF TypeOK
  <2>3. holder' \in [Holders -> Holder]
    BY <1>3, <2>2, <1>h, <1>q, HolderFields DEF ReplaceExpired
  <2> QED
    BY <1>3, <2>1, <2>3, ReplaceCodeTyped DEF ReplaceExpired, TypeOK
<1>4. CASE ResendCode(h)
  <2>1. holder' \in [Holders -> Holder] /\ holder[h].at \in RowCode
    BY <1>4, <1>h, <1>q, HolderFields DEF ResendCode
  <2>2. mailed' \subseteq RowCode
    BY <1>4, <2>1 DEF ResendCode, TypeOK
  <2> QED
    BY <1>4, <2>1, <2>2 DEF ResendCode, TypeOK
<1>5. CASE Validate(h)
  <2>1. holder[h].at.row \in Rows
    BY <1>h, HolderFields
  <2>2. status[holder[h].at.row] \in 0..5
    BY <2>1 DEF TypeOK, UNUSEFULL, GENERATED, MAILED, STARTED, SUBMITTED
  <2>3. holder' \in [Holders -> Holder]
    BY <1>5, <2>2, <1>h, <1>q, HolderFields DEF Validate
  <2> QED
    BY <1>5, <2>3 DEF Validate, TypeOK
<1>6. CASE WriteAnswer(h)
  <2>1. holder' \in [Holders -> Holder]
    BY <1>6, <1>h, <1>q, HolderFields DEF WriteAnswer
  <2>2. answer' \in [Linked -> LinkAnswer]
    BY <1>6 DEF WriteAnswer, TypeOK
  <2> QED
    BY <1>6, <2>1, <2>2 DEF WriteAnswer, TypeOK
<1>7. CASE RefuseAnswer(h)
  BY <1>7, <1>q DEF RefuseAnswer, TypeOK
<1>8. CASE UpdateToStarted(h)
  <2>1. holder' \in [Holders -> Holder] /\ holder[h].at.row \in Rows
    BY <1>8, <1>h, <1>q, HolderFields DEF UpdateToStarted
  <2>2. status' \in [Rows -> {UNUSEFULL, GENERATED, MAILED, STARTED, SUBMITTED}]
    BY <1>8, <2>1, SetStatusTyped DEF UpdateToStarted, TypeOK
  <2> QED
    BY <1>8, <2>1, <2>2 DEF UpdateToStarted, TypeOK
<1>9. CASE CheckAnswers(h)
  <2>1. holder' \in [Holders -> Holder]
    BY <1>9, <1>h, <1>q, HolderFields DEF CheckAnswers
  <2> QED
    BY <1>9, <2>1 DEF CheckAnswers, TypeOK
<1>10. CASE FinishSubmit(h)
  <2>1. holder' \in [Holders -> Holder] /\ holder[h].at.row \in Rows
    BY <1>10, <1>h, <1>q, HolderFields DEF FinishSubmit
  <2>2. status' \in [Rows -> {UNUSEFULL, GENERATED, MAILED, STARTED, SUBMITTED}]
    BY <1>10, <2>1, SetStatusTyped DEF FinishSubmit
  <2> QED
    BY <1>10, <2>1, <2>2 DEF FinishSubmit, TypeOK
<1>11. CASE HolderFails(h)
  <2>1. holder' \in [Holders -> Holder] /\ holder[h].at \in RowCode
    BY <1>11, <1>h, <1>q, HolderFields DEF HolderFails
  <2>2. mailed' \subseteq RowCode
    BY <1>11, <2>1 DEF HolderFails, TypeOK
  <2> QED
    BY <1>11, <2>1, <2>2 DEF HolderFails, TypeOK, Fault
<1> QED
  BY <1>1, <1>2, <1>3, <1>4, <1>5, <1>6, <1>7, <1>8, <1>9, <1>10, <1>11 DEF HolderStep

LEMMA NextTyped == TypeOK /\ [Next]_vars => TypeOK'
<1> SUFFICES ASSUME TypeOK, [Next]_vars PROVE TypeOK'
  OBVIOUS
<1>1. ASSUME NEW k \in Runs, RunStart(k) \/ RunStep(k) \/ RunFails(k) PROVE TypeOK'
  BY <1>1, RunTyped
<1>2. ASSUME NEW h \in Holders, HolderStep(h) PROVE TypeOK'
  BY <1>2, HolderTyped
<1>3. ASSUME NEW f \in Rows, CodeExpires(f) PROVE TypeOK'
  BY <1>3 DEF CodeExpires, TypeOK
<1>4. CASE DayPasses
  BY <1>4 DEF DayPasses, TypeOK
<1>5. CASE Restart
  BY <1>5, RecordTypes DEF Restart, Fault, TypeOK
<1>6. CASE UNCHANGED vars
  BY <1>6 DEF vars, TypeOK
<1> QED
  BY <1>1, <1>2, <1>3, <1>4, <1>5, <1>6 DEF Next

\* Every variable of FormLifecycle keeps its type, for any rows, runs and holders.
THEOREM FlowTypeCorrect == Spec => []TypeOK
  BY InitTyped, NextTyped, PTL DEF Spec

-----------------------------------------------------------------------------
(* Who is mailed, and what MAILED means *)

\* What a run carries between its steps: the rows of the part it is in; past
\* the reading of a link, that the link was given by a submitted form; past the
\* mail, that it left.
RunHonest(q, S, a, M) ==
    /\ q.pc = "start" => q.todo = {}
    /\ q.pc \in {"own", "markOwn"} => \A t \in q.todo : t.row \in Own
    /\ q.pc = "markOwn" => q.at.row \in Own
    /\ q.pc \in {"linked", "disable", "rotate", "mail", "markLinked"} =>
          \A t \in q.todo : t.row \in Linked
    /\ q.pc \in {"disable", "rotate", "mail", "markLinked"} => q.at.row \in Linked
    /\ q.pc \in {"rotate", "mail", "markLinked"} =>
          Source \in S /\ a[q.at.row].value = "given"
    /\ q.pc = "markLinked" => q.at \in M

\* A handler serves a row of which somebody was mailed a code.
HolderHonest(q, M) == q.pc # "idle" => \E m \in M : m.row = q.at.row

FlowInv ==
    /\ TypeOK
    /\ status[Source] = SUBMITTED => Source \in submitted
    /\ \A k \in Runs : RunHonest(run[k], submitted, answer, mailed)
    /\ \A h \in Holders : HolderHonest(holder[h], mailed)
    /\ LinkedMailNeedsSubmission
    /\ LinkedMailedMeansMailed

LEMMA InitFlow == Init => FlowInv
<1> SUFFICES ASSUME Init PROVE FlowInv
  OBVIOUS
<1>1. TypeOK
  BY InitTyped
<1>2. /\ \A k \in Runs : RunHonest(run[k], submitted, answer, mailed)
      /\ \A h \in Holders : HolderHonest(holder[h], mailed)
  BY DEF Init, RunHonest, HolderHonest, Off, Idle
<1>3. LinkedMailNeedsSubmission /\ LinkedMailedMeansMailed
  BY RecordTypes DEF Init, LinkedMailNeedsSubmission, LinkedMailedMeansMailed,
     UNUSEFULL, GENERATED, MAILED, STARTED, SUBMITTED
<1>4. status[Source] # SUBMITTED
  BY RecordTypes DEF Init, GENERATED, SUBMITTED
<1> QED
  BY <1>1, <1>2, <1>3, <1>4 DEF FlowInv

\* Mails and submissions are never taken back and a given answer stays given.
Grows ==
    /\ mailed \subseteq mailed'
    /\ submitted \subseteq submitted'
    /\ \A f \in Linked : answer[f].value = "given" => answer'[f].value = "given"

LEMMA NextGrows == TypeOK /\ [Next]_vars => Grows
<1> SUFFICES ASSUME TypeOK, [Next]_vars PROVE Grows
  OBVIOUS
<1>1. ASSUME NEW k \in Runs, RunStart(k) \/ RunStep(k) \/ RunFails(k) PROVE Grows
  BY <1>1 DEF RunStart, RunStep, RunFails, ReadOwnRows, MailOwn, MarkOwn, ReadLinkedRows,
     ReadLink, Disable, RotateCode, MailLinked, MarkLinked, MarkUseless, RunEnd, Grows
<1>2. ASSUME NEW h \in Holders, HolderStep(h) PROVE Grows
  <2>1. CASE WriteAnswer(h)
    <3>1. \A f \in Linked : answer[f].value = "given" => answer'[f].value = "given"
      <4> TAKE f \in Linked
      <4>1. CASE answer' = answer
        BY <4>1
      <4>2. CASE answer'[f] = Answered(answer[f])
        BY <4>2 DEF Answered
      <4>3. CASE answer'[f] \in Toggled(answer[f])
        BY <4>3 DEF Toggled
      <4> QED
        BY <2>1, <4>1, <4>2, <4>3 DEF WriteAnswer
    <3> QED
      BY <2>1, <3>1 DEF WriteAnswer, Grows
  <2>2. CASE ~WriteAnswer(h)
    BY <1>2, <2>2 DEF HolderStep, UseCode, UseExpiredCode, ReplaceExpired, ResendCode,
       Validate, RefuseAnswer, UpdateToStarted, CheckAnswers, FinishSubmit, HolderFails,
       Grows
  <2> QED
    BY <2>1, <2>2
<1>3. CASE \E f \in Rows : CodeExpires(f)
  BY <1>3 DEF CodeExpires, Grows
<1>4. CASE DayPasses \/ Restart \/ UNCHANGED vars
  BY <1>4 DEF DayPasses, Restart, vars, Grows
<1> QED
  BY <1>1, <1>2, <1>3, <1>4 DEF Next

LEMMA HonestyLasts ==
    ASSUME Grows
    PROVE  /\ \A q : RunHonest(q, submitted, answer, mailed)
                       => RunHonest(q, submitted', answer', mailed')
           /\ \A q : HolderHonest(q, mailed) => HolderHonest(q, mailed')
  BY DEF Grows, RunHonest, HolderHonest

\* The mails of a step that are new, the rows it writes, what it submits.
MailsJustified ==
    \A m \in mailed' \ mailed :
        m.row \in Linked => Source \in submitted /\ answer[m.row].value = "given"
StatusesJustified ==
    \A f \in Linked : \/ status'[f] = status[f]
                      \/ status'[f] = UNUSEFULL
                      \/ \E m \in mailed : m.row = f
SubmissionsRecorded ==
    status'[Source] = SUBMITTED => status[Source] = SUBMITTED \/ Source \in submitted'
Justified == MailsJustified /\ StatusesJustified /\ SubmissionsRecorded

LEMMA QuietStep ==
    ASSUME UNCHANGED <<status, mailed>>
    PROVE  Justified
  BY DEF Justified, MailsJustified, StatusesJustified, SubmissionsRecorded

\* One row is written, nothing is mailed.
LEMMA StatusStep ==
    ASSUME TypeOK, NEW f \in Rows, NEW s, SetStatus(f, s), UNCHANGED mailed,
           s = SUBMITTED => submitted' = submitted \cup {f},
           f \in Linked => s = UNUSEFULL \/ \E m \in mailed : m.row = f
    PROVE  Justified
<1>1. MailsJustified
  BY DEF MailsJustified
<1>2. StatusesJustified
  <2> SUFFICES ASSUME NEW g \in Linked, status'[g] # status[g]
               PROVE  status'[g] = UNUSEFULL \/ \E m \in mailed : m.row = g
    BY DEF StatusesJustified
  <2>1. g = f /\ status'[f] = s
    BY RecordTypes DEF SetStatus, TypeOK
  <2> QED
    BY <2>1
<1>3. SubmissionsRecorded
  BY RecordTypes DEF SubmissionsRecorded, SetStatus, TypeOK
<1> QED
  BY <1>1, <1>2, <1>3 DEF Justified

\* One code is mailed, or not; no row is written.
LEMMA MailStep ==
    ASSUME NEW t, UNCHANGED status, mailed' \in {mailed, mailed \cup {t}},
           t.row \in Linked => Source \in submitted /\ answer[t.row].value = "given"
    PROVE  Justified
<1>1. MailsJustified
  BY DEF MailsJustified
<1> QED
  BY <1>1 DEF Justified, StatusesJustified, SubmissionsRecorded

LEMMA RunJustified ==
    ASSUME FlowInv, NEW k \in Runs, RunStart(k) \/ RunStep(k) \/ RunFails(k)
    PROVE  Justified
<1>t. TypeOK /\ run[k] \in Run /\ RunHonest(run[k], submitted, answer, mailed)
  BY DEF FlowInv, TypeOK
<1>r. run[k].at \in RowCode /\ run[k].at.row \in Rows
  BY <1>t, RunFields
<1>1. CASE MailOwn(k)
  <2>1. PICK t \in run[k].todo : mailed' \in {mailed, mailed \cup {t}}
    BY <1>1 DEF MailOwn
  <2>2. t.row \notin Linked
    BY <1>1, <1>t DEF MailOwn, RunHonest, Own
  <2> QED
    BY <1>1, <2>1, <2>2, MailStep DEF MailOwn
<1>2. CASE MarkOwn(k)
  <2>1. run[k].at.row \notin Linked
    BY <1>2, <1>t DEF MarkOwn, RunHonest, Own
  <2>2. MAILED # SUBMITTED
    BY DEF MAILED, SUBMITTED
  <2> QED
    BY <1>2, <1>t, <1>r, <2>1, <2>2, StatusStep DEF MarkOwn
<1>3. CASE Disable(k)
  <2>1. UNUSEFULL # SUBMITTED
    BY DEF UNUSEFULL, SUBMITTED
  <2> QED
    BY <1>3, <1>t, <1>r, <2>1, StatusStep DEF Disable
<1>4. CASE MarkLinked(k)
  <2>1. \E m \in mailed : m.row = run[k].at.row
    BY <1>4, <1>t DEF MarkLinked, RunHonest
  <2>2. MAILED # SUBMITTED
    BY DEF MAILED, SUBMITTED
  <2> QED
    BY <1>4, <1>t, <1>r, <2>1, <2>2, StatusStep DEF MarkLinked
<1>5. CASE MarkUseless(k)
  <2>1. PICK f \in run[k].bad : SetStatus(f, UNUSEFULL)
    BY <1>5 DEF MarkUseless
  <2>2. f \in Rows
    BY <1>t, RunFields
  <2>3. UNUSEFULL # SUBMITTED
    BY DEF UNUSEFULL, SUBMITTED
  <2> QED
    BY <1>5, <1>t, <2>1, <2>2, <2>3, StatusStep DEF MarkUseless
<1>6. CASE MailLinked(k)
  <2>1. Source \in submitted /\ answer[run[k].at.row].value = "given"
    BY <1>6, <1>t DEF MailLinked, RunHonest
  <2> QED
    BY <1>6, <2>1, MailStep DEF MailLinked
<1>7. CASE RunFails(k)
  <2>1. CASE run[k].pc = "mail"
    <3>1. Source \in submitted /\ answer[run[k].at.row].value = "given"
      BY <2>1, <1>t DEF RunHonest
    <3> QED
      BY <1>7, <2>1, <3>1, MailStep DEF RunFails
  <2>2. CASE run[k].pc # "mail"
    BY <1>7, <2>2, QuietStep DEF RunFails
  <2> QED
    BY <2>1, <2>2
<1>8. CASE RunStart(k) \/ ReadOwnRows(k) \/ ReadLinkedRows(k) \/ ReadLink(k)
           \/ RotateCode(k) \/ RunEnd(k)
  BY <1>8, QuietStep DEF RunStart, ReadOwnRows, ReadLinkedRows, ReadLink, RotateCode, RunEnd
<1> QED
  BY <1>1, <1>2, <1>3, <1>4, <1>5, <1>6, <1>7, <1>8 DEF RunStep

LEMMA HolderJustified ==
    ASSUME FlowInv, NEW h \in Holders, HolderStep(h)
    PROVE  Justified
<1>t. TypeOK /\ holder[h] \in Holder /\ HolderHonest(holder[h], mailed)
  BY DEF FlowInv, TypeOK
<1>r. holder[h].at.row \in Rows
  BY <1>t, HolderFields
<1>1. CASE UpdateToStarted(h)
  <2>1. \E m \in mailed : m.row = holder[h].at.row
    BY <1>1, <1>t DEF UpdateToStarted, HolderHonest
  <2>2. STARTED # SUBMITTED
    BY DEF STARTED, SUBMITTED
  <2>3. CASE UNCHANGED status
    BY <1>1, <2>3, QuietStep DEF UpdateToStarted
  <2>4. CASE SetStatus(holder[h].at.row, STARTED)
    BY <1>1, <1>t, <1>r, <2>1, <2>2, <2>4, StatusStep DEF UpdateToStarted
  <2> QED
    BY <1>1, <2>3, <2>4 DEF UpdateToStarted
<1>2. CASE FinishSubmit(h)
  <2>1. \E m \in mailed : m.row = holder[h].at.row
    BY <1>2, <1>t DEF FinishSubmit, HolderHonest
  <2> QED
    BY <1>2, <1>t, <1>r, <2>1, StatusStep DEF FinishSubmit
<1>3. CASE ResendCode(h)
  <2>1. CASE holder[h].at.row \in Own
    BY <1>3, <2>1, MailStep DEF ResendCode, Own
  <2>2. CASE holder[h].at.row \notin Own
    BY <1>3, <2>2, QuietStep DEF ResendCode
  <2> QED
    BY <2>1, <2>2
<1>4. CASE HolderFails(h)
  <2>1. CASE holder[h].at.row \in Own
    BY <1>4, <2>1, MailStep DEF HolderFails, Own
  <2>2. CASE holder[h].at.row \notin Own
    BY <1>4, <2>2, QuietStep DEF HolderFails
  <2> QED
    BY <2>1, <2>2
<1>5. CASE \/ \E m \in mailed, op \in {"answer", "submit"} : UseCode(h, m, op)
           \/ \E m \in mailed : UseExpiredCode(h, m)
           \/ ReplaceExpired(h) \/ Validate(h) \/ WriteAnswer(h) \/ RefuseAnswer(h)
           \/ CheckAnswers(h)
  BY <1>5, QuietStep DEF UseCode, UseExpiredCode, ReplaceExpired, Validate, WriteAnswer,
     RefuseAnswer, CheckAnswers
<1> QED
  BY <1>1, <1>2, <1>3, <1>4, <1>5 DEF HolderStep

LEMMA NextJustified == FlowInv /\ [Next]_vars => Justified
<1> SUFFICES ASSUME FlowInv, [Next]_vars PROVE Justified
  OBVIOUS
<1>1. ASSUME NEW k \in Runs, RunStart(k) \/ RunStep(k) \/ RunFails(k) PROVE Justified
  BY <1>1, RunJustified
<1>2. ASSUME NEW h \in Holders, HolderStep(h) PROVE Justified
  BY <1>2, HolderJustified
<1>3. CASE (\E f \in Rows : CodeExpires(f)) \/ DayPasses \/ Restart \/ UNCHANGED vars
  BY <1>3, QuietStep DEF CodeExpires, DayPasses, Restart, vars
<1> QED
  BY <1>1, <1>2, <1>3 DEF Next

\* The run that moves leaves an honest record; the others stay honest.
LEMMA RunStaysHonest ==
    ASSUME FlowInv, Grows, NEW k \in Runs, RunStart(k) \/ RunStep(k) \/ RunFails(k)
    PROVE  RunHonest(run'[k], submitted', answer', mailed')
<1>t. /\ TypeOK /\ run[k] \in Run
      /\ RunHonest(run[k], submitted, answer, mailed)
      /\ run \in [Runs -> Run]
  BY DEF FlowInv, TypeOK
<1>g. RunHonest(run[k], submitted', answer', mailed')
  BY <1>t, HonestyLasts
<1>q. ASSUME NEW q, SetRun(k, q) PROVE run'[k] = q
  BY <1>t, <1>q DEF SetRun
<1>o. ASSUME SetRun(k, Off) PROVE RunHonest(run'[k], submitted', answer', mailed')
  BY <1>o, <1>q DEF RunHonest, Off
<1>1. CASE RunStart(k)
  <2>1. run'[k].pc = "start" /\ run'[k].todo = {}
    BY <1>1, <1>q DEF RunStart, Off
  <2> QED
    BY <2>1 DEF RunHonest
<1>2. CASE ReadOwnRows(k)
  <2>1. run'[k].pc = "own" /\ run'[k].todo \in {run[k].todo, Snapshot(Own)}
    BY <1>2, <1>q, <1>t DEF ReadOwnRows, Run
  <2>2. run[k].todo = {} /\ \A t \in Snapshot(Own) : t.row \in Own
    BY <1>2, <1>t, SnapshotTyped, RecordTypes DEF ReadOwnRows, RunHonest
  <2> QED
    BY <2>1, <2>2 DEF RunHonest
<1>3. CASE MailOwn(k)
  <2>1. PICK t \in run[k].todo :
           SetRun(k, [run[k] EXCEPT !.pc = "markOwn", !.at = t, !.todo = @ \ {t}])
    BY <1>3 DEF MailOwn
  <2>2. run'[k] = [run[k] EXCEPT !.pc = "markOwn", !.at = t, !.todo = @ \ {t}]
    BY <2>1, <1>q
  <2>4. run'[k].pc = "markOwn" /\ run'[k].at = t /\ run'[k].todo = run[k].todo \ {t}
    BY <2>2, <1>t DEF Run
  <2>3. \A u \in run[k].todo : u.row \in Own
    BY <1>3, <1>t DEF MailOwn, RunHonest
  <2> QED
    BY <2>3, <2>4 DEF RunHonest
<1>4. CASE MarkOwn(k)
  <2>1. run'[k].pc = "own" /\ run'[k].todo = run[k].todo
    BY <1>4, <1>q, <1>t DEF MarkOwn, Run
  <2> QED
    BY <1>4, <1>g, <2>1 DEF MarkOwn, RunHonest
<1>5. CASE ReadLinkedRows(k)
  <2>1. run'[k].pc = "linked" /\ run'[k].todo \in {{}, Snapshot(Linked)}
    BY <1>5, <1>q, <1>t DEF ReadLinkedRows, Run
  <2>2. \A t \in Snapshot(Linked) : t.row \in Linked
    BY <1>t, SnapshotTyped, RecordTypes
  <2> QED
    BY <2>1, <2>2 DEF RunHonest
<1>6. CASE ReadLink(k)
  <2>0. \A u \in run[k].todo : u.row \in Linked
    BY <1>6, <1>t DEF ReadLink, RunHonest
  <2>1. PICK t \in run[k].todo, pc \in {"linked", "disable", "rotate"}, at \in RowCode :
           /\ SetRun(k, [run[k] EXCEPT !.pc = pc, !.at = at, !.todo = @ \ {t}])
           /\ pc \in {"disable", "rotate"} => at = t
           /\ pc = "rotate" => LinkVisible(t.row) /\ answer[t.row].value = "given"
    BY <1>6, <1>t, RunFields, RecordTypes DEF ReadLink, TypeOK
  <2>2. /\ run'[k].pc = pc /\ run'[k].at = at
        /\ run'[k].todo \subseteq run[k].todo
    <3> DEFINE q == [run[k] EXCEPT !.pc = pc, !.at = at, !.todo = @ \ {t}]
    <3>1. q.pc = pc /\ q.at = at /\ q.todo \subseteq run[k].todo
      BY <1>t DEF Run
    <3>2. run'[k] = q
      BY <2>1, <1>q
    <3> QED
      BY <3>1, <3>2
  <2>3. t.row \in Linked
    BY <2>0
  <2>4. ASSUME pc = "rotate"
        PROVE  Source \in submitted' /\ answer'[t.row].value = "given"
    <3>1. status[Source] = SUBMITTED
      BY <2>1, <2>4, <1>t, RecordTypes DEF LinkVisible, TypeOK, UNUSEFULL, GENERATED,
         MAILED, STARTED, SUBMITTED
    <3> QED
      BY <2>1, <2>3, <2>4, <3>1 DEF FlowInv, Grows
  <2> QED
    BY <2>0, <2>1, <2>2, <2>3, <2>4 DEF RunHonest
<1>7. CASE Disable(k)
  <2>1. run'[k].pc = "linked" /\ run'[k].todo = run[k].todo
    BY <1>7, <1>q, <1>t DEF Disable, Run
  <2> QED
    BY <1>7, <1>g, <2>1 DEF Disable, RunHonest
<1>8. CASE RotateCode(k)
  <2>0. run[k].at \in RowCode
    BY <1>t, RunFields
  <2>1. /\ run'[k].pc = "mail" /\ run'[k].todo = run[k].todo
        /\ run'[k].at = [run[k].at EXCEPT !.code = code[run[k].at.row] + 1]
    BY <1>8, <1>q, <1>t DEF RotateCode, Run
  <2>2. run'[k].at.row = run[k].at.row
    BY <2>0, <2>1 DEF RowCode
  <2> QED
    BY <1>8, <1>g, <2>1, <2>2 DEF RotateCode, RunHonest
<1>9. CASE MailLinked(k)
  <2>1. run'[k].pc = "markLinked" /\ run'[k].todo = run[k].todo /\ run'[k].at = run[k].at
    BY <1>9, <1>q, <1>t DEF MailLinked, Run
  <2>2. run[k].at \in mailed'
    BY <1>9 DEF MailLinked
  <2> QED
    BY <1>9, <1>g, <2>1, <2>2 DEF MailLinked, RunHonest
<1>10. CASE MarkLinked(k)
  <2>1. run'[k].pc = "linked" /\ run'[k].todo = run[k].todo
    BY <1>10, <1>q, <1>t DEF MarkLinked, Run
  <2> QED
    BY <1>10, <1>g, <2>1 DEF MarkLinked, RunHonest
<1>11. CASE MarkUseless(k)
  <2>1. PICK f \in run[k].bad : SetRun(k, [run[k] EXCEPT !.bad = @ \ {f}])
    BY <1>11 DEF MarkUseless
  <2>2. run'[k].pc = "linked" /\ run'[k].todo = {}
    BY <1>11, <2>1, <1>q, <1>t DEF MarkUseless, Run
  <2> QED
    BY <2>2 DEF RunHonest
<1>12. CASE RunEnd(k) \/ RunFails(k)
  BY <1>12, <1>o DEF RunEnd, RunFails
<1> QED
  BY <1>1, <1>2, <1>3, <1>4, <1>5, <1>6, <1>7, <1>8, <1>9, <1>10, <1>11, <1>12 DEF RunStep

LEMMA HolderStaysHonest ==
    ASSUME FlowInv, Grows, NEW h \in Holders, HolderStep(h)
    PROVE  HolderHonest(holder'[h], mailed')
<1>t. /\ TypeOK /\ holder[h] \in Holder /\ holder \in [Holders -> Holder]
      /\ HolderHonest(holder[h], mailed)
  BY DEF FlowInv, TypeOK
<1>g. HolderHonest(holder[h], mailed')
  BY <1>t, HonestyLasts
<1>q. ASSUME NEW q, SetHolder(h, q) PROVE holder'[h] = q
  BY <1>t, <1>q DEF SetHolder
<1>i. ASSUME SetHolder(h, Idle) PROVE HolderHonest(holder'[h], mailed')
  BY <1>i, <1>q DEF HolderHonest, Idle
<1>s. ASSUME holder[h].pc # "idle", holder'[h].at.row = holder[h].at.row
      PROVE  HolderHonest(holder'[h], mailed')
  BY <1>s, <1>g DEF HolderHonest
<1>1. ASSUME NEW m \in mailed, NEW op \in {"answer", "submit"}, UseCode(h, m, op)
      PROVE  HolderHonest(holder'[h], mailed')
  <2>1. holder'[h].at = m
    BY <1>1, <1>q DEF UseCode, Idle
  <2> QED
    BY <2>1 DEF Grows, HolderHonest
<1>2. ASSUME NEW m \in mailed, UseExpiredCode(h, m)
      PROVE  HolderHonest(holder'[h], mailed')
  <2>1. holder'[h].at = m
    BY <1>2, <1>q DEF UseExpiredCode, Idle
  <2> QED
    BY <2>1 DEF Grows, HolderHonest
<1>3. CASE ReplaceExpired(h)
  <2>1. holder'[h].at = [holder[h].at EXCEPT !.code = code[holder[h].at.row] + 1]
    BY <1>3, <1>q, <1>t DEF ReplaceExpired, Holder
  <2>2. holder'[h].at.row = holder[h].at.row
    BY <2>1, <1>t, HolderFields DEF RowCode
  <2> QED
    BY <1>3, <2>2, <1>s DEF ReplaceExpired
<1>4. CASE Validate(h)
  <2>1. CASE SetHolder(h, Idle)
    BY <2>1, <1>i
  <2>2. CASE ~SetHolder(h, Idle)
    <3>1. holder'[h].at = holder[h].at
      BY <1>4, <2>2, <1>q, <1>t DEF Validate, Holder
    <3> QED
      BY <1>4, <3>1, <1>s DEF Validate
  <2> QED
    BY <2>1, <2>2
<1>5. CASE WriteAnswer(h)
  <2>1. holder'[h].at = holder[h].at
    BY <1>5, <1>q, <1>t DEF WriteAnswer, Holder
  <2> QED
    BY <1>5, <2>1, <1>s DEF WriteAnswer
<1>6. CASE CheckAnswers(h)
  <2>1. CASE SetHolder(h, Idle)
    BY <2>1, <1>i
  <2>2. CASE ~SetHolder(h, Idle)
    <3>1. holder'[h].at = holder[h].at
      BY <1>6, <2>2, <1>q, <1>t DEF CheckAnswers, Holder
    <3> QED
      BY <1>6, <3>1, <1>s DEF CheckAnswers
  <2> QED
    BY <2>1, <2>2
<1>7. CASE \/ ResendCode(h) \/ RefuseAnswer(h) \/ UpdateToStarted(h) \/ FinishSubmit(h)
           \/ HolderFails(h)
  BY <1>7, <1>i DEF ResendCode, RefuseAnswer, UpdateToStarted, FinishSubmit, HolderFails
<1> QED
  BY <1>1, <1>2, <1>3, <1>4, <1>5, <1>6, <1>7 DEF HolderStep

LEMMA NextStaysHonest ==
    ASSUME FlowInv, Grows, [Next]_vars
    PROVE  /\ \A k \in Runs : RunHonest(run'[k], submitted', answer', mailed')
           /\ \A h \in Holders : HolderHonest(holder'[h], mailed')
<1>t. run \in [Runs -> Run] /\ holder \in [Holders -> Holder]
  BY DEF FlowInv, TypeOK
<1>k. \A k \in Runs : RunHonest(run[k], submitted', answer', mailed')
  BY HonestyLasts DEF FlowInv
<1>h. \A h \in Holders : HolderHonest(holder[h], mailed')
  BY HonestyLasts DEF FlowInv
<1>1. ASSUME NEW k \in Runs, RunStart(k) \/ RunStep(k) \/ RunFails(k)
      PROVE  /\ \A j \in Runs : RunHonest(run'[j], submitted', answer', mailed')
             /\ \A h \in Holders : HolderHonest(holder'[h], mailed')
  <2>1. PICK q : SetRun(k, q)
    BY <1>1 DEF RunStart, RunStep, RunFails, ReadOwnRows, MailOwn, MarkOwn,
       ReadLinkedRows, ReadLink, Disable, RotateCode, MailLinked, MarkLinked,
       MarkUseless, RunEnd
  <2>2. \A j \in Runs : j # k => run'[j] = run[j]
    BY <1>t, <2>1 DEF SetRun
  <2>3. RunHonest(run'[k], submitted', answer', mailed')
    BY <1>1, RunStaysHonest
  <2>4. holder' = holder
    BY <1>1 DEF RunStart, RunStep, RunFails, ReadOwnRows, MailOwn, MarkOwn,
       ReadLinkedRows, ReadLink, Disable, RotateCode, MailLinked, MarkLinked,
       MarkUseless, RunEnd
  <2> QED
    BY <1>k, <1>h, <2>2, <2>3, <2>4
<1>2. ASSUME NEW h \in Holders, HolderStep(h)
      PROVE  /\ \A k \in Runs : RunHonest(run'[k], submitted', answer', mailed')
             /\ \A j \in Holders : HolderHonest(holder'[j], mailed')
  <2>1. PICK q : SetHolder(h, q)
    BY <1>2 DEF HolderStep, UseCode, UseExpiredCode, ReplaceExpired, ResendCode,
       Validate, WriteAnswer, RefuseAnswer, UpdateToStarted, CheckAnswers, FinishSubmit,
       HolderFails
  <2>2. \A j \in Holders : j # h => holder'[j] = holder[j]
    BY <1>t, <2>1 DEF SetHolder
  <2>3. HolderHonest(holder'[h], mailed')
    BY <1>2, HolderStaysHonest
  <2>4. run' = run
    BY <1>2 DEF HolderStep, UseCode, UseExpiredCode, ReplaceExpired, ResendCode,
       Validate, WriteAnswer, RefuseAnswer, UpdateToStarted, CheckAnswers, FinishSubmit,
       HolderFails
  <2> QED
    BY <1>k, <1>h, <2>2, <2>3, <2>4
<1>3. CASE (\E f \in Rows : CodeExpires(f)) \/ DayPasses \/ UNCHANGED vars
  BY <1>3, <1>k, <1>h DEF CodeExpires, DayPasses, vars
<1>4. CASE Restart
  BY <1>4 DEF Restart, RunHonest, HolderHonest, Off, Idle
<1> QED
  BY <1>1, <1>2, <1>3, <1>4 DEF Next

LEMMA FlowNext == FlowInv /\ [Next]_vars => FlowInv'
<1> SUFFICES ASSUME FlowInv, [Next]_vars PROVE FlowInv'
  OBVIOUS
<1>1. TypeOK /\ TypeOK'
  BY NextTyped DEF FlowInv
<1>2. Grows
  BY <1>1, NextGrows
<1>3. Justified
  BY NextJustified
<1>4. /\ \A k \in Runs : RunHonest(run'[k], submitted', answer', mailed')
      /\ \A h \in Holders : HolderHonest(holder'[h], mailed')
  BY <1>2, NextStaysHonest
<1>5. status'[Source] = SUBMITTED => Source \in submitted'
  BY <1>2, <1>3 DEF FlowInv, Justified, SubmissionsRecorded, Grows
<1>6. LinkedMailNeedsSubmission'
  <2> SUFFICES ASSUME NEW m \in mailed', m.row \in Linked
               PROVE  Source \in submitted' /\ answer'[m.row].value = "given"
    BY DEF LinkedMailNeedsSubmission
  <2>1. Source \in submitted /\ answer[m.row].value = "given"
    BY <1>3 DEF FlowInv, LinkedMailNeedsSubmission, Justified, MailsJustified
  <2> QED
    BY <1>2, <2>1 DEF Grows
<1>7. LinkedMailedMeansMailed'
  <2> SUFFICES ASSUME NEW f \in Linked, status'[f] \in {MAILED, STARTED, SUBMITTED}
               PROVE  \E m \in mailed' : m.row = f
    BY DEF LinkedMailedMeansMailed
  <2>1. status'[f] # UNUSEFULL
    BY DEF UNUSEFULL, MAILED, STARTED, SUBMITTED
  <2>2. \E m \in mailed : m.row = f
    BY <1>3, <2>1 DEF FlowInv, LinkedMailedMeansMailed, Justified, StatusesJustified
  <2> QED
    BY <1>2, <2>2 DEF Grows
<1> QED
  BY <1>1, <1>4, <1>5, <1>6, <1>7 DEF FlowInv

\* However many runs and handlers overlap, fail and restart, nobody is mailed a form
\* about a candidate before the candidate submitted the form that names them.
THEOREM LinkedMailIsDue == Spec => []LinkedMailNeedsSubmission
<1>1. FlowInv => LinkedMailNeedsSubmission
  BY DEF FlowInv
<1> QED
  BY <1>1, InitFlow, FlowNext, PTL DEF Spec

\* A linked row that is MAILED or later has a recipient who was mailed a code of it.
THEOREM LinkedMailedIsTrue == Spec => []LinkedMailedMeansMailed
<1>1. FlowInv => LinkedMailedMeansMailed
  BY DEF FlowInv
<1> QED
  BY <1>1, InitFlow, FlowNext, PTL DEF Spec

-----------------------------------------------------------------------------
(* What can undo a submission *)

LEMMA OnlyStaleUndoes ==
    ASSUME TypeOK, [Next]_vars, NEW f \in Rows, status[f] = SUBMITTED, status'[f] # SUBMITTED
    PROVE  StaleHandler(f) \/ StaleRun(f)
<1>1. ASSUME NEW g \in Rows, NEW s, SetStatus(g, s)
      PROVE  g = f
  BY <1>1 DEF SetStatus, TypeOK
<1>2. ASSUME NEW k \in Runs, RunStart(k) \/ RunStep(k) \/ RunFails(k)
      PROVE  StaleRun(f)
  <2>r. run[k] \in Run /\ run[k].at.row \in Rows /\ run[k].bad \subseteq Rows
    BY RunFields DEF TypeOK
  <2>1. CASE MarkOwn(k)
    BY <2>1, <2>r, <1>1 DEF MarkOwn, StaleRun
  <2>2. CASE MarkLinked(k)
    BY <2>2, <2>r, <1>1 DEF MarkLinked, StaleRun
  <2>3. CASE Disable(k)
    BY <2>3, <2>r, <1>1 DEF Disable, StaleRun
  <2>4. CASE MarkUseless(k)
    BY <2>4, <2>r, <1>1 DEF MarkUseless, StaleRun
  <2>5. CASE UNCHANGED status
    BY <2>5
  <2> QED
    BY <1>2, <2>1, <2>2, <2>3, <2>4, <2>5 DEF RunStart, RunStep, RunFails, ReadOwnRows,
       MailOwn, ReadLinkedRows, ReadLink, RotateCode, MailLinked, RunEnd
<1>3. ASSUME NEW h \in Holders, HolderStep(h)
      PROVE  StaleHandler(f)
  <2>r. holder[h].at.row \in Rows
    BY HolderFields DEF TypeOK
  <2>1. CASE UpdateToStarted(h)
    BY <2>1, <2>r, <1>1 DEF UpdateToStarted, StaleHandler
  <2>2. CASE FinishSubmit(h)
    BY <2>2, <2>r DEF FinishSubmit, SetStatus, TypeOK
  <2>3. CASE UNCHANGED status
    BY <2>3
  <2> QED
    BY <1>3, <2>1, <2>2, <2>3 DEF HolderStep, UseCode, UseExpiredCode, ReplaceExpired,
       ResendCode, Validate, WriteAnswer, RefuseAnswer, CheckAnswers, HolderFails
<1>4. CASE (\E g \in Rows : CodeExpires(g)) \/ DayPasses \/ Restart \/ UNCHANGED vars
  BY <1>4 DEF CodeExpires, DayPasses, Restart, vars
<1> QED
  BY <1>2, <1>3, <1>4 DEF Next

\* A submission is only ever undone by a step that read the row before it: the cron's
\* snapshot or the status updateToStartedIfNeeded was given.
THEOREM UndoneOnlyByStale == Spec => SubmissionUndoneOnlyByStale
<1>1. TypeOK /\ [Next]_vars =>
        [\A f \in Rows : status[f] = SUBMITTED /\ status'[f] # SUBMITTED
                           => StaleHandler(f) \/ StaleRun(f)]_vars
  BY OnlyStaleUndoes
<1> QED
  BY <1>1, FlowTypeCorrect, PTL DEF Spec, SubmissionUndoneOnlyByStale

-----------------------------------------------------------------------------
(* The code of the candidate's own form *)

Sent(f) == \E m \in mailed : m.row = f
Current(f) == [row |-> f, code |-> code[f]]
Resending(f) == \E h \in Holders : holder[h].pc = "resend" /\ holder[h].at = Current(f)

\* Whoever was sent a code of the row has the last one, or a handler is about to
\* send it; a row nobody was sent a code of is still as it was registered, and the
\* runs that have it in hand carry its first and only code.
OwnCode(f) ==
    /\ Sent(f) => Current(f) \in mailed \/ Resending(f)
    /\ status[f] \in {MAILED, STARTED, SUBMITTED} => Sent(f)
    /\ ~Sent(f) => \A k \in Runs : \A t \in run[k].todo : t.row = f => t = Current(f)
MarksAreSent == \A k \in Runs : run[k].pc = "markOwn" => run[k].at \in mailed
CodeInv == faults = 0 => MarksAreSent /\ \A f \in Own : OwnCode(f)

LEMMA InitCode == Init => CodeInv
<1> SUFFICES ASSUME Init PROVE CodeInv
  OBVIOUS
<1>1. MarksAreSent
  BY DEF Init, MarksAreSent, Off
<1>2. ASSUME NEW f \in Own PROVE OwnCode(f)
  BY <1>2, RecordTypes DEF Init, OwnCode, Sent, Off, GENERATED, MAILED, STARTED, SUBMITTED
<1> QED
  BY <1>1, <1>2 DEF CodeInv

\* A step that neither mails, nor replaces a code, nor lets a handler that is about
\* to mail go, and that marks only rows of which somebody was sent a code.
LEMMA CodeKept ==
    ASSUME NEW f \in Own, OwnCode(f), UNCHANGED <<mailed, code>>,
           \A h \in Holders : holder[h].pc = "resend" => holder'[h] = holder[h],
           status'[f] \in {status[f], UNUSEFULL} \/ Sent(f),
           \A k \in Runs : run'[k].todo \subseteq run[k].todo \cup Snapshot(Rows)
    PROVE  OwnCode(f)'
<1>1. Sent(f)' <=> Sent(f)
  BY DEF Sent
<1>2. Current(f)' = Current(f)
  BY DEF Current
<1>3. Resending(f) => Resending(f)'
  BY <1>2 DEF Resending
<1>4. status'[f] \in {MAILED, STARTED, SUBMITTED} => Sent(f)
  BY DEF OwnCode, UNUSEFULL, MAILED, STARTED, SUBMITTED
<1>5. ~Sent(f) => \A k \in Runs : \A t \in run'[k].todo : t.row = f => t = Current(f)
  BY DEF OwnCode, Snapshot, Current
<1> QED
  BY <1>1, <1>2, <1>3, <1>4, <1>5 DEF OwnCode

LEMMA SnapshotsInRows == Snapshot(Own) \subseteq Snapshot(Rows)
                            /\ Snapshot(Linked) \subseteq Snapshot(Rows)
  BY RecordTypes DEF Snapshot, Generated

LEMMA RunKeepsCode ==
    ASSUME FlowInv, CodeInv, faults = 0, faults' = 0,
           NEW k \in Runs, RunStart(k) \/ RunStep(k) \/ RunFails(k)
    PROVE  MarksAreSent' /\ \A f \in Own : OwnCode(f)'
<1>t. TypeOK /\ run[k] \in Run /\ RunHonest(run[k], submitted, answer, mailed)
  BY DEF FlowInv, TypeOK
<1>r. run[k].at \in RowCode /\ run[k].at.row \in Rows
  BY <1>t, RunFields
<1>i. MarksAreSent /\ \A f \in Own : OwnCode(f)
  BY DEF CodeInv
<1>s. ASSUME NEW q, SetRun(k, q), mailed \subseteq mailed',
             q.pc = "markOwn" => q.at \in mailed'
      PROVE  MarksAreSent'
  BY <1>s, <1>t, <1>i DEF SetRun, MarksAreSent, TypeOK
<1>n. ~Fault
  BY DEF Fault
<1>f. ~RunFails(k)
  BY <1>n DEF RunFails
<1>k. ASSUME NEW q, SetRun(k, q), q.todo \subseteq run[k].todo
      PROVE  \A j \in Runs : run'[j].todo \subseteq run[j].todo
  BY <1>k, <1>t DEF SetRun, TypeOK
<1>1. CASE MailOwn(k)
  <2>1. PICK t \in run[k].todo :
           /\ mailed' = mailed \cup {t}
           /\ SetRun(k, [run[k] EXCEPT !.pc = "markOwn", !.at = t, !.todo = @ \ {t}])
    BY <1>1, <1>n DEF MailOwn
  <2> DEFINE q == [run[k] EXCEPT !.pc = "markOwn", !.at = t, !.todo = @ \ {t}]
  <2>2. q.at = t /\ SetRun(k, q) /\ mailed \subseteq mailed' /\ t \in mailed'
    BY <2>1, <1>t DEF Run
  <2> HIDE DEF q
  <2>3. MarksAreSent'
    BY <2>2, <1>s
  <2>4. ASSUME NEW f \in Own PROVE OwnCode(f)'
    <3>1. UNCHANGED <<status, code, holder>>
      BY <1>1 DEF MailOwn
    <3>2. Current(f)' = Current(f) /\ (Resending(f)' <=> Resending(f))
      BY <3>1 DEF Current, Resending
    <3>3. Sent(f) => Sent(f)'
      BY <2>1 DEF Sent
    <3>4. Sent(f)' => Sent(f) \/ t.row = f
      BY <2>1 DEF Sent
    <3>5. ~Sent(f) /\ t.row = f => t = Current(f)
      BY <1>i DEF OwnCode
    <3>6. Sent(f)' => Current(f)' \in mailed' \/ Resending(f)'
      BY <2>1, <3>2, <3>4, <3>5, <1>i DEF OwnCode
    <3>7. \A j \in Runs : run'[j].todo \subseteq run[j].todo
      BY <2>1, <1>t DEF SetRun, TypeOK, Run
    <3> QED
      BY <1>i, <3>1, <3>2, <3>3, <3>6, <3>7 DEF OwnCode
  <2> QED
    BY <2>3, <2>4
<1>2. CASE MarkOwn(k)
  <2>1. run[k].at \in mailed
    BY <1>2, <1>i DEF MarkOwn, MarksAreSent
  <2>2. MarksAreSent'
    BY <1>2, <1>t, <1>s DEF MarkOwn, Run
  <2>3. ASSUME NEW f \in Own PROVE OwnCode(f)'
    <3>1. status'[f] = status[f] \/ Sent(f)
      BY <1>2, <1>t, <2>1, RecordTypes DEF MarkOwn, SetStatus, Sent, TypeOK
    <3>2. \A j \in Runs : run'[j].todo \subseteq run[j].todo
      BY <1>2, <1>t DEF MarkOwn, SetRun, TypeOK, Run
    <3> QED
      BY <1>2, <1>i, <3>1, <3>2, CodeKept DEF MarkOwn
  <2> QED
    BY <2>2, <2>3
<1>3. CASE RotateCode(k) \/ MailLinked(k) \/ MarkLinked(k)
  <2>1. run[k].at.row \in Linked
    BY <1>3, <1>t DEF RotateCode, MailLinked, MarkLinked, RunHonest
  <2>2. MarksAreSent'
    <3>1. CASE RotateCode(k)
      BY <3>1, <1>t, <1>s DEF RotateCode, Run
    <3>2. CASE MailLinked(k)
      BY <3>2, <1>t, <1>s DEF MailLinked, Run
    <3>3. CASE MarkLinked(k)
      BY <3>3, <1>t, <1>s DEF MarkLinked, Run
    <3> QED
      BY <1>3, <3>1, <3>2, <3>3
  <2>3. ASSUME NEW f \in Own PROVE OwnCode(f)'
    <3>1. f # run[k].at.row /\ f \in Rows
      BY <2>1 DEF Own
    <3>2. status'[f] = status[f] /\ code'[f] = code[f] /\ UNCHANGED holder
      BY <1>3, <1>t, <3>1 DEF RotateCode, MailLinked, MarkLinked, ReplaceCode, SetStatus,
         TypeOK
    <3>3. mailed' \in {mailed, mailed \cup {run[k].at}}
      BY <1>3 DEF RotateCode, MailLinked, MarkLinked
    <3>4. Sent(f)' <=> Sent(f)
      BY <3>1, <3>3 DEF Sent
    <3>5. Current(f)' = Current(f) /\ (Resending(f)' <=> Resending(f))
      BY <3>2 DEF Current, Resending
    <3>6. \A j \in Runs : run'[j].todo \subseteq run[j].todo
      <4>1. CASE RotateCode(k)
        BY <4>1, <1>t, <1>k DEF RotateCode, Run
      <4>2. CASE MailLinked(k)
        BY <4>2, <1>t, <1>k DEF MailLinked, Run
      <4>3. CASE MarkLinked(k)
        BY <4>3, <1>t, <1>k DEF MarkLinked, Run
      <4> QED
        BY <1>3, <4>1, <4>2, <4>3
    <3> QED
      BY <1>i, <3>2, <3>3, <3>4, <3>5, <3>6 DEF OwnCode
  <2> QED
    BY <2>2, <2>3
<1>4. CASE Disable(k) \/ MarkUseless(k)
  <2>1. MarksAreSent'
    <3>1. CASE Disable(k)
      BY <3>1, <1>t, <1>s DEF Disable, Run
    <3>2. CASE MarkUseless(k)
      BY <3>2, <1>t, <1>s DEF MarkUseless, Run
    <3> QED
      BY <1>4, <3>1, <3>2
  <2>2. ASSUME NEW f \in Own PROVE OwnCode(f)'
    <3>1. status'[f] \in {status[f], UNUSEFULL}
      BY <1>4, <1>t, RecordTypes DEF Disable, MarkUseless, SetStatus, TypeOK
    <3>2. \A j \in Runs : run'[j].todo \subseteq run[j].todo
      <4>1. CASE Disable(k)
        BY <4>1, <1>t, <1>k DEF Disable, Run
      <4>2. CASE MarkUseless(k)
        BY <4>2, <1>t, <1>k DEF MarkUseless, Run
      <4> QED
        BY <1>4, <4>1, <4>2
    <3> QED
      BY <1>4, <1>i, <3>1, <3>2, CodeKept DEF Disable, MarkUseless
  <2> QED
    BY <2>1, <2>2
<1>5. CASE RunStart(k) \/ ReadOwnRows(k) \/ ReadLinkedRows(k) \/ ReadLink(k) \/ RunEnd(k)
  <2>1. PICK q : SetRun(k, q) /\ q.pc # "markOwn"
                    /\ q.todo \subseteq run[k].todo \cup Snapshot(Rows)
    <3>1. CASE RunStart(k)
      <4> DEFINE q == [Off EXCEPT !.pc = "start", !.active = (phase = "open")]
      <4>1. q.pc = "start" /\ q.todo = {} /\ SetRun(k, q)
        BY <3>1 DEF RunStart, Off
      <4> QED
        BY <4>1
    <3>2. CASE RunEnd(k)
      <4>1. Off.pc = "off" /\ Off.todo = {} /\ SetRun(k, Off)
        BY <3>2 DEF RunEnd, Off
      <4> QED
        BY <4>1
    <3>3. CASE ReadOwnRows(k)
      <4> DEFINE q == [run[k] EXCEPT !.pc = "own", !.todo = Snapshot(Own)]
                 z == [run[k] EXCEPT !.pc = "own", !.bad = Generated(Own)]
      <4>1. q.pc = "own" /\ q.todo = Snapshot(Own) /\ z.pc = "own" /\ z.todo = run[k].todo
        BY <1>t DEF Run
      <4>2. SetRun(k, q) \/ SetRun(k, z)
        BY <3>3 DEF ReadOwnRows
      <4> QED
        BY <4>1, <4>2, SnapshotsInRows
    <3>4. CASE ReadLinkedRows(k)
      <4> DEFINE q == [run[k] EXCEPT !.pc = "linked", !.todo = Snapshot(Linked)]
                 z == [run[k] EXCEPT !.pc = "linked", !.bad = @ \cup Generated(Linked)]
      <4>1. /\ q.pc = "linked" /\ q.todo = Snapshot(Linked)
            /\ z.pc = "linked" /\ z.todo = run[k].todo
        BY <1>t DEF Run
      <4>2. SetRun(k, q) \/ SetRun(k, z)
        BY <3>4 DEF ReadLinkedRows
      <4> QED
        BY <4>1, <4>2, SnapshotsInRows
    <3>5. CASE ReadLink(k)
      <4>1. PICK t \in run[k].todo, pc \in {"linked", "disable", "rotate"}, at \in RowCode :
               SetRun(k, [run[k] EXCEPT !.pc = pc, !.at = at, !.todo = @ \ {t}])
        BY <3>5, <1>t, RunFields, RecordTypes DEF ReadLink
      <4> DEFINE q == [run[k] EXCEPT !.pc = pc, !.at = at, !.todo = @ \ {t}]
      <4>2. q.pc = pc /\ q.todo = run[k].todo \ {t}
        BY <1>t DEF Run
      <4>3. pc # "markOwn"
        OBVIOUS
      <4> QED
        BY <4>1, <4>2, <4>3
    <3> QED
      BY <1>5, <3>1, <3>2, <3>3, <3>4, <3>5
  <2>2. UNCHANGED <<status, code, mailed, holder>>
    BY <1>5 DEF RunStart, ReadOwnRows, ReadLinkedRows, ReadLink, RunEnd
  <2>3. MarksAreSent'
    BY <2>1, <2>2, <1>s
  <2>4. \A j \in Runs : run'[j].todo \subseteq run[j].todo \cup Snapshot(Rows)
    BY <2>1, <1>t DEF SetRun, TypeOK
  <2>5. ASSUME NEW f \in Own PROVE OwnCode(f)'
    BY <1>i, <2>2, <2>4, CodeKept
  <2> QED
    BY <2>3, <2>5
<1> QED
  BY <1>1, <1>2, <1>3, <1>4, <1>5, <1>f DEF RunStep

LEMMA HolderKeepsCode ==
    ASSUME FlowInv, CodeInv, faults = 0, faults' = 0, NEW h \in Holders, HolderStep(h)
    PROVE  MarksAreSent' /\ \A f \in Own : OwnCode(f)'
<1>t. TypeOK /\ holder[h] \in Holder /\ HolderHonest(holder[h], mailed)
  BY DEF FlowInv, TypeOK
<1>r. holder[h].at \in RowCode /\ holder[h].at.row \in Rows
  BY <1>t, HolderFields
<1>i. MarksAreSent /\ \A f \in Own : OwnCode(f)
  BY DEF CodeInv
<1>a. UNCHANGED run
  BY DEF HolderStep, UseCode, UseExpiredCode, ReplaceExpired, ResendCode, Validate,
     WriteAnswer, RefuseAnswer, UpdateToStarted, CheckAnswers, FinishSubmit, HolderFails
<1>b. mailed \subseteq mailed'
  BY DEF HolderStep, UseCode, UseExpiredCode, ReplaceExpired, ResendCode, Validate,
     WriteAnswer, RefuseAnswer, UpdateToStarted, CheckAnswers, FinishSubmit, HolderFails
<1>c. MarksAreSent'
  BY <1>a, <1>b, <1>i DEF MarksAreSent
<1>f. ~HolderFails(h)
  BY DEF HolderFails, Fault
<1>1. ASSUME ReplaceExpired(h), NEW f \in Own PROVE OwnCode(f)'
  <2>1. CASE f = holder[h].at.row
    <3>1. Sent(f) /\ UNCHANGED mailed
      BY <1>1, <1>t, <2>1 DEF HolderHonest, ReplaceExpired, Sent
    <3>2. code'[f] = code[f] + 1
      BY <1>1, <1>t, <1>r, <2>1 DEF ReplaceExpired, ReplaceCode, TypeOK
    <3>3. /\ holder'[h].pc = "resend"
          /\ holder'[h].at = [holder[h].at EXCEPT !.code = code[f] + 1]
      BY <1>1, <1>t, <2>1 DEF ReplaceExpired, SetHolder, TypeOK, Holder
    <3>4. holder'[h].at = Current(f)'
      BY <3>2, <3>3, <1>r, <2>1 DEF RowCode, Current
    <3>5. Resending(f)' /\ Sent(f)'
      BY <3>1, <3>3, <3>4 DEF Resending, Sent
    <3> QED
      BY <3>5 DEF OwnCode
  <2>2. CASE f # holder[h].at.row
    <3>1. f \in Rows /\ code'[f] = code[f] /\ UNCHANGED <<status, mailed>>
      BY <1>1, <1>t, <2>2, RecordTypes DEF ReplaceExpired, ReplaceCode, TypeOK
    <3>2. Current(f)' = Current(f)
      BY <3>1 DEF Current
    <3>3. Resending(f) => Resending(f)'
      BY <1>1, <1>t, <3>2 DEF Resending, ReplaceExpired, SetHolder, TypeOK
    <3>4. Sent(f)' <=> Sent(f)
      BY <3>1 DEF Sent
    <3> QED
      BY <1>i, <1>a, <3>1, <3>2, <3>3, <3>4 DEF OwnCode
  <2> QED
    BY <2>1, <2>2
<1>2. ASSUME ResendCode(h), NEW f \in Own PROVE OwnCode(f)'
  <2>1. UNCHANGED <<status, code>> /\ Current(f)' = Current(f)
    BY <1>2 DEF ResendCode, Current
  <2>2. Sent(f)' => Sent(f)
    BY <1>2, <1>t DEF ResendCode, Sent, HolderHonest
  <2>3. Sent(f) => Sent(f)'
    BY <1>b DEF Sent
  <2>4. Resending(f) => Resending(f)' \/ Current(f) \in mailed'
    <3>1. SUFFICES ASSUME NEW g \in Holders, holder[g].pc = "resend", holder[g].at = Current(f)
                   PROVE  Resending(f)' \/ Current(f) \in mailed'
      BY DEF Resending
    <3>2. CASE g = h
      BY <1>2, <3>1, <3>2 DEF ResendCode, Current
    <3>3. CASE g # h
      BY <1>2, <1>t, <2>1, <3>1, <3>3 DEF ResendCode, SetHolder, TypeOK, Resending
    <3> QED
      BY <3>2, <3>3
  <2> QED
    BY <1>i, <1>a, <1>b, <2>1, <2>2, <2>3, <2>4 DEF OwnCode
<1>3. ASSUME ~ReplaceExpired(h), ~ResendCode(h), NEW f \in Own PROVE OwnCode(f)'
  <2>1. UNCHANGED <<mailed, code>>
    BY <1>3, <1>f DEF HolderStep, UseCode, UseExpiredCode, Validate, WriteAnswer,
       RefuseAnswer, UpdateToStarted, CheckAnswers, FinishSubmit
  <2>2. holder[h].pc # "resend" /\ \E q : SetHolder(h, q)
    BY <1>3, <1>f DEF HolderStep, UseCode, UseExpiredCode, Validate, WriteAnswer,
       RefuseAnswer, UpdateToStarted, CheckAnswers, FinishSubmit
  <2>3. \A g \in Holders : holder[g].pc = "resend" => holder'[g] = holder[g]
    BY <2>2, <1>t DEF SetHolder, TypeOK
  <2>4. status'[f] = status[f] \/ Sent(f)
    <3>1. CASE UpdateToStarted(h) \/ FinishSubmit(h)
      <4>1. Sent(holder[h].at.row)
        BY <3>1, <1>t DEF UpdateToStarted, FinishSubmit, HolderHonest, Sent
      <4>2. f # holder[h].at.row => status'[f] = status[f]
        BY <3>1, <1>t, <1>r, RecordTypes DEF UpdateToStarted, FinishSubmit, SetStatus, TypeOK
      <4> QED
        BY <4>1, <4>2
    <3>2. CASE ~UpdateToStarted(h) /\ ~FinishSubmit(h)
      BY <3>2, <1>3, <1>f DEF HolderStep, UseCode, UseExpiredCode, Validate, WriteAnswer,
         RefuseAnswer, CheckAnswers
    <3> QED
      BY <3>1, <3>2
  <2> QED
    BY <1>i, <1>a, <2>1, <2>3, <2>4, CodeKept
<1> QED
  BY <1>1, <1>2, <1>3, <1>c

LEMMA CodeNext == FlowInv /\ CodeInv /\ [Next]_vars => CodeInv'
<1> SUFFICES ASSUME FlowInv, CodeInv, [Next]_vars, faults' = 0
             PROVE  MarksAreSent' /\ \A f \in Own : OwnCode(f)'
  BY DEF CodeInv
<1>t. TypeOK /\ faults \in Nat
  BY DEF FlowInv, TypeOK
<1>a. ASSUME Fault PROVE FALSE
  BY <1>a, <1>t DEF Fault
<1>b. ASSUME NEW k \in Runs, RunStart(k) \/ RunStep(k) \/ RunFails(k) PROVE UNCHANGED faults
  BY <1>a, <1>b DEF RunStart, RunStep, RunFails, ReadOwnRows, MailOwn, MarkOwn,
     ReadLinkedRows, ReadLink, Disable, RotateCode, MailLinked, MarkLinked, MarkUseless,
     RunEnd
<1>c. ASSUME NEW h \in Holders, HolderStep(h) PROVE UNCHANGED faults
  BY <1>a, <1>c DEF HolderStep, UseCode, UseExpiredCode, ReplaceExpired, ResendCode,
     Validate, WriteAnswer, RefuseAnswer, UpdateToStarted, CheckAnswers, FinishSubmit,
     HolderFails
<1>d. ASSUME (\E f \in Rows : CodeExpires(f)) \/ DayPasses \/ UNCHANGED vars
      PROVE  UNCHANGED faults
  BY <1>d DEF CodeExpires, DayPasses, vars
<1>e. ~Restart
  BY <1>a DEF Restart
<1>0. faults = 0 /\ ~Restart
  BY <1>b, <1>c, <1>d, <1>e DEF Next
<1>1. ASSUME NEW k \in Runs, RunStart(k) \/ RunStep(k) \/ RunFails(k)
      PROVE  MarksAreSent' /\ \A f \in Own : OwnCode(f)'
  BY <1>0, <1>1, RunKeepsCode
<1>2. ASSUME NEW h \in Holders, HolderStep(h)
      PROVE  MarksAreSent' /\ \A f \in Own : OwnCode(f)'
  BY <1>0, <1>2, HolderKeepsCode
<1>3. CASE (\E f \in Rows : CodeExpires(f)) \/ DayPasses \/ UNCHANGED vars
  <2>1. UNCHANGED <<mailed, code, holder, status, run>>
    BY <1>3 DEF CodeExpires, DayPasses, vars
  <2>2. MarksAreSent'
    BY <1>0, <2>1 DEF CodeInv, MarksAreSent
  <2>3. ASSUME NEW f \in Own PROVE OwnCode(f)'
    BY <1>0, <2>1, CodeKept DEF CodeInv
  <2> QED
    BY <2>2, <2>3
<1> QED
  BY <1>0, <1>1, <1>2, <1>3 DEF Next

\* While nothing fails, whoever was mailed the candidate's own form has its last code,
\* or a handler is replacing it, however many runs still carry older ones.
THEOREM OwnCodeStaysKnown == Spec => []OwnCodeIsKnown
<1>1. CodeInv => OwnCodeIsKnown
  <2> SUFFICES ASSUME CodeInv, NEW f \in Own, faults = 0,
                      status[f] \in {MAILED, STARTED, SUBMITTED}, ~Replacing(f)
               PROVE  Current(f) \in mailed
    BY DEF OwnCodeIsKnown, HoldsCode, Current
  <2>1. ~Resending(f)
    BY DEF Resending, Replacing, Current
  <2> QED
    BY <2>1 DEF CodeInv, OwnCode
<1> QED
  BY <1>1, InitFlow, FlowNext, InitCode, CodeNext, PTL DEF Spec

-----------------------------------------------------------------------------
(* When a form is given up *)

LEMMA Entries ==
    ASSUME NEW a \in LinkAnswer
    PROVE  /\ Answered(a).value = "given"
           /\ \A b \in Toggled(a) :
                 b.value = a.value \/ (a.value = "absent" /\ b.value = "null")
  BY DEF Answered, Toggled

\* What a step does to the answers: nothing, or what WriteAnswer does.
LEMMA WhoWrites ==
    ASSUME [Next]_vars
    PROVE  \/ UNCHANGED answer
           \/ \E h \in Holders : WriteAnswer(h) /\ holder[h].at.row = Source
<1>1. ASSUME NEW k \in Runs, RunStart(k) \/ RunStep(k) \/ RunFails(k) PROVE UNCHANGED answer
  BY <1>1 DEF RunStart, RunStep, RunFails, ReadOwnRows, MailOwn, MarkOwn, ReadLinkedRows,
     ReadLink, Disable, RotateCode, MailLinked, MarkLinked, MarkUseless, RunEnd
<1>2. ASSUME NEW h \in Holders, HolderStep(h)
      PROVE  UNCHANGED answer \/ (WriteAnswer(h) /\ holder[h].at.row = Source)
  BY <1>2 DEF HolderStep, UseCode, UseExpiredCode, ReplaceExpired, ResendCode, Validate,
     WriteAnswer, RefuseAnswer, UpdateToStarted, CheckAnswers, FinishSubmit, HolderFails
<1>3. CASE (\E f \in Rows : CodeExpires(f)) \/ DayPasses \/ Restart \/ UNCHANGED vars
  BY <1>3 DEF CodeExpires, DayPasses, Restart, vars
<1> QED
  BY <1>1, <1>2, <1>3 DEF Next

\* What WriteAnswer does to the entries: one is given, others may get a row.
LEMMA WriteFillsIn ==
    ASSUME TypeOK, NEW h \in Holders, WriteAnswer(h), holder[h].at.row = Source
    PROVE  \E q \in Linked \cup {Source} :
              \A f \in Linked :
                 IF f = q THEN answer'[f].value = "given"
                 ELSE \/ answer'[f].value = answer[f].value
                      \/ answer[f].value = "absent" /\ answer'[f].value = "null"
<1>1. PICK q \in Linked \cup {Source} :
         \A f \in Linked : IF f = q THEN answer'[f] = Answered(answer[f])
                                    ELSE answer'[f] \in Toggled(answer[f])
  BY DEF WriteAnswer
<1>2. ASSUME NEW f \in Linked
      PROVE  IF f = q THEN answer'[f].value = "given"
             ELSE \/ answer'[f].value = answer[f].value
                  \/ answer[f].value = "absent" /\ answer'[f].value = "null"
  <2>1. answer[f] \in LinkAnswer
    BY DEF TypeOK
  <2> QED
    BY <1>1, <2>1, Entries
<1> QED
  BY <1>2

\* A row of an answer is never deleted.
LEMMA AnswersStay ==
    ASSUME TypeOK, [Next]_vars
    PROVE  \A f \in Linked : answer[f].value # "absent" => answer'[f].value # "absent"
<1>1. CASE UNCHANGED answer
  BY <1>1
<1>2. ASSUME NEW h \in Holders, WriteAnswer(h), holder[h].at.row = Source
      PROVE  \A f \in Linked : answer[f].value # "absent" => answer'[f].value # "absent"
  <2>1. PICK q \in Linked \cup {Source} :
           \A f \in Linked :
              IF f = q THEN answer'[f].value = "given"
              ELSE \/ answer'[f].value = answer[f].value
                   \/ answer[f].value = "absent" /\ answer'[f].value = "null"
    BY <1>2, WriteFillsIn
  <2> QED
    BY <2>1
<1> QED
  BY <1>1, <1>2, WhoWrites

\* A run has something to give up only if the period was over when it started, or
\* the submitted form has the answer it went by.
RunGivesUp(q, p, S, a) ==
    /\ q.bad # {} => p # "open"
    /\ q.pc # "off" /\ ~q.active => p # "open"
    /\ q.pc = "disable" => /\ q.at.row \in Linked
                           /\ Source \in S /\ a[q.at.row].value # "absent"
EndInv == \A k \in Runs : RunGivesUp(run[k], phase, submitted, answer)

LEMMA InitEnd == Init => EndInv
  BY DEF Init, EndInv, RunGivesUp, Off

LEMMA ReasonsLast ==
    ASSUME TypeOK, [Next]_vars, NEW q, RunGivesUp(q, phase, submitted, answer)
    PROVE  RunGivesUp(q, phase', submitted', answer')
<1>1. phase # "open" => phase' # "open"
  <2>1. ASSUME NEW k \in Runs, RunStart(k) \/ RunStep(k) \/ RunFails(k)
        PROVE  UNCHANGED phase
    BY <2>1 DEF RunStart, RunStep, RunFails, ReadOwnRows, MailOwn, MarkOwn,
       ReadLinkedRows, ReadLink, Disable, RotateCode, MailLinked, MarkLinked,
       MarkUseless, RunEnd
  <2>2. ASSUME NEW h \in Holders, HolderStep(h)
        PROVE  UNCHANGED phase
    BY <2>2 DEF HolderStep, UseCode, UseExpiredCode, ReplaceExpired, ResendCode,
       Validate, WriteAnswer, RefuseAnswer, UpdateToStarted, CheckAnswers, FinishSubmit,
       HolderFails
  <2>3. CASE (\E f \in Rows : CodeExpires(f)) \/ Restart \/ UNCHANGED vars
    BY <2>3 DEF CodeExpires, Restart, vars
  <2>4. CASE DayPasses
    BY <2>4 DEF DayPasses
  <2> QED
    BY <2>1, <2>2, <2>3, <2>4 DEF Next
<1> QED
  BY <1>1, AnswersStay, NextGrows DEF Grows, RunGivesUp

\* The run that moves.
LEMMA RunKeepsReasons ==
    ASSUME FlowInv, EndInv, NEW k \in Runs, RunStart(k) \/ RunStep(k) \/ RunFails(k)
    PROVE  RunGivesUp(run'[k], phase, submitted, answer)
<1>t. /\ TypeOK /\ run[k] \in Run /\ run \in [Runs -> Run]
      /\ RunHonest(run[k], submitted, answer, mailed)
      /\ RunGivesUp(run[k], phase, submitted, answer)
  BY DEF FlowInv, EndInv, TypeOK
<1>q. ASSUME NEW q, SetRun(k, q) PROVE run'[k] = q
  BY <1>t, <1>q DEF SetRun
<1>s. ASSUME NEW q, SetRun(k, q), q.active = run[k].active, q.bad \subseteq run[k].bad,
             run[k].pc # "off", q.pc # "disable"
      PROVE  RunGivesUp(run'[k], phase, submitted, answer)
  BY <1>s, <1>q, <1>t DEF RunGivesUp
<1>1. CASE RunStart(k)
  <2> DEFINE q == [Off EXCEPT !.pc = "start", !.active = (phase = "open")]
  <2>1. q.pc = "start" /\ q.bad = {} /\ (~q.active => phase # "open")
    BY DEF Off
  <2>2. run'[k] = q
    BY <1>1, <1>q DEF RunStart
  <2> QED
    BY <2>1, <2>2 DEF RunGivesUp
<1>2. CASE ReadOwnRows(k)
  <2> DEFINE q == [run[k] EXCEPT !.pc = "own", !.todo = Snapshot(Own)]
             z == [run[k] EXCEPT !.pc = "own", !.bad = Generated(Own)]
  <2>1. q.pc = "own" /\ q.active = run[k].active /\ q.bad = run[k].bad
    BY <1>t DEF Run
  <2>2. z.pc = "own" /\ z.active = run[k].active
    BY <1>t DEF Run
  <2>3. CASE run[k].active
    <3>1. SetRun(k, q)
      BY <1>2, <2>3 DEF ReadOwnRows
    <3>2. run[k].pc # "off"
      BY <1>2 DEF ReadOwnRows
    <3> QED
      BY <2>1, <3>1, <3>2, <1>s
  <2>4. CASE ~run[k].active
    <3>1. SetRun(k, z)
      BY <1>2, <2>4 DEF ReadOwnRows
    <3>2. phase # "open"
      BY <1>2, <1>t, <2>4 DEF ReadOwnRows, RunGivesUp
    <3> QED
      BY <2>2, <3>1, <3>2, <1>q DEF RunGivesUp
  <2> QED
    BY <2>3, <2>4
<1>3. CASE ReadLinkedRows(k)
  <2> DEFINE q == [run[k] EXCEPT !.pc = "linked", !.todo = Snapshot(Linked)]
             z == [run[k] EXCEPT !.pc = "linked", !.bad = @ \cup Generated(Linked)]
  <2>1. q.pc = "linked" /\ q.active = run[k].active /\ q.bad = run[k].bad
    BY <1>t DEF Run
  <2>2. z.pc = "linked" /\ z.active = run[k].active
    BY <1>t DEF Run
  <2>3. CASE run[k].active
    <3>1. SetRun(k, q)
      BY <1>3, <2>3 DEF ReadLinkedRows
    <3>2. run[k].pc # "off"
      BY <1>3 DEF ReadLinkedRows
    <3> QED
      BY <2>1, <3>1, <3>2, <1>s
  <2>4. CASE ~run[k].active
    <3>1. SetRun(k, z)
      BY <1>3, <2>4 DEF ReadLinkedRows
    <3>2. phase # "open"
      BY <1>3, <1>t, <2>4 DEF ReadLinkedRows, RunGivesUp
    <3> QED
      BY <2>2, <3>1, <3>2, <1>q DEF RunGivesUp
  <2> QED
    BY <2>3, <2>4
<1>4. CASE ReadLink(k)
  <2>1. PICK t \in run[k].todo, pc \in {"linked", "disable", "rotate"}, at \in RowCode :
           /\ SetRun(k, [run[k] EXCEPT !.pc = pc, !.at = at, !.todo = @ \ {t}])
           /\ pc = "disable" => at = t /\ LinkVisible(t.row)
    BY <1>4, <1>t, RunFields, RecordTypes DEF ReadLink, TypeOK
  <2> DEFINE q == [run[k] EXCEPT !.pc = pc, !.at = at, !.todo = @ \ {t}]
  <2>2. q.pc = pc /\ q.at = at /\ q.active = run[k].active /\ q.bad = run[k].bad
    BY <1>t DEF Run
  <2>3. run'[k] = q /\ run[k].pc # "off"
    BY <1>4, <2>1, <1>q DEF ReadLink
  <2>4. ASSUME pc = "disable"
        PROVE  t.row \in Linked /\ Source \in submitted /\ answer[t.row].value # "absent"
    <3>1. t.row \in Linked
      BY <1>4, <1>t DEF ReadLink, RunHonest
    <3>2. status[Source] = SUBMITTED
      BY <2>1, <2>4, <1>t, RecordTypes DEF LinkVisible, TypeOK, UNUSEFULL, GENERATED,
         MAILED, STARTED, SUBMITTED
    <3> QED
      BY <2>1, <2>4, <3>1, <3>2 DEF FlowInv, LinkVisible
  <2> HIDE DEF q
  <2> QED
    BY <2>1, <2>2, <2>3, <2>4, <1>t DEF RunGivesUp
<1>5. CASE RunEnd(k) \/ RunFails(k)
  <2>1. run'[k] = Off
    BY <1>5, <1>q DEF RunEnd, RunFails
  <2> QED
    BY <2>1 DEF RunGivesUp, Off
<1>6. CASE MailOwn(k)
  <2>1. PICK t \in run[k].todo :
           SetRun(k, [run[k] EXCEPT !.pc = "markOwn", !.at = t, !.todo = @ \ {t}])
    BY <1>6 DEF MailOwn
  <2> DEFINE q == [run[k] EXCEPT !.pc = "markOwn", !.at = t, !.todo = @ \ {t}]
  <2>2. q.pc = "markOwn" /\ q.active = run[k].active /\ q.bad = run[k].bad
    BY <1>t DEF Run
  <2>3. SetRun(k, q) /\ run[k].pc # "off"
    BY <1>6, <2>1 DEF MailOwn
  <2> QED
    BY <2>2, <2>3, <1>s
<1>7. CASE MarkUseless(k)
  <2>1. PICK f \in run[k].bad : SetRun(k, [run[k] EXCEPT !.bad = @ \ {f}])
    BY <1>7 DEF MarkUseless
  <2> DEFINE q == [run[k] EXCEPT !.bad = @ \ {f}]
  <2>2. q.pc = run[k].pc /\ q.active = run[k].active /\ q.bad \subseteq run[k].bad
    BY <1>t DEF Run
  <2>3. SetRun(k, q) /\ run[k].pc = "linked"
    BY <1>7, <2>1 DEF MarkUseless
  <2> QED
    BY <2>2, <2>3, <1>s
<1>8. CASE MarkOwn(k) \/ Disable(k) \/ RotateCode(k) \/ MailLinked(k) \/ MarkLinked(k)
  <2>1. run[k].pc # "off"
    BY <1>8 DEF MarkOwn, Disable, RotateCode, MailLinked, MarkLinked
  <2>0. \E pc \in {"own", "linked", "mail", "markLinked"} : \E at :
           SetRun(k, [run[k] EXCEPT !.pc = pc, !.at = at])
    <3>1. CASE MarkOwn(k)
      BY <3>1 DEF MarkOwn
    <3>2. CASE Disable(k)
      BY <3>2 DEF Disable
    <3>3. CASE RotateCode(k)
      BY <3>3 DEF RotateCode
    <3>4. CASE MailLinked(k)
      <4>1. [run[k] EXCEPT !.pc = "markLinked"]
               = [run[k] EXCEPT !.pc = "markLinked", !.at = run[k].at]
        BY <1>t DEF Run
      <4> QED
        BY <3>4, <4>1 DEF MailLinked
    <3>5. CASE MarkLinked(k)
      BY <3>5 DEF MarkLinked
    <3> QED
      BY <1>8, <3>1, <3>2, <3>3, <3>4, <3>5
  <2>2. PICK pc \in {"own", "linked", "mail", "markLinked"} : \E at :
           SetRun(k, [run[k] EXCEPT !.pc = pc, !.at = at])
    BY <2>0
  <2>a. PICK at : SetRun(k, [run[k] EXCEPT !.pc = pc, !.at = at])
    BY <2>2
  <2> DEFINE q == [run[k] EXCEPT !.pc = pc, !.at = at]
  <2>3. q.pc = pc /\ q.active = run[k].active /\ q.bad = run[k].bad
    BY <1>t DEF Run
  <2>4. SetRun(k, q)
    BY <2>a
  <2>5. pc # "disable"
    OBVIOUS
  <2> HIDE DEF q
  <2> QED
    BY <2>1, <2>3, <2>4, <2>5, <1>s
<1> QED
  BY <1>1, <1>2, <1>3, <1>4, <1>5, <1>6, <1>7, <1>8 DEF RunStep

LEMMA EndNext == FlowInv /\ EndInv /\ [Next]_vars => EndInv'
<1> SUFFICES ASSUME FlowInv, EndInv, [Next]_vars, NEW j \in Runs
             PROVE  RunGivesUp(run'[j], phase', submitted', answer')
  BY DEF EndInv
<1>t. TypeOK /\ run \in [Runs -> Run]
  BY DEF FlowInv, TypeOK
<1>s. run'[j] = run[j] => RunGivesUp(run'[j], phase', submitted', answer')
  BY <1>t, ReasonsLast DEF EndInv
<1>1. ASSUME NEW k \in Runs, RunStart(k) \/ RunStep(k) \/ RunFails(k)
      PROVE  RunGivesUp(run'[j], phase', submitted', answer')
  <2>1. PICK q : SetRun(k, q)
    BY <1>1 DEF RunStart, RunStep, RunFails, ReadOwnRows, MailOwn, MarkOwn,
       ReadLinkedRows, ReadLink, Disable, RotateCode, MailLinked, MarkLinked,
       MarkUseless, RunEnd
  <2>2. j # k => run'[j] = run[j]
    BY <1>t, <2>1 DEF SetRun
  <2>3. RunGivesUp(run'[k], phase, submitted, answer)
    BY <1>1, RunKeepsReasons
  <2>4. RunGivesUp(run'[k], phase', submitted', answer')
    BY <1>t, <2>3, ReasonsLast
  <2> QED
    BY <1>s, <2>2, <2>4
<1>2. ASSUME NEW h \in Holders, HolderStep(h) PROVE run' = run
  BY <1>2 DEF HolderStep, UseCode, UseExpiredCode, ReplaceExpired, ResendCode,
     Validate, WriteAnswer, RefuseAnswer, UpdateToStarted, CheckAnswers, FinishSubmit,
     HolderFails
<1>3. CASE (\E f \in Rows : CodeExpires(f)) \/ DayPasses \/ UNCHANGED vars
  BY <1>3, <1>s DEF CodeExpires, DayPasses, vars
<1>4. CASE Restart
  BY <1>4 DEF Restart, RunGivesUp, Off
<1> QED
  BY <1>s, <1>1, <1>2, <1>3, <1>4 DEF Next

LEMMA OnlyAtTheEnd ==
    ASSUME FlowInv, EndInv, [Next]_vars, NEW f \in Rows,
           status[f] # UNUSEFULL, status'[f] = UNUSEFULL
    PROVE  \/ phase # "open"
           \/ f \in Linked /\ Source \in submitted /\ answer[f].value # "absent"
<1>t. TypeOK
  BY DEF FlowInv
<1>1. ASSUME NEW g \in Rows, NEW s, SetStatus(g, s)
      PROVE  g = f /\ s = UNUSEFULL
  BY <1>1, <1>t DEF SetStatus, TypeOK
<1>c. MAILED # UNUSEFULL /\ STARTED # UNUSEFULL /\ SUBMITTED # UNUSEFULL
  BY DEF UNUSEFULL, MAILED, STARTED, SUBMITTED
<1>2. ASSUME NEW k \in Runs, RunStart(k) \/ RunStep(k) \/ RunFails(k)
      PROVE  \/ phase # "open"
             \/ f \in Linked /\ Source \in submitted /\ answer[f].value # "absent"
  <2>r. /\ run[k].at.row \in Rows /\ run[k].bad \subseteq Rows
        /\ RunGivesUp(run[k], phase, submitted, answer)
    BY <1>t, RunFields DEF TypeOK, EndInv
  <2>1. CASE MarkOwn(k) \/ MarkLinked(k)
    BY <2>1, <2>r, <1>1, <1>c DEF MarkOwn, MarkLinked
  <2>2. CASE Disable(k)
    BY <2>2, <2>r, <1>1 DEF Disable, RunGivesUp
  <2>3. CASE MarkUseless(k)
    BY <2>3, <2>r, <1>1 DEF MarkUseless, RunGivesUp
  <2>4. CASE UNCHANGED status
    BY <2>4
  <2> QED
    BY <1>2, <2>1, <2>2, <2>3, <2>4 DEF RunStart, RunStep, RunFails, ReadOwnRows,
       MailOwn, ReadLinkedRows, ReadLink, RotateCode, MailLinked, RunEnd
<1>3. ASSUME NEW h \in Holders, HolderStep(h)
      PROVE  FALSE
  <2>r. holder[h].at.row \in Rows
    BY <1>t, HolderFields DEF TypeOK
  <2>1. CASE UpdateToStarted(h) \/ FinishSubmit(h)
    BY <2>1, <2>r, <1>1, <1>c DEF UpdateToStarted, FinishSubmit
  <2>2. CASE UNCHANGED status
    BY <2>2
  <2> QED
    BY <1>3, <2>1, <2>2 DEF HolderStep, UseCode, UseExpiredCode, ReplaceExpired,
       ResendCode, Validate, WriteAnswer, RefuseAnswer, CheckAnswers, HolderFails
<1>4. CASE (\E g \in Rows : CodeExpires(g)) \/ DayPasses \/ Restart \/ UNCHANGED vars
  BY <1>4 DEF CodeExpires, DayPasses, Restart, vars
<1> QED
  BY <1>2, <1>3, <1>4 DEF Next

\* A form is given up only from the last day of the period on, or when the submitted
\* form says who it is for.
THEOREM GivenUpAtTheEnd == Spec => GivenUpOnlyAtTheEnd
<1>1. FlowInv /\ EndInv /\ [Next]_vars =>
        [\A f \in Rows : status[f] # UNUSEFULL /\ status'[f] = UNUSEFULL
            => \/ phase # "open"
               \/ f \in Linked /\ Source \in submitted /\ answer[f].value # "absent"]_vars
  BY OnlyAtTheEnd
<1> QED
  BY <1>1, InitFlow, FlowNext, InitEnd, EndNext, PTL DEF Spec, GivenUpOnlyAtTheEnd

-----------------------------------------------------------------------------
(* The promise *)

\* A submission whose check passed stays right to hand in: answers may change value
\* and flag in between, but none disappears.
FillInv == \A h \in Holders :
    holder[h].pc = "finish" /\ holder[h].at.row = Source =>
        \A g \in Linked : answer[g].value # "absent"

LEMMA InitFill == Init => FillInv
  BY DEF Init, FillInv, Idle

LEMMA HolderKeepsFill ==
    ASSUME TypeOK, FillInv, NEW h \in Holders, HolderStep(h),
           holder'[h].pc = "finish", holder'[h].at.row = Source
    PROVE  \A g \in Linked : answer[g].value # "absent"
<1>t. holder[h] \in Holder /\ holder \in [Holders -> Holder]
  BY DEF TypeOK
<1>q. ASSUME NEW q, SetHolder(h, q) PROVE holder'[h] = q
  BY <1>t, <1>q DEF SetHolder
<1>i. ~SetHolder(h, Idle)
  <2>1. Idle.pc # "finish"
    BY DEF Idle
  <2> QED
    BY <1>q, <2>1
<1>1. CASE CheckAnswers(h)
  <2>1. Complete(holder[h].at.row) /\ SetHolder(h, [holder[h] EXCEPT !.pc = "finish"])
    BY <1>1, <1>i DEF CheckAnswers
  <2>2. holder[h].at.row = Source
    BY <2>1, <1>q, <1>t DEF Holder
  <2> QED
    BY <2>1, <2>2 DEF Complete
<1>2. ASSUME NEW m \in mailed, NEW op \in {"answer", "submit"}, UseCode(h, m, op) PROVE FALSE
  <2>1. [Idle EXCEPT !.pc = "validate", !.op = op, !.at = m].pc = "validate"
    BY DEF Idle
  <2> QED
    BY <1>2, <2>1, <1>q DEF UseCode
<1>3. ASSUME NEW m \in mailed, UseExpiredCode(h, m) PROVE FALSE
  <2>1. [Idle EXCEPT !.pc = "replace", !.at = m].pc = "replace"
    BY DEF Idle
  <2> QED
    BY <1>3, <2>1, <1>q DEF UseExpiredCode
<1>4. ~ReplaceExpired(h)
  BY <1>q, <1>t DEF ReplaceExpired, Holder
<1>5. ~Validate(h)
  <2>1. ASSUME Validate(h)
        PROVE  holder'[h].pc \in {"write", "check"}
    BY <2>1, <1>q, <1>t, <1>i DEF Validate, Holder
  <2> QED
    BY <2>1
<1>6. ~WriteAnswer(h)
  BY <1>q, <1>t DEF WriteAnswer, Holder
<1>7. ~(ResendCode(h) \/ RefuseAnswer(h) \/ UpdateToStarted(h) \/ FinishSubmit(h)
           \/ HolderFails(h))
  BY <1>i DEF ResendCode, RefuseAnswer, UpdateToStarted, FinishSubmit, HolderFails
<1> QED
  BY <1>1, <1>2, <1>3, <1>4, <1>5, <1>6, <1>7 DEF HolderStep

LEMMA FillNext == TypeOK /\ FillInv /\ [Next]_vars => FillInv'
<1> SUFFICES ASSUME TypeOK, FillInv, [Next]_vars, NEW j \in Holders,
                    holder'[j].pc = "finish", holder'[j].at.row = Source
             PROVE  \A g \in Linked : answer'[g].value # "absent"
  BY DEF FillInv
<1>t. holder \in [Holders -> Holder]
  BY DEF TypeOK
<1>s. SUFFICES \A g \in Linked : answer[g].value # "absent"
  BY AnswersStay
<1>u. holder'[j] = holder[j] => \A g \in Linked : answer[g].value # "absent"
  BY DEF FillInv
<1>1. ASSUME NEW h \in Holders, HolderStep(h)
      PROVE  \A g \in Linked : answer[g].value # "absent"
  <2>1. PICK q : SetHolder(h, q)
    BY <1>1 DEF HolderStep, UseCode, UseExpiredCode, ReplaceExpired, ResendCode,
       Validate, WriteAnswer, RefuseAnswer, UpdateToStarted, CheckAnswers, FinishSubmit,
       HolderFails
  <2>2. CASE j # h
    BY <1>t, <1>u, <2>1, <2>2 DEF SetHolder
  <2>3. CASE j = h
    BY <1>1, <2>3, HolderKeepsFill
  <2> QED
    BY <2>2, <2>3
<1>2. ASSUME NEW k \in Runs, RunStart(k) \/ RunStep(k) \/ RunFails(k) PROVE holder' = holder
  BY <1>2 DEF RunStart, RunStep, RunFails, ReadOwnRows, MailOwn, MarkOwn,
     ReadLinkedRows, ReadLink, Disable, RotateCode, MailLinked, MarkLinked,
     MarkUseless, RunEnd
<1>3. CASE (\E f \in Rows : CodeExpires(f)) \/ DayPasses \/ UNCHANGED vars
  BY <1>3, <1>u DEF CodeExpires, DayPasses, vars
<1>4. ~Restart
  BY DEF Restart, Idle
<1> QED
  BY <1>u, <1>1, <1>2, <1>3, <1>4 DEF Next

\* The promise speaks of who was mailed, of what the answers say and of what was
\* submitted: a step that leaves those alone is invisible to it.
Entry == [f \in Linked |-> answer[f].value]

LEMMA Invisible ==
    ASSUME UNCHANGED <<mailed, answer, submitted>>
    PROVE  UNCHANGED Promise!promiseVars
  BY DEF Promise!promiseVars

LEMMA AskStep ==
    ASSUME TypeOK, NEW t \in RowCode, mailed' \in {mailed, mailed \cup {t}},
           UNCHANGED <<answer, submitted>>,
           t.row \in Linked => Source \in submitted /\ answer[t.row].value = "given"
    PROVE  [Promise!Next]_(Promise!promiseVars)
<1>1. CASE mailed' = mailed
  BY <1>1, Invisible
<1>2. CASE mailed' = mailed \cup {t}
  <2>1. t.row \in Rows
    BY DEF RowCode
  <2>2. {m.row : m \in mailed'} = {m.row : m \in mailed} \cup {t.row}
    BY <1>2
  <2>3. Promise!Ask(t.row)
    BY <2>2 DEF Promise!Ask
  <2> QED
    BY <2>1, <2>3 DEF Promise!Next
<1> QED
  BY <1>1, <1>2

LEMMA FillInStep ==
    ASSUME FlowInv, NEW h \in Holders, WriteAnswer(h)
    PROVE  [Promise!Next]_(Promise!promiseVars)
<1>t. TypeOK /\ HolderHonest(holder[h], mailed)
  BY DEF FlowInv
<1>1. CASE holder[h].at.row # Source
  BY <1>1, Invisible DEF WriteAnswer
<1>2. CASE holder[h].at.row = Source
  <2>1. PICK q \in Linked \cup {Source} :
           \A f \in Linked :
              IF f = q THEN answer'[f].value = "given"
              ELSE \/ answer'[f].value = answer[f].value
                   \/ answer[f].value = "absent" /\ answer'[f].value = "null"
    BY <1>2, <1>t, WriteFillsIn
  <2>2. answer \in [Linked -> LinkAnswer] /\ answer' \in [Linked -> LinkAnswer]
    BY <1>t DEF WriteAnswer, TypeOK
  <2>3. Source \in {m.row : m \in mailed}
    BY <1>2, <1>t DEF WriteAnswer, HolderHonest
  <2>4. Entry' \in [Linked -> Promise!Entries]
    BY <2>2 DEF Entry, LinkAnswer, Promise!Entries
  <2>5. \A f \in Linked : IF f = q THEN Entry'[f] = "given"
                          ELSE \/ Entry'[f] = Entry[f]
                               \/ Entry[f] = "absent" /\ Entry'[f] = "null"
    BY <2>1 DEF Entry
  <2>6. UNCHANGED <<mailed, submitted>>
    BY DEF WriteAnswer
  <2>7. Promise!FillIn
    BY <2>3, <2>4, <2>5, <2>6 DEF Promise!FillIn, Entry
  <2> QED
    BY <2>7 DEF Promise!Next
<1> QED
  BY <1>1, <1>2

LEMMA HandInStep ==
    ASSUME FlowInv, FillInv, NEW h \in Holders, FinishSubmit(h)
    PROVE  [Promise!Next]_(Promise!promiseVars)
<1> DEFINE f == holder[h].at.row
<1>1. f \in Rows
  BY HolderFields DEF FlowInv, TypeOK
<1>2. f \in {m.row : m \in mailed}
  BY DEF FlowInv, FinishSubmit, HolderHonest
<1>3. f = Source => \A g \in Linked : Entry[g] # "absent"
  BY DEF FillInv, FinishSubmit, Entry
<1>4. submitted' = submitted \cup {f} /\ UNCHANGED <<mailed, answer>>
  BY DEF FinishSubmit
<1>5. Promise!HandIn(f)
  BY <1>2, <1>3, <1>4 DEF Promise!HandIn, Entry
<1> QED
  BY <1>1, <1>5 DEF Promise!Next

LEMMA StepKeepsPromise ==
    ASSUME FlowInv, FillInv, [Next]_vars
    PROVE  [Promise!Next]_(Promise!promiseVars)
<1>t. TypeOK
  BY DEF FlowInv
<1>1. ASSUME NEW k \in Runs, RunStart(k) \/ RunStep(k) \/ RunFails(k)
      PROVE  [Promise!Next]_(Promise!promiseVars)
  <2>t. run[k] \in Run /\ RunHonest(run[k], submitted, answer, mailed)
    BY <1>t DEF FlowInv, TypeOK
  <2>r. run[k].at \in RowCode
    BY <2>t, RunFields
  <2>1. CASE MailOwn(k)
    <3>1. PICK t \in run[k].todo : mailed' \in {mailed, mailed \cup {t}}
      BY <2>1 DEF MailOwn
    <3>2. t \in RowCode /\ t.row \notin Linked
      BY <2>1, <2>t, RunFields DEF MailOwn, RunHonest, Own
    <3> QED
      BY <1>t, <2>1, <3>1, <3>2, AskStep DEF MailOwn
  <2>2. CASE MailLinked(k)
    BY <1>t, <2>t, <2>r, <2>2, AskStep DEF MailLinked, RunHonest
  <2>3. CASE RunFails(k) /\ run[k].pc = "mail"
    BY <1>t, <2>t, <2>r, <2>3, AskStep DEF RunFails, RunHonest
  <2>4. CASE RunFails(k) /\ run[k].pc # "mail"
    BY <2>4, Invisible DEF RunFails
  <2>5. CASE \/ RunStart(k) \/ ReadOwnRows(k) \/ MarkOwn(k) \/ ReadLinkedRows(k)
             \/ ReadLink(k) \/ Disable(k) \/ RotateCode(k) \/ MarkLinked(k)
             \/ MarkUseless(k) \/ RunEnd(k)
    BY <2>5, Invisible DEF RunStart, ReadOwnRows, MarkOwn, ReadLinkedRows, ReadLink,
       Disable, RotateCode, MarkLinked, MarkUseless, RunEnd
  <2> QED
    BY <1>1, <2>1, <2>2, <2>3, <2>4, <2>5 DEF RunStep
<1>2. ASSUME NEW h \in Holders, HolderStep(h)
      PROVE  [Promise!Next]_(Promise!promiseVars)
  <2>r. holder[h].at \in RowCode
    BY <1>t, HolderFields DEF TypeOK
  <2>1. CASE ResendCode(h) \/ HolderFails(h)
    <3>1. CASE holder[h].at.row \in Own
      <4>1. holder[h].at.row \notin Linked
        BY <3>1 DEF Own
      <4>2. mailed' \in {mailed, mailed \cup {holder[h].at}}
        BY <2>1 DEF ResendCode, HolderFails
      <4>3. UNCHANGED <<answer, submitted>>
        BY <2>1 DEF ResendCode, HolderFails
      <4> QED
        BY <1>t, <2>r, <4>1, <4>2, <4>3, AskStep
    <3>2. CASE holder[h].at.row \notin Own
      <4>1. UNCHANGED <<mailed, answer, submitted>>
        BY <2>1, <3>2 DEF ResendCode, HolderFails
      <4> QED
        BY <4>1, Invisible
    <3> QED
      BY <3>1, <3>2
  <2>2. CASE WriteAnswer(h)
    BY <2>2, FillInStep
  <2>3. CASE FinishSubmit(h)
    BY <2>3, HandInStep
  <2>4. CASE UNCHANGED <<mailed, answer, submitted>>
    BY <2>4, Invisible
  <2> QED
    BY <1>2, <2>1, <2>2, <2>3, <2>4 DEF HolderStep, UseCode, UseExpiredCode,
       ReplaceExpired, Validate, RefuseAnswer, UpdateToStarted, CheckAnswers
<1>3. CASE (\E f \in Rows : CodeExpires(f)) \/ DayPasses \/ Restart \/ UNCHANGED vars
  <2>1. UNCHANGED <<mailed, answer, submitted>>
    BY <1>3 DEF CodeExpires, DayPasses, Restart, vars
  <2> QED
    BY <2>1, Invisible
<1> QED
  BY <1>1, <1>2, <1>3 DEF Next

LEMMA InitPromise == Init => Promise!Init
<1> SUFFICES ASSUME Init PROVE Promise!Init
  OBVIOUS
<1>1. {m.row : m \in mailed} = {} /\ submitted = {}
  BY DEF Init
<1>2. [f \in Linked |-> answer[f].value] = [f \in Linked |-> "absent"]
  BY DEF Init
<1> QED
  BY <1>1, <1>2 DEF Promise!Init

\* The life of the forms, with its codes, overlapping runs, failures and restarts,
\* implements the promise.
THEOREM FormsKeepPromise == Spec => KeepsFormPromise
<1>1. FlowInv /\ FillInv /\ [Next]_vars => [Promise!Next]_(Promise!promiseVars)
  BY StepKeepsPromise
<1>2. FlowInv /\ FillInv /\ [Next]_vars => FillInv'
  BY FillNext DEF FlowInv
<1> QED
  BY <1>1, <1>2, InitPromise, InitFlow, FlowNext, InitFill, PTL
  DEF Spec, KeepsFormPromise, Promise!Spec
=============================================================================
