--------------------------- MODULE FormLifecycle ---------------------------
(***************************************************************************)
(* The life of the FormsCandidates rows of one candidate: the cron that    *)
(* mails access codes, the code check that replaces an expired code, the   *)
(* handlers that answer and submit a form, and the end of the answer       *)
(* period (src/src/forms-candidates, src/src/answers).                     *)
(*                                                                         *)
(* The candidate's own form asks, besides its questions, for the addresses *)
(* the other forms are mailed to: answer[f] is the answer to the           *)
(* emailQuestionId of the linked form f.  Cron runs may overlap (the job   *)
(* does not wait for the previous run) and every await is a step.          *)
(*                                                                         *)
(* Failures of the mail service, of the database and of the process are    *)
(* counted, at most MaxFaults of them; of the codes a row has one after    *)
(* the other only the first ExpiringCodes expire.  Neither bound ever      *)
(* stops the cron.                                                         *)
(*                                                                         *)
(* In Runs and Holders a slot stands for whoever is there: a run or a      *)
(* request leaves it with nothing, so a slot is used any number of times.  *)
(***************************************************************************)
EXTENDS Integers, FiniteSets

CONSTANTS
    Rows,        \* the candidate's rows in FormsCandidates
    Kind,        \* sFormType of each: "candidate", "normal", "ministerial"
    Source,      \* the row of the form that asks the email questions
    Runs,        \* cron runs that may be in progress at once
    Holders,     \* request slots of the people who hold a code
    ExpiringCodes, \* bound: the codes of a row that may expire are the first ones
    MaxFaults    \* bound: failed mails and queries, and restarts

Kinds == {"candidate", "normal", "ministerial"}

ASSUME RowsAssumption ==
    /\ Source \in Rows
    /\ Kind \in [Rows -> Kinds]
    /\ Kind[Source] = "candidate"

ASSUME BoundsAssumption ==
    /\ ExpiringCodes \in [Rows -> Nat]
    /\ MaxFaults \in Nat

VARIABLES
    status,    \* formCandidateStatus
    code,      \* formCandidateAccessCode, as the number of its replacements
    expired,   \* the code is more than 24 hours old
    mailed,    \* the codes that reached the person the form is for
    answer,    \* the answers to the email questions of the linked forms
    phase,     \* where today is relative to processEndAnswers
    run,       \* the cron runs in progress
    holder,    \* the handlers in progress
    submitted, \* history: the rows that were ever submitted
    faults     \* counter of the bound MaxFaults

vars == <<status, code, expired, mailed, answer, phase, run, holder,
          submitted, faults>>

UNUSEFULL == 0
GENERATED == 1
MAILED == 2
STARTED == 4
SUBMITTED == 5

Linked == {f \in Rows : Kind[f] # "candidate"}
Own == Rows \ Linked

RowCode == [row : Rows, code : Nat]
NoRow == [row |-> Source, code |-> 0]

LinkAnswer == [value : {"absent", "null", "given"}, valid : BOOLEAN]

Run == [pc : {"off", "start", "own", "markOwn", "linked", "disable", "rotate",
              "mail", "markLinked"},
        active : BOOLEAN, todo : SUBSET RowCode, bad : SUBSET Rows, at : RowCode]
Off == [pc |-> "off", active |-> FALSE, todo |-> {}, bad |-> {}, at |-> NoRow]

Holder == [pc : {"idle", "replace", "resend", "validate", "write", "started",
                 "check", "finish"},
           op : {"answer", "submit"}, at : RowCode, seen : 0..5]
Idle == [pc |-> "idle", op |-> "answer", at |-> NoRow, seen |-> UNUSEFULL]

SetRun(k, record) == run' = [run EXCEPT ![k] = record]
SetHolder(h, record) == holder' = [holder EXCEPT ![h] = record]
SetStatus(f, s) == status' = [status EXCEPT ![f] = s]
ReplaceCode(f) == /\ code' = [code EXCEPT ![f] = @ + 1]
                  /\ expired' = [expired EXCEPT ![f] = FALSE]
Fault == faults < MaxFaults /\ faults' = faults + 1

Generated(S) == {f \in S : status[f] = GENERATED}
Snapshot(S) == {[row |-> f, code |-> code[f]] : f \in Generated(S)}

-----------------------------------------------------------------------------
(* handleProcessesInAnswerPeriod *)

\* processEndAnswers is a DATE compared with the time of day: the last day of the
\* period does not count.
\* Mutant: <= for >=.
RunStartEnded(k) ==
    /\ run[k].pc = "off"
    /\ SetRun(k, [Off EXCEPT !.pc = "start", !.active = (phase # "open")])
    /\ UNCHANGED <<status, code, expired, mailed, answer, phase, holder, submitted,
                   faults>>

RunStart(k) ==
    /\ run[k].pc = "off"
    /\ SetRun(k, [Off EXCEPT !.pc = "start", !.active = (phase = "open")])
    /\ UNCHANGED <<status, code, expired, mailed, answer, phase, holder, submitted,
                   faults>>

\* processCandidateFormsCandidates: the rows, with their codes, as they are now.
\* Rows of a process that is not active are put aside for markAsUnuseful.
ReadOwnRows(k) ==
    /\ run[k].pc = "start"
    /\ SetRun(k, IF run[k].active
                 THEN [run[k] EXCEPT !.pc = "own", !.todo = Snapshot(Own)]
                 ELSE [run[k] EXCEPT !.pc = "own", !.bad = Generated(Own)])
    /\ UNCHANGED <<status, code, expired, mailed, answer, phase, holder, submitted,
                   faults>>

\* sendCandidateFormEmail swallows the failure of a mail.
MailOwn(k) ==
    /\ run[k].pc = "own"
    /\ \E t \in run[k].todo :
          /\ \/ mailed' = mailed \cup {t} /\ UNCHANGED faults
             \/ mailed' = mailed /\ Fault
          /\ SetRun(k, [run[k] EXCEPT !.pc = "markOwn", !.at = t,
                                      !.todo = @ \ {t}])
    /\ UNCHANGED <<status, code, expired, answer, phase, holder, submitted>>

MarkOwn(k) ==
    /\ run[k].pc = "markOwn"
    /\ SetStatus(run[k].at.row, MAILED)
    /\ SetRun(k, [run[k] EXCEPT !.pc = "own", !.at = NoRow])
    /\ UNCHANGED <<code, expired, mailed, answer, phase, holder, submitted, faults>>

\* processNonCandidateFormsCandidates
\* Mutant: the rows put aside before are not passed on.
ReadLinkedRowsForget(k) ==
    /\ run[k].pc = "own"
    /\ run[k].todo = {}
    /\ SetRun(k, IF run[k].active
                 THEN [run[k] EXCEPT !.pc = "linked", !.todo = Snapshot(Linked)]
                 ELSE [run[k] EXCEPT !.pc = "linked", !.bad = Generated(Linked)])
    /\ UNCHANGED <<status, code, expired, mailed, answer, phase, holder, submitted,
                   faults>>

ReadLinkedRows(k) ==
    /\ run[k].pc = "own"
    /\ run[k].todo = {}
    /\ SetRun(k, IF run[k].active
                 THEN [run[k] EXCEPT !.pc = "linked", !.todo = Snapshot(Linked)]
                 ELSE [run[k] EXCEPT !.pc = "linked", !.bad = @ \cup Generated(Linked)])
    /\ UNCHANGED <<status, code, expired, mailed, answer, phase, holder, submitted,
                   faults>>

\* findAnswerByQuestionAndFormCandidateSubmited
\* Mutant: the answers of a form still being filled in count.
LinkVisibleEarly(f) == answer[f].value # "absent"

\* Mutant: > for >=.
LinkVisibleLate(f) == status[Source] > SUBMITTED /\ answer[f].value # "absent"

LinkVisible(f) == status[Source] >= SUBMITTED /\ answer[f].value # "absent"

\* getAnswerLinkValue, and getMinisterialEmail, which may know no active minister
\* for the answer.
ReadLink(k) ==
    /\ run[k].pc = "linked"
    /\ \E t \in run[k].todo :
          LET f == t.row
              Go(pc, at) == SetRun(k, [run[k] EXCEPT !.pc = pc, !.at = at,
                                                     !.todo = @ \ {t}])
          IN  \/ /\ \/ ~LinkVisible(f)
                    \/ answer[f].valid /\ answer[f].value = "null"
                    \/ answer[f].valid /\ Kind[f] = "ministerial"
                 /\ Go("linked", NoRow)
              \/ /\ LinkVisible(f)
                 /\ ~answer[f].valid
                 /\ Go("disable", t)
              \/ /\ LinkVisible(f)
                 /\ answer[f].valid
                 /\ answer[f].value = "given"
                 /\ Go("rotate", t)
    /\ UNCHANGED <<status, code, expired, mailed, answer, phase, holder, submitted,
                   faults>>

Disable(k) ==
    /\ run[k].pc = "disable"
    /\ SetStatus(run[k].at.row, UNUSEFULL)
    /\ SetRun(k, [run[k] EXCEPT !.pc = "linked", !.at = NoRow])
    /\ UNCHANGED <<code, expired, mailed, answer, phase, holder, submitted, faults>>

\* generateAndSendEmail: a new code, the mail, MAILED.
RotateCode(k) ==
    /\ run[k].pc = "rotate"
    /\ LET f == run[k].at.row
       IN  /\ ReplaceCode(f)
           /\ SetRun(k, [run[k] EXCEPT !.pc = "mail", !.at.code = code[f] + 1])
    /\ UNCHANGED <<status, mailed, answer, phase, holder, submitted, faults>>

\* Mutant: the failure of the mail is swallowed, as it is for the own form.
MailLinkedSwallows(k) ==
    /\ run[k].pc = "mail"
    /\ \/ mailed' = mailed \cup {run[k].at} /\ UNCHANGED faults
       \/ mailed' = mailed /\ Fault
    /\ SetRun(k, [run[k] EXCEPT !.pc = "markLinked"])
    /\ UNCHANGED <<status, code, expired, answer, phase, holder, submitted>>

MailLinked(k) ==
    /\ run[k].pc = "mail"
    /\ mailed' = mailed \cup {run[k].at}
    /\ SetRun(k, [run[k] EXCEPT !.pc = "markLinked"])
    /\ UNCHANGED <<status, code, expired, answer, phase, holder, submitted, faults>>

MarkLinked(k) ==
    /\ run[k].pc = "markLinked"
    /\ SetStatus(run[k].at.row, MAILED)
    /\ SetRun(k, [run[k] EXCEPT !.pc = "linked", !.at = NoRow])
    /\ UNCHANGED <<code, expired, mailed, answer, phase, holder, submitted, faults>>

\* markAsUnuseful, one row at a time, and the end of the run.
MarkUseless(k) ==
    /\ run[k].pc = "linked"
    /\ run[k].todo = {}
    /\ \E f \in run[k].bad :
          /\ SetStatus(f, UNUSEFULL)
          /\ SetRun(k, [run[k] EXCEPT !.bad = @ \ {f}])
    /\ UNCHANGED <<code, expired, mailed, answer, phase, holder, submitted, faults>>

RunEnd(k) ==
    /\ run[k].pc = "linked"
    /\ run[k].todo = {}
    /\ run[k].bad = {}
    /\ SetRun(k, Off)
    /\ UNCHANGED <<status, code, expired, mailed, answer, phase, holder, submitted,
                   faults>>

\* A query rejects, or the mail of a linked form is refused or times out and may
\* have left: the catch of handleProcessesInAnswerPeriod ends the run there.
RunFails(k) ==
    /\ run[k].pc # "off"
    /\ Fault
    /\ mailed' \in IF run[k].pc = "mail" THEN {mailed, mailed \cup {run[k].at}}
                                         ELSE {mailed}
    /\ SetRun(k, Off)
    /\ UNCHANGED <<status, code, expired, answer, phase, holder, submitted>>

-----------------------------------------------------------------------------
(* The people who hold a code *)

\* validateAccessCodeAndGetFormCandidateId, for POST /answers and for submitForm.
UseCode(h, m, op) ==
    /\ holder[h].pc = "idle"
    /\ code[m.row] = m.code
    /\ ~expired[m.row]
    /\ SetHolder(h, [Idle EXCEPT !.pc = "validate", !.op = op, !.at = m])
    /\ UNCHANGED <<status, code, expired, mailed, answer, phase, run, submitted, faults>>

\* ... the same when the code is too old: ...
UseExpiredCode(h, m) ==
    /\ holder[h].pc = "idle"
    /\ code[m.row] = m.code
    /\ expired[m.row]
    /\ SetHolder(h, [Idle EXCEPT !.pc = "replace", !.at = m])
    /\ UNCHANGED <<status, code, expired, mailed, answer, phase, run, submitted, faults>>

\* ... it is replaced, ...
ReplaceExpired(h) ==
    /\ holder[h].pc = "replace"
    /\ LET f == holder[h].at.row
       IN  /\ ReplaceCode(f)
           /\ SetHolder(h, [holder[h] EXCEPT !.pc = "resend", !.at.code = code[f] + 1])
    /\ UNCHANGED <<status, mailed, answer, phase, run, submitted, faults>>

\* ... and resendAccessCodeEmail mails it, if the form is the candidate's own.
\* Mutant: the condition on the form's type the other way round.
ResendCodeLinked(h) ==
    /\ holder[h].pc = "resend"
    /\ mailed' = IF holder[h].at.row \in Own THEN mailed ELSE mailed \cup {holder[h].at}
    /\ SetHolder(h, Idle)
    /\ UNCHANGED <<status, code, expired, answer, phase, run, submitted, faults>>

ResendCode(h) ==
    /\ holder[h].pc = "resend"
    /\ mailed' = IF holder[h].at.row \in Own THEN mailed \cup {holder[h].at} ELSE mailed
    /\ SetHolder(h, Idle)
    /\ UNCHANGED <<status, code, expired, answer, phase, run, submitted, faults>>

\* validateFormCandidateForAnswer: the whole last day is accepted.
Validate(h) ==
    /\ holder[h].pc = "validate"
    /\ LET f == holder[h].at.row
       IN  IF phase = "closed" \/ status[f] > STARTED
           THEN SetHolder(h, Idle)
           ELSE SetHolder(h, [holder[h] EXCEPT
                                !.pc = IF holder[h].op = "answer" THEN "write"
                                                                  ELSE "check",
                                !.seen = status[f]])
    /\ UNCHANGED <<status, code, expired, mailed, answer, phase, run, submitted, faults>>

\* The transaction of createAnswer.  An answer to a question gives it a value, and
\* leaves it disabled when it was disabled since it was read; an answer to a
\* question it depends on enables or disables it and keeps the value.
Answered(a) == [value |-> "given", valid |-> a.value = "absent" \/ a.valid]
Toggled(a) ==
    {a} \cup {[value |-> IF a.value = "absent" THEN "null" ELSE a.value, valid |-> v] :
                v \in BOOLEAN}

\* q is the email question answered, Source for a question that is not one.
WriteAnswer(h) ==
    /\ holder[h].pc = "write"
    /\ IF holder[h].at.row = Source
       THEN \E q \in Linked \cup {Source} :
               answer' \in {b \in [Linked -> LinkAnswer] :
                              \A f \in Linked : IF f = q THEN b[f] = Answered(answer[f])
                                                         ELSE b[f] \in Toggled(answer[f])}
       ELSE UNCHANGED answer
    /\ SetHolder(h, [holder[h] EXCEPT !.pc = "started"])
    /\ UNCHANGED <<status, code, expired, mailed, phase, run, submitted, faults>>

\* The question is disabled, or its validations refuse the value.
RefuseAnswer(h) ==
    /\ holder[h].pc = "write"
    /\ SetHolder(h, Idle)
    /\ UNCHANGED <<status, code, expired, mailed, answer, phase, run, submitted, faults>>

\* updateToStartedIfNeeded, with the status read before the answer was written.
\* Mutant: STARTED whatever the row was.
UpdateToStartedAlways(h) ==
    /\ holder[h].pc = "started"
    /\ SetStatus(holder[h].at.row, STARTED)
    /\ SetHolder(h, Idle)
    /\ UNCHANGED <<code, expired, mailed, answer, phase, run, submitted, faults>>

UpdateToStarted(h) ==
    /\ holder[h].pc = "started"
    /\ IF holder[h].seen < STARTED THEN SetStatus(holder[h].at.row, STARTED)
                                   ELSE UNCHANGED status
    /\ SetHolder(h, Idle)
    /\ UNCHANGED <<code, expired, mailed, answer, phase, run, submitted, faults>>

\* submitForm: every question needs an answer, and a value unless it is disabled.
\* The form may lack the answers to its other questions.
\* Mutant: only the rows there are are looked at.
CompleteIfThere(f) ==
    f = Source => \A g \in Linked :
        answer[g].value # "absent" /\ answer[g].valid => answer[g].value = "given"

Complete(f) ==
    f = Source => \A g \in Linked :
        /\ answer[g].value # "absent"
        /\ answer[g].valid => answer[g].value = "given"

CheckAnswers(h) ==
    /\ holder[h].pc = "check"
    /\ \/ /\ Complete(holder[h].at.row)
          /\ SetHolder(h, [holder[h] EXCEPT !.pc = "finish"])
       \/ SetHolder(h, Idle)
    /\ UNCHANGED <<status, code, expired, mailed, answer, phase, run, submitted, faults>>

FinishSubmit(h) ==
    /\ holder[h].pc = "finish"
    /\ SetStatus(holder[h].at.row, SUBMITTED)
    /\ submitted' = submitted \cup {holder[h].at.row}
    /\ SetHolder(h, Idle)
    /\ UNCHANGED <<code, expired, mailed, answer, phase, run, faults>>

\* A query rejects, or the mail of ResendCode is refused or times out.
HolderFails(h) ==
    /\ holder[h].pc # "idle"
    /\ Fault
    /\ mailed' \in IF holder[h].pc = "resend" /\ holder[h].at.row \in Own
                  THEN {mailed, mailed \cup {holder[h].at}} ELSE {mailed}
    /\ SetHolder(h, Idle)
    /\ UNCHANGED <<status, code, expired, answer, phase, run, submitted>>

-----------------------------------------------------------------------------
(* Time and the process *)

CodeExpires(f) ==
    /\ ~expired[f]
    /\ code[f] < ExpiringCodes[f]
    /\ expired' = [expired EXCEPT ![f] = TRUE]
    /\ UNCHANGED <<status, code, mailed, answer, phase, run, holder, submitted, faults>>

DayPasses ==
    /\ \/ phase = "open" /\ phase' = "lastDay"
       \/ phase = "lastDay" /\ phase' = "closed"
    /\ UNCHANGED <<status, code, expired, mailed, answer, run, holder, submitted, faults>>

Restart ==
    /\ Fault
    /\ run' = [k \in Runs |-> Off]
    /\ holder' = [h \in Holders |-> Idle]
    /\ UNCHANGED <<status, code, expired, mailed, answer, phase, submitted>>

-----------------------------------------------------------------------------

\* As insertCompleteCandidate leaves the rows.
Init ==
    /\ status = [f \in Rows |-> GENERATED]
    /\ code = [f \in Rows |-> 0]
    /\ expired = [f \in Rows |-> FALSE]
    /\ mailed = {}
    /\ answer = [f \in Linked |-> [value |-> "absent", valid |-> TRUE]]
    /\ phase = "open"
    /\ run = [k \in Runs |-> Off]
    /\ holder = [h \in Holders |-> Idle]
    /\ submitted = {}
    /\ faults = 0

RunStep(k) ==
    \/ ReadOwnRows(k)
    \/ MailOwn(k)
    \/ MarkOwn(k)
    \/ ReadLinkedRows(k)
    \/ ReadLink(k)
    \/ Disable(k)
    \/ RotateCode(k)
    \/ MailLinked(k)
    \/ MarkLinked(k)
    \/ MarkUseless(k)
    \/ RunEnd(k)

HolderStep(h) ==
    \/ \E m \in mailed, op \in {"answer", "submit"} : UseCode(h, m, op)
    \/ \E m \in mailed : UseExpiredCode(h, m)
    \/ ReplaceExpired(h)
    \/ ResendCode(h)
    \/ Validate(h)
    \/ WriteAnswer(h)
    \/ RefuseAnswer(h)
    \/ UpdateToStarted(h)
    \/ CheckAnswers(h)
    \/ FinishSubmit(h)
    \/ HolderFails(h)

Next ==
    \/ \E k \in Runs : RunStart(k) \/ RunStep(k) \/ RunFails(k)
    \/ \E h \in Holders : HolderStep(h)
    \/ \E f \in Rows : CodeExpires(f)
    \/ DayPasses
    \/ Restart

Spec == Init /\ [][Next]_vars

\* The schedule starts runs for ever and a run in progress goes on.  Holders may
\* stop at any point, days need not pass.
Fairness == \A k \in Runs : WF_vars(RunStart(k)) /\ WF_vars(RunStep(k))
FairSpec == Spec /\ Fairness

-----------------------------------------------------------------------------
(* Properties *)

TypeOK ==
    /\ status \in [Rows -> {UNUSEFULL, GENERATED, MAILED, STARTED, SUBMITTED}]
    /\ code \in [Rows -> Nat]
    /\ expired \in [Rows -> BOOLEAN]
    /\ mailed \subseteq RowCode
    /\ answer \in [Linked -> LinkAnswer]
    /\ phase \in {"open", "lastDay", "closed"}
    /\ run \in [Runs -> Run]
    /\ holder \in [Holders -> Holder]
    /\ submitted \subseteq Rows
    /\ faults \in 0..MaxFaults

\* Nobody is asked for a statement about a candidate before the candidate has
\* submitted the form that names them (findAnswerByQuestionAndFormCandidateSubmited),
\* however many runs and answers overlap.
LinkedMailNeedsSubmission ==
    \A m \in mailed : m.row \in Linked =>
        /\ Source \in submitted
        /\ answer[m.row].value = "given"

\* A linked row is never recorded as mailed, or later, on the strength of a mail
\* that did not leave: its recipient holds one of its codes.
LinkedMailedMeansMailed ==
    \A f \in Linked : status[f] \in {MAILED, STARTED, SUBMITTED} =>
        \E m \in mailed : m.row = f

\* While nothing fails and no handler is replacing it, the code a mailed row now
\* has is one its person was sent, whatever codes older runs still carry.
Replacing(f) == \E h \in Holders : /\ holder[h].pc \in {"replace", "resend"}
                                   /\ holder[h].at.row = f
HoldsCode(f) == faults = 0 /\ status[f] \in {MAILED, STARTED, SUBMITTED}
                    /\ ~Replacing(f) => [row |-> f, code |-> code[f]] \in mailed
OwnCodeIsKnown == \A f \in Own : HoldsCode(f)

\* A submitted row stays submitted unless a step is under way that read the row
\* before: a handler that saw it not started, or a run with the row in hand.
StaleHandler(f) == \E h \in Holders : /\ holder[h].pc = "started"
                                      /\ holder[h].at.row = f
                                      /\ holder[h].seen < STARTED
StaleRun(f) == \E k \in Runs : \/ run[k].at.row = f /\ run[k].pc \in {"markOwn", "markLinked",
                                                                      "disable"}
                               \/ f \in run[k].bad
SubmissionUndoneOnlyByStale ==
    [][\A f \in Rows : status[f] = SUBMITTED /\ status'[f] # SUBMITTED
                           => StaleHandler(f) \/ StaleRun(f)]_vars

\* Until the last day of the period comes, the cron gives up a form only if it is
\* mailed to somebody and the submitted form has an answer for who that is,
\* whichever rows a run put aside and however late it marks them
\* (findProcessesInAnswerPeriod, getAnswerLinkValue, markAsUnuseful).
GivenUpOnlyAtTheEnd ==
    [][\A f \in Rows : status[f] # UNUSEFULL /\ status'[f] = UNUSEFULL
          => \/ phase # "open"
             \/ f \in Linked /\ Source \in submitted /\ answer[f].value # "absent"]_vars

\* The cron reaches the candidate's own form: it is mailed, or the period is over
\* and it is marked as useless.
OwnFormIsHandled == \A f \in Own : status[f] = GENERATED ~> status[f] # GENERATED

\* A form whose recipient the submitted form names is mailed or marked as useless,
\* unless the name stops counting first: the submission is undone by a stale
\* writer, or the question is disabled.
Named(f) == /\ status[Source] = SUBMITTED
            /\ answer[f] = [value |-> "given", valid |-> TRUE]
LinkedFormIsHandled ==
    \A f \in Linked : Kind[f] = "normal" /\ status[f] = GENERATED /\ Named(f)
                          ~> status[f] # GENERATED \/ ~Named(f)

\* The whole module, codes, overlapping runs, handlers and failures included,
\* implements the promise of the forms.
Promise == INSTANCE FormPromise WITH
    asked <- {m.row : m \in mailed},
    entry <- [f \in Linked |-> answer[f].value],
    handedIn <- submitted
KeepsFormPromise == Promise!Spec

\* "Se expirado, gera novo codigo e reenvia email"
\* (forms-candidates.service.ts, validateAccessCodeAndGetFormCandidateId).
EveryCodeIsKnown == \A f \in Rows : HoldsCode(f)
=============================================================================
