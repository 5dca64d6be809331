# TLA+ models of the SALT selection back end

The repository is a NestJS service over MySQL for the selection of candidates to
the SALT course: people register themselves with an order code of a shop, confirm
their e-mail address, are mailed access codes to their forms, name the referees and
the minister who are mailed forms of their own, are distributed to interviewers,
rated and approved. Everything runs in one Node process (pm2, `instances: 1`,
`exec_mode: 'fork'`), so what interleaves are the *awaits* of concurrent requests and
cron jobs. Few operations use a transaction, and the database enforces little: the
only UNIQUE columns the code relies on are `Candidates.orderCode`,
`PendingCandidates.confirmationToken`, `Users.email`, `Users.inviteCode`,
`Processes.title`, `Processes.dataKey`, `QuestionsAreas` names and
`QuestionScores.questionId`. Most of what makes the program right is therefore the
order in which its handlers read and write, which is what these modules are about.

## Inventory

| Component | State | Operations | What is hard |
| --- | --- | --- | --- |
| Self-registration (`candidates.service`, `pending-candidates.*`) | `PendingCandidates`, `Candidates`, the in-memory cooldown map | register, resend, confirm, complete, clean-up cron | checks and writes in different awaits, tokens that expire or are deleted on the way, mails that fail, restarts that lose the map |
| Life of the forms (`forms-candidates.*`) | status, access code and its date in `FormsCandidates`, `ministerialsCache` | mailing cron, replacement of expired codes, submit | cron runs overlap, statuses written from old reads, mails swallowed or aborting a run |
| Answers (`answers.*`) | `Answers` (value, valid) | create an answer, enable and disable what depends on it | display rules across questions and sections, one transaction after many reads, duplicates |
| Candidate access and terms (`candidates.service`) | `CandidatesTermsSignatures`, addresses in answers | validate a code, sign terms, build a form, change the address of a form | what is asked for and what is signed are read apart, two clients at once |
| Terms (`terms.*`) | begin and end dates of `Terms` | create, update, delete | each request reads the last and the open term and later closes, reopens or deletes; dates compared in two time zones |
| Users, authentication (`users.*`, `auth.*`, two-factor cache) | `Users`, `UsersRoles`, `TermsSignatures`, codes in memory | invite, reinvite, log on, log in with a second factor, resend, reset | a re-invitation beside a log-on, attempts and expiry, terms that come into force on the way, restarts |
| Interviewers and approval (`candidates.service`, `rates.*`, score cron) | interviewer, approval, rates and comments of a candidate | distribute, assign, rate, comment, approve, cron at 3 AM | decisions from stale reads, balance of the distribution, the last day |
| Processes (`processes.*`) | titles and dates of `Processes` | create, update, delete | the dates move under requests that were checked against them |
| Form building (`s-forms`, `form-sections`, `questions`, `sub-questions`) | forms, sections, questions with order, display links, validations | create, update, reorder, delete, copy | order and link dependencies; forms, their question and its kind are edited apart |
| Ministerials, fields, unions (`ministerials.*`) | `Ministerials`, `Fields`, `Unions` | import, update | imports at once, read by the cron through a cache |
| Order validation, SendPulse (`external-order-validation`, `sendpulse`) | cached tokens | authenticate, renew, call | a token that ends on the way, two renewals |
| Encryption, logging, paging, mail templates | none | formatting and I/O | nothing a state machine tells apart |

How they interact: `completeRegistration` inserts the candidate *and* one
`FormsCandidates` row per form of the process in one transaction: the end of
`Registration` is the `Init` of `FormLifecycle`. The mailing cron reads `Answers` of
the candidate's form to find whom to mail; `createAnswer` and `submitForm` write the
statuses the cron reads. Administrators edit the forms, the question whose answer names
a recipient, and the ministers the cron looks for (`Directory`, read by `Recipients`).
A candidate's access code shows the form only after the terms in force are signed, as
the second factor does for users, so terms, users and codes are one model (`SignIn`).
When the answers are over, administrators and the score cron approve, assign and
distribute, and interviewers rate (`Selection`).
Every mail goes through SendPulse, whose call is one await that is accepted, refused,
or times out after the mail left.

`PROJECT.json` lists every component, the hazards at their lines, and which property
is aimed at each.

## Modules

| Module | What it is |
| --- | --- |
| `Registration` | self-registration: handlers, clean-up cron, clock, restarts |
| `RegistrationPromise` | what self-registration promises, four actions; `Registration` refines it (`KeepsPromise`) |
| `MCRegistration` | instances of `Registration` for TLC |
| `Registration_proofs` | theorems about them |
| `FormLifecycle` | the rows of one candidate: mailing cron, code replacement, answering, submitting, the answer period |
| `FormPromise` | what the life of the forms promises, three actions; `FormLifecycle` refines it (`KeepsFormPromise`) |
| `MCFormLifecycle` | instances of `FormLifecycle` for TLC |
| `FormLifecycle_proofs` | theorems about them |
| `Answers` | the answers to one form: display rules, the transaction of an answer, submission |
| `MCAnswers` | its instance for TLC |
| `Answers_proofs` | theorems about it |
| `FormStructure` | sections and questions: orders, display rules, deletion with cascades, reordering, copies of forms |
| `MCFormStructure` | its instance for TLC |
| `FormStructure_proofs` | theorems about it |
| `Terms` | the terms of use and the administrators who create, edit and delete them |
| `SignIn` | extends `Terms`: invitations, log-on, login with a second factor, reset, access codes of candidates, signatures |
| `MCSignIn` | its instance for TLC |
| `SignIn_proofs` | theorems about both |
| `Selection` | approval, distribution and assignment of interviewers, rates, comments, the score cron, the dates of a process |
| `MCSelection` | its instance for TLC |
| `Selection_proofs` | theorems about it |
| `Directory` | forms, the questions that name their recipients, fields and ministers: edits and imports |
| `Recipients` | extends `Directory`: the mailing cron's cache of ministers and whom it finds |
| `MCRecipients` | its instance for TLC |
| `Directory_proofs` | the lemmas about `Directory` that they rest on: what an import of any file does |
| `Recipients_proofs` | theorems about both |

Operators with a comment starting `Mutant:` are wrong variants of the definition
below them. No specification uses them; they show that each checked property notices
a plausible mistake in that code.

### Registration

* **Handlers.** A request slot (`req[r]`) holds what the handler keeps in local
  variables and a `pc` naming its next await. `self-register` is
  `StartRegister`, `FindExisting`, then either the reused token or `ReadActive`,
  `InvalidateOne`* and `InsertPending`, then `CheckCooldown` and
  `MailAccepted`/`MailFailed`. `ResendConfirmation` joins it at the mail.
  `confirm-registration` is `ConfirmRegistration`, `ConfirmPending`;
  `complete-registration` is `CompleteRegistration`, `CheckAvailable`,
  `InsertCandidate`. `QueryFails` ends a handler at any query; what it wrote stays.
* **Two reads merged.** `isOrderCodeInCandidates` and `candidateExistsInProcess`
  are one step at the start of `self-register` because `Candidates` only grows: who
  passes both passed both at the first. At the end of `complete-registration` they
  are one step followed by the insert as another: the window between check and
  insert is what matters.
* **Tokens.** 32 random bytes in a UNIQUE column: a token *is* its row. Only who
  received a mail knows a token, so `ConfirmRegistration` and `CompleteRegistration`
  range over `inbox`.
* **Time.** A timestamp is the number of ticks since it was taken, saturating one
  past the longest age the code compares with. `Tick` is the clock. DATETIME ties
  in `ORDER BY createdAt DESC ... first()` are a choice (`Newest`).
* **Deleted rows** keep their content in the model as history (`state =
  "deleted"`): no query sees them, the properties do.
* **Left out.** The attempt counter (it is incremented only when two ciphertexts with
  different random IVs are equal, and nothing reads it), masking, encryption, the
  admin's read-only status endpoint. The process, its subscription window and the
  order API only refuse: a refused request changes nothing.

### FormLifecycle

* **One candidate.** The rows of different candidates meet only in the fact that a
  failing mail ends the run for the candidates behind it; the second row of the model
  plays that part.
* **Cron.** `run[k]` is one invocation of `handleProcessesInAnswerPeriod`; the
  schedule starts another while one is in progress, hence several `Runs`.
  `ReadOwnRows`, `MailOwn`, `MarkOwn` are `processCandidateFormsCandidates`;
  `ReadLinkedRows`, `ReadLink`, `Disable`, `RotateCode`, `MailLinked`, `MarkLinked`
  are `processNonCandidateFormsCandidates` and `generateAndSendEmail`; `MarkUseless`,
  `RunEnd` are `markAsUnuseful`. `MailOwn` swallows a failure as
  `sendCandidateFormEmail` does; a failed `MailLinked` is `RunFails`.
* **Handlers.** `UseCode`/`UseExpiredCode` are `validateAccessCodeAndGetFormCandidateId`,
  with `ReplaceExpired` and `ResendCode` for a code older than 24 hours. Then
  `Validate` (`validateFormCandidateForAnswer`), and either `WriteAnswer` and
  `UpdateToStarted` or `CheckAnswers` and `FinishSubmit`.
* **Data.** A code is the number of times the row's code was replaced. Of the answers
  only those to the e-mail questions are kept, with value (`absent`, `null`, `given`)
  and `valid`; a write may enable or disable others (`Toggled`), as the display rules
  of `createAnswer` do. That some other question lacks an answer, that a validation
  refuses a value, and that the registry knows no active minister for an answer are
  choices.
* **Days.** `phase` is where today is: before the last day of the answer period, on
  it, or after it. The cron's query and the handlers' helper disagree about the last
  day, and the model has both.

### Answers

* **Relation to FormLifecycle.** `FormLifecycle` keeps of the answers only what decides
  whom to mail, and lets a write toggle other answers at will. `Answers` is the inside
  of that write, for one form; `WritesAsFlow` states that it does to a question what
  `FormLifecycle` allows, as long as no question has two rows.
* **Display rules.** `Passes` is `evaluateAnswerDisplayRule`, `Enables` is
  `processDependentValidity`, `Dependents` and `RuleOn` are `buildDependentsArray`: a
  section's rule hides the rule of its questions. An answer is the list of values its
  text joins with `||`; "equals" is same length and every value included, so it is not
  symmetric when a value is repeated, and `parseFloat` reads the first value.
* **createAnswer.** `StartAnswer` (status), `FindAnswer` (the row of the question; a
  disabled one refuses), `SaveAnswer` (the transaction writes the answer, waits for
  the row if another transaction wrote it, and takes its snapshot of the dependents'
  rows), `CommitAnswer` (the flags and the commit), `UpdateToStarted`. `Abandon` is
  any refusal by a validation, any query that fails, and any transaction rolled back.
* **Rows.** No query orders the rows of a question and nothing makes them unique:
  which of several is read is a choice (`RowOf`). The flag is written even when it is
  the same, because the driver reads it as a number, never `===` a boolean.
* **submitForm.** `CheckAnswers` reads the answers once and passes only if they are
  complete; `FinishSubmit` writes SUBMITTED. An answer committed in between sets the
  history variable `late`.
* **Left out.** Access codes, the period and the e-mail questions (in
  `FormLifecycle`), encryption, and the validations of contents, which only refuse. That
  a question belongs to the form is not checked by the code; the model has no others.

### FormStructure

* **Requests.** A request of an administrator is checked by its helper
  (`processCreateFormSection`, `validateReorderData`, `validateDisplayRule` ...) and
  written later by its repository method, nearly always in one transaction. A slot
  holds an accepted edit in between: `Check` is the handler up to its last check,
  `Accepted` what that check asks for, and one action per repository method the write,
  with every renumbering in it. The queries of one handler's checks are one step: what
  matters is what changes between them and the transaction.
* **Transactions.** They run under repeatable read, the default of MySQL, which the
  code leaves as it is: plain SELECTs see the tables as they were at the first of them,
  UPDATE and DELETE work on the rows there are. `DeleteSection`, `DeleteQuestion`,
  `ReorderSections` and `CopyForm` read before they write, so each takes two steps:
  `Begin` keeps in `snapshot` what the transaction will see, and the write decrements
  and deletes current rows by the orders that it saw. Others may commit in
  between. The edits that begin with a write lock what they change and take one step.
* **Tables.** `section` and `question` hold the rows by id. An id is never used twice.
  Each row keeps its order and its display rule, which is "always" or conditional
  ("show if" and "do not show if" do not differ here) with links to a section and to a
  question. A rule of a section names a question of the linked section; one of a
  question may name any question of smaller order.
* **Foreign keys.** `LinksExist` is what an insert or update needs. `Taken` is the
  least set that `ON DELETE CASCADE` of `FormSections` and `Questions` removes,
  `Unlinked` is the `ON DELETE RESTRICT` of the links of questions, and `GoInOrder` that
  InnoDB checks it row by row.
* **Refused requests** change nothing, so kinds (in `Directory`) and options of
  questions, validations, scores, and the lock on what has answers are left out: they can only refuse.
  `NothingWritten` is a transaction that finds its row gone, that a foreign key or a
  row with answers refuses, or that fails.

### Terms and SignIn

* **Administrators.** `admin[h]` is a request under way: `AskCreate`, `AskUpdate` or
  `AskDelete` (what is checked of the term and the dates of the request), `FindLast`
  (`findBiggerEndDateTermByRoleAndType`), `FindOpen` (`getAndValidateOpenTerm`), and
  the write: `SaveCreate` inserts the row and closes the open one in a transaction,
  `SaveUpdate` has the four kinds of change of `getUpdateCase` (a request that changes
  nothing is refused), `SaveDelete` deletes the row and
  reopens the predecessor unless a signature (`ON DELETE RESTRICT`) forbids it.
* **Clock.** The dates are DATE columns read as midnights of UTC, `validateDto`
  compares with midnights of the server's zone (UTC-3): a phase of the clock is the
  part of a day in which the two agree or not. A term that has ended is one whose end
  has passed in UTC.
* **Clients.** `desk[d]` is a client and the request it has in flight. Whoever has an
  invitation, an access code or a second-factor code may send it at any time. Every
  query that something can come between is a step: `verify2FA` is `Verify` (the code),
  `ReadRoles`, `ReadTerms`, `ReadSignatures` and `Sign`; `validateAccessCode` and
  `signTerms` of a candidate are `OpenForm`, `ReadTerms`, `ReadSignatures`, `ReadRows`
  (the terms are read once more) and `Sign`; the login is `AskLogin`, `SendCode`, a
  resend `AskResend`, `SendCode`, the reset `Forgot`, `Reset`, `SaveReset`, an
  invitation `CreateUser`, `AskReinvite`, `SaveReinvite`.
* **Log-on.** `PostLogon` takes any list of terms, as the DTO does: terms never shown,
  signed before, to come, or not there (`Lists`). The hash is computed before
  `SaveLogon`. Its rows are kept apart, in `atLogon`, as a set: a log-on inserts one
  row for each element sent, even repeated, and no property bounds them.
* **Codes.** Of a second-factor code the model keeps the wrong attempts and whether it
  is older than its lifetime; whether a client types the right one is a choice. A code
  mailed for a login and one mailed for a reset are in one cache and open both.
* **History.** `raced` tells that an administrator wrote on reads that another had
  outdated, `stale` that something moved since the first query of a desk's request,
  `past` how often the last code of a user was tried since it was made, or that it is
  spent.
* **Left out.** Requests that only read (the terms on the page of a log-on), and what a
  reply shows: nothing is kept of it.

### Selection

* **Handlers.** `req[h]` is a request under way. `AskDistribution`,
  `ReadInterviewers`, `ReadCandidates`, then `AssignNext` once for each candidate and
  `EndCalculation` (`calculateDistribution` has no await, so nothing else moves
  meanwhile: `Calculating`), then `SaveDistribution`. The manual assignment, the
  decision, the rate and its update, the comment and the edit of the dates are each a
  check, where the code has one a second check, and a write.
* **Order of a distribution.** The code walks marital statuses in the order of its
  table, age groups within a status and candidates within a group, and gives each to
  the interviewer with the fewest candidates, by key, by group and in all. `Precedes`
  and `Prefers` are these orders; `Load` counts.
* **Score cron.** `StartScores` reads the unreviewed candidates, `ScoreOne` computes and
  `ApproveOne` writes, one candidate after the other; `ScoreFails` skips one or ends
  the run. `Stored` is the encryption of an answer: no stored value equals an option.
* **Dates.** `today` is a day of the server's zone. `Ended` is the end of a day
  (`parseEndDateFromDb`), `RatesEnded` the comparison with the DATE itself that refuses
  rates on the last day.
* **Begin.** Candidates enter as `Registration` leaves them, but for `Begun`, who were
  approved and assigned before. A form that was handed in (status 5) is one reason not
  to be distributed.

### Directory and Recipients

* **Edits.** A slot `request[r]` holds what was checked and not written: a form to
  create, update or delete (`validateCreateDto`, `validateUpdateDto`), a question whose
  kind changes (`validateUpdateQuestion`). `Accepted` has the checks as they are, among
  them that an update looks for the forms of the process whose number is that of the
  form. `raced` remembers that an edit was written which would no longer be accepted.
* **Import.** One transaction: `BeginImport` is its first query, from which on its plain
  reads are of that moment; `CommitImport` applies the whole file (`Imported`; `ImportAll` is
  what the transaction has after each of the lines) to the rows as they are then, because UPDATE and INSERT
  see what others committed. The update of a minister is one statement.
* **Run of the cron.** `StartRun` reads the forms, `ReadRows` the rows that wait and
  begins a cache if there is none, `CountPages`, `FetchPage` and `PutPage` are the loop
  of `loadMinisterialsCache`, one await each, `HandleRow` a row, `MarkUseless` and
  `EndRun` the end. `Broken` is the exception that ends a run and leaves the cache.
* **Ties.** The pages are ordered by the name alone: of ministers of one name each page
  orders them anew (`Orderings`).
* **Relation to FormLifecycle**, which has the statuses and codes of a row and lets a
  minister be found or not at will: `Recipients` is the inside of that choice, for
  rows whose candidate has answered and submitted.
* **Left out.** Unions, telephones, questions deleted while used (a foreign key
  forbids it), and the copy of a form (in `FormStructure`).

## Runs

| Run | Expected | What it shows |
| --- | --- | --- |
| `registration` | pass | two concurrent requests, cron, failures and restarts over two rows: mails go to the owner, candidates proved their address, copies of a person are bounded by the handlers in flight, tokens are lost only for the reasons the code has, and `Registration` implements `RegistrationPromise` |
| `registration_cleanup` | pass | under a fair clock and cron every row is removed |
| `double_registration` | violation | one person is inserted twice in a process |
| `form_lifecycle` | pass | two overlapping cron runs, a code holder, expiring codes and a fault: a linked form is mailed only after the submission that names its recipient, `MAILED` means mailed, the candidate's own code is known, before the last day only those are given up whom the submitted form has no address for, and `FormLifecycle` implements `FormPromise` |
| `form_handlers` | pass | two concurrent handlers beside a fair cron: only a stale step undoes a submission, and the cron reaches every form it should |
| `lost_code` | violation | the expired code of a referee's form is replaced by one nobody is sent |
| `answers` | pass | two concurrent requests on three forms: flags follow an answer given, duplicate rows are bounded by the requests in progress, a submitted form is complete unless an answer overtook the submission, writes are those `FormLifecycle` allows |
| `form_structure` | pass | two administrators' requests at once on two forms, with commits between what a transaction reads and what it writes: no rule is left with a link to what is not there or to another form, and the checks suffice to keep orders distinct and dependencies pointing back, unless a transaction works on places that are stale and but for the exceptions `ChecksSuffice` names |
| `sign_in` | pass | two administrators of terms, two desks, a user and a candidate, codes and a clock, each query a step: one open term of a role and type, terms in force are left alone, the signatures asked for are bounded by the desks, whoever is let in has signed, a code of the second factor opens one thing, and a completed log-on is only undone by a re-invitation that looked before |
| `selection` | pass | two requests beside the score cron over four candidates and two interviewers: a distribution is level at each step and when it is saved, rates are bounded by the requests, a refusal is only undone by a run that read the candidate before |
| `score_cron` | violation | the cron compares encrypted answers with options, and approves whom it should not |
| `recipients` | pass | two runs of the cron, two administrators: one active minister per field, an import puts nobody out of office without a successor, forms keep a question that fits, a run that began alone finds nobody who was not in office since, and the minister is mailed in the end |

**Bounds, and why they are enough.** `registration` has two handlers, two rows, two
orders and two addresses for one identity: every race in the code is between two
handlers (or a handler and the cron), a second order is what a double registration
takes, a second address what a wrong recipient takes, and a second row what
invalidation takes. `MaxPendings` is the only bound on a counter. The lifetimes are 0
ticks, and `Cooldown` is 1: each comparison still has both outcomes, and they are
ordered as the constants of the code are (`TokenTtl <= UnconfirmedAge`).
`registration_cleanup` uses a longer `UnconfirmedAge` and one row at a time, since
liveness is checked without symmetry. `form_lifecycle` has two runs and one holder,
`form_handlers` one run and two holders: the pairs that can interfere. Two rows are
the candidate's own form and one linked form, which is all the code distinguishes;
the ministerial form does everything a referee's does and may find no minister.
`MaxFaults` is 1 and `ExpiringCodes` lets the first mailed code of each row expire; a
third code behaves like the second. `answers` has two requests, since every race is
between two; three questions, which a chain of two links and a question with two
governors (its section's rule and its own) take; and `MaxAnswers` 4, enough to answer a
question, change the answer, answer a dependent and change again. Its forms differ in
who governs whom and between them use every test but "less than". `form_structure` has
two requests, a form and one to copy it to, and `Sizes`: two sections and two questions
ever inserted, or three sections, or three questions in one. A dependency takes two
rows, a race two requests that touch them, an order that a stale decrement makes equal
to another three rows; `MaxMissed` 1 lets one commit fall between the snapshot of a
transaction and its write, which with two requests is enough for each pair of edits;
`MaxOrder` 3 leaves room for a gap and for an order that is shifted. (A copied
conditional rule takes more rows than the run has: for it, and for any number of
requests, rows and missed commits, the properties are proved.)
`sign_in` has a user and a candidate, whose role has two types of term: of the first,
a term in force and its successor, which begins on the second day, of the second none,
and room for one more term; and the half days of two days (`LastPhase` 4). `MaxChanges`
2 bounds what administrators ask for and what desks ask for other than with a code or
a password, which are free: a race is between two requests, and a third party is the
clock. `Lists` has a log-on that sends the term in force and one that sends every id.
`MaxAttempts` is 1, so that the limit is met and passed.
`selection` has two marital keys, two age groups within one,
one candidate who handed in a form and was assigned before, three requests of which
two are under way at once, and days before, on and after each of the dates. Balance takes a second
round of the interviewers, hence three to distribute to two. `recipients` has two runs
of which one may overlap the other once, one fault, two requests of administrators,
pages of one minister, two fields, two names, and files that replace a minister, give
one a second field and clash in an acronym: half-filled caches take two pages, and a
cache that is taken away two runs.
Deadlock is checked in every run but these: in `answers` a submitted form takes no more
requests, in `form_structure` the ids, and in `sign_in`, `selection` and `score_cron`
the clock and the requests run out.

**Fairness.** `Registration!FairSpec` is weakly fair to `Tick` and to
`CleanUnconfirmed` (the schedule fires for ever) and strongly fair to
`CleanConfirmed`: a run may be killed or fail between its two deletes, though not
every time. `FormLifecycle!FairSpec` is weakly fair to every run's start and steps:
the schedule starts runs for ever and the event loop goes on with one in progress. No
client, handler, mail or day is assumed to make progress. Faults are bounded by
`MaxFaults`: if every run for ever failed, no form would be mailed.
`Recipients!FairSpec` has the same fairness, to the start of a run and to the steps of
each. Administrators and candidates need not move. Overlaps are bounded by
`MaxOverlaps`: the code does not keep a run from taking the cache of the one before it
away, time and again, and with such runs for ever the minister would not be mailed.
The other specifications state no fairness, since nothing but a client makes them go on.

## Disagreements the runs show

1. `double_registration`: the comment at `candidates.service.ts:352` names a "race
   condition" check, but the check and the insert are separate steps and no constraint
   backs the document. What does hold, and is proved, is
   `CopiesBoundedByConcurrency`.
2. `lost_code`: an expired code is replaced for every form and mailed for the
   candidate's own form only.
3. `score_cron`: the cron looks for the stored answer, which is encrypted with a random
   vector, among the options. None matches, every score is 0, and every unreviewed
   candidate of a process with a positive cutoff is approved, where the comments say
   the approval follows the score.

Met while reading, without a run of their own: an answer validated before a submission
is written after it, since the status is not looked at again, and can put the row back
from SUBMITTED to STARTED (`SubmissionUndoneOnlyByStale` says by whom only); the cron
compares the DATE of the last day with the current instant, so that on that day it gives
up forms that the handlers still accept; duplicate rows may leave a form that cannot be
submitted (answers go to one row, `submitForm` looks at another); an answer to a
question disabled meanwhile is still written; the address given in an answer is
refused when given again, because `validateAnswerWithEmailUniqueness` does not exclude
the form itself from the search; the README's "Gera novo token (invalida o anterior)"
and "Reseta o prazo de expiração" (resend reuses token and date), "Armazenado como
hash SHA256" and "Invalidado após uso" (neither is done), the cron filter "Candidatos
com termos assinados" (not implemented) and its names of the cron variables.

Of form building: `validateReorderData` compares a section's new order with the
*current* order of the section it depends on, so that with A, B (which depends on A)
and C the order C, B, A is accepted, and it does not look at the rules of questions at
all; the linked question of a question need not be in the linked section, not even in
the form, and a copy drops such a link; `QuestionsHelper.validateReorderData` refuses
a section whose questions have one order as an internal error, so also one with a
single question; creating a section skips the check of the question's kind that
updating it makes, and the kind of a linked question may change afterwards; a section
cannot be deleted while a question of its own is linked to it; `copySForm` neither
looks whether the target has sections nor whether it has answers, although questions
may not be added to a form with answers. The transactions that delete or renumber read
orders by plain SELECTs and use them after others may have committed: of the sections A
to E with the orders 1 to 5, the deletion of C reads 3, that of A commits and makes D
the third, and the deletion of C then decrements what is above 3, so that E is third as
well. Two deletions of one section, or of one question, which both pass their checks,
do the same to what is behind it (which the run finds when `RowCurrent` is left out of
the property). `ChecksSuffice` therefore asks, beside the checks,
that the row deleted has not moved (`RowCurrent`), and, where questions are numbered
through, that none of them has (`NumbersCurrent`). `updateSForm` looks for the other
forms of the process with the id of the form, so that a process may get a second form
of a type; `transformUpdateDto` removes the e-mail question that `validateUpdateDto`
requires of a ministerial form, whose rows are then never mailed; the kind of a question
for a field may change although a form uses it.

Of terms and users: an update of text and begin date finds the term itself as the future
one and is always refused; one of the begin date alone leaves the end of its
predecessor; during the day on which a predecessor ends no term is in force; a deletion
on the day before the begin does not reopen it; from 21:00 on a term may be created that
has begun in UTC; two creations at once leave two open terms (`OneOpenTerm` excludes
them by `raced`). Log-on lists and accepts terms that are to come, whose text may change
after it was signed, and checks neither the code again when it writes nor which terms
were sent: any array of ids that exist is stored, one row for each element, so that no
bound holds for these rows. Roles, terms and signatures are read one after the other at a
login, so that a role given between the first two lets a user in without its term
(`AdmittedHasSigned` excludes by `stale` what moved in between). A forgotten password gives an invited user a password without
log-on, and `verify2FA` does not look whether the user is active.

Of the selection: of the marital values of the form only "namorando" is a key of
`calculateDistribution`; COMPLETED (8) is never set, so only candidates whose forms were
all given up are distributed; a distribution overwrites assignments made by hand; a rate
of 0 is stored as NULL although the DTO admits it; rates are refused on the last day,
assignments are not. `updateFormEmail` and `getEditableMailForms` look for the answer in
the row of the linked form, where it is not, and refuse every edit.

Of ministers and the cron: an import ignores a minister whose name and data are known,
in whatever field and even if inactive, so that moving one to another field or taking
one back has no effect; a field matches by name *or* acronym in any union; a run that
ends removes the cache while another fills it, which then fails, and a page read
earlier may go into the cache of another run; pages ordered by a name that is not unique
may miss a minister.

## Proofs

TLAPS checks these for every value of the constants.

| Theorem | Statement |
| --- | --- |
| `TypeCorrect` | `Registration!Spec => []TypeOK` |
| `MailsAreSafe` | a confirmation link reaches only the address of its row |
| `CandidatesAreProven` | a candidate received the mail, confirmed, and carries the row's data |
| `CopiesAreBounded` | the copies of a person never outnumber the handlers |
| `WaitsAreHonest` | a token in its cooldown was delivered |
| `TokensAreKept` | an accepted token is lost only to its age or to a registration that listed its row |
| `RegistrationKeepsPromise` | `Registration` implements `RegistrationPromise` |
| `FlowTypeCorrect` | `FormLifecycle!Spec => []TypeOK` |
| `GivenUpAtTheEnd` | before the last day the cron gives up only linked forms whose question the submitted form has answered |
| `FormsKeepPromise` | `FormLifecycle` implements `FormPromise` |
| `LinkedMailIsDue` | no linked form is mailed before the submission that names its recipient |
| `LinkedMailedIsTrue` | a linked row recorded as mailed was mailed |
| `OwnCodeStaysKnown` | while nothing fails, the last code of a mailed own form is known or on its way |
| `UndoneOnlyByStale` | only a step under way that read the row before can undo a submission |
| `AnswersTypeCorrect` | `Answers!Spec => []TypeOK` |
| `FlagsFollow` | while rows are single, a question's flag is the one an answer it depends on calls for |
| `RowsAreBounded` | the rows of a question never outnumber the requests in progress |
| `SubmittedComplete` | a submitted form is complete unless an answer overtook the submission |
| `TypeCorrect` (of `FormStructure_proofs`) | `FormStructure!Spec => []TypeOK` |
| `SectionTargets` | a conditional rule of a section has both links, into its form and that section |
| `QuestionTargets` | no question is without section; rules of questions stay in their form |
| `ChecksAreEnough` | `FormStructure!Spec => ChecksSuffice`: an accepted edit on places that are not stale keeps orders distinct and rules pointing back |
| `TypeTheorem` (of `SignIn_proofs`) | `SignIn!Spec => []TypeOK`; a code never takes more attempts than the limit |
| `OneOpenTermTheorem`, `StartedIsFrozenTheorem` | without a race, one open term of a pair; what has begun keeps its pair, date and text |
| `SignedTermStaysTheorem` | a signed term is not deleted |
| `AdmittedHasSignedTheorem` | who is let in has signed, unless something moved since the first query of the request |
| `SignaturesTheorem` | the signatures that were asked for, of a term, never outnumber the desks |
| `CodesOpenOnceTheorem` | who goes on with a code is the first to use it, in its time and within its attempts |
| `DoneReopenedTheorem` | a completed log-on is undone only by a re-invitation that looked before |
| `TypeTheorem` (of `Selection_proofs`) | `Selection!Spec => []TypeOK` |
| `BalancedTheorem`, `SavedLevelTheorem` | a distribution is level, at every step and when it is saved |
| `AssignedTheorem`, `WritersTheorem` | who has an interviewer was decided on; rates and comments are by somebody who had the candidate |
| `RatesTheorem` | the rates of a key never outnumber the requests |
| `SubmittedTheorem`, `RefusalTheorem` | a distribution leaves who submitted alone; a refusal is only undone by a run that had read the candidate |
| `AloneFindsCurrentHolds` | a run that began alone finds only ministers active since it began |
| `RecipientQuestionFitsHolds` | without a race, a form keeps a question that fits its kind |
| `OneMinisterPerFieldHolds` | a field has at most one active minister besides those ticked by hand |
| `SuccessorsHold` | an import puts a minister out of office only for a successor it inserts in the field |
| `TypeCorrect` (of `Recipients_proofs`) | `Recipients!Spec => []TypeOK` |
| `WritesFollowFlow` | while rows are single, a transaction writes what `FormLifecycle` allows |

*Assumptions.* `RequestsAssumption` (finitely many handlers),
`ApplicationsAssumption`, `TimesAssumption` (the ages are naturals and a token does
not outlive its row), `RowsAssumption` (the source of addresses is one of the rows and
is the candidate's own form), `BoundsAssumption`; `FormsAssumption` (no rule tests the
answer to the question it governs), `ValuesAssumption`, `HandlersAssumption` and
`BoundAssumption` of `Answers`; `BoundsAreNatural` and `NoneIsNoId` of
`FormStructure`; `TermsAssumption` (the terms at first have at most one open one of a
pair, and one to come is open) and `SignInAssumption`; `PeopleAssumption` (finitely
many candidates, interviewers and handlers) and `DatesAssumption`;
`DirectoryAssumption` and `RecipientsAssumption` (the forms at first have questions
that fit). TLC evaluates them in the runs.

*Argument for Registration.* None of the invariants is inductive by itself, because a
handler acts on what it read some awaits ago. `Typed` adds that rows are numbered
without a gap and that a handler's token is a row already inserted. `Honest` says what
each handler in flight still knows: at the mail, that the row's address is the
request's (`FindExisting` checked it and a row never changes its address); at the
confirmation, that the mail had arrived; at the insert, that the row is confirmed and
is the application it carries. `Grows` (rows keep their application, confirmations and
mails stay) carries these facts over everyone else's steps. `Counted` adds the
finiteness that counting needs: a handler that enters `complete` found no copy, so
copies plus handlers at the insert are at most the handlers. The refinement maps
`InsertPending` to `Request`, mails to `Deliver`, `ConfirmPending` to `Prove`,
`InsertCandidate` to `Register`, everything else to a stutter.

*Argument for FormLifecycle.* `FlowInv` says what a run carries (`RunHonest`: from
`rotate` on, the source was submitted and the link is given; at `markLinked`, its mail
left) and that a handler serves a row of which somebody holds a code
(`HolderHonest`). `Justified` classifies how a step may change a status or send a
mail; `Grows` again carries the facts over the other steps. `CodeInv`, for
`OwnCodeIsKnown`, says that whoever was sent a code of a row has the last one or a
handler is about to send it (`Resending`), and that as long as nobody was sent one, the
runs that have the row in hand carry its first and only code: only a person who holds a
code makes it be replaced.

`EndInv`, for `GivenUpOnlyAtTheEnd`, says why a run gives a row up: it put the row aside
for the end of the period, and then the last day had come when it started, or it is
about to find that the answer holds no usable address, and then the row is a linked form
whose question the submitted form answers. Such a reason lasts, since the day never goes
back, submissions are recorded for good and an answer never becomes absent
(`AnswersStay`), so it still holds when `MarkUseless` writes, however late. `FillInv`,
for the promise, says that a submission whose answers were checked still finds them:
while a handler is at `FinishSubmit` for the source, no e-mail question of it is without
an answer (that somebody holds a code of the form is `HolderHonest`). The refinement maps `asked` to the forms in
`mailed`, `entry` to the values of the answers and `handedIn` to the history of
submissions: a mail is `Ask`, `WriteAnswer` is `FillIn`, `FinishSubmit` is `HandIn`,
everything else, also a status written back by a stale run, is a stutter.

*Argument for Answers.* `Typed` adds to the types that the rows a request refers to
exist (`Bound`); rows are added and changed, never removed (`KnownLasts`). What a
transaction does is stated once (`CommitWrites`, and `CommitFirstRows` while rows are
single), on top of what `Answer` and `Enable` do to the rows of one question. Given
`Typed`, `FlagsFollowAnswers` is inductive: a commit either sets the flag by the very
answer it writes, or leaves the flag and the answers that govern it alone.
`RowsAreBounded` rests on `AddingAfter`: a request that starts to add a row found none,
and one that adds it is done. `SubmittedComplete` needs `Checked`: what a submission
under way has checked is still complete unless an answer came.

*Argument for FormStructure.* The rules alone are not inductive: a request checked
long ago is about to write its links. `EditsTraceable` says what such an edit still
knows: its links were handed out ids before, and if a row with that id is still there
it is in the form and section where the check found it. That holds because ids are
never used again and no row changes its place (`PlacesKept`, `TraceableKept`); that
the row *is* still there is what the foreign key asks at the write. A write then
either adds rows and leaves what rules are linked to alone (`TablesGrow`), removes a
set closed under the cascades (`TablesShrink`, with `TakenClosed`), or copies a form
with its links mapped (`CopyFormTables`). `ChecksAreEnough` adds one lemma per write:
what the write does to the orders, as plain facts about rows (`CreateSectionOrders`,
`DeleteSectionOrders` and so on), and that it keeps the order of any two rows it does
not renumber. The reorder of the questions of a section is the one that counts: its
new orders reach no further than the old ones did, because that many different orders
from the first one on must reach at least as far (`OrdersReach`, the pigeonhole), so
that questions of other sections stay before or behind. For the edits that read first,
`ReadsRemembered` says what a snapshot still is when it is used, however many commits
it has missed: rows that were there, of the form, section and ids of the edit. That is
enough for the rules. What it says of orders is true of the rows only under
`RowCurrent` and `NumbersCurrent` (`SeenNumbers`), which the property assumes.

*Argument for Terms and SignIn.* `TermInv` says of each administrator's request that,
unless it is marked stale, what it read still is: the term it is about
(`FreshTarget`), the last one (`FreshLast`) and the open one (`FreshOpen`), and that a
term to come is open (`FutureIsOpen`). A write on fresh reads then closes the
only open term before it opens another, or reopens the one that the deleted term had
closed; a write on stale ones sets `raced`. `SignInv` is the strengthening for the desks.
`SignaturesCounted`: from the first signature of a term on, its signatures and the
desks at `ReadRows` or `Sign` that found it unsigned (`Holders`) are never more than the
desks, because no further desk comes to find it unsigned; `SignedTermStays`: a signed
term is there, so it stays signed. `Fresh` says of a request that is not marked stale
what it has read so far and is still so: the roles, then that the terms due are in its
list, then that each of them is signed or in the list. Each query takes this a step
further, and whatever could make it false (`Outdate`) marks the request. `Counted` says
that the attempts of a live code are those `past` has counted. `Placed` says who can be
at which step.

*Argument for Selection.* `Dealt` is the invariant of the loop of
`calculateDistribution`: the interviewers take turns (`Turn`), so of the candidates of
any status or group, which lie next to each other in the order (`Window`), each has
had the same number, or one more (`InsideIsLevel`). That the loop only balances the
innermost of its three counts is enough for this reason. `RequestOK` keeps what a request
under way still knows: the candidate was decided on (`Reviewed`: no decision is ever
taken back to none), the interviewer had the candidate (`Entitled`, in the past tense).
`RatesCounted` is the counting argument of `CopiesAreBounded`.

*Argument for Recipients.* `RunsInv`: at most one run began alone; between runs that
ended well nothing is cached (`EmptyBetween`), so that a run which begins alone finds no
cache, and whatever is put into one afterwards, by whichever run, was read since
(`PagesCurrent`). `FormsInv` adds the shapes of the tables of forms and kinds. For the
ministers, `DirectoryInv` and `CronTyped` add the types of the tables, of the requests
under way (`ImportShape`: what a transaction read is a part of the rows there are) and
of the cache. The import is a recursive function over the lines of a file of any length.
That the function exists, and that what holds before the first line and is kept by each
line holds after the last, is proved by induction from the least element of a set of
naturals (`LeastNumber`, from the library's well-foundedness of the order). Each line
keeps `Good` (ids without a gap, one active minister of a field but for those ticked)
and `Succeeded` (who has gone since the transaction began has an active successor among
the new rows); two imports at once do not break this, because the second one replaces
whomever it finds when it writes, not whomever it read.

*Only model-checked.* The liveness properties `RowsAreForgotten`, `OwnFormIsHandled`,
`LinkedFormIsHandled` and `MinisterIsMailed`: liveness under fairness is out of this
prover's reach. Every invariant, action property and refinement of the runs that are
expected to pass is also proved.

*Only proved.* The type invariants of `Registration`, `FormLifecycle`, `Answers` and
`SignIn`, `SignedTermStays`, `AssignedWasReviewed`, `WritersWereAssigned` and
`SubmittedOnlyByHand` hold for all constants and are not properties of a run.

## Not modelled

* The display of forms and lists (`buildFormToAnswer`, `findAll...`): they only read.
* `updateFormEmail`: it refuses (see above), so it changes nothing.
* Options, validations, scores and sub-questions of a question: rewritten with the
  question in one transaction and linked to nothing else; that a value fails a
  validation is a refusal in `Answers`.
* `updatePassword` and `updateOwnUser`: one statement on the row of whoever is logged in.
* Creation and deletion of processes and the unions of fields: one statement, or a
  group that nothing looks at.
* The cached tokens of the order API and of SendPulse: a request with a token that has
  just expired fails like any other failed call, which the models have.
* Encryption, logging, paging, templates, HTTP routing and DTO validation: formatting
  and I/O, or refusals.

## Plan

What is left, in order of what it would add:

1. Abstract specifications for the sign-in (who is let in has signed what was in force)
   and the selection (a decision, an interviewer, a rate), with their refinements.
2. `FormLifecycle` with the ministers of `Recipients` in place of its choice, and the
   refinement that shows the choice to be all that is needed.
3. The display rules of `Answers` against a reference definition over bounded lists.
4. `ApiTokens`: the two token caches, with a call that starts before and ends after the
   token's end.
