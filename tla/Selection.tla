------------------------------ MODULE Selection ------------------------------
(***************************************************************************)
(* From the end of the answers to the end of a selection process: who is   *)
(* approved (by a reviewer or by the nightly score run), which interviewer *)
(* each candidate has (given by the distribution or by hand), and what the *)
(* interviewers write (rates of a question area, comments on answers).     *)
(* Sources: src/src/candidates, src/src/rates, src/src/processes.          *)
(*                                                                         *)
(* A handler takes one step per await, so what it read may be old when it  *)
(* writes.  calculateDistribution has no await: while it runs nothing else *)
(* does (Calculating).  A day of the clock is a day of the server's zone.  *)
(***************************************************************************)
EXTENDS Integers, Sequences, FiniteSets, FiniteSetsExt

CONSTANTS
    Candidates,     \* the candidates of the process
    Interviewers,   \* the users with the role INTERV
    NoUser,         \* NULL in a column that holds a user
    Areas,          \* the question areas
    Begun,          \* the candidates approved and assigned at the start
    Handlers,       \* request slots: how many handlers may be in flight
    Marital, Age,   \* what Candidates stores: status, years since the birth
    Statuses,       \* the statuses of the candidate's FormsCandidates rows
    Questions,      \* the scored questions
    Answer,         \* what the candidate answered to each of them
    NoAnswer,
    OptionScores,   \* QuestionScores.optionScoresJson of each question
    Cutoff,         \* Processes.cutoffScore
    Notes,          \* the values a rate may have
    Dates,          \* the days a process may be given
    LastDay,        \* bound on the clock
    MaxRequests     \* bound on the requests served

ASSUME PeopleAssumption ==
    /\ IsFiniteSet(Candidates)
    /\ IsFiniteSet(Interviewers)
    /\ IsFiniteSet(Handlers)
    /\ Begun \subseteq Candidates
    /\ NoUser \notin Interviewers
    /\ Age \in [Candidates -> Nat]
    /\ Statuses \in [Candidates -> SUBSET Nat]

ASSUME DatesAssumption ==
    /\ LastDay \in Nat
    /\ MaxRequests \in Nat
    /\ Dates \subseteq 0..LastDay
    /\ Dates # {}

VARIABLES
    today,
    process,      \* processEndAnswers and processEndDate
    active,       \* the interviewers whose user and role are active
    approved,     \* Candidates.approved
    interviewer,  \* Candidates.interviewUserId
    rates,        \* table Rates
    comment,      \* who wrote the comment on the candidate's answer
    req,          \* the handlers in flight
    cron,         \* calculateCandidatesScores
    served,       \* requests accepted so far
    assignees     \* history: the interviewers each candidate ever had

vars == <<today, process, active, approved, interviewer, rates, comment, req,
          cron, served, assignees>>
records == <<active, approved, interviewer, rates, comment, assignees>>

Users == Interviewers \cup {NoUser}
Unreviewed == "null"
Approvals == {Unreviewed, "true", "false"}
NoNote == -1
Rate == [cand : Candidates, user : Interviewers, area : Areas,
         note : Notes \cup {NoNote}]

------------------------------------------------------------------------------
(* calculateDistribution *)

MaritalKeys == <<"casado", "solteiro", "noivo", "namorando", "divorciado",
                 "viuvo", "indefinido">>

\* A status that is not a key, and NULL, count as "indefinido".
MaritalKey(c) ==
    IF \E k \in 1..7 : MaritalKeys[k] = Marital[c]
    THEN CHOOSE k \in 1..7 : MaritalKeys[k] = Marital[c]
    ELSE 7
AgeGroup(c) == IF Age[c] < 24 THEN 1 ELSE IF Age[c] < 30 THEN 2 ELSE 3

\* The loops take the marital statuses in order and the ages within each.
Precedes(c, d) ==
    \/ MaritalKey(c) < MaritalKey(d)
    \/ MaritalKey(c) = MaritalKey(d) /\ AgeGroup(c) < AgeGroup(d)
SameStatus(c) == {d \in Candidates : MaritalKey(d) = MaritalKey(c)}
SameGroup(c) == {d \in SameStatus(c) : AgeGroup(d) = AgeGroup(c)}

\* given[c] is the place in the list of interviewers that c goes to, 0 before.
Load(given, i, C) == Cardinality({c \in C : given[c] = i})

\* The reduce keeps the earlier of two interviewers that are level.
\* Mutant: the totals are not looked at.
PrefersInGroup(given, c, i, j) ==
    LET group(k) == Load(given, k, SameGroup(c))
    IN  \/ group(i) < group(j)
        \/ group(i) = group(j) /\ i <= j
Prefers(given, c, i, j) ==
    LET group(k) == Load(given, k, SameGroup(c))
        total(k) == Load(given, k, Candidates)
    IN  \/ group(i) < group(j)
        \/ group(i) = group(j) /\ total(i) < total(j)
        \/ group(i) = group(j) /\ total(i) = total(j) /\ i <= j

------------------------------------------------------------------------------
(* Handlers *)

Orders(S) == {s \in [1..Cardinality(S) -> S] :
                 \A i, j \in DOMAIN s : s[i] = s[j] => i = j}
Idle == [pc |-> "idle"]
At(h, pc) == req[h].pc = pc
Goto(h, r) == req' = [req EXCEPT ![h] = r]
Calculating == \E h \in Handlers : At(h, "calculate")

\* A request arrives in a free slot.
Accept(h) ==
    /\ At(h, "idle")
    /\ served < MaxRequests
    /\ served' = served + 1
    /\ UNCHANGED <<today, cron>>
\* A request goes on, and touches no table.
Step(h, pc) ==
    /\ At(h, pc)
    /\ UNCHANGED <<today, process, cron, served, records>>
\* A request writes and ends.
Finish(h, pc) ==
    /\ At(h, pc)
    /\ Goto(h, Idle)
    /\ UNCHANGED <<today, cron, served>>
Refuse(h) == Goto(h, Idle)

\* The end dates hold to the end of their day (parseEndDateFromDb) ...
Ended == today > process.end
\* ... but the rates read the DATE as an instant, which is the day before here.
RatesEnded == today > process.end - 1

(* distributeInterviewers *)
AskDistribution(h) ==
    /\ Accept(h)
    /\ ~Ended
    /\ process.answers < today
    /\ Goto(h, [pc |-> "crowd"])
    /\ UNCHANGED <<process, records>>

ReadInterviewers(h) ==
    /\ Step(h, "crowd")
    /\ IF active = {} THEN Refuse(h)
       ELSE \E s \in Orders(active) : Goto(h, [pc |-> "list", crowd |-> s])

\* No form open or submitted: 0 is UNUSEFULL, 8 is COMPLETED.
Distributable ==
    {c \in Candidates : approved[c] = "true" /\ Statuses[c] \subseteq {0, 8}}

ReadCandidates(h) ==
    /\ Step(h, "list")
    /\ IF Distributable = {} THEN Refuse(h)
       ELSE Goto(h, [pc |-> "calculate", crowd |-> req[h].crowd,
                     list |-> Distributable,
                     given |-> [c \in Candidates |-> 0]])

AssignNext(h) ==
    /\ Step(h, "calculate")
    /\ LET r == req[h]
           left == {c \in r.list : r.given[c] = 0}
       IN  \E c \in left, i \in DOMAIN r.crowd :
              /\ \A d \in left : ~Precedes(d, c)
              /\ \A j \in DOMAIN r.crowd : Prefers(r.given, c, i, j)
              /\ Goto(h, [r EXCEPT !.given = [@ EXCEPT ![c] = i]])

EndCalculation(h) ==
    /\ Step(h, "calculate")
    /\ \A c \in req[h].list : req[h].given[c] # 0
    /\ Goto(h, [req[h] EXCEPT !.pc = "save"])

\* Mutant: who has an interviewer keeps that one.
GiveToTheFree(who) ==
    /\ interviewer' = [c \in Candidates |->
                          IF c \in DOMAIN who /\ interviewer[c] = NoUser
                          THEN who[c] ELSE interviewer[c]]
    /\ assignees' = [c \in Candidates |->
                        assignees[c] \cup ({interviewer'[c]} \ {NoUser})]
GiveInterviewers(who) ==
    /\ interviewer' = [c \in Candidates |->
                          IF c \in DOMAIN who THEN who[c] ELSE interviewer[c]]
    /\ assignees' = [c \in Candidates |->
                        assignees[c] \cup ({interviewer'[c]} \ {NoUser})]

\* One transaction, which looks at nothing again.
SaveDistribution(h) ==
    /\ Finish(h, "save")
    /\ GiveInterviewers([c \in req[h].list |-> req[h].crowd[req[h].given[c]]])
    /\ UNCHANGED <<process, active, approved, rates, comment>>

(* assignInterviewerToCandidate *)
AskAssignment(h) ==
    /\ Accept(h)
    /\ ~Ended
    /\ \E u \in Interviewers, c \in Candidates :
          /\ approved[c] = "true"
          /\ Goto(h, [pc |-> "assignable", user |-> u, cand |-> c])
    /\ UNCHANGED <<process, records>>

CheckInterviewer(h) ==
    /\ Step(h, "assignable")
    /\ IF req[h].user \in active THEN Goto(h, [req[h] EXCEPT !.pc = "assign"])
       ELSE Refuse(h)

SaveAssignment(h) ==
    /\ Finish(h, "assign")
    /\ GiveInterviewers([c \in {req[h].cand} |-> req[h].user])
    /\ UNCHANGED <<process, active, approved, rates, comment>>

(* updateCandidateApproval *)
AskApproval(h) ==
    /\ Accept(h)
    /\ ~Ended
    /\ \E c \in Candidates, v \in {"true", "false"} :
          Goto(h, [pc |-> "approve", cand |-> c, to |-> v])
    /\ UNCHANGED <<process, records>>

SaveApproval(h) ==
    /\ Finish(h, "approve")
    /\ approved' = [approved EXCEPT ![req[h].cand] = req[h].to]
    /\ UNCHANGED <<process, active, interviewer, rates, comment, assignees>>

(* createRate: isCandidateAssignedToInterviewer, the dates, findExistingRate *)
AskRate(h) ==
    /\ Accept(h)
    /\ \E c \in Candidates, u \in Interviewers, a \in Areas, n \in Notes :
          /\ interviewer[c] = u
          /\ Goto(h, [pc |-> "rateable", cand |-> c, user |-> u, area |-> a,
                      note |-> n])
    /\ UNCHANGED <<process, records>>

CheckRateDate(h) ==
    /\ Step(h, "rateable")
    /\ IF RatesEnded THEN Refuse(h)
       ELSE Goto(h, [req[h] EXCEPT !.pc = "rateNew"])

SameRate(r, s) == r.cand = s.cand /\ r.user = s.user /\ r.area = s.area

\* Mutant: a rate is the same only with the same note.
FindSameNote(h) ==
    /\ Step(h, "rateNew")
    /\ IF \E i \in DOMAIN rates : /\ SameRate(rates[i], req[h])
                                   /\ rates[i].note = req[h].note
       THEN Refuse(h)
       ELSE Goto(h, [req[h] EXCEPT !.pc = "rate"])
FindExistingRate(h) ==
    /\ Step(h, "rateNew")
    /\ IF \E i \in DOMAIN rates : SameRate(rates[i], req[h]) THEN Refuse(h)
       ELSE Goto(h, [req[h] EXCEPT !.pc = "rate"])

\* `rateValue || null': a rate of 0 is stored as none.
NewRate(r) == [cand |-> r.cand, user |-> r.user, area |-> r.area,
               note |-> IF r.note = 0 THEN NoNote ELSE r.note]

InsertRate(h) ==
    /\ Finish(h, "rate")
    /\ rates' = Append(rates, NewRate(req[h]))
    /\ UNCHANGED <<process, active, approved, interviewer, comment, assignees>>

(* updateRate: the rate's own interviewer, assigned or not any more *)
AskRateUpdate(h) ==
    /\ Accept(h)
    /\ \E i \in DOMAIN rates, n \in Notes :
          Goto(h, [pc |-> "rateUpdate", row |-> i, note |-> n])
    /\ UNCHANGED <<process, records>>

CheckUpdateDate(h) ==
    /\ Step(h, "rateUpdate")
    /\ IF RatesEnded THEN Refuse(h)
       ELSE Goto(h, [req[h] EXCEPT !.pc = "rateSave"])

UpdateRate(h) ==
    /\ Finish(h, "rateSave")
    /\ rates' = [rates EXCEPT ![req[h].row] = [@ EXCEPT !.note = req[h].note]]
    /\ UNCHANGED <<process, active, approved, interviewer, comment, assignees>>

(* updateAnswerComment *)
AskComment(h) ==
    /\ Accept(h)
    /\ \E c \in Candidates, u \in Interviewers :
          /\ interviewer[c] = u
          /\ Goto(h, [pc |-> "comment", cand |-> c, user |-> u])
    /\ UNCHANGED <<process, records>>

SaveComment(h) ==
    /\ Finish(h, "comment")
    /\ comment' = [comment EXCEPT ![req[h].cand] = req[h].user]
    /\ UNCHANGED <<process, active, approved, interviewer, rates, assignees>>

(* updateProcess *)
\* Mutant: without validateDto.
AskAnyDates(h) ==
    /\ Accept(h)
    /\ ~Ended
    /\ \E a, e \in Dates :
          Goto(h, [pc |-> "process", answers |-> a, end |-> e])
    /\ UNCHANGED <<process, records>>
AskProcess(h) ==
    /\ Accept(h)
    /\ ~Ended
    /\ \E a, e \in Dates :
          /\ a <= e
          /\ Goto(h, [pc |-> "process", answers |-> a, end |-> e])
    /\ UNCHANGED <<process, records>>

SaveProcess(h) ==
    /\ Finish(h, "process")
    /\ process' = [answers |-> req[h].answers, end |-> req[h].end]
    /\ UNCHANGED records

\* updateUser in one transaction: an interviewer comes or goes.
UpdateUser(h) ==
    /\ Accept(h)
    /\ \E u \in Interviewers :
          active' = IF u \in active THEN active \ {u} ELSE active \cup {u}
    /\ UNCHANGED <<process, approved, interviewer, rates, comment, req,
                   assignees>>

------------------------------------------------------------------------------
(* calculateCandidatesScores *)

Asleep == [pc |-> "idle", todo |-> {}]

\* Answers are stored as initialisation vector and ciphertext, and read so.
Stored(value) == IF value = NoAnswer THEN NoAnswer ELSE <<"iv", value>>
StoredAnswers(c) == [q \in Questions |-> Stored(Answer[c][q])]
OptionScore(q, value) ==
    IF value \in DOMAIN OptionScores[q] THEN OptionScores[q][value] ELSE 0
Score(answers) ==
    MapThenSumSet(LAMBDA q : OptionScore(q, answers[q]), Questions)

\* The rows come in the order of the table, whatever it is.
First(todo) == CHOOSE c \in todo : TRUE

\* Mutant: all that are not approved.
StartWithRefused ==
    /\ cron = Asleep
    /\ process.answers < today
    /\ process.end >= today
    /\ cron' = [pc |-> "score",
                todo |-> {c \in Candidates : approved[c] # "true"}]
    /\ UNCHANGED <<today, process, req, served, records>>
StartScores ==
    /\ cron = Asleep
    /\ process.answers < today
    /\ process.end >= today
    /\ cron' = [pc |-> "score",
                todo |-> {c \in Candidates : approved[c] = Unreviewed}]
    /\ UNCHANGED <<today, process, req, served, records>>

\* The score of one candidate, from rows nobody writes any more.
ScoreOne ==
    /\ cron.pc = "score"
    /\ cron.todo # {}
    /\ cron' = LET c == First(cron.todo)
               IN  IF Score(StoredAnswers(c)) < Cutoff
                   THEN [pc |-> "approve", todo |-> cron.todo, cand |-> c]
                   ELSE [pc |-> "score", todo |-> cron.todo \ {c}]
    /\ UNCHANGED <<today, process, req, served, records>>

ApproveOne ==
    /\ cron.pc = "approve"
    /\ approved' = [approved EXCEPT ![cron.cand] = "true"]
    /\ cron' = [pc |-> "score", todo |-> cron.todo \ {cron.cand}]
    /\ UNCHANGED <<today, process, active, interviewer, rates, comment, req,
                   served, assignees>>

\* A query fails for one candidate, which the run leaves out.
ScoreFails ==
    /\ cron.todo # {}
    /\ cron' = [pc |-> "score", todo |-> cron.todo \ {First(cron.todo)}]
    /\ UNCHANGED <<today, process, req, served, records>>

EndScores ==
    /\ cron.pc = "score"
    /\ cron.todo = {}
    /\ cron' = Asleep
    /\ UNCHANGED <<today, process, req, served, records>>

Tick ==
    /\ today < LastDay
    /\ today' = today + 1
    /\ UNCHANGED <<process, req, cron, served, records>>

------------------------------------------------------------------------------
BegunWith(u) ==
    /\ interviewer = [c \in Candidates |-> IF c \in Begun THEN u ELSE NoUser]
    /\ assignees = [c \in Candidates |-> IF c \in Begun THEN {u} ELSE {}]
Init ==
    /\ today = 0
    /\ process \in {[answers |-> a, end |-> e] : a, e \in Dates}
    /\ process.answers <= process.end
    /\ active = Interviewers
    /\ approved = [c \in Candidates |->
                      IF c \in Begun THEN "true" ELSE Unreviewed]
    /\ \E u \in Interviewers : BegunWith(u)
    /\ rates = <<>>
    /\ comment = [c \in Candidates |-> NoUser]
    /\ req = [h \in Handlers |-> Idle]
    /\ cron = Asleep
    /\ served = 0

Handle(h) ==
    \/ AskDistribution(h) \/ ReadInterviewers(h) \/ ReadCandidates(h)
    \/ SaveDistribution(h)
    \/ AskAssignment(h) \/ CheckInterviewer(h) \/ SaveAssignment(h)
    \/ AskApproval(h) \/ SaveApproval(h)
    \/ AskRate(h) \/ CheckRateDate(h) \/ FindExistingRate(h) \/ InsertRate(h)
    \/ AskRateUpdate(h) \/ CheckUpdateDate(h) \/ UpdateRate(h)
    \/ AskComment(h) \/ SaveComment(h)
    \/ AskProcess(h) \/ SaveProcess(h)
    \/ UpdateUser(h)
Cron == StartScores \/ ScoreOne \/ ApproveOne \/ ScoreFails \/ EndScores

Next ==
    \/ \E h \in Handlers : AssignNext(h) \/ EndCalculation(h)
    \/ ~Calculating /\ (Tick \/ Cron \/ \E h \in Handlers : Handle(h))

Spec == Init /\ [][Next]_vars

------------------------------------------------------------------------------
(* Properties *)

Crowds == UNION {Orders(S) : S \in (SUBSET Interviewers) \ {{}}}
Requests ==
    [pc : {"idle", "crowd"}]
    \cup [pc : {"list"}, crowd : Crowds]
    \cup [pc : {"calculate", "save"},
          crowd : Crowds,
          list : SUBSET Candidates,
          given : [Candidates -> 0..Cardinality(Interviewers)]]
    \cup [pc : {"assignable", "assign", "comment"},
          user : Interviewers, cand : Candidates]
    \cup [pc : {"approve"}, cand : Candidates, to : {"true", "false"}]
    \cup [pc : {"rateable", "rateNew", "rate"}, cand : Candidates,
          user : Interviewers, area : Areas, note : Notes]
    \cup [pc : {"rateUpdate", "rateSave"}, row : DOMAIN rates, note : Notes]
    \cup [pc : {"process"}, answers : Dates, end : Dates]

\* The shape of the state.
TypeOK ==
    /\ today \in 0..LastDay
    /\ process \in [answers : Dates, end : Dates]
    /\ process.answers <= process.end
    /\ active \subseteq Interviewers
    /\ approved \in [Candidates -> Approvals]
    /\ interviewer \in [Candidates -> Users]
    /\ rates \in Seq(Rate)
    /\ comment \in [Candidates -> Users]
    /\ req \in [Handlers -> Requests]
    /\ cron \in [pc : {"idle", "score"}, todo : SUBSET Candidates]
                \cup [pc : {"approve"}, todo : SUBSET Candidates,
                      cand : Candidates]
    /\ served \in 0..MaxRequests
    /\ assignees \in [Candidates -> SUBSET Interviewers]

\* Whatever prefix of the candidates has been given out, no two interviewers
\* differ by more than one in their candidates, in those of one marital status
\* and in those of one status and age: "Prioriza distribuicao equitativa de
\* estado civil, seguida de faixa etaria", though the loop balances only the
\* last of the three (calculateDistribution).
Distributing(h) == At(h, "calculate") \/ At(h, "save")
Level(r, C) ==
    \A i, j \in DOMAIN r.crowd : Load(r.given, i, C) <= Load(r.given, j, C) + 1
Balanced ==
    \A h \in Handlers : Distributing(h) =>
       /\ Level(req[h], Candidates)
       /\ \A c \in Candidates : /\ Level(req[h], SameStatus(c))
                                /\ Level(req[h], SameGroup(c))

\* A candidate has an interviewer only after a decision on the candidate, even
\* if the approval was withdrawn between the check and the write of the
\* assignment (assignInterviewerToCandidate, distributeInterviewers).
AssignedWasReviewed ==
    \A c \in Candidates :
       interviewer[c] # NoUser => approved[c] # Unreviewed

\* What is written on a candidate was written by somebody who had the
\* candidate: the check of createRate and updateAnswerComment holds at the
\* write in the past tense, whatever the distributions in between.
WritersWereAssigned ==
    /\ \A i \in DOMAIN rates : rates[i].user \in assignees[rates[i].cand]
    /\ \A c \in Candidates :
          comment[c] # NoUser => comment[c] \in assignees[c]

\* A candidate, interviewer and area have one rate, and one more for each
\* further request that had looked before the first insert (createRate).
RatesBoundedByConcurrency ==
    \A i \in DOMAIN rates :
       Cardinality({j \in DOMAIN rates : SameRate(rates[i], rates[j])})
          <= Cardinality(Handlers)

\* A distribution touches nobody who handed in a form or whose form is open:
\* only forms given up (0) and COMPLETED ones (8) count.
SubmittedOnlyByHand ==
    [][\A c \in Candidates :
          (5 \in Statuses[c] /\ interviewer'[c] # interviewer[c]) =>
             \E h \in Handlers : At(h, "assign") /\ req[h].cand = c]_vars

\* When a distribution is saved the table itself is level over its candidates:
\* no row of another distribution survives among them (SaveDistribution).
Holds(u, C) == Cardinality({c \in C : interviewer'[c] = u})
SavedLevel ==
    [][\A h \in Handlers : At(h, "save") /\ req'[h] = Idle =>
          LET crowd == {req[h].crowd[i] : i \in DOMAIN req[h].crowd}
          IN  /\ \A c \in req[h].list : interviewer'[c] \in crowd
              /\ \A u, v \in crowd :
                    Holds(u, req[h].list) <= Holds(v, req[h].list) + 1]_vars

\* The nightly run undoes a refusal only if it had read the candidate before the
\* refusal was written (processScoreCalculation).
RefusalUndoneOnlyInFlight ==
    [][/\ \A c \in cron'.todo \ cron.todo : approved[c] = Unreviewed
       /\ \A c \in Candidates :
             approved[c] = "false" /\ approved'[c] = "true" =>
                \/ c \in cron.todo
                \/ \E h \in Handlers : At(h, "approve") /\ req[h].cand = c]_vars

\* The run approves the candidates whose answers score below the cutoff:
\* "Atualizar approved baseado no score total".
CronApprovesBelowCutoff ==
    [][ApproveOne => Score(Answer[cron.cand]) < Cutoff]_vars
=============================================================================
