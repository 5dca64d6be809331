---------------------------- MODULE Registration ----------------------------
(***************************************************************************)
(* Self-registration of a candidate: PendingCandidates rows, confirmation  *)
(* tokens, the mail cooldown map, the clean-up cron and the insertion into *)
(* Candidates (src/src/candidates).                                        *)
(*                                                                         *)
(* Every HTTP handler is a request slot that takes one step per await that *)
(* touches shared state, so the handlers of concurrent requests, the cron  *)
(* and the clock interleave as they do on the Node event loop.  Time is    *)
(* kept as ages: every timestamp of the code is the number of ticks since  *)
(* it was taken, saturating at MaxAge, which no comparison tells apart.    *)
(*                                                                         *)
(* A token is the row it was generated for: 32 random bytes in a UNIQUE    *)
(* column.  An "identity" is the pair (processId, uniqueDocument), the key *)
(* candidateExistsInProcess looks up.                                      *)
(***************************************************************************)
EXTENDS Integers, FiniteSets

CONSTANTS
    Requests,       \* request slots: how many handlers may be in flight
    Orders, Identities, Emails,
    Applications,   \* the bodies of POST /candidates/self-register
    NoApp,          \* no application
    MaxPendings,    \* bound on the rows ever inserted in PendingCandidates
    Cooldown,       \* confirmationEmailCooldownMs
    TokenTtl,       \* CONFIRMATION_TOKEN_EXPIRATION
    UnconfirmedAge, \* CLEANUP_UNCONFIRMED_PENDINGS_AFTER
    ConfirmedAge    \* CLEANUP_CONFIRMED_PENDINGS_AFTER

ASSUME RequestsAssumption == IsFiniteSet(Requests)

ASSUME ApplicationsAssumption ==
    /\ Applications \subseteq
          [order : Orders, identity : Identities, email : Emails]
    /\ NoApp \notin Applications

ASSUME TimesAssumption ==
    /\ MaxPendings \in Nat
    /\ Cooldown \in Nat
    /\ TokenTtl \in Nat
    /\ UnconfirmedAge \in Nat
    /\ ConfirmedAge \in Nat
    /\ TokenTtl <= UnconfirmedAge

VARIABLES
    pending,    \* table PendingCandidates
    lastId,     \* its AUTO_INCREMENT counter
    candidates, \* table Candidates (with the FormsCandidates rows of its trx)
    sentAge,    \* confirmationEmailLastSentByToken; Cooldown: no entry
    inbox,      \* the confirmation mails that reached an address
    req,        \* the handlers in flight
    cron        \* cleanExpiredPendingCandidates between its two deletes

vars == <<pending, lastId, candidates, sentAge, inbox, req, cron>>

PendingIds == 1..MaxPendings
Max2(a, b) == IF a >= b THEN a ELSE b
MaxAge == Max2(UnconfirmedAge, ConfirmedAge) + 1
Older(age) == IF age < MaxAge THEN age + 1 ELSE age
Unconfirmed == -1

PendingRow ==
    [state : {"unused", "stored", "deleted"}, app : Applications \cup {NoApp},
     age : 0..MaxAge, confirmed : -1..MaxAge, invalidated : BOOLEAN]
NewRow(s, a) == [state |-> s, app |-> a, age |-> 0,
                 confirmed |-> Unconfirmed, invalidated |-> FALSE]
NoRow == NewRow("unused", NoApp)

Handler ==
    [pc : {"idle", "find", "active", "invalidate", "insert", "mail",
           "mailing", "confirm", "check", "complete"},
     app : Applications \cup {NoApp}, token : 0..MaxPendings,
     todo : SUBSET PendingIds]
Idle == [pc |-> "idle", app |-> NoApp, token |-> 0, todo |-> {}]
At(r, pc) == req[r].pc = pc
Goto(r, h) == req' = [req EXCEPT ![r] = h]

Mail == [email : Emails, token : PendingIds]
Candidate == [order : Orders, identity : Identities, email : Emails,
              token : PendingIds]

-----------------------------------------------------------------------------
(* Queries *)

Stored(p) == pending[p].state = "stored"
IsConfirmed(p) == pending[p].confirmed # Unconfirmed
Expired(p) == pending[p].age > TokenTtl

\* pendingCandidatesRepo.findActivePendingsByOrderCode
ActivePendings(o) ==
    {p \in PendingIds : /\ Stored(p) /\ pending[p].app.order = o
                        /\ ~IsConfirmed(p) /\ ~pending[p].invalidated}

\* Rows findPendingByOrderCode orders by createdAt: not invalidated, confirmed
\* ones included.
Uninvalidated(o) ==
    {p \in PendingIds : /\ Stored(p) /\ pending[p].app.order = o
                        /\ ~pending[p].invalidated}

\* The rows its ORDER BY createdAt DESC ... first() may return (DATETIME ties).
Newest(S) == {p \in S : \A q \in S : pending[p].age <= pending[q].age}

OrderUsed(o) == \E c \in candidates : c.order = o
\* Mutant: the query compares ciphertexts, which never match.
IdentityNeverFound(i) == FALSE
IdentityRegistered(i) == \E c \in candidates : c.identity = i

-----------------------------------------------------------------------------
(* POST /candidates/self-register *)

\* The two reads of Candidates, which only grows: who passes both passed them at
\* the first.  The process, its subscription window and the order API are inputs
\* of the environment; a refusal changes nothing.
StartRegister(r, a) ==
    /\ At(r, "idle")
    /\ ~OrderUsed(a.order)
    /\ ~IdentityRegistered(a.identity)
    /\ Goto(r, [Idle EXCEPT !.pc = "find", !.app = a])
    /\ UNCHANGED <<pending, lastId, candidates, sentAge, inbox, cron>>

\* Mutant: the e-mail of the row found is not looked at.
ReusableAnyAddress(p, a) == ~Expired(p)
Reusable(p, a) == pending[p].app.email = a.email /\ ~Expired(p)

FindExisting(r) ==
    LET a == req[r].app
        found == Newest(Uninvalidated(a.order))
    IN  /\ At(r, "find")
        /\ \/ \E p \in found :
                 /\ Reusable(p, a)
                 /\ Goto(r, [req[r] EXCEPT !.pc = "mail", !.token = p])
           \/ /\ found = {} \/ \E p \in found : ~Reusable(p, a)
              /\ Goto(r, [req[r] EXCEPT !.pc = "active"])
        /\ UNCHANGED <<pending, lastId, candidates, sentAge, inbox, cron>>

\* createOrUpdatePendingCandidate: read the active rows, ...
ReadActive(r) ==
    LET found == ActivePendings(req[r].app.order)
    IN  /\ At(r, "active")
        /\ Goto(r, [req[r] EXCEPT
                      !.pc = IF found = {} THEN "insert" ELSE "invalidate",
                      !.todo = found])
        /\ UNCHANGED <<pending, lastId, candidates, sentAge, inbox, cron>>

\* ... invalidate them one UPDATE at a time, by id, ...
InvalidateOne(r) ==
    /\ At(r, "invalidate")
    /\ \E p \in req[r].todo :
          /\ pending' = [pending EXCEPT ![p].invalidated = @ \/ Stored(p)]
          /\ Goto(r, [req[r] EXCEPT
                        !.pc = IF req[r].todo = {p} THEN "insert" ELSE @,
                        !.todo = @ \ {p}])
    /\ UNCHANGED <<lastId, candidates, sentAge, inbox, cron>>

\* ... and insert the new row.
InsertPending(r) ==
    /\ At(r, "insert")
    /\ lastId < MaxPendings
    /\ lastId' = lastId + 1
    /\ pending' = [pending EXCEPT ![lastId + 1] = NewRow("stored", req[r].app)]
    /\ Goto(r, [req[r] EXCEPT !.pc = "mail", !.token = lastId + 1])
    /\ UNCHANGED <<candidates, sentAge, inbox, cron>>

-----------------------------------------------------------------------------
(* sendConfirmationEmail, for self-register and for resend-confirmation *)

\* enforceConfirmationEmailCooldown; the entry is written after the send.
CheckCooldown(r) ==
    /\ At(r, "mail")
    /\ IF sentAge[req[r].token] < Cooldown
       THEN Goto(r, Idle)
       ELSE Goto(r, [req[r] EXCEPT !.pc = "mailing"])
    /\ UNCHANGED <<pending, lastId, candidates, sentAge, inbox, cron>>

Delivered(r) == [email |-> req[r].app.email, token |-> req[r].token]

MailAccepted(r) ==
    /\ At(r, "mailing")
    /\ inbox' = inbox \cup {Delivered(r)}
    /\ sentAge' = [sentAge EXCEPT ![req[r].token] = 0]
    /\ Goto(r, Idle)
    /\ UNCHANGED <<pending, lastId, candidates, cron>>

\* SendPulse answers with an error or times out: the mail may have left.
\* Mutant: the cooldown entry is written for a send that failed too.
MailFailedCounts(r) ==
    /\ At(r, "mailing")
    /\ sentAge' = [sentAge EXCEPT ![req[r].token] = 0]
    /\ Goto(r, Idle)
    /\ UNCHANGED <<pending, lastId, candidates, inbox, cron>>
MailFailed(r) ==
    /\ At(r, "mailing")
    /\ inbox' \in {inbox, inbox \cup {Delivered(r)}}
    /\ Goto(r, Idle)
    /\ UNCHANGED <<pending, lastId, candidates, sentAge, cron>>

\* POST /candidates/resend-confirmation: same row, same token.
ResendConfirmation(r, o) ==
    /\ At(r, "idle")
    /\ \E p \in Newest(Uninvalidated(o)) :
          /\ ~IsConfirmed(p)
          /\ ~Expired(p)
          /\ Goto(r, [Idle EXCEPT !.pc = "mail", !.token = p,
                                  !.app = pending[p].app])
    /\ UNCHANGED <<pending, lastId, candidates, sentAge, inbox, cron>>

-----------------------------------------------------------------------------
(* Confirmation and completion: only who received a mail knows its token *)

\* validateConfirmationToken: a confirmed row passes whatever its age.
TokenAccepted(p) ==
    /\ Stored(p)
    /\ ~pending[p].invalidated
    /\ IsConfirmed(p) \/ ~Expired(p)

\* confirmRegistration of a row that is not confirmed yet; a confirmed one
\* answers at once and changes nothing.
ConfirmRegistration(r, m) ==
    /\ At(r, "idle")
    /\ TokenAccepted(m.token)
    /\ ~IsConfirmed(m.token)
    /\ Goto(r, [Idle EXCEPT !.pc = "confirm", !.token = m.token])
    /\ UNCHANGED <<pending, lastId, candidates, sentAge, inbox, cron>>

\* updatePendingConfirmation: UPDATE by id, whatever became of the row.
ConfirmPending(r) ==
    /\ At(r, "confirm")
    /\ pending' = [pending EXCEPT
                     ![req[r].token].confirmed = IF Stored(req[r].token)
                                                 THEN 0 ELSE @]
    /\ Goto(r, Idle)
    /\ UNCHANGED <<lastId, candidates, sentAge, inbox, cron>>

\* Mutant: completed without asking whether the e-mail was confirmed.
CompleteUnconfirmed(r, m) ==
    /\ At(r, "idle")
    /\ TokenAccepted(m.token)
    /\ Goto(r, [Idle EXCEPT !.pc = "check", !.token = m.token,
                            !.app = pending[m.token].app])
    /\ UNCHANGED <<pending, lastId, candidates, sentAge, inbox, cron>>

CompleteRegistration(r, m) ==
    /\ At(r, "idle")
    /\ TokenAccepted(m.token)
    /\ IsConfirmed(m.token)
    /\ Goto(r, [Idle EXCEPT !.pc = "check", !.token = m.token,
                            !.app = pending[m.token].app])
    /\ UNCHANGED <<pending, lastId, candidates, sentAge, inbox, cron>>

\* isOrderCodeInCandidates and candidateExistsInProcess, before the insert.
CheckAvailable(r) ==
    /\ At(r, "check")
    /\ IF OrderUsed(req[r].app.order) \/ IdentityRegistered(req[r].app.identity)
       THEN Goto(r, Idle)
       ELSE Goto(r, [req[r] EXCEPT !.pc = "complete"])
    /\ UNCHANGED <<pending, lastId, candidates, sentAge, inbox, cron>>

NewCandidate(r) ==
    [order |-> req[r].app.order, identity |-> req[r].app.identity,
     email |-> req[r].app.email, token |-> req[r].token]

\* insertCompleteCandidate: one transaction; the UNIQUE order code is the only
\* constraint.  The mail that follows changes nothing whether it leaves or not.
\* Mutant: the order code is not UNIQUE.
InsertAnyOrder(r) ==
    /\ At(r, "complete")
    /\ candidates' = candidates \cup {NewCandidate(r)}
    /\ Goto(r, Idle)
    /\ UNCHANGED <<pending, lastId, sentAge, inbox, cron>>
InsertCandidate(r) ==
    /\ At(r, "complete")
    /\ candidates' = IF OrderUsed(req[r].app.order)
                     THEN candidates
                     ELSE candidates \cup {NewCandidate(r)}
    /\ Goto(r, Idle)
    /\ UNCHANGED <<pending, lastId, sentAge, inbox, cron>>

\* Any query rejects and the handler ends there: what it wrote so far stays.
QueryFails(r) ==
    /\ req[r].pc \notin {"idle", "mail", "mailing"}
    /\ Goto(r, Idle)
    /\ UNCHANGED <<pending, lastId, candidates, sentAge, inbox, cron>>

-----------------------------------------------------------------------------
(* The cron, the clock and the process *)

\* A deleted row leaves behind whose it was and whether it was confirmed: what
\* the properties ask of tokens that are gone.
DeleteRows(ids) ==
    pending' = [p \in PendingIds |->
                  IF p \in ids THEN [pending[p] EXCEPT !.state = "deleted"]
                               ELSE pending[p]]

\* Mutant: a row is deleted when its link still has its last moment.
UnconfirmedTooSoon ==
    {p \in PendingIds : Stored(p) /\ ~IsConfirmed(p)
                                  /\ pending[p].age >= UnconfirmedAge}

\* Mutant: invalidated rows are not looked for.
UnconfirmedAndValid ==
    {p \in PendingIds : Stored(p) /\ ~IsConfirmed(p) /\ ~pending[p].invalidated
                                  /\ pending[p].age > UnconfirmedAge}

UnconfirmedTooOld ==
    {p \in PendingIds : Stored(p) /\ ~IsConfirmed(p)
                                  /\ pending[p].age > UnconfirmedAge}
ConfirmedTooOld ==
    {p \in PendingIds : Stored(p) /\ pending[p].confirmed > ConfirmedAge}

CleanUnconfirmed ==
    /\ cron = "idle"
    /\ cron' = "second"
    /\ DeleteRows(UnconfirmedTooOld)
    /\ UNCHANGED <<lastId, candidates, sentAge, inbox, req>>

CleanConfirmed ==
    /\ cron = "second"
    /\ cron' = "idle"
    /\ DeleteRows(ConfirmedTooOld)
    /\ UNCHANGED <<lastId, candidates, sentAge, inbox, req>>

\* The second delete is rejected: the run ends, the first delete stays.
CleanFails ==
    /\ cron = "second"
    /\ cron' = "idle"
    /\ UNCHANGED <<pending, lastId, candidates, sentAge, inbox, req>>

\* The process stops and pm2 starts it again: the handlers in flight, the
\* cron run and the cooldown map are lost; the tables and the mails are not.
Restart ==
    /\ req' = [r \in Requests |-> Idle]
    /\ sentAge' = [p \in PendingIds |-> Cooldown]
    /\ cron' = "idle"
    /\ UNCHANGED <<pending, lastId, candidates, inbox>>

Tick ==
    /\ pending' = [p \in PendingIds |->
                     IF Stored(p)
                     THEN [pending[p] EXCEPT
                             !.age = Older(@),
                             !.confirmed = IF IsConfirmed(p) THEN Older(@) ELSE @]
                     ELSE pending[p]]
    /\ sentAge' = [p \in PendingIds |-> IF sentAge[p] < Cooldown
                                        THEN sentAge[p] + 1 ELSE sentAge[p]]
    /\ UNCHANGED <<lastId, candidates, inbox, req, cron>>

-----------------------------------------------------------------------------

Init ==
    /\ pending = [p \in PendingIds |-> NoRow]
    /\ lastId = 0
    /\ candidates = {}
    /\ sentAge = [p \in PendingIds |-> Cooldown]
    /\ inbox = {}
    /\ req = [r \in Requests |-> Idle]
    /\ cron = "idle"

\* A step of a handler that is already running.
HandlerStep(r) ==
    \/ FindExisting(r)
    \/ ReadActive(r)
    \/ InvalidateOne(r)
    \/ InsertPending(r)
    \/ CheckCooldown(r)
    \/ MailAccepted(r)
    \/ MailFailed(r)
    \/ ConfirmPending(r)
    \/ CheckAvailable(r)
    \/ InsertCandidate(r)
    \/ QueryFails(r)

\* A request arrives.
Arrival(r) ==
    \/ \E a \in Applications : StartRegister(r, a)
    \/ \E o \in Orders : ResendConfirmation(r, o)
    \/ \E m \in inbox : ConfirmRegistration(r, m)
    \/ \E m \in inbox : CompleteRegistration(r, m)

Next ==
    \/ \E r \in Requests : Arrival(r)
    \/ \E r \in Requests : HandlerStep(r)
    \/ CleanUnconfirmed
    \/ CleanConfirmed
    \/ CleanFails
    \/ Restart
    \/ Tick

Spec == Init /\ [][Next]_vars

\* The clock advances, the schedule fires the cron every six hours, and a run
\* that is retried for ever is not rejected or killed at every attempt.  Nothing
\* is assumed of the clients, of the mail service or of the handlers.
Fairness ==
    /\ WF_vars(Tick)
    /\ WF_vars(CleanUnconfirmed)
    /\ SF_vars(CleanConfirmed)

FairSpec == Spec /\ Fairness

-----------------------------------------------------------------------------
(* Properties *)

\* Every variable has its type; rows are numbered without a gap.
TypeOK ==
    /\ pending \in [PendingIds -> PendingRow]
    /\ lastId \in 0..MaxPendings
    /\ \A p \in PendingIds :
          pending[p].state = "unused" <=> p > lastId
    /\ candidates \subseteq Candidate
    /\ sentAge \in [PendingIds -> 0..Cooldown]
    /\ inbox \subseteq Mail
    /\ req \in [Requests -> Handler]
    /\ cron \in {"idle", "second"}

\* A confirmation link is only ever mailed to the address its row was created
\* for, although self-register mails the address of the body and not the row's
\* (candidates.service.ts: selfRegisterCandidate reuses a token it found).
MailGoesToOwner ==
    \A m \in inbox : pending[m.token].app.email = m.email

\* Whoever is in Candidates proved the address: a mail with the token reached
\* it, the row was confirmed, and the candidate carries the row's own data
\* (confirmRegistration, completeRegistration).
CandidateProvedEmail ==
    \A c \in candidates :
        /\ [email |-> c.email, token |-> c.token] \in inbox
        /\ IsConfirmed(c.token)
        /\ pending[c.token].app =
             [order |-> c.order, identity |-> c.identity, email |-> c.email]

\* The check of completeRegistration and its insert are not atomic and no
\* constraint backs the document, so one person can be inserted twice in a
\* process; but a copy is only ever inserted by a completion that was in flight
\* before the first copy: the copies there are and the copies on their way never
\* outnumber the handlers.
CopiesOf(i) == {c \in candidates : c.identity = i}
Inserting(i) == {r \in Requests : At(r, "complete") /\ req[r].app.identity = i}
CopiesBoundedByConcurrency ==
    \A i \in Identities :
        Cardinality(CopiesOf(i)) + Cardinality(Inserting(i)) <= Cardinality(Requests)

\* A token that is accepted stops being accepted only because it expires
\* unconfirmed, because the cron removes a row confirmed too long ago, or because
\* a registration that found the row unconfirmed invalidates it: the cron never
\* takes a live link away (TokenTtl <= UnconfirmedAge) and a confirmation in
\* flight does not either.
TokenLostOnlyTo ==
    [][\A p \in PendingIds :
          TokenAccepted(p) /\ ~TokenAccepted(p)' =>
             \/ ~IsConfirmed(p) /\ Expired(p)'
             \/ pending[p].confirmed > ConfirmedAge
             \/ \E r \in Requests : p \in req[r].todo]_vars

\* No row stays for ever: whatever handlers, restarts and failed runs do, the
\* clean-up cron removes every row (cleanExpiredPendingCandidates).
RowsAreForgotten ==
    \A p \in PendingIds : Stored(p) ~> ~Stored(p)

\* "Wait N minutes" is only ever answered for a token whose mail did go out:
\* the cooldown entry is written after the send, never by a send that failed
\* (sendConfirmationEmail).
WaitOnlyAfterMail ==
    \A p \in PendingIds :
        sentAge[p] < Cooldown => \E m \in inbox : m.token = p

\* The whole module, handlers, races, failures and clean-up included, implements
\* the promise of self-registration.
Promise == INSTANCE RegistrationPromise WITH
    Tokens <- PendingIds,
    requested <- [p \in PendingIds |-> pending[p].app],
    proven <- {p \in PendingIds : IsConfirmed(p)},
    registered <- candidates
KeepsPromise == Promise!Spec

\* What the "(race condition)" check of completeRegistration is there for: a
\* person is registered at most once in a process.
OneCandidatePerIdentity ==
    \A i \in Identities : Cardinality(CopiesOf(i)) <= 1
=============================================================================
