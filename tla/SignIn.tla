------------------------------- MODULE SignIn -------------------------------
(***************************************************************************)
(* Invitations, log-on, the two-step login and the signing of terms        *)
(* (src/src/shared/auth, src/src/users, the access-code half of            *)
(* src/src/candidates), composed with the administration of the terms.     *)
(*                                                                         *)
(* A desk is a client and the request it has in flight.  Whoever has an    *)
(* invitation, an access code or a code of the second factor may send it,  *)
(* with any list of terms: what a reply showed before is not kept.  Every  *)
(* step is what runs between two awaits, so that each query of a handler   *)
(* that something can come between is a step of its own.                   *)
(***************************************************************************)
EXTENDS Terms

CONSTANTS
    Users,
    Forms,          \* candidate forms whose access code was sent
    Nobody,
    PairRole,       \* the role of a pair
    CandidateRole,
    Desks,
    Lists,          \* the sets of terms a log-on may send
    MaxAttempts     \* MAX_ATTEMPTS of the code cache

VARIABLES
    user,           \* tables Users and UsersRoles
    code,           \* TwoFactorCacheService.cache
    signed,         \* rows of the two signature tables, by signer and term
    atLogon,        \* the terms of the rows a log-on has added to them
    desk,
    past            \* history: the tries of the last code of a user

signVars == <<user, code, signed, atLogon, desk, past>>
vars == <<termVars, signVars>>

Signers == Users \cup Forms
Roles == {PairRole[p] : p \in Pairs}
User == [invited : BOOLEAN, late : BOOLEAN, done : BOOLEAN,
         password : BOOLEAN, active : BOOLEAN, roles : SUBSET Roles]
NoUser == [invited |-> FALSE, late |-> FALSE, done |-> FALSE, password |-> FALSE,
           active |-> TRUE, roles |-> {}]
Code == [attempts : 0..MaxAttempts, expired : BOOLEAN]
NoCode == [attempts |-> -1, expired |-> FALSE]
FreshCode == [attempts |-> 0, expired |-> FALSE]
\* Used, tried too often, expired or lost.
Spent == -1

\* verify2FA, validateAccessCode and signTerms read on in parts: roles, terms,
\* signatures, rows of terms.
DeskPcs == {"idle", "reinvite", "hashing", "compared", "resending", "resetting",
            "roles", "terms", "signatures", "rows", "sign", "in"}
DeskOps == {"none", "verify2FA", "validateAccessCode", "signTerms"}
Desk == [pc : DeskPcs, who : Signers \cup {Nobody}, op : DeskOps,
         roles : SUBSET (Roles \cup {CandidateRole}), list : SUBSET TermIds,
         stale : BOOLEAN]
DeskIdle == [pc |-> "idle", who |-> Nobody, op |-> "none", roles |-> {},
             list |-> {}, stale |-> FALSE]

ASSUME SignInAssumption ==
    /\ Users \cap Forms = {}
    /\ Nobody \notin Signers
    /\ DOMAIN PairRole = Pairs
    /\ IsFiniteSet(Desks)
    /\ Desks # {}
    /\ Lists \subseteq SUBSET TermIds
    /\ MaxAttempts \in Nat

RolesOf(s) == IF s \in Users THEN user[s].roles ELSE {CandidateRole}
\* findActiveTermsNotSigned, findActiveTermsForCandidate
TermsFor(roles) == {t \in TermIds : InForce(t) /\ PairRole[terms[t].pair] \in roles}
HasSigned(s, t) == signed[s][t] > 0 \/ t \in atLogon[s]
SignedTerms == {t \in TermIds : \E s \in Signers : HasSigned(s, t)}
\* Mutant: terms already signed are asked for again.
NotSignedAgain(s, list) == list
NotSigned(s, list) == {t \in list : ~HasSigned(s, t)}

Exist(u) == user[u].invited
Who(d) == desk[d].who
At(d, pc) == desk[d].pc = pc
SetDesk(d, row) == desk' = [desk EXCEPT ![d] = row]
GotoWith(d, pc, list) ==
    SetDesk(d, [desk[d] EXCEPT !.pc = pc, !.roles = {}, !.list = list])
Free(d) == SetDesk(d, DeskIdle)
\* The desks' requests and the administrators' share one bound.
Asked ==
    /\ changes < MaxChanges
    /\ changes' = changes + 1
    /\ UNCHANGED <<now, terms, lastTerm, admin, raced>>
Start(d, s, pc, op) ==
    /\ At(d, "idle")
    /\ SetDesk(d, [DeskIdle EXCEPT !.pc = pc, !.who = s, !.op = op,
                   !.roles = IF s \in Forms THEN RolesOf(s) ELSE {}])
Begin(d, s, pc, op) ==
    /\ Asked
    /\ Start(d, s, pc, op)
    /\ UNCHANGED <<user, code, signed, atLogon, past>>
\* The steps that only read, and those that write only codes.
Reads(d, pc) ==
    /\ At(d, pc)
    /\ UNCHANGED <<termVars, user, code, signed, atLogon, past>>
Codes(d, pc) ==
    /\ At(d, pc)
    /\ UNCHANGED <<termVars, user, signed, atLogon>>
\* What an admission rests on may be outdated by a write.
Admitting == {"terms", "signatures", "rows", "sign", "in"}
Outdate(who) == desk' = [d \in Desks |->
    IF desk[d].pc \in Admitting /\ desk[d].who \in who
    THEN [desk[d] EXCEPT !.stale = TRUE] ELSE desk[d]]

(* users.service: createUser, updateUser, reinviteUser *)
CreateUser(u) ==
    /\ ~Exist(u)
    /\ \E R \in SUBSET Roles \ {{}} :
          user' = [user EXCEPT ![u] = [@ EXCEPT !.invited = TRUE, !.roles = R]]
    /\ UNCHANGED <<termVars, code, signed, atLogon, desk, past>>

UpdateUser(u) ==
    /\ Exist(u)
    /\ Asked
    /\ \E R \in SUBSET Roles, a \in BOOLEAN :
          user' = [user EXCEPT ![u] = [@ EXCEPT !.active = a, !.roles = R]]
    /\ Outdate({u})
    /\ UNCHANGED <<code, signed, atLogon, past>>

\* Mutant: whether the user has logged on already is not looked at.
AskReinviteAnyone(d) == \E u \in Users :
    /\ Exist(u)
    /\ Begin(d, u, "reinvite", "none")
AskReinvite(d) == \E u \in Users :
    /\ Exist(u)
    /\ ~user[u].done
    /\ Begin(d, u, "reinvite", "none")

SaveReinvite(d) ==
    /\ At(d, "reinvite")
    /\ user' = [user EXCEPT ![Who(d)] =
                  [@ EXCEPT !.late = FALSE, !.done = FALSE]]
    /\ Free(d)
    /\ UNCHANGED <<termVars, code, signed, atLogon, past>>

(* auth.service: logon *)
Invited(u) == Exist(u) /\ ~user[u].done /\ ~user[u].late

\* The array of terms to sign is whatever the client sends: signed ones, ones it
\* was never shown, ids without a term, one term twice.
PostLogon(d) == \E u \in Users, sent \in Lists :
    /\ Invited(u)
    /\ At(d, "idle")
    /\ Asked
    /\ SetDesk(d, [DeskIdle EXCEPT !.pc = "hashing", !.who = u, !.list = sent])
    /\ UNCHANGED <<user, code, signed, atLogon, past>>

\* A signature of a term that is gone breaks the foreign key.
Signable(d) == \A t \in desk[d].list : Exists(t)

\* updateUserToLogon: after the hash the code is not looked at again.
SaveLogon(d) ==
    /\ At(d, "hashing")
    /\ Signable(d)
    /\ user' = [user EXCEPT ![Who(d)] = [@ EXCEPT !.done = TRUE, !.password = TRUE]]
    /\ atLogon' = [atLogon EXCEPT ![Who(d)] = @ \cup desk[d].list]
    /\ desk' = [e \in Desks |->
                  IF e = d THEN DeskIdle
                  ELSE IF desk[e].pc = "reinvite" /\ desk[e].who = Who(d)
                  THEN [desk[e] EXCEPT !.stale = TRUE] ELSE desk[e]]
    /\ UNCHANGED <<termVars, code, signed, past>>

\* Once the log-on is done the date is not looked at.
InviteExpires(u) ==
    /\ Exist(u)
    /\ ~user[u].done
    /\ user' = [user EXCEPT ![u] = [@ EXCEPT !.late = TRUE]]
    /\ UNCHANGED <<termVars, code, signed, atLogon, desk, past>>

(* TwoFactorCacheService: set, validate, has, cleanExpiredCodes *)
NewCode(u) ==
    /\ code' = [code EXCEPT ![u] = FreshCode]
    /\ past' = [past EXCEPT ![u] = 0]
Live(u) == code[u] # NoCode /\ ~code[u].expired
Accepts(u, right) ==
    Live(u) /\ right /\ code[u].attempts < MaxAttempts
\* Mutant: the code stays when it was right.
AfterTryKeeps(u, right) ==
    IF Accepts(u, right) THEN code[u]
    ELSE IF Live(u) /\ code[u].attempts < MaxAttempts
    THEN [code[u] EXCEPT !.attempts = @ + 1]
    ELSE NoCode
AfterTry(u, right) ==
    IF Live(u) /\ ~right /\ code[u].attempts < MaxAttempts
    THEN [code[u] EXCEPT !.attempts = @ + 1]
    ELSE NoCode

\* A code sent in goes on as pc if it is accepted.
Try(d, pc, op) == \E u \in Users, right \in BOOLEAN :
    /\ Codes(d, "idle")
    /\ code[u] # NoCode
    /\ code' = [code EXCEPT ![u] = AfterTry(u, right)]
    /\ past' = [past EXCEPT ![u] =
                  IF Accepts(u, right) \/ @ \in {Spent, MaxAttempts} THEN Spent ELSE @ + 1]
    /\ IF Accepts(u, right) THEN Start(d, u, pc, op) ELSE UNCHANGED desk

CodeExpires(u) ==
    /\ code[u] # NoCode
    /\ code' = [code EXCEPT ![u] = [@ EXCEPT !.expired = TRUE]]
    /\ past' = [past EXCEPT ![u] = Spent]
    /\ UNCHANGED <<termVars, user, signed, atLogon, desk>>

CleanCodes ==
    /\ \E u \in Users : code[u].expired
    /\ code' = [u \in Users |-> IF code[u].expired THEN NoCode ELSE code[u]]
    /\ UNCHANGED <<termVars, user, signed, atLogon, desk, past>>

(* auth.service: validateUser, resend2FA, forgotPassword, resetPassword *)
AskLogin(d) == \E u \in Users :
    /\ Exist(u)
    /\ user[u].password
    /\ user[u].active
    /\ Start(d, u, "compared", "none")
    /\ UNCHANGED <<termVars, user, code, signed, atLogon, past>>

\* Once the password is compared, or the user of a resend is read: by then the
\* code that was pending may be used, replaced or gone.
SendCode(d) ==
    /\ Codes(d, desk[d].pc)
    /\ desk[d].pc \in {"compared", "resending"}
    /\ NewCode(Who(d))
    /\ Free(d)

AskResend(d) == \E u \in Users :
    /\ Codes(d, "idle")
    /\ code[u] # NoCode
    /\ IF Live(u) THEN Start(d, u, "resending", "none") /\ UNCHANGED code
       ELSE code' = [code EXCEPT ![u] = NoCode] /\ UNCHANGED desk
    /\ UNCHANGED past

Forgot(u) ==
    /\ Exist(u)
    /\ Asked
    /\ NewCode(u)
    /\ UNCHANGED <<user, signed, atLogon, desk>>

Reset(d) == Try(d, "resetting", "none")

SaveReset(d) ==
    /\ At(d, "resetting")
    /\ user' = [user EXCEPT ![Who(d)] = [@ EXCEPT !.password = TRUE, !.active = FALSE]]
    /\ Free(d)
    /\ UNCHANGED <<termVars, code, signed, atLogon, past>>

(* auth.service: verify2FA; candidates.service: validateAccessCode, signTerms *)
Verify(d) == Try(d, "roles", "verify2FA")

OpenForm(d) == \E f \in Forms :
    Begin(d, f, "terms", "validateAccessCode") \/ Begin(d, f, "terms", "signTerms")

\* findUserByEmailForLogin
ReadRoles(d) ==
    /\ Reads(d, "roles")
    /\ SetDesk(d, [desk[d] EXCEPT !.pc = "terms", !.roles = RolesOf(Who(d))])

ReadTerms(d) ==
    LET active == TermsFor(desk[d].roles) IN
    /\ Reads(d, "terms")
    /\ \/ /\ Who(d) \in Users \/ active # {}
          /\ GotoWith(d, "signatures", active)
       \/ /\ Who(d) \in Forms
          /\ active = {}
          /\ IF desk[d].op = "signTerms" THEN Free(d) ELSE GotoWith(d, "in", {})

\* areArraysEqual: what the client sent is what is to be signed, or not; with
\* nothing to sign it is not looked at.
\* Mutant: signing some of the terms is enough.
ReadSignaturesPartly(d) ==
    LET open == NotSigned(Who(d), desk[d].list) IN
    /\ Reads(d, "signatures")
    /\ \/ Who(d) \in Forms /\ GotoWith(d, "rows", open)
       \/ Who(d) \in Users /\ open = {} /\ GotoWith(d, "in", {})
       \/ Who(d) \in Users /\ \E sent \in SUBSET open : GotoWith(d, "sign", sent)

ReadSignatures(d) ==
    LET open == NotSigned(Who(d), desk[d].list) IN
    /\ Reads(d, "signatures")
    /\ \/ Who(d) \in Forms /\ GotoWith(d, "rows", open)
       \/ Who(d) \in Users /\ open = {} /\ GotoWith(d, "in", {})
       \/ Who(d) \in Users /\ open # {} /\ (GotoWith(d, "sign", open) \/ Free(d))

\* findUnsignedTermsForFormCandidate reads the terms once more.
ReadRows(d) ==
    LET open == {t \in desk[d].list : Exists(t)} IN
    /\ Reads(d, "rows")
    /\ \/ desk[d].op = "signTerms" /\ (GotoWith(d, "sign", open) \/ Free(d))
       \/ desk[d].op = "validateAccessCode" /\ open = {} /\ GotoWith(d, "in", {})
       \/ desk[d].op = "validateAccessCode" /\ open # {} /\ Free(d)

\* signTerms, of a user or of a candidate: the user is then let in.
Sign(d) ==
    /\ At(d, "sign")
    /\ Signable(d)
    /\ signed' = [signed EXCEPT ![Who(d)] =
                    [t \in TermIds |-> IF t \in desk[d].list THEN @[t] + 1 ELSE @[t]]]
    /\ IF Who(d) \in Users THEN GotoWith(d, "in", {}) ELSE Free(d)
    /\ UNCHANGED <<termVars, user, code, atLogon, past>>

\* A query fails, a foreign key rolls a transaction back, or who was let in goes.
Ends(d) ==
    /\ Reads(d, desk[d].pc)
    /\ desk[d].pc # "idle"
    /\ Free(d)

\* A restart empties the cache and drops the requests the server has in hand.
Restart ==
    /\ AdminsRestart
    /\ code' = [u \in Users |-> NoCode]
    /\ past' = [u \in Users |-> Spent]
    /\ desk' = [d \in Desks |-> IF desk[d].pc = "in" THEN desk[d] ELSE DeskIdle]
    /\ UNCHANGED <<user, signed, atLogon>>

Init ==
    /\ TermInit
    /\ user = [u \in Users |-> NoUser]
    /\ code = [u \in Users |-> NoCode]
    /\ signed = [s \in Signers |-> [t \in TermIds |-> 0]]
    /\ atLogon = [s \in Signers |-> {}]
    /\ desk = [d \in Desks |-> DeskIdle]
    /\ past = [u \in Users |-> Spent]

AdminStep ==
    \/ TermReads /\ UNCHANGED signVars
    \/ \E h \in Admins : DeleteRestricted(h, SignedTerms) /\ UNCHANGED signVars
    \/ /\ TermWrites(SignedTerms) \/ Tick
       /\ Outdate(Signers)
       /\ UNCHANGED <<user, code, signed, atLogon, past>>
UserStep == \E u \in Users :
    CreateUser(u) \/ UpdateUser(u) \/ InviteExpires(u) \/ CodeExpires(u) \/ Forgot(u)
DeskStep == \E d \in Desks :
    \/ AskReinvite(d) \/ SaveReinvite(d) \/ PostLogon(d) \/ SaveLogon(d)
    \/ AskLogin(d) \/ AskResend(d) \/ SendCode(d) \/ Reset(d) \/ SaveReset(d)
    \/ Verify(d) \/ OpenForm(d) \/ ReadRoles(d) \/ ReadTerms(d)
    \/ ReadSignatures(d) \/ ReadRows(d) \/ Sign(d) \/ Ends(d)
Next == AdminStep \/ UserStep \/ DeskStep \/ CleanCodes \/ Restart
Spec == Init /\ [][Next]_vars

-----------------------------------------------------------------------------
(* Properties *)

\* Every variable keeps its type.
TypeOK ==
    /\ TermTypeOK
    /\ user \in [Users -> User]
    /\ code \in [Users -> Code \cup {NoCode}]
    /\ signed \in [Signers -> [TermIds -> Nat]]
    /\ atLogon \in [Signers -> SUBSET TermIds]
    /\ desk \in [Desks -> Desk]
    /\ past \in [Users -> {Spent} \cup 0..MaxAttempts]

\* A code of the second factor opens one thing: whoever goes on with one, to be
\* let in or to set a new password, is the first to use it since it was made, in
\* its time and within the attempts it allows, whichever of the two it was sent
\* for, and whatever was tried, resent, cleaned or restarted in between
\* (TwoFactorCacheService.validate, resend2FA).
CodesOpenOnceStep ==
    \A d \in Desks, u \in Users :
        /\ At(d, "idle")
        /\ desk'[d].who = u
        /\ desk'[d].pc \in {"roles", "resetting"}
        => past[u] \in 0..(MaxAttempts - 1)
CodesOpenOnce == [][CodesOpenOnceStep]_vars

\* Nothing in the tables forbids signing a term twice.  Of the signatures that
\* are asked for (verify2FA, signTerms), the requests that can find a term
\* unsigned at the same time are all that limits the rows.  A log-on is no part
\* of this: it stores whatever list it is sent.
SignaturesBoundedByConcurrency ==
    \A s \in Signers, t \in TermIds : signed[s][t] <= Cardinality(Desks)

\* Whoever was let in, after a login or by an access code, has signed every
\* term in force, unless the clock, an administrator or a change of roles
\* moved after the request began to read what there is to sign, in its three
\* or four queries (verify2FA, validateAccessCode).
AdmittedHasSigned ==
    \A d \in Desks, s \in Signers :
        At(d, "in") /\ Who(d) = s /\ ~desk[d].stale =>
            \A t \in TermsFor(RolesOf(s)) : HasSigned(s, t)

\* A log-on that was completed is undone only by a re-invitation that had
\* looked before it was (reinviteUser looks, then writes).
DoneReopenedStep ==
    \A u \in Users : user[u].done /\ ~user'[u].done =>
        \E d \in Desks : At(d, "reinvite") /\ Who(d) = u /\ desk[d].stale
DoneReopenedOnlyByStale == [][DoneReopenedStep]_vars

\* A signed term is not deleted while its signatures stand.
SignedTermStays ==
    \A s \in Signers, t \in TermIds : HasSigned(s, t) => Exists(t)
=============================================================================
