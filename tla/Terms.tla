-------------------------------- MODULE Terms --------------------------------
(***************************************************************************)
(* The terms of use (src/src/terms): administrators create, replace, edit  *)
(* and delete them, and for each pair of a role and a type one should be   *)
(* in force at a time, its successor waiting behind it.                    *)
(*                                                                         *)
(* Dates are DATE columns, read as UTC midnights; the server's zone is     *)
(* UTC-3.  The clock counts half days of unequal length: phase 2d is the   *)
(* part of UTC day d in which it is still day d-1 here, phase 2d+1 the     *)
(* rest, so the UTC midnight of d opens phase 2d, the local one 2d+1.      *)
(***************************************************************************)
EXTENDS Integers, FiniteSets

CONSTANTS
    Admins,         \* request slots of the administrators
    Pairs,          \* pairs <<roleId, termTypeId>>
    Texts,          \* of the terms
    Days,           \* the dates that may be asked for
    MaxTerms,       \* bound on the rows ever inserted
    FirstTerms,     \* the rows at the start
    LastPhase,      \* bound on the clock
    MaxChanges      \* bound on the requests

VARIABLES
    now,
    terms,          \* table Terms
    lastTerm,       \* its AUTO_INCREMENT counter
    admin,          \* the handlers in flight
    changes,        \* requests so far
    raced           \* history: a handler wrote on outdated reads

termVars == <<now, terms, lastTerm, admin, changes, raced>>

TermIds == 1..MaxTerms
Open == -1      \* endDate NULL
Unsaved == 0    \* no row
Term == [pair : Pairs, begin : Nat, end : Int, text : Texts]
NoTerm == [pair |-> Unsaved]

ASSUME TermsAssumption ==
    /\ MaxTerms \in Nat
    /\ Days \subseteq Nat \ {0}
    /\ Unsaved \notin Pairs
    /\ Unsaved \notin Texts
    /\ FirstTerms \in [TermIds -> Term \cup {NoTerm}]
    /\ \A s, t \in TermIds :
          /\ FirstTerms[s] # NoTerm
          /\ FirstTerms[t] # NoTerm
          => /\ FirstTerms[s].begin > 0 => FirstTerms[s].end = Open
             /\ /\ FirstTerms[s].pair = FirstTerms[t].pair
                /\ FirstTerms[s].end = Open
                /\ FirstTerms[t].end = Open
                => s = t
    /\ LastPhase \in Nat
    /\ MaxChanges \in Nat

Exists(t) == t \in TermIds /\ terms[t] # NoTerm
Of(pair) == {t \in TermIds : Exists(t) /\ terms[t].pair = pair}
OpenOf(pair) == {t \in Of(pair) : terms[t].end = Open}
Started(t) == 2 * terms[t].begin <= now
NotEnded(t) == terms[t].end = Open \/ 2 * terms[t].end > now
InForce(t) == Exists(t) /\ Started(t) /\ NotEnded(t)

\* validateDto: the local midnight of the date is still to come.
ToCome(day) == 2 * day + 1 > now

Ops == {"none", "create", "delete", "update"}
Request == [pc : {"idle", "last", "open", "save"}, op : Ops,
            id : TermIds \cup {Unsaved}, old : Pairs \cup {Unsaved},
            pair : Pairs \cup {Unsaved}, begin : Int,
            text : Texts \cup {Unsaved}, last : TermIds \cup {Unsaved},
            open : TermIds \cup {Unsaved}, stale : BOOLEAN]
NewRequest(pc, op, id, old, pair, begin, text) ==
    [pc |-> pc, op |-> op, id |-> id, old |-> old, pair |-> pair,
     begin |-> begin, text |-> text, last |-> Unsaved, open |-> Unsaved,
     stale |-> FALSE]
AdminIdle == NewRequest("idle", "none", Unsaved, Unsaved, Unsaved, 0, Unsaved)

AdminAt(h, pc) == admin[h].pc = pc
AdminGoto(h, r) == admin' = [admin EXCEPT ![h] = r]
AdminRefuse(h) == AdminGoto(h, AdminIdle)

TermInit ==
    /\ now = 0
    /\ terms = FirstTerms
    /\ lastTerm \in 0..MaxTerms
    /\ \A t \in TermIds : FirstTerms[t] # NoTerm <=> t <= lastTerm
    /\ admin = [h \in Admins |-> AdminIdle]
    /\ changes = 0
    /\ raced = FALSE

AskAdmin(h) ==
    /\ AdminAt(h, "idle")
    /\ changes < MaxChanges
    /\ changes' = changes + 1
    /\ UNCHANGED <<now, terms, lastTerm, raced>>
StepAdmin(h, pc) ==
    /\ AdminAt(h, pc)
    /\ UNCHANGED <<now, terms, lastTerm, changes, raced>>

(* createTerm *)
AskCreate(h) ==
    /\ AskAdmin(h)
    /\ \E p \in Pairs, d \in Days, x \in Texts :
          /\ ToCome(d)
          /\ AdminGoto(h, NewRequest("open", "create", Unsaved, p, p, d, x))

(* deleteTerm: validateCurrentTermTo *)
AskDelete(h) ==
    /\ AskAdmin(h)
    /\ \E t \in TermIds :
          /\ Exists(t)
          /\ ~Started(t)
          /\ AdminGoto(h, NewRequest("last", "delete", t, terms[t].pair,
                            terms[t].pair, terms[t].begin, terms[t].text))

(* updateTerm: what is read next is the case of getUpdateCase. *)
UpdateCase(t, p, d, x) ==
    IF p # terms[t].pair THEN "last"
    ELSE IF x # terms[t].text /\ d # terms[t].begin THEN "open"
    ELSE "save"
\* Mutant: validateCurrentTermTo is dropped.
AskUpdateOfStarted(h) ==
    /\ AskAdmin(h)
    /\ \E t \in TermIds, p \in Pairs, d \in Days, x \in Texts :
          /\ ToCome(d)
          /\ Exists(t)
          /\ <<p, d, x>> # <<terms[t].pair, terms[t].begin, terms[t].text>>
          /\ AdminGoto(h, NewRequest(UpdateCase(t, p, d, x), "update", t,
                                     terms[t].pair, p, d, x))

AskUpdate(h) ==
    /\ AskAdmin(h)
    /\ \E t \in TermIds, p \in Pairs, d \in Days, x \in Texts :
          /\ ToCome(d)
          /\ Exists(t)
          /\ ~Started(t)
          /\ <<p, d, x>> # <<terms[t].pair, terms[t].begin, terms[t].text>>
          /\ AdminGoto(h, NewRequest(UpdateCase(t, p, d, x), "update", t,
                                     terms[t].pair, p, d, x))

\* findBiggerEndDateTermByRoleAndType
StillToEnd(pair) == {t \in Of(pair) : terms[t].end # Open /\ NotEnded(t)}
Latest(pair) == {t \in StillToEnd(pair) :
                    \A s \in StillToEnd(pair) : terms[s].end <= terms[t].end}
FindLast(h) ==
    /\ StepAdmin(h, "last")
    /\ \E t \in TermIds \cup {Unsaved} :
          /\ IF Latest(admin[h].old) = {} THEN t = Unsaved
             ELSE t \in Latest(admin[h].old)
          /\ AdminGoto(h, [[admin[h] EXCEPT !.last = t] EXCEPT
                             !.pc = IF admin[h].op = "delete" THEN "save"
                                    ELSE "open"])

\* findCurrentTermByRoleAndType, validateOpenTerm: a successor may wait already.
FindOpen(h) ==
    /\ StepAdmin(h, "open")
    /\ \/ /\ OpenOf(admin[h].pair) = {}
          /\ AdminGoto(h, [admin[h] EXCEPT !.pc = "save"])
       \/ \E t \in OpenOf(admin[h].pair) :
             /\ Started(t)
             /\ AdminGoto(h, [[admin[h] EXCEPT !.open = t] EXCEPT !.pc = "save"])
       \/ /\ \E t \in OpenOf(admin[h].pair) : ~Started(t)
          /\ AdminRefuse(h)

\* One transaction: `last` is reopened, then the open term ends the day before.
EndAfter(r, t) == IF t = r.open THEN r.begin - 1
                  ELSE IF t = r.last THEN Open
                  ELSE terms[t].end
Closing(r) == [t \in TermIds |->
                 IF Exists(t) THEN [terms[t] EXCEPT !.end = EndAfter(r, t)]
                 ELSE NoTerm]
\* What the others in flight have read is outdated by a write.
Outdated(h) == [g \in Admins |->
                  IF g = h THEN AdminIdle
                  ELSE [admin[g] EXCEPT !.stale = admin[g].pc # "idle"]]
Save(h, op) ==
    /\ AdminAt(h, "save")
    /\ admin[h].op = op
    /\ admin' = Outdated(h)
    /\ raced' = (raced \/ admin[h].stale)
    /\ UNCHANGED <<now, changes>>

\* Mutant: the open term of the pair is not closed.
SaveCreateForgetsOpen(h) ==
    /\ Save(h, "create")
    /\ lastTerm < MaxTerms
    /\ lastTerm' = lastTerm + 1
    /\ terms' = [terms EXCEPT ![lastTerm + 1] =
                   [pair |-> admin[h].pair, begin |-> admin[h].begin,
                    end |-> Open, text |-> admin[h].text]]

SaveCreate(h) ==
    /\ Save(h, "create")
    /\ lastTerm < MaxTerms
    /\ lastTerm' = lastTerm + 1
    /\ terms' = [Closing(admin[h]) EXCEPT ![lastTerm + 1] =
                   [pair |-> admin[h].pair, begin |-> admin[h].begin,
                    end |-> Open, text |-> admin[h].text]]
SaveUpdate(h) ==
    /\ Save(h, "update")
    /\ UNCHANGED lastTerm
    /\ terms' = [Closing(admin[h]) EXCEPT ![admin[h].id] =
                   IF Exists(admin[h].id)
                   THEN [pair |-> admin[h].pair, begin |-> admin[h].begin,
                         end |-> EndAfter(admin[h], admin[h].id),
                         text |-> admin[h].text]
                   ELSE NoTerm]
SaveDelete(h, signedTerms) ==
    /\ Save(h, "delete")
    /\ admin[h].id \notin signedTerms
    /\ UNCHANGED lastTerm
    /\ terms' = [Closing(admin[h]) EXCEPT ![admin[h].id] = NoTerm]
\* The foreign key of the signatures: ON DELETE RESTRICT rolls it all back.
DeleteRestricted(h, signedTerms) ==
    /\ StepAdmin(h, "save")
    /\ admin[h].op = "delete"
    /\ admin[h].id \in signedTerms
    /\ AdminRefuse(h)

Tick ==
    /\ now < LastPhase
    /\ now' = now + 1
    /\ admin' = [h \in Admins |->
                   [admin[h] EXCEPT !.stale = admin[h].pc # "idle"]]
    /\ UNCHANGED <<terms, lastTerm, changes, raced>>
AdminsRestart ==
    /\ admin' = [h \in Admins |-> AdminIdle]
    /\ UNCHANGED <<now, terms, lastTerm, changes, raced>>

TermReads == \E h \in Admins :
    AskCreate(h) \/ AskDelete(h) \/ AskUpdate(h) \/ FindLast(h) \/ FindOpen(h)
TermWrites(signedTerms) == \E h \in Admins :
    SaveCreate(h) \/ SaveUpdate(h) \/ SaveDelete(h, signedTerms)

-----------------------------------------------------------------------------
TermTypeOK ==
    /\ now \in 0..LastPhase
    /\ terms \in [TermIds -> Term \cup {NoTerm}]
    /\ lastTerm \in 0..MaxTerms
    /\ admin \in [Admins -> Request]
    /\ changes \in 0..MaxChanges
    /\ raced \in BOOLEAN

\* Unless a request wrote on reads that another write or the clock had
\* outdated, no chain of creations, edits and deletions leaves two open terms
\* of a pair (createTerm, updateTerm and deleteTerm close and reopen them).
OneOpenTerm ==
    ~raced => \A p \in Pairs : \A s, t \in OpenOf(p) : s = t

\* A term that has begun is neither deleted nor edited: it keeps its pair, its
\* date and its text; only its end may move (validateCurrentTermTo).
StartedIsFrozenStep ==
    ~raced' => \A t \in TermIds :
        Exists(t) /\ Started(t) =>
            /\ terms'[t] # NoTerm
            /\ terms'[t].pair = terms[t].pair
            /\ terms'[t].begin = terms[t].begin
            /\ terms'[t].text = terms[t].text
StartedIsFrozen == [][StartedIsFrozenStep]_termVars

=============================================================================
