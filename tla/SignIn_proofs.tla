---------------------------- MODULE SignIn_proofs ----------------------------
(***************************************************************************)
(* Proofs about SignIn and the Terms it is composed with: the types, the   *)
(* chain of terms of a pair, what the signatures stand for, and what a     *)
(* code of the second factor opens.                                        *)
(***************************************************************************)
EXTENDS SignIn, FiniteSetTheorems, TLAPS

-----------------------------------------------------------------------------
(* The strengthening for the terms. *)

\* Ids are handed out in order.
RowsPacked == \A t \in TermIds : terms[t] # NoTerm => t <= lastTerm

\* Only a term that has begun may have an end.
FutureIsOpen ==
    ~raced => \A t \in TermIds :
                 Exists(t) /\ ~Started(t) => terms[t].end = Open

\* A day that was asked for is never day 0, whose eve would read as NULL.
AskedRow(r) == r.op \in {"create", "update"} =>
    r.begin >= 1 /\ r.pair \in Pairs /\ r.text \in Texts
AskedDays == \A h \in Admins : AskedRow(admin[h])

\* What a request with fresh reads has read is still so.
FreshTarget(r) ==
    r.op \in {"delete", "update"} =>
        /\ Exists(r.id)
        /\ ~Started(r.id)
        /\ terms[r.id].pair = r.old
FreshLast(r) ==
    /\ r.op = "create" => r.last = Unsaved
    /\ r.last # Unsaved => /\ r.last \in Of(r.old)
                           /\ terms[r.last].end # Open
FreshOpen(r) ==
    /\ r.op = "delete" => r.open = Unsaved
    /\ r.op = "update" /\ r.pair = r.old => r.last = Unsaved /\ r.open = Unsaved
    /\ r.open # Unsaved => r.open \in OpenOf(r.pair) /\ Started(r.open)
    /\ r.pc = "save" /\ (r.op = "create" \/ (r.op = "update" /\ r.pair # r.old))
          => OpenOf(r.pair) \subseteq {r.open}
FreshRead(r) == FreshTarget(r) /\ FreshLast(r) /\ FreshOpen(r)
FreshAdmins ==
    ~raced => \A h \in Admins :
        admin[h].pc # "idle" /\ admin[h].stale = FALSE => FreshRead(admin[h])

\* A request reads what its kind asks for.
Kind(r) ==
    /\ r.pc = "last" => r.op \in {"delete", "update"}
    /\ r.pc = "open" => r.op \in {"create", "update"}
    /\ r.op = "update" /\ r.pc = "last" => r.pair # r.old
KindAtStep == \A h \in Admins : Kind(admin[h])

TermInv == /\ TermTypeOK
           /\ RowsPacked
           /\ AskedDays
           /\ KindAtStep
           /\ FutureIsOpen
           /\ FreshAdmins
           /\ OneOpenTerm

-----------------------------------------------------------------------------
(* The strengthening for the desks. *)

\* The desks that hold a term they may yet sign, having found it unsigned.
HoldPcs == {"rows", "sign"}
Holds(d, s, t) == desk[d].pc \in HoldPcs /\ desk[d].who = s /\ t \in desk[d].list
Holders(s, t) == {d \in Desks : Holds(d, s, t)}
\* Once a term is signed no further desk comes to hold it.
SignaturesCounted == \A s \in Signers, t \in TermIds :
    signed[s][t] > 0 =>
        signed[s][t] + Cardinality(Holders(s, t)) <= Cardinality(Desks)

\* Whose requests are at which step.
UserPcs == {"reinvite", "hashing", "compared", "resending", "resetting", "roles"}
Placed(r) ==
    /\ r.pc # "idle" => r.who \in Signers
    /\ r.pc \in UserPcs => r.who \in Users
    /\ r.pc # "idle" /\ r.who \in Users => Exist(r.who)

\* What a request whose reads are fresh has read is still so.
DueOf(s) == TermsFor(RolesOf(s))
AllSigned(s) == \A t \in DueOf(s) : HasSigned(s, t)
Fresh(r) == ~r.stale =>
    /\ r.pc = "terms" => r.roles = RolesOf(r.who)
    /\ r.pc = "signatures" => DueOf(r.who) \subseteq r.list
    /\ r.pc \in HoldPcs =>
          \A t \in DueOf(r.who) : HasSigned(r.who, t) \/ t \in r.list
    /\ r.pc = "in" => AllSigned(r.who)
    /\ r.pc = "reinvite" => ~user[r.who].done

\* Only users have codes, and the tries of one that lives have all been counted.
Counted(u) ==
    /\ code[u] # NoCode => Exist(u)
    /\ Live(u) => past[u] = code[u].attempts

SignInv == /\ TypeOK
           /\ SignedTermStays
           /\ SignaturesCounted
           /\ \A d \in Desks : Placed(desk[d]) /\ Fresh(desk[d])
           /\ \A u \in Users : Counted(u)

-----------------------------------------------------------------------------
(* The terms: types. *)

LEMMA NewRequestType ==
    ASSUME NEW pc \in {"idle", "last", "open", "save"}, NEW op \in Ops,
           NEW id \in TermIds \cup {Unsaved}, NEW old \in Pairs \cup {Unsaved},
           NEW pair \in Pairs \cup {Unsaved}, NEW begin \in Int,
           NEW text \in Texts \cup {Unsaved}
    PROVE  /\ NewRequest(pc, op, id, old, pair, begin, text) \in Request
           /\ NewRequest(pc, op, id, old, pair, begin, text).pc = pc
           /\ NewRequest(pc, op, id, old, pair, begin, text).op = op
           /\ NewRequest(pc, op, id, old, pair, begin, text).id = id
           /\ NewRequest(pc, op, id, old, pair, begin, text).old = old
           /\ NewRequest(pc, op, id, old, pair, begin, text).pair = pair
           /\ NewRequest(pc, op, id, old, pair, begin, text).begin = begin
           /\ NewRequest(pc, op, id, old, pair, begin, text).text = text
           /\ NewRequest(pc, op, id, old, pair, begin, text).last = Unsaved
           /\ NewRequest(pc, op, id, old, pair, begin, text).open = Unsaved
BY DEF NewRequest, Request, Unsaved

LEMMA AdminIdleType ==
    /\ AdminIdle \in Request
    /\ AdminIdle.pc = "idle"
    /\ AdminIdle.op = "none"
BY DEF AdminIdle, NewRequest, Request, Ops, Unsaved

LEMMA TermType ==
    ASSUME TermTypeOK, NEW t \in TermIds, Exists(t)
    PROVE  /\ terms[t] \in Term
           /\ terms[t].pair \in Pairs
           /\ terms[t].begin \in Nat
           /\ terms[t].end \in Int
           /\ terms[t].text \in Texts
<1>1. terms[t] \in Term BY DEF TermTypeOK, Exists
<1> QED BY <1>1 DEF Term

\* The rows a write leaves behind, whatever the request.
LEMMA ClosingType ==
    ASSUME TermTypeOK, NEW r \in Request, NEW t \in TermIds
    PROVE  /\ EndAfter(r, t) \in Int \/ ~Exists(t)
           /\ ~Exists(t) => Closing(r)[t] = NoTerm
           /\ Exists(t) => /\ Closing(r)[t] \in Term
                           /\ Closing(r)[t].pair = terms[t].pair
                           /\ Closing(r)[t].begin = terms[t].begin
                           /\ Closing(r)[t].text = terms[t].text
                           /\ Closing(r)[t].end = EndAfter(r, t)
<1>1. r.begin \in Int BY DEF Request
<1>2. CASE ~Exists(t) BY <1>2 DEF Closing
<1>3. CASE Exists(t)
  <2>1. /\ terms[t] \in Term /\ terms[t].pair \in Pairs /\ terms[t].begin \in Nat
        /\ terms[t].end \in Int /\ terms[t].text \in Texts
    BY <1>3, TermType
  <2>2. EndAfter(r, t) \in Int BY <1>1, <2>1 DEF EndAfter, Open
  <2>3. PICK e \in Int : e = EndAfter(r, t) BY <2>2
  <2>4. Closing(r)[t] = [terms[t] EXCEPT !.end = e] BY <1>3, <2>3 DEF Closing
  <2>5. /\ [terms[t] EXCEPT !.end = e] \in Term
        /\ [terms[t] EXCEPT !.end = e].pair = terms[t].pair
        /\ [terms[t] EXCEPT !.end = e].begin = terms[t].begin
        /\ [terms[t] EXCEPT !.end = e].text = terms[t].text
        /\ [terms[t] EXCEPT !.end = e].end = e
    BY <2>1, <2>3 DEF Term
  <2> QED BY <1>3, <2>2, <2>3, <2>4, <2>5
<1> QED BY <1>2, <1>3

LEMMA NoTermIsNone == ASSUME NEW r \in Term PROVE r # NoTerm /\ r.pair # Unsaved
BY TermsAssumption DEF Term, NoTerm

LEMMA OutdatedFields ==
    ASSUME TermTypeOK, NEW h \in Admins, NEW g \in Admins
    PROVE  /\ Outdated(h)[g] \in Request
           /\ g # h => /\ Outdated(h)[g].pc = admin[g].pc
                       /\ Outdated(h)[g].op = admin[g].op
                       /\ Outdated(h)[g].pair = admin[g].pair
                       /\ Outdated(h)[g].old = admin[g].old
                       /\ Outdated(h)[g].begin = admin[g].begin
                       /\ Outdated(h)[g].text = admin[g].text
                       /\ Outdated(h)[g].stale = (admin[g].pc # "idle")
           /\ g = h => Outdated(h)[g] = AdminIdle
<1>1. admin[g] \in Request BY DEF TermTypeOK
<1>2. CASE g = h BY <1>2, AdminIdleType DEF Outdated
<1>3. CASE g # h
  <2>1. Outdated(h)[g] = [admin[g] EXCEPT !.stale = admin[g].pc # "idle"]
    BY <1>3 DEF Outdated
  <2> QED BY <1>1, <1>3, <2>1 DEF Request
<1> QED BY <1>2, <1>3

-----------------------------------------------------------------------------
(* The terms: the steps that only read. *)

LEMMA AdminMoves ==
    ASSUME TermInv, NEW h \in Admins, NEW r \in Request,
           admin' = [admin EXCEPT ![h] = r],
           UNCHANGED <<now, terms, lastTerm, raced>>,
           changes' \in 0..MaxChanges,
           AskedRow(r),
           Kind(r),
           ~raced /\ r.pc # "idle" /\ r.stale = FALSE => FreshRead(r)
    PROVE  TermInv'
<1> USE DEF TermInv
<1>1. admin' \in [Admins -> Request] /\ admin'[h] = r
      /\ \A g \in Admins : g # h => admin'[g] = admin[g]
  BY DEF TermTypeOK
<1>2. TermTypeOK' BY <1>1 DEF TermTypeOK
<1>3. RowsPacked' BY DEF RowsPacked
<1>4. AskedDays' BY <1>1 DEF AskedDays, AskedRow
<1>5. KindAtStep' BY <1>1 DEF KindAtStep, Kind
<1>6. FutureIsOpen' BY DEF FutureIsOpen, Exists, Started
<1>7. OneOpenTerm' BY DEF OneOpenTerm, OpenOf, Of, Exists
<1>8. FreshAdmins'
  <2> SUFFICES ASSUME ~raced, NEW g \in Admins, admin'[g].pc # "idle",
                      admin'[g].stale = FALSE
               PROVE  FreshRead(admin[g])'
    BY DEF FreshAdmins
  <2>1. FreshRead(admin'[g])
    BY <1>1 DEF FreshAdmins
  <2> QED BY <2>1 DEF FreshRead, FreshTarget, FreshLast, FreshOpen,
                      OpenOf, Of, Exists, Started
<1> QED BY <1>2, <1>3, <1>4, <1>5, <1>6, <1>7, <1>8

\* The steps of others leave the terms and their requests alone.
LEMMA TermStutter ==
    ASSUME TermInv, UNCHANGED <<now, terms, lastTerm, admin, raced>>,
           changes' \in 0..MaxChanges
    PROVE  TermInv'
<1> USE DEF TermInv
<1>1. TermTypeOK' BY DEF TermTypeOK
<1>2. RowsPacked' /\ AskedDays' /\ KindAtStep'
  BY DEF RowsPacked, AskedDays, AskedRow, KindAtStep, Kind
<1>3. FutureIsOpen' BY DEF FutureIsOpen, Exists, Started
<1>4. OneOpenTerm' BY DEF OneOpenTerm, OpenOf, Of, Exists
<1>5. FreshAdmins'
  BY DEF FreshAdmins, FreshRead, FreshTarget, FreshLast, FreshOpen,
         OpenOf, Of, Exists, Started
<1> QED BY <1>1, <1>2, <1>3, <1>4, <1>5

LEMMA IdleMove ==
    ASSUME TermInv, NEW h \in Admins, AdminRefuse(h),
           UNCHANGED <<now, terms, lastTerm, changes, raced>>
    PROVE  TermInv'
<1>1. Kind(AdminIdle) /\ AskedRow(AdminIdle) BY AdminIdleType DEF Kind, AskedRow
<1>2. changes' \in 0..MaxChanges BY DEF TermInv, TermTypeOK
<1> QED BY <1>1, <1>2, AdminIdleType, AdminMoves DEF AdminRefuse, AdminGoto

LEMMA AskCreateInv ==
    ASSUME TermInv, NEW h \in Admins, AskCreate(h) PROVE TermInv'
<1>1. PICK p \in Pairs, d \in Days, x \in Texts :
         AdminGoto(h, NewRequest("open", "create", Unsaved, p, p, d, x))
  BY DEF AskCreate
<1>2. PICK r : r = NewRequest("open", "create", Unsaved, p, p, d, x) OBVIOUS
<1>3. /\ d \in Int /\ d >= 1 BY TermsAssumption
<1>4. /\ r \in Request /\ r.pc = "open" /\ r.op = "create" /\ r.begin = d
      /\ r.pair = p /\ r.text = x
      /\ r.last = Unsaved /\ r.open = Unsaved
  BY <1>2, <1>3 DEF NewRequest, Request, Ops, Unsaved
<1>5. Kind(r) /\ AskedRow(r) BY <1>3, <1>4 DEF Kind, AskedRow
<1>6. FreshRead(r) BY <1>4 DEF FreshRead, FreshTarget, FreshLast, FreshOpen
<1>7. changes' \in 0..MaxChanges /\ UNCHANGED <<now, terms, lastTerm, raced>>
  BY TermsAssumption DEF AskCreate, AskAdmin, TermInv, TermTypeOK
<1> QED BY <1>1, <1>2, <1>3, <1>4, <1>5, <1>6, <1>7, AdminMoves DEF AdminGoto

LEMMA AskDeleteInv ==
    ASSUME TermInv, NEW h \in Admins, AskDelete(h) PROVE TermInv'
<1>1. PICK t \in TermIds :
         /\ Exists(t)
         /\ ~Started(t)
         /\ AdminGoto(h, NewRequest("last", "delete", t, terms[t].pair,
                            terms[t].pair, terms[t].begin, terms[t].text))
  BY DEF AskDelete
<1>2. PICK r : r = NewRequest("last", "delete", t, terms[t].pair,
                              terms[t].pair, terms[t].begin, terms[t].text)
  OBVIOUS
<1>3. terms[t].pair \in Pairs /\ terms[t].begin \in Int /\ terms[t].text \in Texts
  BY <1>1, TermType DEF TermInv
<1>4. /\ r \in Request /\ r.pc = "last" /\ r.op = "delete" /\ r.id = t
      /\ r.old = terms[t].pair /\ r.last = Unsaved /\ r.open = Unsaved
  BY <1>2, <1>3 DEF NewRequest, Request, Ops, Unsaved
<1>5. Kind(r) /\ AskedRow(r) BY <1>3, <1>4 DEF Kind, AskedRow
<1>6. FreshRead(r)
  BY <1>1, <1>4 DEF FreshRead, FreshTarget, FreshLast, FreshOpen
<1>7. changes' \in 0..MaxChanges /\ UNCHANGED <<now, terms, lastTerm, raced>>
  BY TermsAssumption DEF AskDelete, AskAdmin, TermInv, TermTypeOK
<1> QED BY <1>1, <1>2, <1>4, <1>5, <1>6, <1>7, AdminMoves DEF AdminGoto

LEMMA AskUpdateInv ==
    ASSUME TermInv, NEW h \in Admins, AskUpdate(h) PROVE TermInv'
<1>1. PICK t \in TermIds, p \in Pairs, d \in Days, x \in Texts :
         /\ Exists(t)
         /\ ~Started(t)
         /\ AdminGoto(h, NewRequest(UpdateCase(t, p, d, x), "update", t,
                                    terms[t].pair, p, d, x))
  BY DEF AskUpdate
<1>2. PICK c : c = UpdateCase(t, p, d, x) OBVIOUS
<1>3. /\ c \in {"last", "open", "save"}
      /\ c = "last" <=> p # terms[t].pair
  BY <1>2 DEF UpdateCase
<1>4. PICK r : r = NewRequest(c, "update", t, terms[t].pair, p, d, x) OBVIOUS
<1>5. /\ d \in Int /\ d >= 1 /\ terms[t].pair \in Pairs
  BY <1>1, TermType, TermsAssumption DEF TermInv
<1>6. /\ r \in Request /\ r.pc = c /\ r.op = "update" /\ r.id = t
      /\ r.old = terms[t].pair /\ r.pair = p /\ r.begin = d /\ r.text = x
      /\ r.last = Unsaved /\ r.open = Unsaved
  BY <1>3, <1>4, <1>5 DEF NewRequest, Request, Ops, Unsaved
<1>7. Kind(r) /\ AskedRow(r) BY <1>3, <1>5, <1>6 DEF Kind, AskedRow
<1>8. FreshRead(r)
  BY <1>1, <1>3, <1>6 DEF FreshRead, FreshTarget, FreshLast, FreshOpen
<1>9. changes' \in 0..MaxChanges /\ UNCHANGED <<now, terms, lastTerm, raced>>
  BY TermsAssumption DEF AskUpdate, AskAdmin, TermInv, TermTypeOK
<1> QED BY <1>1, <1>2, <1>4, <1>5, <1>6, <1>7, <1>8, <1>9, AdminMoves DEF AdminGoto

LEMMA FindLastInv ==
    ASSUME TermInv, NEW h \in Admins, FindLast(h) PROVE TermInv'
<1>1. PICK t \in TermIds \cup {Unsaved} :
         /\ IF Latest(admin[h].old) = {} THEN t = Unsaved
            ELSE t \in Latest(admin[h].old)
         /\ AdminGoto(h, [[admin[h] EXCEPT !.last = t] EXCEPT
                            !.pc = IF admin[h].op = "delete" THEN "save"
                                   ELSE "open"])
  BY DEF FindLast
<1>2. PICK c \in {"save", "open"} :
         c = (IF admin[h].op = "delete" THEN "save" ELSE "open")
  OBVIOUS
<1>3. PICK r : r = [[admin[h] EXCEPT !.last = t] EXCEPT !.pc = c] OBVIOUS
<1>4. /\ admin[h] \in Request /\ admin[h].pc = "last"
      /\ admin[h].op \in {"delete", "update"} /\ Kind(admin[h])
      /\ AskedRow(admin[h])
      /\ UNCHANGED <<now, terms, lastTerm, raced>>
      /\ changes' \in 0..MaxChanges
  BY DEF FindLast, StepAdmin, AdminAt, TermInv, TermTypeOK, KindAtStep, Kind, AskedDays, AskedRow
<1>5. /\ r \in Request /\ r.pc = c /\ r.last = t /\ r.op = admin[h].op
      /\ r.id = admin[h].id /\ r.old = admin[h].old /\ r.pair = admin[h].pair
      /\ r.begin = admin[h].begin /\ r.open = admin[h].open
      /\ r.stale = admin[h].stale /\ r.text = admin[h].text
  BY <1>3, <1>4 DEF Request
<1>6. Kind(r) /\ AskedRow(r) BY <1>2, <1>4, <1>5 DEF Kind, AskedRow
<1>7. ASSUME ~raced, r.stale = FALSE PROVE FreshRead(r)
  <2>1. FreshRead(admin[h])
    BY <1>4, <1>5, <1>7 DEF TermInv, FreshAdmins
  <2>2. t # Unsaved => t \in Of(r.old) /\ terms[t].end # Open
    BY <1>1, <1>5 DEF Latest, StillToEnd
  <2>3. FreshTarget(r) BY <1>5, <2>1 DEF FreshRead, FreshTarget
  <2>4. FreshLast(r) BY <1>4, <1>5, <2>2 DEF FreshLast
  <2>5. FreshOpen(r)
    BY <1>2, <1>4, <1>5, <2>1 DEF FreshRead, FreshOpen, Kind
  <2> QED BY <2>3, <2>4, <2>5 DEF FreshRead
<1> QED BY <1>1, <1>2, <1>3, <1>4, <1>5, <1>6, <1>7, AdminMoves DEF AdminGoto

LEMMA FindOpenInv ==
    ASSUME TermInv, NEW h \in Admins, FindOpen(h) PROVE TermInv'
<1>1. /\ admin[h] \in Request /\ admin[h].pc = "open"
      /\ admin[h].op \in {"create", "update"} /\ Kind(admin[h])
      /\ AskedRow(admin[h])
      /\ UNCHANGED <<now, terms, lastTerm, changes, raced>>
      /\ changes' \in 0..MaxChanges
  BY DEF FindOpen, StepAdmin, AdminAt, TermInv, TermTypeOK, KindAtStep, Kind, AskedDays, AskedRow
<1>2. ASSUME ~raced, admin[h].stale = FALSE
      PROVE  /\ FreshRead(admin[h])
             /\ \A s, t \in OpenOf(admin[h].pair) : s = t
             /\ admin[h].op = "update" /\ admin[h].pair = admin[h].old =>
                   admin[h].id \in OpenOf(admin[h].pair) /\ ~Started(admin[h].id)
  <2>1. FreshRead(admin[h]) BY <1>1, <1>2 DEF TermInv, FreshAdmins
  <2>2. admin[h].op = "update" =>
           /\ Exists(admin[h].id) /\ ~Started(admin[h].id)
           /\ terms[admin[h].id].pair = admin[h].old
           /\ admin[h].id \in TermIds
           /\ terms[admin[h].id].end = Open
    BY <1>2, <2>1 DEF FreshRead, FreshTarget, TermInv, FutureIsOpen, Exists
  <2>3. admin[h].op = "update" => admin[h].old \in Pairs
    BY <2>2, TermType DEF TermInv
  <2>4. \A p \in Pairs : \A s, t \in OpenOf(p) : s = t
    BY <1>2 DEF TermInv, OneOpenTerm
  <2>5. ASSUME NEW s \in OpenOf(admin[h].pair), NEW t \in OpenOf(admin[h].pair)
        PROVE  s = t
    <3>1. s \in TermIds /\ Exists(s) /\ terms[s].pair = admin[h].pair
      BY <2>5 DEF OpenOf, Of
    <3>2. admin[h].pair \in Pairs BY <3>1, TermType DEF TermInv
    <3> QED BY <2>4, <2>5, <3>2
  <2> QED BY <2>1, <2>2, <2>5 DEF OpenOf, Of
<1>3. CASE /\ OpenOf(admin[h].pair) = {}
           /\ AdminGoto(h, [admin[h] EXCEPT !.pc = "save"])
  <2>1. PICK r : r = [admin[h] EXCEPT !.pc = "save"] OBVIOUS
  <2>2. /\ r \in Request /\ r.pc = "save" /\ r.last = admin[h].last
        /\ r.op = admin[h].op
        /\ r.id = admin[h].id /\ r.old = admin[h].old /\ r.pair = admin[h].pair
        /\ r.begin = admin[h].begin /\ r.open = admin[h].open
        /\ r.stale = admin[h].stale /\ r.text = admin[h].text
    BY <1>1, <2>1 DEF Request
  <2>3. Kind(r) /\ AskedRow(r) BY <1>1, <2>2 DEF Kind, AskedRow
  <2>4. ASSUME ~raced, r.stale = FALSE PROVE FreshRead(r)
    <3>1. FreshRead(admin[h]) BY <1>2, <2>2, <2>4
    <3>2. FreshTarget(r) /\ FreshLast(r)
      BY <2>2, <3>1 DEF FreshRead, FreshTarget, FreshLast
    <3>3. FreshOpen(r) BY <1>3, <2>2, <3>1 DEF FreshRead, FreshOpen
    <3> QED BY <3>2, <3>3 DEF FreshRead
  <2> QED BY <1>1, <1>3, <2>1, <2>2, <2>3, <2>4, AdminMoves DEF AdminGoto
<1>4. ASSUME NEW t \in OpenOf(admin[h].pair), Started(t),
             AdminGoto(h, [[admin[h] EXCEPT !.open = t] EXCEPT !.pc = "save"])
      PROVE  TermInv'
  <2>1. PICK r : r = [[admin[h] EXCEPT !.open = t] EXCEPT !.pc = "save"] OBVIOUS
  <2>0. t \in TermIds BY DEF OpenOf, Of
  <2>2. /\ r \in Request /\ r.pc = "save" /\ r.last = admin[h].last
        /\ r.op = admin[h].op
        /\ r.id = admin[h].id /\ r.old = admin[h].old /\ r.pair = admin[h].pair
        /\ r.begin = admin[h].begin /\ r.open = t
        /\ r.stale = admin[h].stale /\ r.text = admin[h].text
    BY <1>1, <2>0, <2>1 DEF Request
  <2>3. Kind(r) /\ AskedRow(r) BY <1>1, <2>2 DEF Kind, AskedRow
  <2>4. ASSUME ~raced, r.stale = FALSE PROVE FreshRead(r)
    <3>1. FreshRead(admin[h]) BY <1>2, <2>2, <2>4
    <3>2. FreshTarget(r) /\ FreshLast(r)
      BY <2>2, <3>1 DEF FreshRead, FreshTarget, FreshLast
    <3>3. OpenOf(admin[h].pair) \subseteq {t} BY <1>2, <1>4, <2>2, <2>4
    <3>4. ~(admin[h].op = "update" /\ admin[h].pair = admin[h].old)
      BY <1>2, <1>4, <2>2, <2>4
    <3>5. FreshOpen(r) BY <1>1, <1>4, <2>2, <3>3, <3>4 DEF FreshOpen
    <3> QED BY <3>2, <3>5 DEF FreshRead
  <2> QED BY <1>1, <1>4, <2>1, <2>2, <2>3, <2>4, AdminMoves DEF AdminGoto
<1>5. CASE AdminRefuse(h) BY <1>1, <1>5, IdleMove
<1> QED BY <1>3, <1>4, <1>5 DEF FindOpen

LEMMA TickInv == ASSUME TermInv, Tick PROVE TermInv'
<1> USE DEF TermInv
<1>1. /\ now' = now + 1 /\ now' \in 0..LastPhase
      /\ UNCHANGED <<terms, lastTerm, changes, raced>>
  BY TermsAssumption DEF Tick, TermTypeOK
<1>2. ASSUME NEW h \in Admins
      PROVE  /\ admin'[h] \in Request
             /\ admin'[h].pc = admin[h].pc /\ admin'[h].op = admin[h].op
             /\ admin'[h].pair = admin[h].pair /\ admin'[h].old = admin[h].old
             /\ admin'[h].begin = admin[h].begin /\ admin'[h].text = admin[h].text
             /\ admin'[h].stale = (admin[h].pc # "idle")
  <2>1. admin'[h] = [admin[h] EXCEPT !.stale = admin[h].pc # "idle"]
        /\ admin[h] \in Request
    BY DEF Tick, TermTypeOK
  <2> QED BY <2>1 DEF Request
<1>3. admin' \in [Admins -> Request] BY <1>2 DEF Tick
<1>4. TermTypeOK' BY <1>1, <1>3 DEF TermTypeOK
<1>5. RowsPacked' BY <1>1 DEF RowsPacked
<1>6. AskedDays' /\ KindAtStep' BY <1>2 DEF AskedDays, AskedRow, KindAtStep, Kind
<1>7. FreshAdmins' BY <1>2 DEF FreshAdmins
<1>8. OneOpenTerm' BY <1>1 DEF OneOpenTerm, OpenOf, Of, Exists
<1>9. FutureIsOpen'
  <2> SUFFICES ASSUME ~raced, NEW t \in TermIds, Exists(t), ~(2 * terms[t].begin <= now')
               PROVE  terms[t].end = Open
    BY <1>1 DEF FutureIsOpen, Exists, Started
  <2>1. now \in Int /\ terms[t].begin \in Nat BY TermType DEF TermTypeOK
  <2>2. ~Started(t) BY <1>1, <2>1 DEF Started
  <2> QED BY <2>2 DEF FutureIsOpen
<1> QED BY <1>4, <1>5, <1>6, <1>7, <1>8, <1>9

LEMMA AdminsRestartInv == ASSUME TermInv, AdminsRestart PROVE TermInv'
<1> USE DEF TermInv
<1>1. /\ UNCHANGED <<now, terms, lastTerm, changes, raced>>
      /\ \A h \in Admins : admin'[h] = AdminIdle
      /\ admin' \in [Admins -> Request]
  BY AdminIdleType DEF AdminsRestart
<1>2. TermTypeOK' /\ RowsPacked' BY <1>1 DEF TermTypeOK, RowsPacked
<1>3. AskedDays' /\ KindAtStep' /\ FreshAdmins'
  BY <1>1, AdminIdleType DEF AskedDays, AskedRow, KindAtStep, Kind, FreshAdmins
<1>4. FutureIsOpen' /\ OneOpenTerm'
  BY <1>1 DEF FutureIsOpen, OneOpenTerm, OpenOf, Of, Exists, Started
<1> QED BY <1>2, <1>3, <1>4

-----------------------------------------------------------------------------
(* The terms: the steps that write. *)

\* What a write does to the requests, and what it may rest on.
LEMMA SaveAdmins ==
    ASSUME TermInv, NEW h \in Admins, NEW op \in Ops, Save(h, op)
    PROVE  /\ admin' \in [Admins -> Request] /\ raced' \in BOOLEAN
           /\ UNCHANGED <<now, changes>>
           /\ AskedDays' /\ KindAtStep' /\ FreshAdmins'
           /\ admin[h] \in Request /\ admin[h].op = op /\ AskedRow(admin[h])
           /\ admin[h].pc = "save"
           /\ ~raced' => ~raced /\ FreshRead(admin[h])
<1> USE DEF TermInv
<1>1. /\ admin[h] \in Request /\ admin[h].op = op /\ AskedRow(admin[h])
      /\ admin[h].pc = "save" /\ UNCHANGED <<now, changes>>
      /\ raced' = (raced \/ admin[h].stale) /\ admin' = Outdated(h)
  BY DEF Save, AdminAt, TermTypeOK, AskedDays
<1>2. admin[h].stale \in BOOLEAN BY <1>1 DEF Request
<1>3. raced' \in BOOLEAN /\ (~raced' => ~raced /\ admin[h].stale = FALSE)
  BY <1>1, <1>2
<1>4. ~raced' => FreshRead(admin[h]) BY <1>1, <1>3 DEF FreshAdmins
<1>5. \A g \in Admins :
         /\ admin'[g] \in Request
         /\ g # h => /\ admin'[g].pc = admin[g].pc
                     /\ admin'[g].op = admin[g].op
                     /\ admin'[g].pair = admin[g].pair
                     /\ admin'[g].old = admin[g].old
                     /\ admin'[g].begin = admin[g].begin
                     /\ admin'[g].text = admin[g].text
                     /\ admin'[g].stale = (admin[g].pc # "idle")
         /\ g = h => admin'[g] = AdminIdle
  BY <1>1, OutdatedFields
<1>6. admin' \in [Admins -> Request] BY <1>1, <1>5 DEF Outdated
<1>7. AskedDays' /\ KindAtStep'
  BY <1>5, AdminIdleType DEF AskedDays, AskedRow, KindAtStep, Kind
<1>8. FreshAdmins' BY <1>5, AdminIdleType DEF FreshAdmins
<1> QED BY <1>1, <1>3, <1>4, <1>6, <1>7, <1>8

\* Which of the rows a write leaves are open.
LEMMA StillOpen ==
    ASSUME TermInv, NEW r \in Request, FreshRead(r), AskedRow(r),
           r.op \in {"create", "update", "delete"}, NEW t \in TermIds, Exists(t)
    PROVE  /\ EndAfter(r, t) = Open <=>
                 t # r.open /\ (t = r.last \/ terms[t].end = Open)
           /\ ~raced /\ ~Started(t) => EndAfter(r, t) = Open
<1>1. t # Unsaved BY DEF TermIds, Unsaved
<1>2. t = r.open => r.begin >= 1 /\ r.begin \in Int /\ Started(t)
  BY <1>1 DEF FreshRead, FreshOpen, AskedRow, Request
<1>3. ~raced /\ ~Started(t) => terms[t].end = Open
  BY DEF TermInv, FutureIsOpen
<1> QED BY <1>2, <1>3 DEF EndAfter, Open

LEMMA SaveCreateInv ==
    ASSUME TermInv, NEW h \in Admins, SaveCreate(h) PROVE TermInv'
<1> USE DEF TermInv
<1>0. "create" \in Ops /\ Save(h, "create") BY DEF SaveCreate, Ops
<1>1. PICK r : r = admin[h] OBVIOUS
<1>2. /\ admin' \in [Admins -> Request] /\ raced' \in BOOLEAN
      /\ UNCHANGED <<now, changes>>
      /\ AskedDays' /\ KindAtStep' /\ FreshAdmins'
      /\ r \in Request /\ r.op = "create" /\ AskedRow(r) /\ r.pc = "save"
      /\ ~raced' => ~raced /\ FreshRead(r)
  BY <1>0, <1>1, SaveAdmins
<1>3. PICK n : n = lastTerm + 1 OBVIOUS
<1>4. /\ n \in TermIds /\ ~Exists(n) /\ lastTerm' = n /\ lastTerm' \in 0..MaxTerms
      /\ \A t \in TermIds : Exists(t) => t <= n
  BY <1>3, TermsAssumption DEF SaveCreate, TermTypeOK, TermIds, RowsPacked, Exists
<1>5. PICK row : row = [pair |-> r.pair, begin |-> r.begin, end |-> Open,
                        text |-> r.text]
  OBVIOUS
<1>6. /\ row \in Term /\ row # NoTerm /\ row.pair = r.pair /\ row.end = Open
      /\ row.begin = r.begin
  <2>1. r.pair \in Pairs /\ r.begin \in Nat /\ r.text \in Texts
    BY <1>2 DEF AskedRow, Request
  <2>2. row \in Term BY <1>5, <2>1 DEF Term, Open
  <2> QED BY <1>5, <2>2, NoTermIsNone
<1>7. PICK f : f = Closing(r) OBVIOUS
<1>8. DOMAIN f = TermIds BY <1>7 DEF Closing
<1>9. terms' = [f EXCEPT ![n] = row] BY <1>1, <1>3, <1>5, <1>7 DEF SaveCreate
<1>10. terms'[n] = row /\ DOMAIN terms' = TermIds
  BY <1>4, <1>8, <1>9
<1>11. ASSUME NEW t \in TermIds, t # n
       PROVE  /\ ~Exists(t) => terms'[t] = NoTerm
              /\ Exists(t) => /\ terms'[t] \in Term
                              /\ terms'[t].pair = terms[t].pair
                              /\ terms'[t].begin = terms[t].begin
                              /\ terms'[t].end = EndAfter(r, t)
                              /\ terms'[t] # NoTerm
  <2>1. terms'[t] = f[t] BY <1>8, <1>9, <1>11
  <2> QED BY <1>2, <1>7, <2>1, ClosingType, NoTermIsNone
<1>12. terms' \in [TermIds -> Term \cup {NoTerm}]
  <2>1. \A t \in TermIds : terms'[t] \in Term \cup {NoTerm}
    BY <1>6, <1>10, <1>11
  <2>2. terms' = [t \in TermIds |-> terms'[t]] BY <1>8, <1>9
  <2> QED BY <2>1, <2>2
<1>13. TermTypeOK' BY <1>2, <1>4, <1>12 DEF TermTypeOK
<1>14. RowsPacked'
  <2>1. \A t \in TermIds : terms'[t] # NoTerm => t <= n
    BY <1>4, <1>11 DEF TermIds
  <2> QED BY <1>4, <2>1 DEF RowsPacked
<1>15. ASSUME ~raced', NEW t \in TermIds, Exists(t)'
       PROVE  /\ t # n => (terms'[t].end = Open <=>
                              t # r.open /\ terms[t].end = Open)
              /\ ~Started(t)' => terms'[t].end = Open
  <2>1. CASE t = n BY <1>6, <1>10, <2>1
  <2>2. CASE t # n
    <3>1. Exists(t) BY <1>11, <1>15, <2>2 DEF Exists
    <3>2. r.last = Unsaved BY <1>2, <1>15 DEF FreshRead, FreshLast
    <3>3. t # Unsaved BY DEF TermIds, Unsaved
    <3>4. /\ EndAfter(r, t) = Open <=>
                t # r.open /\ (t = r.last \/ terms[t].end = Open)
          /\ ~Started(t) => EndAfter(r, t) = Open
      BY <1>2, <1>15, <3>1, StillOpen
    <3>5. Started(t)' <=> Started(t) BY <1>2, <1>11, <2>2, <3>1 DEF Started
    <3> QED BY <1>11, <2>2, <3>1, <3>2, <3>3, <3>4, <3>5
  <2> QED BY <2>1, <2>2
<1>16. FutureIsOpen' BY <1>15 DEF FutureIsOpen
<1>17. OneOpenTerm'
  <2> SUFFICES ASSUME ~raced', NEW p \in Pairs, NEW s \in OpenOf(p)',
                      NEW t \in OpenOf(p)'
               PROVE  s = t
    BY DEF OneOpenTerm
  <2>1. ASSUME NEW x \in OpenOf(p)', x # n PROVE x \in OpenOf(p) /\ p # r.pair
    <3>1. x \in TermIds /\ Exists(x)' /\ terms'[x].pair = p /\ terms'[x].end = Open
      BY <2>1 DEF OpenOf, Of
    <3>2. Exists(x) /\ terms[x].pair = p /\ x # r.open /\ terms[x].end = Open
      BY <1>11, <1>15, <2>1, <3>1 DEF Exists
    <3>3. OpenOf(r.pair) \subseteq {r.open}
      BY <1>2 DEF FreshRead, FreshOpen
    <3> QED BY <3>1, <3>2, <3>3 DEF OpenOf, Of
  <2>2. ASSUME NEW x \in OpenOf(p)', x = n PROVE p = r.pair
    BY <1>6, <1>10, <2>2 DEF OpenOf, Of
  <2>3. \A x, y \in OpenOf(p) : x = y BY <1>2 DEF OneOpenTerm
  <2> QED BY <2>1, <2>2, <2>3
<1> QED BY <1>2, <1>13, <1>14, <1>16, <1>17

\* The rows a write leaves where it neither adds, rewrites nor deletes one.
LEMMA OtherRows ==
    ASSUME TermInv, NEW r \in Request, NEW i, NEW row,
           terms' = [Closing(r) EXCEPT ![i] = row]
    PROVE  /\ DOMAIN terms' = TermIds
           /\ terms' = [t \in TermIds |-> terms'[t]]
           /\ i \in TermIds => terms'[i] = row
           /\ \A t \in TermIds : t # i =>
                /\ ~Exists(t) => terms'[t] = NoTerm
                /\ Exists(t) => /\ terms'[t] \in Term
                                /\ terms'[t].pair = terms[t].pair
                                /\ terms'[t].begin = terms[t].begin
                                /\ terms'[t].text = terms[t].text
                                /\ terms'[t].end = EndAfter(r, t)
                                /\ terms'[t] # NoTerm
<1>1. PICK f : f = Closing(r) OBVIOUS
<1>2. DOMAIN f = TermIds BY <1>1 DEF Closing
<1>3. terms' = [f EXCEPT ![i] = row] BY <1>1
<1>4. /\ DOMAIN terms' = TermIds
      /\ terms' = [t \in TermIds |-> terms'[t]]
      /\ i \in TermIds => terms'[i] = row
      /\ \A t \in TermIds : t # i => terms'[t] = f[t]
  BY <1>2, <1>3
<1> QED BY <1>1, <1>4, ClosingType, NoTermIsNone DEF TermInv

LEMMA SaveDeleteInv ==
    ASSUME TermInv, NEW h \in Admins, NEW S, SaveDelete(h, S) PROVE TermInv'
<1> USE DEF TermInv
<1>0. "delete" \in Ops /\ Save(h, "delete") BY DEF SaveDelete, Ops
<1>1. PICK r : r = admin[h] OBVIOUS
<1>2. /\ admin' \in [Admins -> Request] /\ raced' \in BOOLEAN
      /\ UNCHANGED <<now, changes>>
      /\ AskedDays' /\ KindAtStep' /\ FreshAdmins'
      /\ r \in Request /\ r.op = "delete" /\ AskedRow(r)
      /\ ~raced' => ~raced /\ FreshRead(r)
  BY <1>0, <1>1, SaveAdmins
<1>3. /\ terms' = [Closing(r) EXCEPT ![r.id] = NoTerm] /\ lastTerm' = lastTerm
      /\ lastTerm \in 0..MaxTerms
  BY <1>1 DEF SaveDelete, TermTypeOK
<1>4. PICK i : i = r.id OBVIOUS
<1>5. /\ DOMAIN terms' = TermIds
      /\ terms' = [t \in TermIds |-> terms'[t]]
      /\ i \in TermIds => terms'[i] = NoTerm
      /\ \A t \in TermIds : t # i =>
           /\ ~Exists(t) => terms'[t] = NoTerm
           /\ Exists(t) => /\ terms'[t] \in Term
                           /\ terms'[t].pair = terms[t].pair
                           /\ terms'[t].begin = terms[t].begin
                           /\ terms'[t].text = terms[t].text
                           /\ terms'[t].end = EndAfter(r, t)
                           /\ terms'[t] # NoTerm
  BY <1>2, <1>3, <1>4, OtherRows
<1>6. terms' \in [TermIds -> Term \cup {NoTerm}]
  <2>1. \A t \in TermIds : terms'[t] \in Term \cup {NoTerm} BY <1>5
  <2> QED BY <1>5, <2>1
<1>7. TermTypeOK' BY <1>2, <1>3, <1>6 DEF TermTypeOK
<1>8. RowsPacked' BY <1>3, <1>5 DEF RowsPacked, Exists
<1>9. ASSUME ~raced', NEW t \in TermIds, Exists(t)'
      PROVE  /\ t # i /\ Exists(t)
             /\ terms'[t].pair = terms[t].pair
             /\ terms'[t].end = Open <=> t = r.last \/ terms[t].end = Open
             /\ ~Started(t)' => terms'[t].end = Open
  <2>1. t # i /\ Exists(t) BY <1>5, <1>9 DEF Exists
  <2>2. r.open = Unsaved BY <1>2, <1>9 DEF FreshRead, FreshOpen
  <2>3. t # Unsaved BY DEF TermIds, Unsaved
  <2>4. /\ EndAfter(r, t) = Open <=>
              t # r.open /\ (t = r.last \/ terms[t].end = Open)
        /\ ~Started(t) => EndAfter(r, t) = Open
    BY <1>2, <1>9, <2>1, StillOpen
  <2>5. Started(t)' <=> Started(t) BY <1>2, <1>5, <2>1 DEF Started
  <2> QED BY <1>5, <2>1, <2>2, <2>3, <2>4, <2>5
<1>10. FutureIsOpen' BY <1>9 DEF FutureIsOpen
<1>11. OneOpenTerm'
  <2> SUFFICES ASSUME ~raced', NEW p \in Pairs, NEW s \in OpenOf(p)',
                      NEW t \in OpenOf(p)'
               PROVE  s = t
    BY DEF OneOpenTerm
  <2>1. /\ Exists(i) /\ i \in TermIds /\ terms[i].pair = r.old
        /\ terms[i].end = Open
        /\ r.last # Unsaved => r.last \in Of(r.old)
    BY <1>2, <1>4 DEF FreshRead, FreshTarget, FreshLast, FutureIsOpen, Exists
  <2>2. \A x, y \in OpenOf(p) : x = y BY <1>2 DEF OneOpenTerm
  <2>3. ASSUME NEW x \in OpenOf(p)'
        PROVE  /\ x # i
               /\ (x = r.last /\ p = r.old) \/ x \in OpenOf(p)
    <3>1. x \in TermIds /\ Exists(x)' /\ terms'[x].pair = p /\ terms'[x].end = Open
      BY <2>3 DEF OpenOf, Of
    <3>2. /\ x # i /\ Exists(x) /\ terms[x].pair = p
          /\ x = r.last \/ terms[x].end = Open
      BY <1>9, <3>1
    <3>3. CASE terms[x].end = Open BY <3>1, <3>2, <3>3 DEF OpenOf, Of
    <3>4. CASE x = r.last
      <4>1. x # Unsaved BY <3>1 DEF TermIds, Unsaved
      <4> QED BY <2>1, <3>2, <3>4, <4>1 DEF Of
    <3> QED BY <3>2, <3>3, <3>4
  <2>4. p = r.old => i \in OpenOf(p) BY <2>1 DEF OpenOf, Of
  <2> QED BY <2>2, <2>3, <2>4
<1> QED BY <1>2, <1>7, <1>8, <1>10, <1>11

LEMMA SaveUpdateInv ==
    ASSUME TermInv, NEW h \in Admins, SaveUpdate(h) PROVE TermInv'
<1> USE DEF TermInv
<1>0. "update" \in Ops /\ Save(h, "update") BY DEF SaveUpdate, Ops
<1>1. PICK r : r = admin[h] OBVIOUS
<1>2. /\ admin' \in [Admins -> Request] /\ raced' \in BOOLEAN
      /\ UNCHANGED <<now, changes>>
      /\ AskedDays' /\ KindAtStep' /\ FreshAdmins'
      /\ r \in Request /\ r.op = "update" /\ AskedRow(r) /\ r.pc = "save"
      /\ ~raced' => ~raced /\ FreshRead(r)
  BY <1>0, <1>1, SaveAdmins
<1>3. PICK i : i = r.id OBVIOUS
<1>4. PICK row : row = IF Exists(i)
                       THEN [pair |-> r.pair, begin |-> r.begin,
                             end |-> EndAfter(r, i), text |-> r.text]
                       ELSE NoTerm
  OBVIOUS
<1>5. /\ terms' = [Closing(r) EXCEPT ![i] = row] /\ lastTerm' = lastTerm
      /\ lastTerm \in 0..MaxTerms
  BY <1>1, <1>3, <1>4 DEF SaveUpdate, TermTypeOK
<1>6. /\ Exists(i) => /\ row \in Term /\ row # NoTerm /\ row.pair = r.pair
                      /\ row.begin = r.begin /\ row.end = EndAfter(r, i)
      /\ ~Exists(i) => row = NoTerm
  <2>1. CASE Exists(i)
    <3>1. r.pair \in Pairs /\ r.begin \in Nat /\ r.text \in Texts
      BY <1>2 DEF AskedRow, Request
    <3>2. i \in TermIds BY <2>1 DEF Exists
    <3>3. EndAfter(r, i) \in Int BY <1>2, <2>1, <3>2, ClosingType
    <3>4. row \in Term BY <1>4, <2>1, <3>1, <3>3 DEF Term
    <3> QED BY <1>4, <2>1, <3>4, NoTermIsNone
  <2>2. CASE ~Exists(i) BY <1>4, <2>2
  <2> QED BY <2>1, <2>2
<1>7. /\ DOMAIN terms' = TermIds
      /\ terms' = [t \in TermIds |-> terms'[t]]
      /\ i \in TermIds => terms'[i] = row
      /\ \A t \in TermIds : t # i =>
           /\ ~Exists(t) => terms'[t] = NoTerm
           /\ Exists(t) => /\ terms'[t] \in Term
                           /\ terms'[t].pair = terms[t].pair
                           /\ terms'[t].begin = terms[t].begin
                           /\ terms'[t].text = terms[t].text
                           /\ terms'[t].end = EndAfter(r, t)
                           /\ terms'[t] # NoTerm
  BY <1>2, <1>5, OtherRows
<1>8. terms' \in [TermIds -> Term \cup {NoTerm}]
  <2>1. \A t \in TermIds : terms'[t] \in Term \cup {NoTerm} BY <1>6, <1>7
  <2> QED BY <1>7, <2>1
<1>9. TermTypeOK' BY <1>2, <1>5, <1>8 DEF TermTypeOK
<1>10. RowsPacked' BY <1>5, <1>6, <1>7 DEF RowsPacked, Exists
<1>11. ASSUME ~raced'
       PROVE  /\ i \in TermIds /\ Exists(i) /\ ~Started(i)
              /\ terms[i].pair = r.old /\ terms[i].end = Open
              /\ i # r.open
              /\ r.last # Unsaved => r.last \in Of(r.old)
              /\ r.pair = r.old => r.last = Unsaved /\ r.open = Unsaved
              /\ r.pair # r.old => OpenOf(r.pair) \subseteq {r.open}
              /\ r.open # Unsaved => r.open \in OpenOf(r.pair)
  BY <1>2, <1>3, <1>11
     DEF FreshRead, FreshTarget, FreshLast, FreshOpen, FutureIsOpen, Exists,
         TermIds, Unsaved
<1>12. ASSUME ~raced', NEW t \in TermIds, Exists(t)'
       PROVE  /\ Exists(t)
              /\ t # i => terms'[t].pair = terms[t].pair
              /\ t = i => terms'[t].pair = r.pair
              /\ terms'[t].end = Open <=>
                    t # r.open /\ (t = r.last \/ terms[t].end = Open)
              /\ ~Started(t)' => terms'[t].end = Open
  <2>1. Exists(t) BY <1>6, <1>7, <1>12 DEF Exists
  <2>2. /\ EndAfter(r, t) = Open <=>
              t # r.open /\ (t = r.last \/ terms[t].end = Open)
        /\ ~Started(t) => EndAfter(r, t) = Open
    BY <1>2, <1>12, <2>1, StillOpen
  <2>3. terms'[t].end = EndAfter(r, t) BY <1>6, <1>7, <2>1
  <2>4. ~Started(t)' => ~Started(t)
    <3>1. CASE t = i BY <1>11, <1>12, <3>1
    <3>2. CASE t # i BY <1>2, <1>7, <2>1, <3>2 DEF Started
    <3> QED BY <3>1, <3>2
  <2> QED BY <1>6, <1>7, <2>1, <2>2, <2>3, <2>4
<1>13. FutureIsOpen' BY <1>12 DEF FutureIsOpen
<1>14. OneOpenTerm'
  <2> SUFFICES ASSUME ~raced', NEW p \in Pairs, NEW s \in OpenOf(p)',
                      NEW t \in OpenOf(p)'
               PROVE  s = t
    BY DEF OneOpenTerm
  <2>1. \A x, y \in OpenOf(p) : x = y BY <1>2 DEF OneOpenTerm
  <2>2. i \in OpenOf(r.old) BY <1>11 DEF OpenOf, Of
  <2>3. ASSUME NEW x \in OpenOf(p)'
        PROVE  \/ x = i /\ p = r.pair
               \/ x # i /\ x = r.last /\ p = r.old
               \/ x # i /\ x \in OpenOf(p) /\ x # r.open
    <3>1. x \in TermIds /\ Exists(x)' /\ terms'[x].pair = p /\ terms'[x].end = Open
      BY <2>3 DEF OpenOf, Of
    <3>2. /\ Exists(x) /\ x # r.open /\ (x = r.last \/ terms[x].end = Open)
          /\ x # i => terms[x].pair = p
          /\ x = i => p = r.pair
      BY <1>12, <3>1
    <3>3. CASE x = i BY <3>2, <3>3
    <3>4. CASE x # i /\ terms[x].end = Open
      BY <3>1, <3>2, <3>4 DEF OpenOf, Of
    <3>5. CASE x # i /\ x = r.last
      <4>1. x # Unsaved BY <3>1 DEF TermIds, Unsaved
      <4> QED BY <1>11, <3>2, <3>5, <4>1 DEF Of
    <3> QED BY <3>2, <3>3, <3>4, <3>5
  <2>4. CASE r.pair = r.old
    <3>1. r.last = Unsaved BY <1>11, <2>4
    <3>2. \A x \in OpenOf(p)' : x \in OpenOf(p)
      <4> SUFFICES ASSUME NEW x \in OpenOf(p)' PROVE x \in OpenOf(p)
        OBVIOUS
      <4>1. x # Unsaved BY DEF OpenOf, Of, TermIds, Unsaved
      <4> QED BY <2>2, <2>3, <2>4, <3>1, <4>1
    <3> QED BY <2>1, <3>2
  <2>5. CASE r.pair # r.old BY <1>11, <2>1, <2>2, <2>3, <2>5
  <2> QED BY <2>4, <2>5
<1> QED BY <1>2, <1>9, <1>10, <1>13, <1>14

-----------------------------------------------------------------------------
(* The terms: every step. *)

LEMMA TermInitInv == TermInit => TermInv
<1> SUFFICES ASSUME TermInit PROVE TermInv
  OBVIOUS
<1> USE DEF TermInit
<1>1. \A h \in Admins : admin[h] = AdminIdle OBVIOUS
<1>2. TermTypeOK
  <2>1. /\ 0 \in 0..LastPhase /\ 0 \in 0..MaxChanges
        /\ FirstTerms \in [TermIds -> Term \cup {NoTerm}]
    BY TermsAssumption
  <2>2. admin \in [Admins -> Request] BY AdminIdleType
  <2> QED BY <2>1, <2>2 DEF TermTypeOK
<1>3. RowsPacked BY DEF RowsPacked
<1>4. AskedDays /\ KindAtStep /\ FreshAdmins
  BY <1>1, AdminIdleType DEF AskedDays, AskedRow, KindAtStep, Kind, FreshAdmins
<1>5. FutureIsOpen
  <2> SUFFICES ASSUME NEW t \in TermIds, Exists(t), ~Started(t)
               PROVE  terms[t].end = Open
    BY DEF FutureIsOpen
  <2>1. terms[t].begin > 0 BY <1>2, TermType DEF Started
  <2> QED BY <2>1, TermsAssumption DEF Exists
<1>6. OneOpenTerm
  BY TermsAssumption DEF OneOpenTerm, OpenOf, Of, Exists
<1> QED BY <1>2, <1>3, <1>4, <1>5, <1>6 DEF TermInv

\* Users, clients and the cache leave the terms alone.
LEMMA OthersKeepTerms ==
    ASSUME TermTypeOK, UserStep \/ DeskStep \/ CleanCodes
    PROVE  /\ UNCHANGED <<now, terms, lastTerm, admin, raced>>
           /\ changes' \in 0..MaxChanges
<1>0. ASSUME Asked
      PROVE  /\ UNCHANGED <<now, terms, lastTerm, admin, raced>>
             /\ changes' \in 0..MaxChanges
  BY <1>0, TermsAssumption DEF Asked, TermTypeOK
<1>1. CASE CleanCodes BY <1>1 DEF CleanCodes, termVars, TermTypeOK
<1>2. CASE UserStep
  <2>1. Asked \/ UNCHANGED termVars
    BY <1>2 DEF UserStep, CreateUser, UpdateUser, InviteExpires, CodeExpires, Forgot
  <2> QED BY <1>0, <2>1 DEF termVars, TermTypeOK
<1>3. CASE DeskStep
  <2>1. PICK d \in Desks :
          \/ AskReinvite(d) \/ SaveReinvite(d) \/ PostLogon(d) \/ SaveLogon(d)
          \/ AskLogin(d) \/ AskResend(d) \/ SendCode(d) \/ Reset(d) \/ SaveReset(d)
          \/ Verify(d) \/ OpenForm(d) \/ ReadRoles(d) \/ ReadTerms(d)
          \/ ReadSignatures(d) \/ ReadRows(d) \/ Sign(d) \/ Ends(d)
    BY <1>3 DEF DeskStep
  <2>2. CASE AskReinvite(d) \/ OpenForm(d) \/ PostLogon(d)
    <3>1. Asked BY <2>2 DEF AskReinvite, OpenForm, PostLogon, Begin
    <3> QED BY <1>0, <3>1
  <2>3. CASE AskLogin(d) \/ ReadRoles(d) \/ ReadTerms(d) \/ ReadSignatures(d)
             \/ ReadRows(d) \/ Ends(d)
    BY <2>3 DEF AskLogin, ReadRoles, ReadTerms, ReadSignatures, ReadRows, Ends,
                Reads, termVars, TermTypeOK
  <2>4. CASE SendCode(d) \/ Verify(d) \/ AskResend(d) \/ Reset(d)
    BY <2>4 DEF SendCode, Verify, AskResend, Reset, Try, Codes, termVars,
                TermTypeOK
  <2>5. CASE SaveReinvite(d) \/ SaveLogon(d) \/ Sign(d) \/ SaveReset(d)
    BY <2>5 DEF SaveReinvite, SaveLogon, Sign, SaveReset, termVars, TermTypeOK
  <2> QED BY <2>1, <2>2, <2>3, <2>4, <2>5
<1> QED BY <1>1, <1>2, <1>3

LEMMA TermNextInv == TermInv /\ [Next]_vars => TermInv'
<1> SUFFICES ASSUME TermInv, [Next]_vars PROVE TermInv'
  OBVIOUS
<1>0. TermTypeOK BY DEF TermInv
<1>1. CASE AdminStep
  <2>1. CASE TermReads
    BY <2>1, AskCreateInv, AskDeleteInv, AskUpdateInv, FindLastInv, FindOpenInv
       DEF TermReads
  <2>2. ASSUME NEW h \in Admins, DeleteRestricted(h, SignedTerms) PROVE TermInv'
    BY <2>2, IdleMove DEF DeleteRestricted, StepAdmin
  <2>3. CASE TermWrites(SignedTerms)
    BY <2>3, SaveCreateInv, SaveUpdateInv, SaveDeleteInv DEF TermWrites
  <2>4. CASE Tick BY <2>4, TickInv
  <2> QED BY <1>1, <2>1, <2>2, <2>3, <2>4 DEF AdminStep
<1>2. CASE UserStep \/ DeskStep \/ CleanCodes
  BY <1>0, <1>2, OthersKeepTerms, TermStutter
<1>3. CASE Restart BY <1>3, AdminsRestartInv DEF Restart
<1>4. CASE UNCHANGED vars
  BY <1>0, <1>4, TermStutter DEF vars, termVars, TermTypeOK
<1> QED BY <1>1, <1>2, <1>3, <1>4 DEF Next

\* Unless a request wrote on outdated reads, no chain of creations, edits and
\* deletions leaves two open terms of a pair: see OneOpenTerm.
THEOREM OneOpenTermTheorem == Spec => []OneOpenTerm
<1>1. Init => TermInv BY TermInitInv DEF Init
<1>2. TermInv /\ [Next]_vars => TermInv' BY TermNextInv
<1>3. TermInv => OneOpenTerm BY DEF TermInv
<1> QED BY <1>1, <1>2, <1>3, PTL DEF Spec

LEMMA FrozenStep ==
    ASSUME TermInv, [Next]_vars PROVE StartedIsFrozenStep
<1> SUFFICES ASSUME ~raced', NEW t \in TermIds, Exists(t), Started(t)
             PROVE  /\ terms'[t] # NoTerm
                    /\ terms'[t].pair = terms[t].pair
                    /\ terms'[t].begin = terms[t].begin
                    /\ terms'[t].text = terms[t].text
  BY DEF StartedIsFrozenStep
<1>0. TermTypeOK BY DEF TermInv
<1>1. CASE terms' = terms BY <1>1 DEF Exists
<1>2. ASSUME NEW h \in Admins, SaveCreate(h)
      PROVE  /\ terms'[t] # NoTerm
             /\ terms'[t].pair = terms[t].pair
             /\ terms'[t].begin = terms[t].begin
             /\ terms'[t].text = terms[t].text
  <2>1. PICK row : terms' = [Closing(admin[h]) EXCEPT ![lastTerm + 1] = row]
    BY <1>2 DEF SaveCreate
  <2>2. t # lastTerm + 1
    BY DEF TermInv, TermTypeOK, RowsPacked, Exists, TermIds
  <2>3. admin[h] \in Request BY <1>0 DEF TermTypeOK
  <2> QED BY <2>1, <2>2, <2>3, OtherRows
<1>3. ASSUME NEW h \in Admins, SaveUpdate(h) \/ SaveDelete(h, SignedTerms)
      PROVE  /\ terms'[t] # NoTerm
             /\ terms'[t].pair = terms[t].pair
             /\ terms'[t].begin = terms[t].begin
             /\ terms'[t].text = terms[t].text
  <2>1. PICK row : terms' = [Closing(admin[h]) EXCEPT ![admin[h].id] = row]
    BY <1>3 DEF SaveUpdate, SaveDelete
  <2>2. PICK op \in {"update", "delete"} : Save(h, op)
    BY <1>3 DEF SaveUpdate, SaveDelete
  <2>3. op \in Ops BY DEF Ops
  <2>4. FreshRead(admin[h]) /\ admin[h].op = op /\ admin[h] \in Request
    BY <2>2, <2>3, SaveAdmins
  <2>5. ~Started(admin[h].id) BY <2>4 DEF FreshRead, FreshTarget
  <2>6. t # admin[h].id BY <2>5
  <2> QED BY <2>1, <2>4, <2>6, OtherRows
<1>4. CASE AdminStep
  <2>1. CASE TermReads
    BY <1>1, <2>1 DEF TermReads, AskCreate, AskDelete, AskUpdate, FindLast,
                      FindOpen, AskAdmin, StepAdmin
  <2>2. ASSUME NEW h \in Admins, DeleteRestricted(h, SignedTerms)
        PROVE  terms' = terms
    BY <2>2 DEF DeleteRestricted, StepAdmin
  <2>3. CASE TermWrites(SignedTerms) BY <1>2, <1>3, <2>3 DEF TermWrites
  <2>4. CASE Tick BY <1>1, <2>4 DEF Tick
  <2> QED BY <1>1, <1>4, <2>1, <2>2, <2>3, <2>4 DEF AdminStep
<1>5. CASE UserStep \/ DeskStep \/ CleanCodes
  BY <1>0, <1>1, <1>5, OthersKeepTerms
<1>6. CASE Restart BY <1>1, <1>6 DEF Restart, AdminsRestart
<1>7. CASE UNCHANGED vars BY <1>1, <1>7 DEF vars, termVars
<1> QED BY <1>4, <1>5, <1>6, <1>7 DEF Next

\* A term that has begun is neither deleted nor edited by requests whose reads
\* are fresh: see StartedIsFrozen.
THEOREM StartedIsFrozenTheorem == Spec => StartedIsFrozen
<1>1. Init => TermInv BY TermInitInv DEF Init
<1>2. TermInv /\ [Next]_vars => TermInv' BY TermNextInv
<1>3. TermInv /\ [Next]_vars => [StartedIsFrozenStep]_termVars BY FrozenStep
<1> QED BY <1>1, <1>2, <1>3, PTL DEF Spec, StartedIsFrozen

-----------------------------------------------------------------------------
(* The desks: lemmas. *)

LEMMA HoldersFinite ==
    ASSUME NEW H \in SUBSET Desks
    PROVE  /\ IsFiniteSet(H) /\ Cardinality(H) \in Nat
           /\ Cardinality(Desks) \in Nat
           /\ Cardinality(H) <= Cardinality(Desks)
           /\ \A G \in SUBSET H : /\ Cardinality(G) \in Nat
                                  /\ Cardinality(G) <= Cardinality(H)
           /\ \A d \in H : Cardinality(H \ {d}) = Cardinality(H) - 1
<1>1. IsFiniteSet(Desks) BY SignInAssumption
<1>2. IsFiniteSet(H) /\ Cardinality(H) <= Cardinality(Desks)
  BY <1>1, FS_Subset
<1>3. \A G \in SUBSET H : IsFiniteSet(G) /\ Cardinality(G) <= Cardinality(H)
  BY <1>2, FS_Subset
<1>4. \A d \in H : Cardinality(H \ {d}) = Cardinality(H) - 1
  BY <1>2, FS_RemoveElement
<1> QED BY <1>1, <1>2, <1>3, <1>4, FS_CardinalityType

\* Nobody new holds the term and nobody signs it.
LEMMA CountKept ==
    ASSUME SignaturesCounted, NEW s \in Signers, NEW t \in TermIds,
           NEW G, NEW n \in Nat, n = signed[s][t],
           G \subseteq Holders(s, t), n > 0
    PROVE  n + Cardinality(G) <= Cardinality(Desks)
<1>1. PICK H \in SUBSET Desks : H = Holders(s, t) BY DEF Holders
<1>2. n + Cardinality(H) <= Cardinality(Desks) BY <1>1 DEF SignaturesCounted
<1>3. /\ Cardinality(H) \in Nat /\ Cardinality(G) \in Nat
      /\ Cardinality(Desks) \in Nat /\ Cardinality(G) <= Cardinality(H)
  BY <1>1, HoldersFinite
<1> QED BY <1>2, <1>3

\* Who comes to hold a term finds it unsigned: the count goes on.
LEMMA CountGoesOn ==
    ASSUME SignInv, UNCHANGED signed,
           \A e \in Desks, s \in Signers, t \in TermIds :
              Holds(e, s, t)' => Holds(e, s, t) \/ signed[s][t] = 0
    PROVE  SignaturesCounted'
<1> SUFFICES ASSUME NEW s \in Signers, NEW t \in TermIds, signed'[s][t] > 0
             PROVE  signed'[s][t] + Cardinality(Holders(s, t)')
                       <= Cardinality(Desks)
  BY DEF SignaturesCounted
<1>1. signed[s][t] \in Nat BY DEF SignInv, TypeOK
<1>2. Holders(s, t)' \subseteq Holders(s, t) BY <1>1 DEF Holders
<1> QED BY <1>1, <1>2, CountKept DEF SignInv

\* A desk that does not move while the terms, the roles and the signatures stand.
LEMMA DeskStands ==
    ASSUME SignInv, NEW r, Placed(r), Fresh(r), UNCHANGED <<now, terms>>,
           \A s \in Signers, t \in TermIds : HasSigned(s, t) => HasSigned(s, t)',
           \A u \in Users : Exist(u) => Exist(u)' /\ user'[u].roles = user[u].roles,
           r.pc = "reinvite" /\ ~user[r.who].done => ~user'[r.who].done
    PROVE  Placed(r)' /\ Fresh(r)'
<1>1. Placed(r)' BY DEF Placed
<1>2. CASE r.pc = "idle" BY <1>1, <1>2 DEF Fresh, HoldPcs
<1>3. CASE r.pc # "idle"
  <2>1. r.who \in Signers BY <1>3 DEF Placed
  <2>2. RolesOf(r.who)' = RolesOf(r.who) BY <1>3, <2>1 DEF Placed, RolesOf
  <2>3. DueOf(r.who)' = DueOf(r.who)
    BY <2>2 DEF DueOf, TermsFor, InForce, Exists, Started, NotEnded
  <2>4. DueOf(r.who) \subseteq TermIds BY DEF DueOf, TermsFor
  <2>5. AllSigned(r.who) => AllSigned(r.who)'
    BY <2>1, <2>3, <2>4 DEF AllSigned
  <2>6. \A t \in DueOf(r.who) : HasSigned(r.who, t) => HasSigned(r.who, t)'
    BY <2>1, <2>4
  <2> QED BY <1>1, <2>2, <2>3, <2>5, <2>6 DEF Fresh
<1> QED BY <1>1, <1>2, <1>3

LEMMA DeskStepParts ==
    ASSUME SignInv
    PROVE  /\ user \in [Users -> User]
           /\ code \in [Users -> Code \cup {NoCode}]
           /\ signed \in [Signers -> [TermIds -> Nat]]
           /\ atLogon \in [Signers -> SUBSET TermIds]
           /\ past \in [Users -> {Spent} \cup 0..MaxAttempts]
           /\ desk \in [Desks -> Desk]
           /\ DeskIdle \in Desk /\ DeskIdle.pc = "idle" /\ DeskIdle.list = {}
           /\ DeskIdle.stale = FALSE
           /\ Placed(DeskIdle) /\ Fresh(DeskIdle)
           /\ FreshCode \in Code
<1>1. /\ DeskIdle \in Desk /\ DeskIdle.pc = "idle" /\ DeskIdle.list = {}
      /\ DeskIdle.stale = FALSE
  BY SignInAssumption DEF DeskIdle, Desk, DeskPcs, DeskOps
<1>2. Placed(DeskIdle) /\ Fresh(DeskIdle)
  BY <1>1 DEF Placed, Fresh, UserPcs, HoldPcs
<1>3. FreshCode \in Code BY SignInAssumption DEF FreshCode, Code
<1> QED BY <1>1, <1>2, <1>3 DEF SignInv, TypeOK

\* One desk gets a row, the others stand; of the tables only the users and the
\* codes may move, and nobody's roles.
LEMMA DeskMoves ==
    ASSUME SignInv, TermTypeOK', NEW d \in Desks, NEW r \in Desk, SetDesk(d, r),
           UNCHANGED <<now, terms, signed, atLogon>>,
           user' \in [Users -> User],
           code' \in [Users -> Code \cup {NoCode}],
           past' \in [Users -> {Spent} \cup 0..MaxAttempts],
           \A u \in Users : /\ user'[u].roles = user[u].roles
                            /\ Exist(u) => Exist(u)'
                            /\ ~user[u].done => ~user'[u].done,
           \A u \in Users : Counted(u)',
           Placed(r), Fresh(r),
           \A t \in r.list : r.pc \in HoldPcs =>
              signed[r.who][t] = 0 \/ Holds(d, r.who, t)
    PROVE  SignInv'
<1>1. /\ desk' \in [Desks -> Desk] /\ desk'[d] = r
      /\ \A e \in Desks : e # d => desk'[e] = desk[e]
  BY DeskStepParts DEF SetDesk
<1>2. TypeOK' BY <1>1 DEF SignInv, TypeOK
<1>3. SignedTermStays' BY DEF SignInv, SignedTermStays, HasSigned, Exists
<1>4. \A s \in Signers, t \in TermIds : HasSigned(s, t) => HasSigned(s, t)'
  BY DEF HasSigned
<1>5. ASSUME NEW e \in Desks PROVE (Placed(desk[e]) /\ Fresh(desk[e]))'
  <2>1. PICK q : q = desk'[e] OBVIOUS
  <2>2. Placed(q) /\ Fresh(q) BY <1>1, <2>1 DEF SignInv
  <2>3. q.pc = "reinvite" => q.who \in Users BY <2>2 DEF Placed, UserPcs
  <2>4. Placed(q)' /\ Fresh(q)' BY <1>4, <2>2, <2>3, DeskStands
  <2> QED BY <2>1, <2>4 DEF Placed, Fresh, AllSigned, DueOf, TermsFor, RolesOf,
                            HasSigned, Exist, InForce, Exists, Started, NotEnded
<1>6. SignaturesCounted'
  <2>1. ASSUME NEW e \in Desks, NEW s \in Signers, NEW t \in TermIds, Holds(e, s, t)'
        PROVE  Holds(e, s, t) \/ signed[s][t] = 0
    BY <1>1, <2>1 DEF Holds
  <2> QED BY <2>1, CountGoesOn
<1> QED BY <1>2, <1>3, <1>5, <1>6 DEF SignInv

\* The steps that leave every desk alone.
LEMMA DesksStand ==
    ASSUME SignInv, TermTypeOK', UNCHANGED <<now, terms, signed, atLogon, desk>>,
           user' \in [Users -> User],
           code' \in [Users -> Code \cup {NoCode}],
           past' \in [Users -> {Spent} \cup 0..MaxAttempts],
           \A u \in Users : /\ user'[u].roles = user[u].roles
                            /\ Exist(u) => Exist(u)'
                            /\ ~user[u].done => ~user'[u].done,
           \A u \in Users : Counted(u)'
    PROVE  SignInv'
<1>1. PICK d \in Desks : TRUE BY SignInAssumption
<1>2. PICK r \in Desk : r = desk[d] BY DeskStepParts
<1>3. SetDesk(d, r) BY <1>2, DeskStepParts DEF SetDesk
<1>4. Placed(r) /\ Fresh(r) BY <1>2 DEF SignInv
<1>5. \A t \in r.list : r.pc \in HoldPcs =>
         signed[r.who][t] = 0 \/ Holds(d, r.who, t)
  BY <1>2 DEF Holds
<1> QED BY <1>3, <1>4, <1>5, DeskMoves

\* A desk goes on with its request, or begins one; the tables stand.
LEMMA DeskGoes ==
    ASSUME SignInv, TermTypeOK', NEW d \in Desks, NEW r \in Desk, SetDesk(d, r),
           UNCHANGED <<now, terms, user, code, signed, atLogon, past>>,
           Placed(r), Fresh(r),
           \A t \in r.list : r.pc \in HoldPcs =>
              signed[r.who][t] = 0 \/ Holds(d, r.who, t)
    PROVE  SignInv'
<1>1. \A u \in Users : Counted(u)' BY DEF SignInv, Counted, Exist, Live
<1>2. \A u \in Users : Exist(u) => Exist(u)' BY DEF Exist
<1> QED BY <1>1, <1>2, DeskStepParts, DeskMoves

\* A desk is done with its request.
LEMMA DeskFreed ==
    ASSUME SignInv, TermTypeOK', NEW d \in Desks, Free(d),
           UNCHANGED <<now, terms, user, code, signed, atLogon, past>>
    PROVE  SignInv'
<1>1. PICK r \in Desk : r = DeskIdle BY DeskStepParts
<1>2. /\ r.pc = "idle" /\ r.list = {} /\ Placed(r) /\ Fresh(r)
      /\ SetDesk(d, r)
  BY <1>1, DeskStepParts DEF Free
<1> QED BY <1>2, DeskGoes

-----------------------------------------------------------------------------
(* The codes of the second factor. *)

LEMMA NewCodeCounts ==
    ASSUME SignInv, NEW u \in Users, Exist(u), NewCode(u), UNCHANGED user
    PROVE  /\ code' \in [Users -> Code \cup {NoCode}]
           /\ past' \in [Users -> {Spent} \cup 0..MaxAttempts]
           /\ \A v \in Users : Counted(v)'
<1>1. 0 \in {Spent} \cup 0..MaxAttempts BY SignInAssumption
<1>2. /\ code' \in [Users -> Code \cup {NoCode}]
      /\ past' \in [Users -> {Spent} \cup 0..MaxAttempts]
  BY <1>1, DeskStepParts DEF NewCode
<1>3. FreshCode.attempts = 0 BY DEF FreshCode
<1>4. \A v \in Users : Counted(v)'
  BY <1>3, DeskStepParts DEF SignInv, Counted, NewCode, Exist, Live
<1> QED BY <1>2, <1>4

LEMMA TryCounts ==
    ASSUME SignInv, NEW u \in Users, NEW right \in BOOLEAN, code[u] # NoCode,
           code' = [code EXCEPT ![u] = AfterTry(u, right)],
           past' = [past EXCEPT ![u] =
              IF Accepts(u, right) \/ @ \in {Spent, MaxAttempts} THEN Spent ELSE @ + 1],
           UNCHANGED user
    PROVE  /\ code' \in [Users -> Code \cup {NoCode}]
           /\ past' \in [Users -> {Spent} \cup 0..MaxAttempts]
           /\ \A v \in Users : Counted(v)'
<1>0. /\ code[u] \in Code /\ past[u] \in {Spent} \cup 0..MaxAttempts
      /\ MaxAttempts \in Nat /\ Exist(u) /\ Counted(u)
      /\ code[u].attempts \in 0..MaxAttempts
  BY DeskStepParts, SignInAssumption DEF SignInv, Counted, Code
<1>1. PICK p : p = IF Accepts(u, right) \/ past[u] \in {Spent, MaxAttempts}
                   THEN Spent ELSE past[u] + 1
  OBVIOUS
<1>2. PICK c : c = AfterTry(u, right) OBVIOUS
<1>3. p \in {Spent} \cup 0..MaxAttempts BY <1>0, <1>1 DEF Spent
<1>4. CASE Live(u) /\ ~right /\ code[u].attempts < MaxAttempts
  <2>1. c = [code[u] EXCEPT !.attempts = code[u].attempts + 1]
    BY <1>2, <1>4 DEF AfterTry
  <2>2. c \in Code /\ c.attempts = code[u].attempts + 1
    BY <1>0, <1>4, <2>1 DEF Code
  <2>3. p = past[u] + 1 /\ past[u] = code[u].attempts
    BY <1>0, <1>1, <1>4 DEF Accepts, Counted, Spent
  <2>4. code'[u] = c /\ past'[u] = p
    BY <1>1, <1>2, DeskStepParts
  <2>5. code' \in [Users -> Code \cup {NoCode}] BY <1>2, <2>2, DeskStepParts
  <2>6. past' \in [Users -> {Spent} \cup 0..MaxAttempts]
    BY <1>1, <1>3, DeskStepParts
  <2>7. \A v \in Users : v # u => code'[v] = code[v] /\ past'[v] = past[v]
    BY DeskStepParts
  <2>8. \A v \in Users : Counted(v)'
    BY <1>0, <2>2, <2>3, <2>4, <2>7 DEF SignInv, Counted, Exist, Live
  <2> QED BY <2>5, <2>6, <2>8
<1>5. CASE ~(Live(u) /\ ~right /\ code[u].attempts < MaxAttempts)
  <2>1. c = NoCode BY <1>2, <1>5 DEF AfterTry
  <2>2. /\ code' \in [Users -> Code \cup {NoCode}] /\ code'[u] = NoCode
        /\ past' \in [Users -> {Spent} \cup 0..MaxAttempts]
    BY <1>1, <1>2, <1>3, <2>1, DeskStepParts
  <2>3. \A v \in Users : v # u => code'[v] = code[v] /\ past'[v] = past[v]
    BY DeskStepParts
  <2>4. \A v \in Users : Counted(v)'
    BY <2>2, <2>3 DEF SignInv, Counted, Exist, Live
  <2> QED BY <2>2, <2>4
<1> QED BY <1>4, <1>5

\* A code that is gone counts no more.
LEMMA GoneCounts ==
    ASSUME SignInv, UNCHANGED user, \A u \in Users : Live(u)' => Live(u),
           \A u \in Users : code'[u] # NoCode => code[u] # NoCode,
           \A u \in Users : Live(u)' => code'[u] = code[u] /\ past'[u] = past[u]
    PROVE  \A u \in Users : Counted(u)'
BY DEF SignInv, Counted, Exist

-----------------------------------------------------------------------------
(* The desks: the steps. *)

\* The row of a request that begins.
LEMMA StartRow ==
    ASSUME SignInv, NEW d \in Desks, NEW s \in Signers, NEW pc \in DeskPcs,
           NEW op \in DeskOps, Start(d, s, pc, op),
           pc \in UserPcs \cup {"terms"}, pc \in UserPcs => s \in Users,
           pc = "terms" => s \in Forms,
           s \in Users => Exist(s),
           pc = "reinvite" => ~user[s].done
    PROVE  \E r \in Desk : /\ SetDesk(d, r) /\ Placed(r) /\ Fresh(r)
                           /\ r.pc = pc /\ r.pc \notin HoldPcs
<1>1. PICK R : R = IF s \in Forms THEN RolesOf(s) ELSE {} OBVIOUS
<1>2. R \in SUBSET (Roles \cup {CandidateRole})
  BY <1>1, SignInAssumption DEF RolesOf
<1>3. PICK r : r = [DeskIdle EXCEPT !.pc = pc, !.who = s, !.op = op, !.roles = R]
  OBVIOUS
<1>4. r = [pc |-> pc, who |-> s, op |-> op, roles |-> R, list |-> {}, stale |-> FALSE]
  BY <1>3 DEF DeskIdle
<1>5. r \in Desk BY <1>2, <1>4 DEF Desk
<1>6. SetDesk(d, r) BY <1>1, <1>3 DEF Start
<1>7. Placed(r) BY <1>4 DEF Placed
<1>8. r.pc \notin HoldPcs /\ Fresh(r)
  BY <1>1, <1>4 DEF Fresh, UserPcs, HoldPcs
<1> QED BY <1>4, <1>5, <1>6, <1>7, <1>8

\* The requests that begin.
LEMMA DeskBeginsInv ==
    ASSUME SignInv, TermTypeOK', UNCHANGED <<now, terms>>, NEW d \in Desks,
           AskReinvite(d) \/ AskLogin(d) \/ OpenForm(d) \/ PostLogon(d)
    PROVE  SignInv'
<1>1. UNCHANGED <<user, code, signed, atLogon, past>>
  BY DEF AskReinvite, AskLogin, OpenForm, PostLogon, Begin
<1>2. CASE AskReinvite(d) \/ AskLogin(d)
  <2>1. PICK u \in Users, pc \in {"reinvite", "compared"} :
           /\ Exist(u) /\ Start(d, u, pc, "none")
           /\ pc = "reinvite" => ~user[u].done
    BY <1>2 DEF AskReinvite, AskLogin, Begin
  <2>2. /\ pc \in DeskPcs /\ u \in Signers /\ "none" \in DeskOps
        /\ pc \in UserPcs
    BY DEF DeskPcs, DeskOps, Signers, UserPcs
  <2>3. pc # "terms" OBVIOUS
  <2> QED BY <1>1, <2>1, <2>2, <2>3, StartRow, DeskGoes
<1>3. CASE OpenForm(d)
  <2>1. PICK f \in Forms, op \in {"validateAccessCode", "signTerms"} :
           Start(d, f, "terms", op)
    BY <1>3 DEF OpenForm, Begin
  <2>2. /\ "terms" \in DeskPcs /\ f \in Signers /\ op \in DeskOps
        /\ "terms" \notin UserPcs /\ f \notin Users
    BY SignInAssumption DEF DeskPcs, DeskOps, Signers, UserPcs
  <2> QED BY <1>1, <2>1, <2>2, StartRow, DeskGoes
<1>4. CASE PostLogon(d)
  <2>1. PICK u \in Users, L \in Lists :
           /\ Invited(u)
           /\ SetDesk(d, [DeskIdle EXCEPT !.pc = "hashing", !.who = u, !.list = L])
    BY <1>4 DEF PostLogon
  <2>2. PICK r : r = [DeskIdle EXCEPT !.pc = "hashing", !.who = u, !.list = L]
    OBVIOUS
  <2>3. r = [pc |-> "hashing", who |-> u, op |-> "none", roles |-> {},
             list |-> L, stale |-> FALSE]
    BY <2>2 DEF DeskIdle
  <2>4. L \in SUBSET TermIds BY SignInAssumption
  <2>5. r \in Desk BY <2>3, <2>4 DEF Desk, DeskPcs, DeskOps, Signers
  <2>6. Placed(r) /\ Fresh(r) /\ r.pc \notin HoldPcs
    BY <2>1, <2>3 DEF Placed, Fresh, HoldPcs, Invited, Signers
  <2> QED BY <1>1, <2>1, <2>2, <2>5, <2>6, DeskGoes
<1> QED BY <1>2, <1>3, <1>4

\* A request that reads on to pc with a list.
LEMMA GoesOn ==
    ASSUME SignInv, TermTypeOK', NEW d \in Desks, desk[d].pc # "idle",
           UNCHANGED <<now, terms, user, code, signed, atLogon, past>>,
           NEW pc \in {"signatures", "rows", "sign", "in"},
           NEW L \in SUBSET TermIds, GotoWith(d, pc, L),
           ~desk[d].stale =>
              /\ pc = "signatures" => DueOf(desk[d].who) \subseteq L
              /\ pc \in HoldPcs => \A t \in DueOf(desk[d].who) :
                                      HasSigned(desk[d].who, t) \/ t \in L
              /\ pc = "in" => AllSigned(desk[d].who),
           pc \in HoldPcs => \A t \in L :
              signed[desk[d].who][t] = 0 \/ Holds(d, desk[d].who, t)
    PROVE  SignInv'
<1>1. PICK q \in Desk : q = desk[d] /\ Placed(q) BY DeskStepParts DEF SignInv
<1>2. PICK r : r = [q EXCEPT !.pc = pc, !.roles = {}, !.list = L] OBVIOUS
<1>3. /\ r \in Desk /\ r.pc = pc /\ r.who = q.who /\ r.list = L
      /\ r.stale = q.stale
  BY <1>2 DEF Desk, DeskPcs
<1>4. SetDesk(d, r) BY <1>1, <1>2 DEF GotoWith
<1>5. Placed(r) BY <1>1, <1>3 DEF Placed, UserPcs
<1>6. Fresh(r) BY <1>1, <1>3 DEF Fresh
<1> QED BY <1>1, <1>3, <1>4, <1>5, <1>6, DeskGoes

\* The queries of a request, one after the other.
LEMMA DeskReadsInv ==
    ASSUME SignInv, TermTypeOK', UNCHANGED <<now, terms>>, NEW d \in Desks,
           \/ ReadRoles(d) \/ ReadTerms(d) \/ ReadSignatures(d)
           \/ ReadRows(d) \/ Ends(d)
    PROVE  SignInv'
<1>0. /\ UNCHANGED <<user, code, signed, atLogon, past>>
      /\ user \in [Users -> User]
  BY DeskStepParts DEF ReadRoles, ReadTerms, ReadSignatures, ReadRows, Ends, Reads
<1>1. PICK q \in Desk : q = desk[d] /\ Placed(q) /\ Fresh(q)
  BY DeskStepParts DEF SignInv
<1>2. Free(d) => SignInv' BY <1>0, DeskFreed
<1>3. CASE ReadRoles(d)
  <2>1. q.pc = "roles" /\ q.who \in Users
    BY <1>1, <1>3 DEF ReadRoles, Reads, At, Placed, UserPcs
  <2>2. PICK R : R = RolesOf(q.who) OBVIOUS
  <2>3. R \in SUBSET (Roles \cup {CandidateRole})
    BY <1>0, <2>1, <2>2 DEF RolesOf, User
  <2>4. PICK r : r = [q EXCEPT !.pc = "terms", !.roles = R] OBVIOUS
  <2>5. /\ r \in Desk /\ r.pc = "terms" /\ r.who = q.who
        /\ r.roles = R
    BY <2>3, <2>4 DEF Desk, DeskPcs
  <2>6. SetDesk(d, r) BY <1>1, <1>3, <2>2, <2>4 DEF ReadRoles, Who
  <2>7. Placed(r) BY <1>1, <2>1, <2>5 DEF Placed, UserPcs
  <2>8. Fresh(r) /\ r.pc \notin HoldPcs BY <2>2, <2>5 DEF Fresh, HoldPcs
  <2> QED BY <1>0, <2>5, <2>6, <2>7, <2>8, DeskGoes
<1>4. CASE ReadTerms(d)
  <2>1. q.pc = "terms" BY <1>1, <1>4 DEF ReadTerms, Reads, At
  <2>2. PICK L \in SUBSET TermIds : L = TermsFor(q.roles) BY DEF TermsFor
  <2>3. ~q.stale => DueOf(q.who) = L BY <1>1, <2>1, <2>2 DEF Fresh, DueOf
  <2>4. CASE GotoWith(d, "signatures", L)
    BY <1>0, <1>1, <2>1, <2>3, <2>4, GoesOn DEF HoldPcs
  <2>5. CASE GotoWith(d, "in", {}) /\ L = {}
    BY <1>0, <1>1, <2>1, <2>3, <2>5, GoesOn DEF HoldPcs, AllSigned
  <2> QED BY <1>1, <1>2, <1>4, <2>2, <2>4, <2>5 DEF ReadTerms
<1>5. CASE ReadSignatures(d)
  <2>1. q.pc = "signatures" BY <1>1, <1>5 DEF ReadSignatures, Reads, At
  <2>2. q.list \in SUBSET TermIds /\ q.who \in Signers
    BY <1>1, <2>1 DEF Desk, Placed
  <2>3. PICK L \in SUBSET TermIds : L = NotSigned(q.who, q.list)
    BY <2>2 DEF NotSigned
  <2>4. \A t \in L : signed[q.who][t] = 0
    BY <2>2, <2>3, DeskStepParts DEF NotSigned, HasSigned
  <2>5. ~q.stale => \A t \in DueOf(q.who) : HasSigned(q.who, t) \/ t \in L
    BY <1>1, <2>1, <2>3 DEF Fresh, NotSigned
  <2>6. ASSUME NEW pc \in {"rows", "sign"}, GotoWith(d, pc, L) PROVE SignInv'
    BY <1>0, <1>1, <2>1, <2>4, <2>5, <2>6, GoesOn
  <2>7. CASE GotoWith(d, "in", {}) /\ L = {}
    BY <1>0, <1>1, <2>1, <2>5, <2>7, GoesOn DEF HoldPcs, AllSigned
  <2> QED BY <1>1, <1>2, <1>5, <2>3, <2>6, <2>7 DEF ReadSignatures, Who
<1>6. CASE ReadRows(d)
  <2>1. q.pc = "rows" BY <1>1, <1>6 DEF ReadRows, Reads, At
  <2>2. q.list \in SUBSET TermIds /\ q.who \in Signers
    BY <1>1, <2>1 DEF Desk, Placed
  <2>3. PICK L \in SUBSET TermIds : L = {t \in q.list : Exists(t)} BY <2>2
  <2>4. \A t \in L : Holds(d, q.who, t)
    BY <1>1, <2>1, <2>3 DEF Holds, HoldPcs
  <2>5. ~q.stale => \A t \in DueOf(q.who) : HasSigned(q.who, t) \/ t \in L
    BY <1>1, <2>1, <2>3 DEF Fresh, HoldPcs, DueOf, TermsFor, InForce
  <2>6. CASE GotoWith(d, "sign", L)
    BY <1>0, <1>1, <2>1, <2>4, <2>5, <2>6, GoesOn
  <2>7. CASE GotoWith(d, "in", {}) /\ L = {}
    BY <1>0, <1>1, <2>1, <2>5, <2>7, GoesOn DEF HoldPcs, AllSigned
  <2> QED BY <1>1, <1>2, <1>6, <2>3, <2>6, <2>7 DEF ReadRows
<1>7. CASE Ends(d) BY <1>2, <1>7 DEF Ends
<1> QED BY <1>3, <1>4, <1>5, <1>6, <1>7

\* The requests that set or try a code.
LEMMA DeskCodesInv ==
    ASSUME SignInv, TermTypeOK', UNCHANGED <<now, terms>>, NEW d \in Desks,
           SendCode(d) \/ Verify(d) \/ AskResend(d) \/ Reset(d)
    PROVE  SignInv'
<1>0. /\ UNCHANGED <<user, signed, atLogon>> /\ user \in [Users -> User]
      /\ \A u \in Users : Exist(u) => Exist(u)'
  BY DeskStepParts DEF SendCode, Verify, AskResend, Reset, Try, Codes, Exist
<1>1. CASE SendCode(d)
  <2>1. PICK q \in Desk : q = desk[d] /\ Placed(q) BY DeskStepParts DEF SignInv
  <2>2. q.pc \in UserPcs /\ q.pc # "idle" BY <1>1, <2>1 DEF SendCode, UserPcs
  <2>3. q.who \in Users /\ Exist(q.who) BY <2>1, <2>2 DEF Placed
  <2>4. NewCode(q.who) BY <1>1, <2>1 DEF SendCode, Who
  <2>5. PICK r \in Desk : r = DeskIdle BY DeskStepParts
  <2>6. /\ r.pc = "idle" /\ r.list = {} /\ Placed(r) /\ Fresh(r)
        /\ SetDesk(d, r)
    BY <1>1, <2>5, DeskStepParts DEF SendCode, Free
  <2>7. /\ code' \in [Users -> Code \cup {NoCode}]
        /\ past' \in [Users -> {Spent} \cup 0..MaxAttempts]
        /\ \A v \in Users : Counted(v)'
    BY <1>0, <2>3, <2>4, NewCodeCounts
  <2> QED BY <1>0, <2>6, <2>7, DeskMoves
<1>2. CASE Verify(d) \/ Reset(d)
  <2>1. PICK u \in Users, right \in BOOLEAN, pc \in {"roles", "resetting"},
             op \in {"verify2FA", "none"} :
           /\ code[u] # NoCode
           /\ code' = [code EXCEPT ![u] = AfterTry(u, right)]
           /\ past' = [past EXCEPT ![u] =
                IF Accepts(u, right) \/ @ \in {Spent, MaxAttempts} THEN Spent ELSE @ + 1]
           /\ Start(d, u, pc, op) \/ UNCHANGED desk
    BY <1>2 DEF Verify, Reset, Try
  <2>2. /\ code' \in [Users -> Code \cup {NoCode}]
        /\ past' \in [Users -> {Spent} \cup 0..MaxAttempts]
        /\ \A v \in Users : Counted(v)'
    BY <1>0, <2>1, TryCounts
  <2>3. CASE UNCHANGED desk BY <1>0, <2>2, <2>3, DesksStand
  <2>4. CASE Start(d, u, pc, op)
    <3>1. /\ pc \in DeskPcs /\ u \in Signers /\ op \in DeskOps /\ pc \in UserPcs
          /\ Exist(u) /\ pc # "terms" /\ pc # "reinvite"
      BY <2>1 DEF DeskPcs, DeskOps, Signers, UserPcs, SignInv, Counted
    <3>2. PICK r \in Desk : /\ SetDesk(d, r) /\ Placed(r) /\ Fresh(r)
                            /\ r.pc \notin HoldPcs
      BY <2>4, <3>1, StartRow
    <3> QED BY <1>0, <2>2, <3>2, DeskMoves
  <2> QED BY <2>1, <2>3, <2>4
<1>3. CASE AskResend(d)
  <2>1. PICK u \in Users :
           /\ code[u] # NoCode
           /\ \/ Live(u) /\ Start(d, u, "resending", "none") /\ UNCHANGED code
              \/ code' = [code EXCEPT ![u] = NoCode] /\ UNCHANGED desk
           /\ UNCHANGED past
    BY <1>3 DEF AskResend
  <2>2. /\ code' \in [Users -> Code \cup {NoCode}]
        /\ \A v \in Users : code'[v] = code[v] \/ code'[v] = NoCode
        /\ past' \in [Users -> {Spent} \cup 0..MaxAttempts]
    BY <2>1, DeskStepParts
  <2>3. \A v \in Users : Counted(v)' BY <1>0, <2>1, <2>2, GoneCounts DEF Live
  <2>4. CASE UNCHANGED desk BY <1>0, <2>2, <2>3, <2>4, DesksStand
  <2>5. CASE Start(d, u, "resending", "none")
    <3>1. /\ "resending" \in DeskPcs /\ u \in Signers /\ "none" \in DeskOps
          /\ "resending" \in UserPcs /\ Exist(u)
      BY <2>1 DEF DeskPcs, DeskOps, Signers, UserPcs, SignInv, Counted
    <3>2. PICK r \in Desk : /\ SetDesk(d, r) /\ Placed(r) /\ Fresh(r)
                            /\ r.pc \notin HoldPcs
      BY <2>5, <3>1, StartRow
    <3> QED BY <1>0, <2>2, <2>3, <3>2, DeskMoves
  <2> QED BY <2>1, <2>4, <2>5
<1> QED BY <1>1, <1>2, <1>3

\* The steps that write to the users alone.
LEMMA DeskUsersInv ==
    ASSUME SignInv, TermTypeOK', UNCHANGED <<now, terms>>, NEW d \in Desks,
           SaveReinvite(d) \/ SaveReset(d)
    PROVE  SignInv'
<1>0. UNCHANGED <<code, signed, atLogon, past>> /\ Free(d)
  BY DEF SaveReinvite, SaveReset
<1>1. PICK u \in Users : u = desk[d].who
  <2>1. PICK q \in Desk : q = desk[d] /\ Placed(q) BY DeskStepParts DEF SignInv
  <2> QED BY <2>1 DEF SaveReinvite, SaveReset, At, Placed, UserPcs
<1>2. PICK r \in User : /\ user' = [user EXCEPT ![u] = r]
                        /\ r.roles = user[u].roles /\ r.invited = user[u].invited
                        /\ (~user[u].done => ~r.done)
  <2>1. user[u] \in User BY DeskStepParts
  <2>2. CASE SaveReinvite(d)
    <3>1. PICK r : r = [user[u] EXCEPT !.late = FALSE, !.done = FALSE] OBVIOUS
    <3>2. /\ r \in User /\ r.roles = user[u].roles
          /\ r.invited = user[u].invited /\ ~r.done
      BY <2>1, <3>1 DEF User
    <3>3. user' = [user EXCEPT ![u] = r] BY <1>1, <2>2, <3>1 DEF SaveReinvite, Who
    <3> QED BY <3>2, <3>3
  <2>3. CASE SaveReset(d)
    <3>1. PICK r : r = [user[u] EXCEPT !.password = TRUE, !.active = FALSE] OBVIOUS
    <3>2. /\ r \in User /\ r.roles = user[u].roles
          /\ r.invited = user[u].invited /\ r.done = user[u].done
      BY <2>1, <3>1 DEF User
    <3>3. user' = [user EXCEPT ![u] = r] BY <1>1, <2>3, <3>1 DEF SaveReset, Who
    <3> QED BY <3>2, <3>3
  <2> QED BY <2>2, <2>3
<1>3. /\ user' \in [Users -> User]
      /\ \A v \in Users : /\ user'[v].roles = user[v].roles
                          /\ user'[v].invited = user[v].invited
                          /\ (~user[v].done => ~user'[v].done)
  BY <1>2, DeskStepParts
<1>4. \A v \in Users : Exist(v)' = Exist(v) BY <1>3 DEF Exist
<1>5. \A v \in Users : Counted(v)'
  BY <1>0, <1>4 DEF SignInv, Counted, Live
<1>6. PICK q \in Desk : q = DeskIdle BY DeskStepParts
<1>7. /\ q.pc = "idle" /\ q.list = {} /\ Placed(q) /\ Fresh(q) /\ SetDesk(d, q)
  BY <1>0, <1>6, DeskStepParts DEF Free
<1> QED BY <1>0, <1>3, <1>4, <1>5, <1>7, DeskStepParts, DeskMoves

\* A log-on puts its terms in, whatever they are, and outdates re-invitations.
LEMMA SaveLogonInv ==
    ASSUME SignInv, TermTypeOK', UNCHANGED <<now, terms>>, NEW d \in Desks,
           SaveLogon(d)
    PROVE  SignInv'
<1>0. /\ UNCHANGED <<code, signed, past>> /\ desk[d].pc = "hashing"
  BY DEF SaveLogon, At
<1>1. PICK q \in Desk : q = desk[d] /\ Placed(q) BY DeskStepParts DEF SignInv
<1>2. PICK u \in Users : u = q.who /\ u = Who(d)
  BY <1>0, <1>1 DEF Placed, UserPcs, Who
<1>3. PICK r : r = [user[u] EXCEPT !.done = TRUE, !.password = TRUE] OBVIOUS
<1>4. r \in User /\ r.roles = user[u].roles /\ r.invited = user[u].invited
  BY <1>3, DeskStepParts DEF User
<1>5. user' = [user EXCEPT ![u] = r] BY <1>2, <1>3 DEF SaveLogon
<1>6. /\ user' \in [Users -> User]
      /\ \A v \in Users : /\ user'[v].roles = user[v].roles
                          /\ user'[v].invited = user[v].invited
                          /\ v # u => user'[v] = user[v]
  BY <1>4, <1>5, DeskStepParts
<1>7. \A v \in Users : Exist(v)' = Exist(v) BY <1>6 DEF Exist
<1>8. PICK L \in SUBSET TermIds : L = q.list BY <1>1 DEF Desk
<1>9. atLogon' = [atLogon EXCEPT ![u] = @ \cup L]
  BY <1>1, <1>2, <1>8 DEF SaveLogon
<1>10. /\ atLogon' \in [Signers -> SUBSET TermIds]
       /\ \A s \in Signers : atLogon[s] \subseteq atLogon'[s]
       /\ \A s \in Signers : atLogon'[s] \subseteq atLogon[s] \cup L
  BY <1>9, DeskStepParts DEF Signers
<1>11. \A s \in Signers, t \in TermIds : HasSigned(s, t) => HasSigned(s, t)'
  BY <1>0, <1>10 DEF HasSigned
<1>12. ASSUME NEW e \in Desks
       PROVE  /\ desk'[e] \in Desk
              /\ (Placed(desk[e]) /\ Fresh(desk[e]))'
              /\ \A s \in Signers, t \in TermIds : Holds(e, s, t)' => Holds(e, s, t)
  <2>1. PICK p \in Desk : p = desk[e] /\ Placed(p) /\ Fresh(p)
    BY DeskStepParts DEF SignInv
  <2>2. PICK p1 : p1 = desk'[e] OBVIOUS
  <2>3. p1 \in Desk /\ Placed(p1)' /\ Fresh(p1)' /\ (p1.pc \in HoldPcs => p1 = p)
    <3>1. CASE e = d
      <4>1. p1 = DeskIdle BY <2>2, <3>1 DEF SaveLogon
      <4> QED BY <4>1, DeskStepParts DEF Placed, Fresh, UserPcs, HoldPcs
    <3>2. CASE e # d /\ p.pc = "reinvite" /\ p.who = Who(d)
      <4>1. p1 = [p EXCEPT !.stale = TRUE] BY <2>1, <2>2, <3>2 DEF SaveLogon
      <4>2. p1 \in Desk /\ p1.pc = p.pc /\ p1.who = p.who /\ p1.stale
        BY <4>1 DEF Desk
      <4>3. Placed(p1)' BY <1>7, <2>1, <4>2 DEF Placed
      <4> QED BY <3>2, <4>2, <4>3 DEF Fresh, HoldPcs
    <3>3. CASE e # d /\ ~(p.pc = "reinvite" /\ p.who = Who(d))
      <4>1. p1 = p BY <2>1, <2>2, <3>3 DEF SaveLogon
      <4>2. p.pc = "reinvite" /\ ~user[p.who].done => ~user'[p.who].done
        BY <1>2, <1>6, <2>1, <3>3 DEF Placed, UserPcs
      <4>3. Placed(p)' /\ Fresh(p)'
        BY <1>6, <1>7, <1>11, <2>1, <4>2, DeskStands
      <4> QED BY <4>1, <4>3
    <3> QED BY <3>1, <3>2, <3>3
  <2>4. (Placed(desk[e]) /\ Fresh(desk[e]))'
    BY <2>2, <2>3 DEF Placed, Fresh, AllSigned, DueOf, TermsFor, RolesOf,
                      HasSigned, Exist, InForce, Exists, Started, NotEnded
  <2> QED BY <2>1, <2>2, <2>3, <2>4 DEF Holds
<1>13. TypeOK'
  <2>1. desk' \in [Desks -> Desk] BY <1>12 DEF SaveLogon
  <2> QED BY <1>0, <1>6, <1>10, <2>1, DeskStepParts DEF TypeOK
<1>14. SignedTermStays'
  <2> SUFFICES ASSUME NEW s \in Signers, NEW t \in TermIds, HasSigned(s, t)'
               PROVE  Exists(t)
    BY DEF SignedTermStays, Exists
  <2>1. HasSigned(s, t) \/ t \in L BY <1>0, <1>10 DEF HasSigned
  <2>2. \A x \in L : Exists(x) BY <1>1, <1>8 DEF SaveLogon, Signable
  <2> QED BY <2>1, <2>2 DEF SignInv, SignedTermStays
<1>15. SignaturesCounted' BY <1>0, <1>12, CountGoesOn
<1>16. \A v \in Users : Counted(v)'
  BY <1>0, <1>7 DEF SignInv, Counted, Live
<1> QED BY <1>12, <1>13, <1>14, <1>15, <1>16 DEF SignInv

\* A signing: what is signed is asked for no more.
LEMMA SignStepInv ==
    ASSUME SignInv, TermTypeOK', UNCHANGED <<now, terms>>, NEW d \in Desks,
           Sign(d)
    PROVE  SignInv'
<1>0. /\ UNCHANGED <<user, code, atLogon, past>> /\ desk[d].pc = "sign"
      /\ Signable(d)
  BY DEF Sign, At
<1>1. PICK q \in Desk : q = desk[d] /\ Placed(q) /\ Fresh(q)
  BY DeskStepParts DEF SignInv
<1>2. PICK s \in Signers : s = q.who /\ s = Who(d)
  BY <1>0, <1>1 DEF Placed, Who
<1>3. PICK L \in SUBSET TermIds : L = q.list BY <1>1 DEF Desk
<1>4. PICK tally : tally = [t \in TermIds |-> IF t \in L THEN signed[s][t] + 1
                                              ELSE signed[s][t]]
  OBVIOUS
<1>5. signed' = [signed EXCEPT ![s] = tally]
  BY <1>1, <1>2, <1>3, <1>4 DEF Sign
<1>6. /\ tally \in [TermIds -> Nat]
      /\ \A t \in TermIds : tally[t] = IF t \in L THEN signed[s][t] + 1
                                       ELSE signed[s][t]
      /\ \A t \in TermIds : signed[s][t] \in Nat
  BY <1>4, DeskStepParts
<1>7. /\ signed' \in [Signers -> [TermIds -> Nat]]
      /\ signed'[s] = tally
      /\ \A x \in Signers : x # s => signed'[x] = signed[x]
  BY <1>5, <1>6, DeskStepParts
<1>8. /\ \A x \in Signers, t \in TermIds : HasSigned(x, t) => HasSigned(x, t)'
      /\ \A t \in L : HasSigned(s, t)'
  BY <1>0, <1>6, <1>7 DEF HasSigned
<1>9. PICK r \in Desk : /\ SetDesk(d, r) /\ Placed(r) /\ r.pc \in {"idle", "in"}
                        /\ r.pc = "in" => r.who = s /\ r.stale = q.stale
  <2>1. CASE GotoWith(d, "in", {})
    <3>1. PICK p : p = [q EXCEPT !.pc = "in", !.roles = {}, !.list = {}] OBVIOUS
    <3>2. /\ p \in Desk /\ p.pc = "in" /\ p.who = q.who /\ p.stale = q.stale
      BY <3>1 DEF Desk, DeskPcs
    <3>3. SetDesk(d, p) BY <1>1, <2>1, <3>1 DEF GotoWith
    <3>4. Placed(p) BY <1>0, <1>1, <3>2 DEF Placed, UserPcs
    <3> QED BY <1>2, <3>2, <3>3, <3>4
  <2>2. CASE Free(d)
    <3>1. PICK p \in Desk : p = DeskIdle BY DeskStepParts
    <3> QED BY <2>2, <3>1, DeskStepParts DEF Free
  <2> QED BY <2>1, <2>2 DEF Sign
<1>10. /\ desk' \in [Desks -> Desk] /\ desk'[d] = r
  BY <1>9, DeskStepParts DEF SetDesk
<1>11. \A e \in Desks : e # d => desk'[e] = desk[e]
  BY <1>9, DeskStepParts DEF SetDesk
<1>12. \A v \in Users : Exist(v)' = Exist(v) BY <1>0 DEF Exist
<1>13. Placed(r)' /\ Fresh(r)'
  <2>1. Placed(r)' BY <1>9, <1>12 DEF Placed
  <2>2. CASE r.pc = "idle" BY <2>1, <2>2 DEF Fresh, HoldPcs
  <2>3. CASE r.pc = "in" /\ ~q.stale
    <3>1. DueOf(s)' = DueOf(s) /\ DueOf(s) \subseteq TermIds
      BY <1>0 DEF DueOf, TermsFor, RolesOf, InForce, Exists, Started, NotEnded
    <3>2. \A t \in DueOf(s) : HasSigned(s, t) \/ t \in L
      BY <1>0, <1>1, <1>2, <1>3, <2>3 DEF Fresh, HoldPcs
    <3>3. AllSigned(s)' BY <1>8, <3>1, <3>2 DEF AllSigned
    <3> QED BY <1>9, <2>1, <2>3, <3>3 DEF Fresh, HoldPcs
  <2>4. CASE r.pc = "in" /\ q.stale BY <1>9, <2>1, <2>4 DEF Fresh
  <2>5. q.stale \in BOOLEAN BY <1>1 DEF Desk
  <2> QED BY <1>9, <2>2, <2>3, <2>4, <2>5
<1>14. ASSUME NEW e \in Desks PROVE (Placed(desk[e]) /\ Fresh(desk[e]))'
  <2>1. PICK p : p = desk'[e] OBVIOUS
  <2>2. Placed(p)' /\ Fresh(p)'
    <3>1. CASE e = d BY <1>10, <1>13, <2>1, <3>1
    <3>2. CASE e # d
      <4>1. p = desk[e] /\ Placed(p) /\ Fresh(p) BY <1>11, <2>1, <3>2 DEF SignInv
      <4> QED BY <1>0, <1>8, <1>12, <4>1, DeskStands
    <3> QED BY <3>1, <3>2
  <2> QED BY <2>1, <2>2 DEF Placed, Fresh, AllSigned, DueOf, TermsFor, RolesOf,
                            HasSigned, Exist, InForce, Exists, Started, NotEnded
<1>15. TypeOK' BY <1>0, <1>7, <1>10, DeskStepParts DEF TypeOK
<1>16. SignedTermStays'
  <2> SUFFICES ASSUME NEW x \in Signers, NEW t \in TermIds, HasSigned(x, t)'
               PROVE  Exists(t)
    BY DEF SignedTermStays, Exists
  <2>1. HasSigned(x, t) \/ t \in L BY <1>0, <1>6, <1>7 DEF HasSigned
  <2>2. \A y \in L : Exists(y) BY <1>0, <1>1, <1>3 DEF Signable
  <2> QED BY <2>1, <2>2 DEF SignInv, SignedTermStays
<1>17. SignaturesCounted'
  <2> SUFFICES ASSUME NEW x \in Signers, NEW t \in TermIds, signed'[x][t] > 0
               PROVE  signed'[x][t] + Cardinality(Holders(x, t)')
                         <= Cardinality(Desks)
    BY DEF SignaturesCounted
  <2>1. PICK H \in SUBSET Desks : H = Holders(x, t) BY DEF Holders
  <2>2. PICK G : G = Holders(x, t)' OBVIOUS
  <2>3. G \subseteq H \ {d}
    <3>1. ASSUME NEW e \in Desks, Holds(e, x, t)'
          PROVE  e # d /\ Holds(e, x, t)
      <4>1. desk'[e].pc \in HoldPcs BY <3>1 DEF Holds
      <4>2. r.pc \notin HoldPcs BY <1>9 DEF HoldPcs
      <4>3. e # d BY <1>10, <4>1, <4>2
      <4> QED BY <1>11, <3>1, <4>3 DEF Holds
    <3> QED BY <2>1, <2>2, <3>1 DEF Holders
  <2>4. signed[x][t] \in Nat BY DeskStepParts
  <2>5. CASE x = s /\ t \in L
    <3>1. d \in H BY <1>0, <1>1, <1>2, <1>3, <2>1, <2>5 DEF Holders, Holds, HoldPcs
    <3>2. PICK K \in SUBSET Desks : K = H \ {d} BY <2>1
    <3>3. /\ Cardinality(K) = Cardinality(H) - 1
          /\ Cardinality(H) \in Nat /\ Cardinality(Desks) \in Nat
          /\ Cardinality(H) <= Cardinality(Desks)
      BY <3>1, <3>2, HoldersFinite
    <3>4. Cardinality(G) \in Nat /\ Cardinality(G) <= Cardinality(K)
      BY <2>3, <3>2, HoldersFinite
    <3>5. signed'[x][t] = signed[x][t] + 1 BY <1>6, <1>7, <2>5
    <3>6. signed[x][t] > 0 =>
             signed[x][t] + Cardinality(H) <= Cardinality(Desks)
      BY <2>1 DEF SignInv, SignaturesCounted
    <3> QED BY <2>2, <2>4, <3>3, <3>4, <3>5, <3>6
  <2>6. CASE ~(x = s /\ t \in L)
    <3>1. signed'[x][t] = signed[x][t] BY <1>6, <1>7, <2>6
    <3>2. G \subseteq Holders(x, t) BY <2>1, <2>3
    <3>3. signed[x][t] + Cardinality(G) <= Cardinality(Desks)
      BY <2>4, <3>1, <3>2, CountKept DEF SignInv
    <3> QED BY <2>2, <3>1, <3>3
  <2> QED BY <2>5, <2>6
<1>18. \A v \in Users : Counted(v)'
  BY <1>0, <1>12 DEF SignInv, Counted, Live
<1> QED BY <1>14, <1>15, <1>16, <1>17, <1>18 DEF SignInv

\* Desks may only turn stale, and do where what they rest on may have moved.
LEMMA DesksOutdated ==
    ASSUME SignInv, TermTypeOK', UNCHANGED <<code, signed, atLogon, past>>,
           NEW W \in SUBSET Signers, Outdate(W),
           user' \in [Users -> User],
           \A u \in Users : /\ Exist(u) => Exist(u)'
                            /\ user'[u].done = user[u].done,
           \A s \in Signers : s \notin W /\ (s \in Users => Exist(s)) =>
              DueOf(s)' = DueOf(s) /\ RolesOf(s)' = RolesOf(s),
           \A s \in Signers, t \in TermIds : HasSigned(s, t) => Exists(t)'
    PROVE  SignInv'
<1>1. \A s \in Signers, t \in TermIds : HasSigned(s, t)' = HasSigned(s, t)
  BY DEF HasSigned
<1>2. ASSUME NEW e \in Desks
      PROVE  /\ desk'[e] \in Desk
             /\ (Placed(desk[e]) /\ Fresh(desk[e]))'
             /\ \A s \in Signers, t \in TermIds : Holds(e, s, t)' => Holds(e, s, t)
  <2>1. PICK p \in Desk : p = desk[e] /\ Placed(p) /\ Fresh(p)
    BY DeskStepParts DEF SignInv
  <2>2. PICK p1 : p1 = desk'[e] OBVIOUS
  <2>3. /\ p1 \in Desk /\ p1.pc = p.pc /\ p1.who = p.who /\ p1.list = p.list
        /\ Placed(p1)' /\ Fresh(p1)'
    <3>1. CASE p.pc \in Admitting /\ p.who \in W
      <4>1. p1 = [p EXCEPT !.stale = TRUE] BY <2>1, <2>2, <3>1 DEF Outdate
      <4>2. p1 \in Desk /\ p1.pc = p.pc /\ p1.who = p.who /\ p1.list = p.list
            /\ p1.stale
        BY <4>1 DEF Desk
      <4>3. Placed(p1)' BY <2>1, <4>2 DEF Placed
      <4> QED BY <4>2, <4>3 DEF Fresh
    <3>2. CASE ~(p.pc \in Admitting /\ p.who \in W)
      <4>1. p1 = p BY <2>1, <2>2, <3>2 DEF Outdate
      <4>2. Placed(p)' BY <2>1 DEF Placed
      <4>3. CASE p.pc \in Admitting
        <5>1. p.who \in Signers /\ DueOf(p.who)' = DueOf(p.who)
              /\ RolesOf(p.who)' = RolesOf(p.who)
          BY <2>1, <3>2, <4>3 DEF Placed, Admitting
        <5>2. DueOf(p.who) \subseteq TermIds BY DEF DueOf, TermsFor
        <5>3. AllSigned(p.who)' = AllSigned(p.who)
          BY <1>1, <5>1, <5>2 DEF AllSigned
        <5>4. \A t \in DueOf(p.who) : HasSigned(p.who, t)' = HasSigned(p.who, t)
          BY <1>1, <5>1, <5>2
        <5>5. p.pc # "reinvite" BY <4>3 DEF Admitting
        <5>6. Fresh(p)' BY <2>1, <5>1, <5>3, <5>4, <5>5 DEF Fresh
        <5> QED BY <4>1, <4>2, <5>6
      <4>4. CASE p.pc \notin Admitting
        <5>1. p.pc = "reinvite" => p.who \in Users BY <2>1 DEF Placed, UserPcs
        <5>2. Fresh(p)' BY <2>1, <4>4, <5>1 DEF Fresh, Admitting, HoldPcs
        <5> QED BY <4>1, <4>2, <5>2
      <4> QED BY <4>3, <4>4
    <3> QED BY <3>1, <3>2
  <2>4. (Placed(desk[e]) /\ Fresh(desk[e]))'
    BY <2>2, <2>3 DEF Placed, Fresh, AllSigned, DueOf, TermsFor, RolesOf,
                      HasSigned, Exist, InForce, Exists, Started, NotEnded
  <2> QED BY <2>1, <2>2, <2>3, <2>4 DEF Holds
<1>3. TypeOK'
  <2>1. desk' \in [Desks -> Desk] BY <1>2 DEF Outdate
  <2> QED BY <2>1 DEF SignInv, TypeOK
<1>4. SignedTermStays' BY <1>1 DEF SignedTermStays
<1>5. SignaturesCounted' BY <1>2, CountGoesOn
<1>6. \A u \in Users : Counted(u)' BY DEF SignInv, Counted, Live
<1> QED BY <1>2, <1>3, <1>4, <1>5, <1>6 DEF SignInv

\* The administration of the users, and what time does to codes.
LEMMA UserStepInv ==
    ASSUME SignInv, TermTypeOK', UNCHANGED <<now, terms>>, NEW u \in Users,
           \/ CreateUser(u) \/ UpdateUser(u) \/ InviteExpires(u)
           \/ CodeExpires(u) \/ Forgot(u)
    PROVE  SignInv'
<1>1. user[u] \in User BY DeskStepParts
<1>2. \A s \in Signers : RolesOf(s)' = RolesOf(s) => DueOf(s)' = DueOf(s)
  BY DEF DueOf, TermsFor, InForce, Exists, Started, NotEnded
<1>3. CASE CreateUser(u) \/ UpdateUser(u)
  <2>1. PICK r \in User : /\ user' = [user EXCEPT ![u] = r]
                          /\ r.done = user[u].done
                          /\ user[u].invited => r.invited
    <3>1. CASE CreateUser(u)
      <4>1. PICK R \in SUBSET Roles : user' = [user EXCEPT ![u] =
                                         [@ EXCEPT !.invited = TRUE, !.roles = R]]
        BY <3>1 DEF CreateUser
      <4>2. PICK r : r = [user[u] EXCEPT !.invited = TRUE, !.roles = R] OBVIOUS
      <4>3. r \in User /\ r.done = user[u].done /\ r.invited
        BY <1>1, <4>2 DEF User
      <4> QED BY <4>1, <4>2, <4>3
    <3>2. CASE UpdateUser(u)
      <4>1. PICK R \in SUBSET Roles, a \in BOOLEAN :
               user' = [user EXCEPT ![u] = [@ EXCEPT !.active = a, !.roles = R]]
        BY <3>2 DEF UpdateUser
      <4>2. PICK r : r = [user[u] EXCEPT !.active = a, !.roles = R] OBVIOUS
      <4>3. r \in User /\ r.done = user[u].done /\ r.invited = user[u].invited
        BY <1>1, <4>2 DEF User
      <4> QED BY <4>1, <4>2, <4>3
    <3> QED BY <1>3, <3>1, <3>2
  <2>2. /\ user' \in [Users -> User]
        /\ \A v \in Users : /\ Exist(v) => Exist(v)'
                            /\ user'[v].done = user[v].done
                            /\ v # u => user'[v] = user[v]
    BY <2>1, DeskStepParts DEF Exist
  <2>3. /\ UNCHANGED <<code, signed, atLogon, past>>
        /\ \E W \in SUBSET {u} : Outdate(W) /\ (W = {} => ~Exist(u))
    <3>1. CASE CreateUser(u)
      <4>1. UNCHANGED desk /\ ~Exist(u) BY <3>1 DEF CreateUser
      <4>2. desk' = [e \in Desks |-> desk[e]] BY <4>1, DeskStepParts
      <4>3. Outdate({}) BY <4>2 DEF Outdate
      <4> QED BY <3>1, <4>1, <4>3 DEF CreateUser
    <3>2. CASE UpdateUser(u) BY <3>2 DEF UpdateUser
    <3> QED BY <1>3, <3>1, <3>2
  <2>4. PICK W \in SUBSET {u} : Outdate(W) /\ (W = {} => ~Exist(u)) BY <2>3
  <2>5. W \in SUBSET Signers BY DEF Signers
  <2>6. ASSUME NEW s \in Signers, s \notin W, s \in Users => Exist(s)
        PROVE  DueOf(s)' = DueOf(s) /\ RolesOf(s)' = RolesOf(s)
    <3>1. s # u BY <2>4, <2>6
    <3>2. RolesOf(s)' = RolesOf(s) BY <2>2, <3>1 DEF RolesOf
    <3> QED BY <1>2, <3>2
  <2>7. ASSUME NEW s \in Signers, NEW t \in TermIds, HasSigned(s, t)
        PROVE  Exists(t)'
    BY <2>7 DEF SignInv, SignedTermStays, Exists
  <2> QED BY <2>2, <2>3, <2>4, <2>5, <2>6, <2>7, DesksOutdated
<1>4. CASE InviteExpires(u)
  <2>1. PICK r : r = [user[u] EXCEPT !.late = TRUE] OBVIOUS
  <2>2. /\ r \in User /\ r.invited = user[u].invited /\ r.done = user[u].done
        /\ r.roles = user[u].roles
    BY <1>1, <2>1 DEF User
  <2>3. user' = [user EXCEPT ![u] = r] BY <1>4, <2>1 DEF InviteExpires
  <2>4. UNCHANGED <<code, signed, atLogon, desk, past>> BY <1>4 DEF InviteExpires
  <2>5. /\ user' \in [Users -> User]
        /\ \A v \in Users : /\ user'[v].roles = user[v].roles
                            /\ user'[v].done = user[v].done
                            /\ user'[v].invited = user[v].invited
    BY <2>2, <2>3, DeskStepParts
  <2>6. \A v \in Users : Exist(v)' = Exist(v) BY <2>5 DEF Exist
  <2>7. \A v \in Users : Counted(v)'
    BY <2>4, <2>6 DEF SignInv, Counted, Live
  <2> QED BY <2>4, <2>5, <2>6, <2>7, DeskStepParts, DesksStand
<1>5. CASE CodeExpires(u)
  <2>1. UNCHANGED <<user, signed, atLogon, desk>> /\ code[u] \in Code
    BY <1>5, DeskStepParts DEF CodeExpires
  <2>2. PICK c : c = [code[u] EXCEPT !.expired = TRUE] OBVIOUS
  <2>3. c \in Code /\ c.expired BY <2>1, <2>2 DEF Code
  <2>4. /\ code' = [code EXCEPT ![u] = c]
        /\ past' = [past EXCEPT ![u] = Spent]
    BY <1>5, <2>2 DEF CodeExpires
  <2>5. /\ code' \in [Users -> Code \cup {NoCode}]
        /\ past' \in [Users -> {Spent} \cup 0..MaxAttempts]
        /\ code'[u] = c
        /\ \A v \in Users : v # u => code'[v] = code[v] /\ past'[v] = past[v]
    BY <2>3, <2>4, DeskStepParts
  <2>6. code[u] # NoCode BY <1>5 DEF CodeExpires
  <2>7. \A v \in Users : Counted(v)'
    BY <2>1, <2>3, <2>5, <2>6, GoneCounts DEF Live
  <2>8. \A v \in Users : Exist(v)' = Exist(v) BY <2>1 DEF Exist
  <2> QED BY <2>1, <2>5, <2>7, <2>8, DeskStepParts, DesksStand
<1>6. CASE Forgot(u)
  <2>1. /\ UNCHANGED <<user, signed, atLogon, desk>> /\ NewCode(u) /\ Exist(u)
    BY <1>6 DEF Forgot
  <2>2. \A v \in Users : Exist(v)' = Exist(v) BY <2>1 DEF Exist
  <2> QED BY <2>1, <2>2, NewCodeCounts, DeskStepParts, DesksStand
<1> QED BY <1>3, <1>4, <1>5, <1>6

LEMMA CleanCodesInv ==
    ASSUME SignInv, TermTypeOK', CleanCodes PROVE SignInv'
<1>1. UNCHANGED <<now, terms, user, signed, atLogon, desk, past>>
  BY DEF CleanCodes, termVars
<1>2. /\ code' \in [Users -> Code \cup {NoCode}]
      /\ \A u \in Users : code'[u] = code[u] \/ code'[u] = NoCode
  BY DeskStepParts DEF CleanCodes
<1>3. \A u \in Users : Counted(u)' BY <1>1, <1>2, GoneCounts DEF Live
<1>4. \A v \in Users : Exist(v)' = Exist(v) BY <1>1 DEF Exist
<1> QED BY <1>1, <1>2, <1>3, <1>4, DeskStepParts, DesksStand

\* A restart drops the requests in hand and the codes.
LEMMA RestartInv ==
    ASSUME SignInv, TermTypeOK', Restart PROVE SignInv'
<1>0. UNCHANGED <<now, terms, user, signed, atLogon>>
  BY DEF Restart, AdminsRestart
<1>1. /\ code' \in [Users -> Code \cup {NoCode}]
      /\ \A u \in Users : code'[u] = NoCode
      /\ past' \in [Users -> {Spent} \cup 0..MaxAttempts]
  BY DEF Restart
<1>2. \A s \in Signers, t \in TermIds : HasSigned(s, t) => HasSigned(s, t)'
  BY <1>0 DEF HasSigned
<1>3. \A v \in Users : Exist(v)' = Exist(v) BY <1>0 DEF Exist
<1>4. ASSUME NEW e \in Desks
      PROVE  /\ desk'[e] \in Desk
             /\ (Placed(desk[e]) /\ Fresh(desk[e]))'
             /\ \A s \in Signers, t \in TermIds : Holds(e, s, t)' => Holds(e, s, t)
  <2>1. PICK p \in Desk : p = desk'[e] /\ (p = desk[e] \/ p = DeskIdle)
    BY DeskStepParts DEF Restart
  <2>2. Placed(p) /\ Fresh(p) BY <2>1, DeskStepParts DEF SignInv
  <2>3. Placed(p)' /\ Fresh(p)' BY <1>0, <1>2, <1>3, <2>2, DeskStands
  <2>4. (Placed(desk[e]) /\ Fresh(desk[e]))'
    BY <2>1, <2>3 DEF Placed, Fresh, AllSigned, DueOf, TermsFor, RolesOf,
                      HasSigned, Exist, InForce, Exists, Started, NotEnded
  <2> QED BY <2>1, <2>4, DeskStepParts DEF Holds, HoldPcs
<1>5. TypeOK'
  <2>1. desk' \in [Desks -> Desk] BY <1>4 DEF Restart
  <2> QED BY <1>0, <1>1, <2>1, DeskStepParts DEF TypeOK
<1>6. SignedTermStays'
  BY <1>0 DEF SignInv, SignedTermStays, HasSigned, Exists
<1>7. SignaturesCounted' BY <1>0, <1>4, CountGoesOn
<1>8. \A u \in Users : Counted(u)' BY <1>1 DEF Counted, Live
<1> QED BY <1>4, <1>5, <1>6, <1>7, <1>8 DEF SignInv

\* A write on the terms leaves the signed ones there.
LEMMA SignedKept ==
    ASSUME TermInv, TermWrites(SignedTerms), NEW t \in SignedTerms, Exists(t)
    PROVE  terms'[t] # NoTerm
<1>0. TermTypeOK /\ t \in TermIds BY DEF TermInv, Exists
<1>1. ASSUME NEW h \in Admins, SaveCreate(h) PROVE terms'[t] # NoTerm
  <2>1. PICK row : terms' = [Closing(admin[h]) EXCEPT ![lastTerm + 1] = row]
    BY <1>1 DEF SaveCreate
  <2>2. t # lastTerm + 1
    BY <1>0 DEF TermInv, TermTypeOK, RowsPacked, Exists, TermIds
  <2>3. admin[h] \in Request BY <1>0, <1>1 DEF TermTypeOK
  <2> QED BY <1>0, <2>1, <2>2, <2>3, OtherRows
<1>2. ASSUME NEW h \in Admins, SaveUpdate(h) PROVE terms'[t] # NoTerm
  <2>1. PICK row : /\ terms' = [Closing(admin[h]) EXCEPT ![admin[h].id] = row]
                   /\ Exists(admin[h].id) => row.pair = admin[h].pair
    <3>1. PICK row : row = (IF Exists(admin[h].id)
                            THEN [pair |-> admin[h].pair,
                                  begin |-> admin[h].begin,
                                  end |-> EndAfter(admin[h], admin[h].id),
                                  text |-> admin[h].text]
                            ELSE NoTerm)
      OBVIOUS
    <3>2. terms' = [Closing(admin[h]) EXCEPT ![admin[h].id] = row]
      BY <1>2, <3>1 DEF SaveUpdate
    <3>3. Exists(admin[h].id) => row.pair = admin[h].pair BY <3>1
    <3> QED BY <3>2, <3>3
  <2>2. "update" \in Ops /\ Save(h, "update") BY <1>2 DEF SaveUpdate, Ops
  <2>3. admin[h] \in Request /\ admin[h].op = "update" /\ AskedRow(admin[h])
    BY <1>2, <2>2, SaveAdmins
  <2>4. CASE t = admin[h].id
    <3>1. terms'[t] = row /\ row.pair \in Pairs
      BY <1>0, <2>1, <2>3, <2>4, OtherRows DEF AskedRow
    <3> QED BY <3>1, TermsAssumption DEF NoTerm
  <2>5. CASE t # admin[h].id BY <1>0, <2>1, <2>3, <2>5, OtherRows
  <2> QED BY <2>4, <2>5
<1>3. ASSUME NEW h \in Admins, SaveDelete(h, SignedTerms)
      PROVE  terms'[t] # NoTerm
  <2>1. /\ terms' = [Closing(admin[h]) EXCEPT ![admin[h].id] = NoTerm]
        /\ t # admin[h].id
    BY <1>3 DEF SaveDelete
  <2>2. admin[h] \in Request BY <1>0, <1>3 DEF TermTypeOK
  <2> QED BY <1>0, <2>1, <2>2, OtherRows
<1> QED BY <1>1, <1>2, <1>3 DEF TermWrites

\* The administrators and the clock.
LEMMA AdminStepInv ==
    ASSUME TermInv, SignInv, TermTypeOK', AdminStep PROVE SignInv'
<1>1. ASSUME UNCHANGED <<now, terms>>, UNCHANGED signVars PROVE SignInv'
  <2>1. \A v \in Users : Exist(v)' = Exist(v) BY <1>1 DEF Exist, signVars
  <2>2. \A v \in Users : Counted(v)'
    BY <1>1, <2>1 DEF SignInv, Counted, Live, signVars
  <2> QED BY <1>1, <2>1, <2>2, DeskStepParts, DesksStand DEF signVars
<1>2. CASE TermReads /\ UNCHANGED signVars
  <2>1. UNCHANGED <<now, terms>>
    BY <1>2 DEF TermReads, AskCreate, AskDelete, AskUpdate, FindLast,
                FindOpen, AskAdmin, StepAdmin
  <2> QED BY <1>1, <1>2, <2>1
<1>3. ASSUME NEW h \in Admins, DeleteRestricted(h, SignedTerms), UNCHANGED signVars
      PROVE  SignInv'
  <2>1. UNCHANGED <<now, terms>> BY <1>3 DEF DeleteRestricted, StepAdmin
  <2> QED BY <1>1, <1>3, <2>1
<1>4. ASSUME TermWrites(SignedTerms) \/ Tick, Outdate(Signers),
             UNCHANGED <<user, code, signed, atLogon, past>>
      PROVE  SignInv'
  <2>1. Signers \in SUBSET Signers OBVIOUS
  <2>2. ASSUME NEW s \in Signers, NEW t \in TermIds, HasSigned(s, t)
        PROVE  Exists(t)'
    <3>1. t \in SignedTerms BY <2>2 DEF SignedTerms
    <3>2. Exists(t) BY <2>2 DEF SignInv, SignedTermStays
    <3>3. CASE TermWrites(SignedTerms)
      BY <3>1, <3>2, <3>3, SignedKept DEF Exists
    <3>4. CASE Tick BY <3>2, <3>4 DEF Tick, Exists
    <3> QED BY <1>4, <3>3, <3>4
  <2>3. \A u \in Users : Exist(u)' = Exist(u) BY <1>4 DEF Exist
  <2>4. user' \in [Users -> User] BY <1>4, DeskStepParts
  <2>5. \A s \in Signers : s \notin Signers /\ (s \in Users => Exist(s)) =>
           DueOf(s)' = DueOf(s) /\ RolesOf(s)' = RolesOf(s)
    OBVIOUS
  <2> QED BY <1>4, <2>1, <2>2, <2>3, <2>4, <2>5, DesksOutdated
<1> QED BY <1>2, <1>3, <1>4 DEF AdminStep

LEMMA SignInitInv == Init => SignInv
<1> SUFFICES ASSUME Init PROVE SignInv
  OBVIOUS
<1>1. /\ TermInv /\ user = [u \in Users |-> NoUser]
      /\ code = [u \in Users |-> NoCode]
      /\ signed = [s \in Signers |-> [t \in TermIds |-> 0]]
      /\ atLogon = [s \in Signers |-> {}]
      /\ desk = [d \in Desks |-> DeskIdle]
      /\ past = [u \in Users |-> Spent]
  BY TermInitInv DEF Init
<1>2. /\ DeskIdle \in Desk /\ DeskIdle.pc = "idle" /\ NoUser \in User
  BY SignInAssumption DEF DeskIdle, Desk, DeskPcs, DeskOps, NoUser, User
<1>3. TypeOK BY <1>1, <1>2 DEF TypeOK, TermInv
<1>4. \A d \in Desks : Placed(desk[d]) /\ Fresh(desk[d])
  BY <1>1, <1>2 DEF Placed, Fresh, UserPcs, HoldPcs
<1>5. SignedTermStays /\ SignaturesCounted
  BY <1>1 DEF SignedTermStays, SignaturesCounted, HasSigned
<1>6. \A u \in Users : Counted(u) BY <1>1 DEF Counted, Live
<1> QED BY <1>3, <1>4, <1>5, <1>6 DEF SignInv

LEMMA SignNextInv == TermInv /\ SignInv /\ [Next]_vars => SignInv'
<1> SUFFICES ASSUME TermInv, SignInv, [Next]_vars PROVE SignInv'
  OBVIOUS
<1>0. TermTypeOK /\ TermTypeOK' BY TermNextInv DEF TermInv
<1>1. CASE AdminStep BY <1>0, <1>1, AdminStepInv
<1>2. CASE UserStep \/ DeskStep
  <2>1. UNCHANGED <<now, terms>> BY <1>0, <1>2, OthersKeepTerms
  <2>2. CASE UserStep BY <1>0, <2>1, <2>2, UserStepInv DEF UserStep
  <2>3. CASE DeskStep
    BY <1>0, <2>1, <2>3, DeskBeginsInv, DeskReadsInv, DeskCodesInv,
       DeskUsersInv, SaveLogonInv, SignStepInv
       DEF DeskStep
  <2> QED BY <1>2, <2>2, <2>3
<1>3. CASE CleanCodes BY <1>0, <1>3, CleanCodesInv
<1>4. CASE Restart BY <1>0, <1>4, RestartInv
<1>5. CASE UNCHANGED vars
  <2>1. UNCHANGED <<now, terms, user, code, signed, atLogon, desk, past>>
    BY <1>5 DEF vars, termVars, signVars
  <2>2. \A v \in Users : Exist(v)' = Exist(v) BY <2>1 DEF Exist
  <2>3. \A v \in Users : Counted(v)' BY <2>1, <2>2 DEF SignInv, Counted, Live
  <2> QED BY <1>0, <2>1, <2>2, <2>3, DeskStepParts, DesksStand
<1> QED BY <1>1, <1>2, <1>3, <1>4, <1>5 DEF Next

-----------------------------------------------------------------------------
(* The theorems. *)

IInv == TermInv /\ SignInv

LEMMA Invariance == Spec => []IInv
<1>1. Init => IInv BY TermInitInv, SignInitInv DEF Init, IInv
<1>2. IInv /\ [Next]_vars => IInv' BY TermNextInv, SignNextInv DEF IInv
<1> QED BY <1>1, <1>2, PTL DEF Spec

\* The shape of the state, the limit of wrong tries of a code among it: see
\* TypeOK.
THEOREM TypeTheorem == Spec => []TypeOK
<1>1. IInv => TypeOK BY DEF IInv, SignInv
<1> QED BY <1>1, Invariance, PTL

\* Signed terms are there: see SignedTermStays.
THEOREM SignedTermStaysTheorem == Spec => []SignedTermStays
<1>1. IInv => SignedTermStays BY DEF IInv, SignInv
<1> QED BY <1>1, Invariance, PTL

\* Whoever is let in on fresh reads has signed all: see AdmittedHasSigned.
THEOREM AdmittedHasSignedTheorem == Spec => []AdmittedHasSigned
<1>1. IInv => AdmittedHasSigned
  <2> SUFFICES ASSUME SignInv, NEW d \in Desks, NEW s \in Signers,
                      At(d, "in"), Who(d) = s, ~desk[d].stale
               PROVE  \A t \in TermsFor(RolesOf(s)) : HasSigned(s, t)
    BY DEF IInv, AdmittedHasSigned
  <2>1. Fresh(desk[d]) BY DEF SignInv
  <2>2. AllSigned(s) BY <2>1 DEF Fresh, At, Who
  <2> QED BY <2>2 DEF AllSigned, DueOf
<1> QED BY <1>1, Invariance, PTL

\* Of the signatures that were asked for, no more rows for a signer and a term
\* than requests that can be in flight: see SignaturesBoundedByConcurrency.
THEOREM SignaturesTheorem == Spec => []SignaturesBoundedByConcurrency
<1>1. IInv => SignaturesBoundedByConcurrency
  <2> SUFFICES ASSUME SignInv, NEW s \in Signers, NEW t \in TermIds
               PROVE  signed[s][t] <= Cardinality(Desks)
    BY DEF IInv, SignaturesBoundedByConcurrency
  <2>1. signed[s][t] \in Nat BY DEF SignInv, TypeOK
  <2>2. PICK H \in SUBSET Desks : H = Holders(s, t) BY DEF Holders
  <2>3. Cardinality(H) \in Nat /\ Cardinality(Desks) \in Nat
    BY HoldersFinite
  <2>4. signed[s][t] > 0 =>
           signed[s][t] + Cardinality(H) <= Cardinality(Desks)
    BY <2>2 DEF SignInv, SignaturesCounted
  <2> QED BY <2>1, <2>3, <2>4
<1> QED BY <1>1, Invariance, PTL

\* The steps of a desk that write to the users.
LEMMA UserWriters ==
    ASSUME [Next]_vars, user' # user
    PROVE  \/ \E u \in Users : CreateUser(u) \/ UpdateUser(u) \/ InviteExpires(u)
           \/ \E d \in Desks : SaveReinvite(d) \/ SaveLogon(d) \/ SaveReset(d)
<1>1. CASE AdminStep \/ CleanCodes \/ Restart \/ UNCHANGED vars
  BY <1>1 DEF AdminStep, CleanCodes, Restart, vars, signVars
<1>2. CASE UserStep BY <1>2 DEF UserStep, CodeExpires, Forgot
<1>3. CASE DeskStep
  <2>1. PICK d \in Desks :
          \/ AskReinvite(d) \/ SaveReinvite(d) \/ PostLogon(d) \/ SaveLogon(d)
          \/ AskLogin(d) \/ AskResend(d) \/ SendCode(d) \/ Reset(d) \/ SaveReset(d)
          \/ Verify(d) \/ OpenForm(d) \/ ReadRoles(d) \/ ReadTerms(d)
          \/ ReadSignatures(d) \/ ReadRows(d) \/ Sign(d) \/ Ends(d)
    BY <1>3 DEF DeskStep
  <2>2. ~AskReinvite(d) /\ ~OpenForm(d) /\ ~PostLogon(d) /\ ~AskLogin(d)
    BY DEF AskReinvite, OpenForm, PostLogon, AskLogin, Begin
  <2>3. ~SendCode(d) /\ ~Verify(d) /\ ~AskResend(d) /\ ~Reset(d) /\ ~Sign(d)
    BY DEF SendCode, Verify, AskResend, Reset, Try, Codes, Sign
  <2>4. ~ReadRoles(d) /\ ~ReadTerms(d) /\ ~ReadSignatures(d) /\ ~ReadRows(d)
        /\ ~Ends(d)
    BY DEF ReadRoles, ReadTerms, ReadSignatures, ReadRows, Ends, Reads
  <2> QED BY <2>1, <2>2, <2>3, <2>4
<1> QED BY <1>1, <1>2, <1>3 DEF Next

LEMMA DoneStep == ASSUME SignInv, [Next]_vars PROVE DoneReopenedStep
<1> SUFFICES ASSUME NEW u \in Users, user[u].done, ~user'[u].done
             PROVE  \E d \in Desks : At(d, "reinvite") /\ Who(d) = u
                                     /\ desk[d].stale
  BY DEF DoneReopenedStep
<1>0. user \in [Users -> User] BY DeskStepParts
<1>1. user' # user OBVIOUS
<1>2. ASSUME NEW v, NEW r, user' = [user EXCEPT ![v] = r],
             v \in Users => r.done \/ r.done = user[v].done
      PROVE  FALSE
  BY <1>0, <1>2
<1>3. ASSUME NEW v \in Users, CreateUser(v) \/ UpdateUser(v) \/ InviteExpires(v)
      PROVE  FALSE
  <2>1. user[v] \in User BY <1>0
  <2>2. CASE CreateUser(v)
    <3>1. PICK R : user' = [user EXCEPT ![v] =
                              [@ EXCEPT !.invited = TRUE, !.roles = R]]
      BY <2>2 DEF CreateUser
    <3>2. PICK r : r = [user[v] EXCEPT !.invited = TRUE, !.roles = R] OBVIOUS
    <3>3. r.done = user[v].done BY <2>1, <3>2 DEF User
    <3> QED BY <1>2, <3>1, <3>2, <3>3
  <2>3. CASE UpdateUser(v)
    <3>1. PICK R, a : user' = [user EXCEPT ![v] =
                                 [@ EXCEPT !.active = a, !.roles = R]]
      BY <2>3 DEF UpdateUser
    <3>2. PICK r : r = [user[v] EXCEPT !.active = a, !.roles = R] OBVIOUS
    <3>3. r.done = user[v].done BY <2>1, <3>2 DEF User
    <3> QED BY <1>2, <3>1, <3>2, <3>3
  <2>4. CASE InviteExpires(v)
    <3>1. PICK r : r = [user[v] EXCEPT !.late = TRUE] OBVIOUS
    <3>2. r.done = user[v].done BY <2>1, <3>1 DEF User
    <3>3. user' = [user EXCEPT ![v] = r] BY <2>4, <3>1 DEF InviteExpires
    <3> QED BY <1>2, <3>2, <3>3
  <2> QED BY <1>3, <2>2, <2>3, <2>4
<1>4. ASSUME NEW d \in Desks, SaveLogon(d) \/ SaveReset(d) PROVE FALSE
  <2>1. PICK v : v = Who(d) OBVIOUS
  <2>2. CASE SaveLogon(d)
    <3>1. PICK r : r = [user[v] EXCEPT !.done = TRUE, !.password = TRUE] OBVIOUS
    <3>2. user' = [user EXCEPT ![v] = r] BY <2>1, <2>2, <3>1 DEF SaveLogon
    <3>3. v \in Users => r.done BY <1>0, <3>1 DEF User
    <3> QED BY <1>2, <3>2, <3>3
  <2>3. CASE SaveReset(d)
    <3>1. PICK r : r = [user[v] EXCEPT !.password = TRUE, !.active = FALSE] OBVIOUS
    <3>2. user' = [user EXCEPT ![v] = r] BY <2>1, <2>3, <3>1 DEF SaveReset
    <3>3. v \in Users => r.done = user[v].done BY <1>0, <3>1 DEF User
    <3> QED BY <1>2, <3>2, <3>3
  <2> QED BY <1>4, <2>2, <2>3
<1>5. ASSUME NEW d \in Desks, SaveReinvite(d)
      PROVE  At(d, "reinvite") /\ Who(d) = u /\ desk[d].stale
  <2>1. At(d, "reinvite") BY <1>5 DEF SaveReinvite
  <2>2. Who(d) = u BY <1>0, <1>5 DEF SaveReinvite
  <2>3. Fresh(desk[d]) BY DEF SignInv
  <2> QED BY <2>1, <2>2, <2>3 DEF Fresh, At, Who
<1> QED BY <1>1, <1>3, <1>4, <1>5, UserWriters

\* Only a re-invitation that looked too early undoes a log-on: see
\* DoneReopenedOnlyByStale.
THEOREM DoneReopenedTheorem == Spec => DoneReopenedOnlyByStale
<1>1. IInv /\ [Next]_vars => [DoneReopenedStep]_vars BY DoneStep DEF IInv
<1> QED BY <1>1, Invariance, PTL DEF Spec, DoneReopenedOnlyByStale

-----------------------------------------------------------------------------
(* What a code opens. *)

\* A desk that is given the row of another request does not open anything.
LEMMA RowGiven ==
    ASSUME SignInv, NEW d \in Desks, desk[d].pc = "idle", NEW e \in Desks, NEW r,
           SetDesk(e, r), r.pc \notin {"roles", "resetting"}
    PROVE  desk'[d].pc \notin {"roles", "resetting"}
BY DeskStepParts DEF SetDesk

\* An accepted code was tried less often than it may be since it was made.
LEMMA TryOpens ==
    ASSUME SignInv, NEW d \in Desks, NEW u \in Users, NEW e \in Desks,
           NEW pc \in {"roles", "resetting"}, NEW op, Try(e, pc, op),
           At(d, "idle"), desk'[d].who = u, desk'[d].pc \in {"roles", "resetting"}
    PROVE  past[u] \in 0..(MaxAttempts - 1)
<1>1. desk' # desk BY DEF At
<1>2. PICK v \in Users, right \in BOOLEAN :
         Accepts(v, right) /\ Start(e, v, pc, op)
  BY <1>1 DEF Try
<1>3. PICK r : r = [DeskIdle EXCEPT !.pc = pc, !.who = v, !.op = op,
                                    !.roles = IF v \in Forms THEN RolesOf(v) ELSE {}]
  OBVIOUS
<1>4. r.who = v BY <1>3 DEF DeskIdle
<1>5. desk' = [desk EXCEPT ![e] = r] BY <1>2, <1>3 DEF Start, SetDesk
<1>6. d = e BY <1>5, DeskStepParts DEF At
<1>7. u = v BY <1>4, <1>5, <1>6, DeskStepParts
<1>8. Live(u) /\ code[u].attempts < MaxAttempts BY <1>2, <1>7 DEF Accepts
<1>9. code[u] \in Code BY <1>8, DeskStepParts DEF Live
<1>10. past[u] = code[u].attempts BY <1>8 DEF SignInv, Counted
<1> QED BY <1>8, <1>9, <1>10, SignInAssumption DEF Code

LEMMA CodesStep == ASSUME SignInv, [Next]_vars PROVE CodesOpenOnceStep
<1> SUFFICES ASSUME NEW d \in Desks, NEW u \in Users, At(d, "idle"),
                    desk'[d].who = u, desk'[d].pc \in {"roles", "resetting"}
             PROVE  past[u] \in 0..(MaxAttempts - 1)
  BY DEF CodesOpenOnceStep
<1>0. desk[d].pc = "idle" /\ desk' # desk BY DEF At
<1>1. ASSUME NEW W, Outdate(W) PROVE FALSE
  BY <1>0, <1>1 DEF Outdate, Admitting
<1>2. ASSUME NEW e \in Desks, NEW r, SetDesk(e, r), r.pc \notin {"roles", "resetting"}
      PROVE  FALSE
  BY <1>0, <1>2, RowGiven
<1>3. ASSUME NEW e \in Desks, Free(e) PROVE FALSE
  BY <1>2, <1>3, DeskStepParts DEF Free
<1>4. ASSUME NEW e \in Desks, NEW s, NEW pc, NEW op, Start(e, s, pc, op),
             pc \notin {"roles", "resetting"}
      PROVE  FALSE
  <2>1. PICK r : r = [DeskIdle EXCEPT !.pc = pc, !.who = s, !.op = op,
                                      !.roles = IF s \in Forms THEN RolesOf(s) ELSE {}]
    OBVIOUS
  <2>2. SetDesk(e, r) BY <1>4, <2>1 DEF Start
  <2>3. r.pc = pc BY <2>1 DEF DeskIdle
  <2> QED BY <1>2, <1>4, <2>2, <2>3
<1>5. ASSUME NEW e \in Desks, NEW pc, NEW list, GotoWith(e, pc, list),
             pc \notin {"roles", "resetting"}
      PROVE  FALSE
  <2>1. PICK q \in Desk : q = desk[e] BY DeskStepParts
  <2>2. PICK r : r = [q EXCEPT !.pc = pc, !.roles = {}, !.list = list] OBVIOUS
  <2>3. SetDesk(e, r) BY <1>5, <2>1, <2>2 DEF GotoWith
  <2>4. r.pc = pc BY <2>2 DEF Desk
  <2> QED BY <1>2, <1>5, <2>3, <2>4
<1>6. CASE AdminStep BY <1>0, <1>1, <1>6 DEF AdminStep, signVars
<1>7. CASE UserStep
  BY <1>0, <1>1, <1>7 DEF UserStep, CreateUser, UpdateUser, InviteExpires,
                          CodeExpires, Forgot
<1>8. CASE DeskStep
  <2>1. PICK e \in Desks :
          \/ AskReinvite(e) \/ SaveReinvite(e) \/ PostLogon(e) \/ SaveLogon(e)
          \/ AskLogin(e) \/ AskResend(e) \/ SendCode(e) \/ Reset(e) \/ SaveReset(e)
          \/ Verify(e) \/ OpenForm(e) \/ ReadRoles(e) \/ ReadTerms(e)
          \/ ReadSignatures(e) \/ ReadRows(e) \/ Sign(e) \/ Ends(e)
    BY <1>8 DEF DeskStep
  <2>2. CASE Verify(e) \/ Reset(e) BY <2>2, TryOpens DEF Verify, Reset
  <2>3. ~AskReinvite(e) /\ ~OpenForm(e) /\ ~AskLogin(e)
    BY <1>4 DEF AskReinvite, OpenForm, AskLogin, Begin
  <2>4. ~AskResend(e) BY <1>0, <1>4 DEF AskResend
  <2>5. ~SaveReinvite(e) /\ ~SendCode(e) /\ ~SaveReset(e) /\ ~Ends(e)
    BY <1>3 DEF SaveReinvite, SendCode, SaveReset, Ends
  <2>6. ~ReadTerms(e) /\ ~ReadSignatures(e) /\ ~ReadRows(e) /\ ~Sign(e)
    BY <1>3, <1>5 DEF ReadTerms, ReadSignatures, ReadRows, Sign
  <2>7. ~PostLogon(e)
    <3> SUFFICES ASSUME PostLogon(e) PROVE FALSE OBVIOUS
    <3>1. PICK s, list :
            SetDesk(e, [DeskIdle EXCEPT !.pc = "hashing", !.who = s, !.list = list])
      BY DEF PostLogon
    <3>2. PICK r : r = [DeskIdle EXCEPT !.pc = "hashing", !.who = s, !.list = list]
      OBVIOUS
    <3>3. r.pc = "hashing" BY <3>2 DEF DeskIdle
    <3> QED BY <1>2, <3>1, <3>2, <3>3
  <2>8. ~SaveLogon(e)
    <3> SUFFICES ASSUME SaveLogon(e) PROVE FALSE OBVIOUS
    <3>1. desk'[d] = DeskIdle \/ desk'[d] = desk[d] BY <1>0 DEF SaveLogon
    <3> QED BY <1>0, <3>1, DeskStepParts
  <2>9. ~ReadRoles(e)
    <3> SUFFICES ASSUME ReadRoles(e) PROVE FALSE OBVIOUS
    <3>1. PICK q \in Desk : q = desk[e] BY DeskStepParts
    <3>2. PICK r : r = [q EXCEPT !.pc = "terms", !.roles = RolesOf(Who(e))] OBVIOUS
    <3>3. SetDesk(e, r) BY <3>1, <3>2 DEF ReadRoles
    <3>4. r.pc = "terms" BY <3>2 DEF Desk
    <3> QED BY <1>2, <3>3, <3>4
  <2> QED BY <2>1, <2>2, <2>3, <2>4, <2>5, <2>6, <2>7, <2>8, <2>9
<1>9. CASE CleanCodes \/ UNCHANGED vars
  BY <1>0, <1>9 DEF CleanCodes, vars, signVars
<1>10. CASE Restart
  <2>1. desk'[d] = DeskIdle BY <1>0, <1>10 DEF Restart
  <2> QED BY <2>1, DeskStepParts
<1> QED BY <1>6, <1>7, <1>8, <1>9, <1>10 DEF Next

\* A code opens one thing, in its time: see CodesOpenOnce.
THEOREM CodesOpenOnceTheorem == Spec => CodesOpenOnce
<1>1. IInv /\ [Next]_vars => [CodesOpenOnceStep]_vars BY CodesStep DEF IInv
<1> QED BY <1>1, Invariance, PTL DEF Spec, CodesOpenOnce
=============================================================================
