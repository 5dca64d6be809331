------------------------ MODULE Registration_proofs ------------------------
(***************************************************************************)
(* Proofs about Registration for every number of handlers, rows, people    *)
(* and durations: type correctness, the mail and candidate invariants, the *)
(* bound on double registrations and the refinement of                     *)
(* RegistrationPromise.                                                    *)
(***************************************************************************)
EXTENDS Registration, FiniteSetTheorems, TLAPS

-----------------------------------------------------------------------------
(* Types *)

\* The rows ever inserted, whatever became of them, carry an application.
RowsTyped ==
    \A p \in PendingIds :
        IF p <= lastId THEN pending[p].app \in Applications
                       ELSE pending[p] = NoRow

\* Which fields of its record a handler has filled in at each of its steps, when
\* n rows have been inserted.
HandlerTyped(h, n) ==
    /\ h \in Handler
    /\ h.pc \notin {"idle", "confirm"} => h.app \in Applications
    /\ h.pc \in {"mail", "mailing", "confirm", "check", "complete"} =>
          h.token \in PendingIds /\ h.token <= n

HandlersTyped == \A r \in Requests : HandlerTyped(req[r], lastId)

MailsTyped == \A m \in inbox : m.token <= lastId

Typed == TypeOK /\ RowsTyped /\ HandlersTyped /\ MailsTyped

\* Facts about the constants.
LEMMA Constants ==
    /\ PendingIds \subseteq Nat
    /\ MaxAge \in Nat
    /\ \A a \in 0..MaxAge : Older(a) \in 0..MaxAge
    /\ Cooldown \in Nat
    /\ MaxPendings \in Nat
    /\ Unconfirmed = -1
    /\ NoApp \notin Applications
    /\ \A a \in Applications : a.order \in Orders /\ a.identity \in Identities
                                                  /\ a.email \in Emails
BY TimesAssumption, ApplicationsAssumption
   DEF PendingIds, MaxAge, Max2, Older, Unconfirmed

\* The handler records the actions build have the right type.
LEMMA HandlerTypes ==
    /\ Idle \in Handler
    /\ \A h \in Handler : 
          /\ h.token \in 0..MaxPendings
          /\ h.todo \subseteq PendingIds
          /\ h.app \in Applications \cup {NoApp}
BY TimesAssumption DEF Idle, Handler, PendingIds

LEMMA RowTypes ==
    /\ NoRow \in PendingRow
    /\ \A a \in Applications : NewRow("stored", a) \in PendingRow
BY Constants DEF NoRow, NewRow, PendingRow

LEMMA InitTyped == Init => Typed
<1> SUFFICES ASSUME Init PROVE Typed
  OBVIOUS
<1>1. TypeOK
  <2>1. pending \in [PendingIds -> PendingRow]
    BY RowTypes DEF Init
  <2>2. \A p \in PendingIds : pending[p].state = "unused" <=> p > lastId
    BY Constants DEF Init, NoRow, NewRow, PendingIds
  <2> QED
    BY <2>1, <2>2, Constants, HandlerTypes DEF Init, TypeOK
<1>2. RowsTyped /\ MailsTyped
  BY DEF Init, RowsTyped, MailsTyped, PendingIds
<1>3. HandlersTyped
  BY HandlerTypes DEF Init, HandlersTyped, HandlerTyped, Idle
<1> QED
  BY <1>1, <1>2, <1>3 DEF Typed

LEMMA HandlerTypedMonotone ==
    ASSUME NEW h, NEW m \in Nat, NEW n \in Nat, m <= n, HandlerTyped(h, m)
    PROVE  HandlerTyped(h, n)
<1>1. h.token \in PendingIds /\ h.token <= m => h.token <= n
  BY DEF PendingIds
<1> QED
  BY <1>1 DEF HandlerTyped

\* A handler that moves on to a well-typed record leaves all handlers well typed,
\* whether or not a row is inserted by its step.
LEMMA GotoTyped ==
    ASSUME Typed, NEW r \in Requests, NEW h, Goto(r, h),
           lastId' \in Nat, lastId' >= lastId, HandlerTyped(h, lastId')
    PROVE  req' \in [Requests -> Handler] /\ HandlersTyped'
<1>1. req' \in [Requests -> Handler]
  BY DEF Typed, TypeOK, Goto, HandlerTyped
<1>2. ASSUME NEW q \in Requests PROVE HandlerTyped(req'[q], lastId')
  <2>1. CASE q = r
    BY <2>1 DEF Typed, TypeOK, Goto
  <2>2. CASE q # r
    <3>1. req'[q] = req[q] /\ HandlerTyped(req[q], lastId) /\ lastId \in Nat
      BY <2>2, Constants DEF Typed, TypeOK, Goto, HandlersTyped
    <3>2. HandlerTyped(req[q], lastId')
      BY <3>1, HandlerTypedMonotone
    <3> QED
      BY <3>1, <3>2
  <2> QED
    BY <2>1, <2>2
<1> QED
  BY <1>1, <1>2 DEF HandlersTyped

\* The actions that write nothing but their handler's record.
LEMMA HandlerOnlyTyped ==
    ASSUME Typed, NEW r \in Requests, NEW h, Goto(r, h), HandlerTyped(h, lastId),
           UNCHANGED <<pending, lastId, candidates, sentAge, inbox, cron>>
    PROVE  Typed'
<1>1. req' \in [Requests -> Handler] /\ HandlersTyped'
  BY GotoTyped, Constants DEF Typed, TypeOK
<1> QED
  BY <1>1 DEF Typed, TypeOK, RowsTyped, MailsTyped, Stored

LEMMA SelfRegisterTyped ==
    ASSUME Typed, NEW r \in Requests
    PROVE  /\ \A a \in Applications : StartRegister(r, a) => Typed'
           /\ FindExisting(r) => Typed'
           /\ ReadActive(r) => Typed'
           /\ InvalidateOne(r) => Typed'
           /\ InsertPending(r) => Typed'
<1> USE Constants
<1>h. req[r] \in Handler /\ HandlerTyped(req[r], lastId) /\ lastId \in Nat
  BY DEF Typed, TypeOK, HandlersTyped
<1>1. ASSUME NEW a \in Applications, StartRegister(r, a) PROVE Typed'
  <2>1. HandlerTyped([Idle EXCEPT !.pc = "find", !.app = a], lastId)
    BY HandlerTypes DEF HandlerTyped, Handler, Idle
  <2> QED
    BY <1>1, <2>1, HandlerOnlyTyped DEF StartRegister
<1>2. ASSUME FindExisting(r) PROVE Typed'
  <2>1. HandlerTyped([req[r] EXCEPT !.pc = "active"], lastId)
    BY <1>2, <1>h DEF FindExisting, At, HandlerTyped, Handler
  <2>2. ASSUME NEW p \in Newest(Uninvalidated(req[r].app.order))
        PROVE  HandlerTyped([req[r] EXCEPT !.pc = "mail", !.token = p], lastId)
    <3>1. p \in PendingIds /\ p <= lastId
      BY DEF Newest, Uninvalidated, Stored, Typed, TypeOK
    <3>2. req[r].app \in Applications
      BY <1>2, <1>h DEF FindExisting, At, HandlerTyped
    <3>3. p \in 0..MaxPendings
      BY <3>1 DEF PendingIds
    <3> QED
      BY <1>h, <3>1, <3>2, <3>3 DEF HandlerTyped, Handler
  <2> QED
    BY <1>2, <2>1, <2>2, HandlerOnlyTyped DEF FindExisting
<1>3. ASSUME ReadActive(r) PROVE Typed'
  <2> DEFINE found == ActivePendings(req[r].app.order)
             h == [req[r] EXCEPT !.pc = IF found = {} THEN "insert" ELSE "invalidate",
                                 !.todo = found]
  <2>1. HandlerTyped(h, lastId)
    <3>1. found \subseteq PendingIds
      BY DEF ActivePendings
    <3> HIDE DEF found
    <3> QED
      BY <1>3, <1>h, <3>1 DEF ReadActive, At, HandlerTyped, Handler
  <2> QED
    BY <1>3, <2>1, HandlerOnlyTyped DEF ReadActive
<1>4. ASSUME InvalidateOne(r) PROVE Typed'
  <2>1. PICK p \in req[r].todo :
           /\ pending' = [pending EXCEPT ![p].invalidated = @ \/ Stored(p)]
           /\ Goto(r, [req[r] EXCEPT
                         !.pc = IF req[r].todo = {p} THEN "insert" ELSE @,
                         !.todo = @ \ {p}])
    BY <1>4 DEF InvalidateOne
  <2>2. HandlerTyped([req[r] EXCEPT
                         !.pc = IF req[r].todo = {p} THEN "insert" ELSE @,
                         !.todo = @ \ {p}], lastId)
    BY <1>4, <1>h DEF InvalidateOne, At, HandlerTyped, Handler
  <2>3. lastId' = lastId
    BY <1>4 DEF InvalidateOne
  <2>4. req' \in [Requests -> Handler] /\ HandlersTyped'
    BY <2>1, <2>2, <2>3, <1>h, GotoTyped
  <2>5. p \in PendingIds
    BY <1>h DEF Handler
  <2>6. /\ pending' \in [PendingIds -> PendingRow]
        /\ \A q \in PendingIds : pending'[q].state = pending[q].state
        /\ \A q \in PendingIds : pending'[q].app = pending[q].app
        /\ \A q \in PendingIds : q > lastId => pending'[q] = pending[q]
    BY <2>1, <2>5 DEF Typed, TypeOK, PendingRow, Stored
  <2> QED
    BY <1>4, <2>3, <2>4, <2>6
    DEF InvalidateOne, Typed, TypeOK, RowsTyped, MailsTyped
<1>5. ASSUME InsertPending(r) PROVE Typed'
  <2> DEFINE h == [req[r] EXCEPT !.pc = "mail", !.token = lastId + 1]
  <2>1. lastId + 1 \in PendingIds /\ lastId' = lastId + 1
    BY <1>5, <1>h DEF InsertPending, PendingIds
  <2>2. req[r].app \in Applications
    BY <1>5, <1>h DEF InsertPending, At, HandlerTyped
  <2>3. HandlerTyped(h, lastId')
    <3>1. lastId + 1 \in 0..MaxPendings /\ lastId + 1 <= lastId'
      BY <1>h, <2>1 DEF PendingIds
    <3>2. h \in Handler /\ h.pc = "mail" /\ h.token = lastId + 1
                        /\ h.app = req[r].app
      BY <1>h, <3>1 DEF Handler
    <3> QED
      BY <2>1, <2>2, <3>1, <3>2 DEF HandlerTyped
  <2>4. req' \in [Requests -> Handler] /\ HandlersTyped'
    BY <1>5, <2>1, <2>3, <1>h, GotoTyped DEF InsertPending
  <2>5. /\ pending' \in [PendingIds -> PendingRow]
        /\ pending'[lastId + 1] = NewRow("stored", req[r].app)
        /\ \A q \in PendingIds : q # lastId + 1 => pending'[q] = pending[q]
    BY <1>5, <2>1, <2>2, RowTypes DEF InsertPending, Typed, TypeOK
  <2>6. \A q \in PendingIds : pending'[q].state = "unused" <=> q > lastId'
    <3>1. lastId \in Nat /\ \A q \in PendingIds : q \in Nat
      BY <1>h, Constants DEF Typed, TypeOK
    <3>2. pending'[lastId + 1].state = "stored"
      BY <2>5 DEF NewRow
    <3>3. ASSUME NEW q \in PendingIds, q # lastId + 1
          PROVE  pending'[q].state = "unused" <=> q > lastId'
      <4>1. q > lastId' <=> q > lastId
        BY <2>1, <3>1, <3>3
      <4>2. pending[q].state = "unused" <=> q > lastId
        BY <1>h DEF Typed, TypeOK
      <4> QED
        BY <2>5, <3>3, <4>1, <4>2
    <3> QED
      BY <2>1, <3>1, <3>2, <3>3
  <2>7. RowsTyped'
    <3>1. pending'[lastId + 1].app \in Applications
      BY <2>2, <2>5 DEF NewRow
    <3>2. \A q \in PendingIds : q # lastId + 1 => (q <= lastId' <=> q <= lastId)
      BY <1>h, <2>1 DEF PendingIds
    <3> QED
      BY <1>h, <2>1, <2>5, <3>1, <3>2 DEF Typed, RowsTyped
  <2>8. lastId' \in 0..MaxPendings
    BY <2>1, <1>h DEF PendingIds
  <2>9. MailsTyped'
    BY <1>5, <1>h, <2>1 DEF InsertPending, MailsTyped, Typed, TypeOK, Mail
  <2> QED
    BY <1>5, <2>4, <2>5, <2>6, <2>7, <2>8, <2>9 DEF InsertPending, Typed, TypeOK
<1> QED
  BY <1>1, <1>2, <1>3, <1>4, <1>5

LEMMA MailTyped ==
    ASSUME Typed, NEW r \in Requests
    PROVE  /\ CheckCooldown(r) => Typed'
           /\ MailAccepted(r) => Typed'
           /\ MailFailed(r) => Typed'
           /\ \A o \in Orders : ResendConfirmation(r, o) => Typed'
<1> USE Constants
<1>h. req[r] \in Handler /\ HandlerTyped(req[r], lastId) /\ lastId \in Nat
  BY DEF Typed, TypeOK, HandlersTyped
<1>i. \A n \in Nat : HandlerTyped(Idle, n)
  BY HandlerTypes DEF HandlerTyped, Idle
<1>1. ASSUME CheckCooldown(r) PROVE Typed'
  <2>1. HandlerTyped([req[r] EXCEPT !.pc = "mailing"], lastId)
    BY <1>1, <1>h DEF CheckCooldown, At, HandlerTyped, Handler
  <2> QED
    BY <1>1, <1>h, <1>i, <2>1, HandlerOnlyTyped DEF CheckCooldown
<1>2. ASSUME MailAccepted(r) \/ MailFailed(r) PROVE Typed'
  <2>1. Goto(r, Idle) /\ lastId' = lastId /\ UNCHANGED <<pending, candidates, cron>>
    BY <1>2 DEF MailAccepted, MailFailed
  <2>2. req' \in [Requests -> Handler] /\ HandlersTyped'
    BY <1>h, <1>i, <2>1, GotoTyped
  <2>3. Delivered(r) \in Mail /\ Delivered(r).token <= lastId
    BY <1>2, <1>h DEF Delivered, Mail, MailAccepted, MailFailed, At, HandlerTyped
  <2>4. inbox' \subseteq inbox \cup {Delivered(r)}
    BY <1>2 DEF MailAccepted, MailFailed
  <2>5. inbox' \subseteq Mail /\ MailsTyped'
    BY <2>1, <2>3, <2>4 DEF Typed, TypeOK, MailsTyped
  <2>6. sentAge' \in [PendingIds -> 0..Cooldown]
    BY <1>2, <1>h DEF MailAccepted, MailFailed, Typed, TypeOK
  <2>7. RowsTyped'
    BY <2>1 DEF Typed, RowsTyped
  <2> QED
    BY <2>1, <2>2, <2>5, <2>6, <2>7 DEF Typed, TypeOK
<1>3. ASSUME NEW o \in Orders, ResendConfirmation(r, o) PROVE Typed'
  <2>1. PICK p \in Newest(Uninvalidated(o)) :
           Goto(r, [Idle EXCEPT !.pc = "mail", !.token = p, !.app = pending[p].app])
    BY <1>3 DEF ResendConfirmation
  <2>2. p \in PendingIds /\ p <= lastId /\ pending[p].app \in Applications
    BY <2>1 DEF Newest, Uninvalidated, Stored, Typed, TypeOK, RowsTyped
  <2>3. p \in 0..MaxPendings
    BY <2>2 DEF PendingIds
  <2>4. HandlerTyped([Idle EXCEPT !.pc = "mail", !.token = p, !.app = pending[p].app],
                     lastId)
    BY <2>2, <2>3, HandlerTypes DEF HandlerTyped, Handler, Idle
  <2> QED
    BY <1>3, <2>1, <2>4, HandlerOnlyTyped DEF ResendConfirmation
<1> QED
  BY <1>1, <1>2, <1>3

LEMMA CompletionTyped ==
    ASSUME Typed, NEW r \in Requests
    PROVE  /\ \A m \in inbox : ConfirmRegistration(r, m) => Typed'
           /\ ConfirmPending(r) => Typed'
           /\ \A m \in inbox : CompleteRegistration(r, m) => Typed'
           /\ CheckAvailable(r) => Typed'
           /\ InsertCandidate(r) => Typed'
           /\ QueryFails(r) => Typed'
<1> USE Constants
<1>h. req[r] \in Handler /\ HandlerTyped(req[r], lastId) /\ lastId \in Nat
  BY DEF Typed, TypeOK, HandlersTyped
<1>i. \A n \in Nat : HandlerTyped(Idle, n)
  BY HandlerTypes DEF HandlerTyped, Idle
<1>m. \A m \in inbox : /\ m.token \in PendingIds /\ m.token \in 0..MaxPendings
                       /\ m.token <= lastId /\ pending[m.token].app \in Applications
  <2>1. \A m \in inbox : m.token \in PendingIds /\ m.token <= lastId
    BY DEF Typed, TypeOK, MailsTyped, Mail
  <2> QED
    BY <2>1 DEF Typed, RowsTyped, PendingIds
<1>1. ASSUME NEW m \in inbox, ConfirmRegistration(r, m) PROVE Typed'
  <2>1. HandlerTyped([Idle EXCEPT !.pc = "confirm", !.token = m.token], lastId)
    BY <1>m, HandlerTypes DEF HandlerTyped, Handler, Idle
  <2> QED
    BY <1>1, <2>1, HandlerOnlyTyped DEF ConfirmRegistration
<1>2. ASSUME ConfirmPending(r) PROVE Typed'
  <2> DEFINE t == req[r].token
  <2>1. t \in PendingIds /\ t <= lastId
    BY <1>2, <1>h DEF ConfirmPending, At, HandlerTyped
  <2>2. Goto(r, Idle) /\ UNCHANGED <<lastId, candidates, sentAge, inbox, cron>>
    BY <1>2 DEF ConfirmPending
  <2>3. req' \in [Requests -> Handler] /\ HandlersTyped'
    BY <1>h, <1>i, <2>2, GotoTyped
  <2>4. pending' \in [PendingIds -> PendingRow]
    <3>1. CASE Stored(t)
      BY <1>2, <2>1, <3>1 DEF ConfirmPending, Typed, TypeOK, PendingRow
    <3>2. CASE ~Stored(t)
      BY <1>2, <2>1, <3>2 DEF ConfirmPending, Typed, TypeOK, PendingRow
    <3> QED
      BY <3>1, <3>2
  <2>5. /\ \A q \in PendingIds : pending'[q].state = pending[q].state
        /\ \A q \in PendingIds : pending'[q].app = pending[q].app
        /\ \A q \in PendingIds : q > lastId => pending'[q] = pending[q]
    BY <1>2, <2>1 DEF ConfirmPending, Typed, TypeOK, PendingRow
  <2> QED
    BY <2>2, <2>3, <2>4, <2>5 DEF Typed, TypeOK, RowsTyped, MailsTyped
<1>3. ASSUME NEW m \in inbox, CompleteRegistration(r, m) PROVE Typed'
  <2>1. HandlerTyped([Idle EXCEPT !.pc = "check", !.token = m.token,
                                  !.app = pending[m.token].app], lastId)
    BY <1>m, HandlerTypes DEF HandlerTyped, Handler, Idle
  <2> QED
    BY <1>3, <2>1, HandlerOnlyTyped DEF CompleteRegistration
<1>4. ASSUME CheckAvailable(r) PROVE Typed'
  <2>1. HandlerTyped([req[r] EXCEPT !.pc = "complete"], lastId)
    BY <1>4, <1>h DEF CheckAvailable, At, HandlerTyped, Handler
  <2> QED
    BY <1>4, <1>h, <1>i, <2>1, HandlerOnlyTyped DEF CheckAvailable
<1>5. ASSUME InsertCandidate(r) PROVE Typed'
  <2>1. /\ Goto(r, Idle) /\ UNCHANGED <<pending, lastId, sentAge, inbox, cron>>
        /\ candidates' \subseteq candidates \cup {NewCandidate(r)}
    BY <1>5 DEF InsertCandidate
  <2>2. req' \in [Requests -> Handler] /\ HandlersTyped'
    BY <1>h, <1>i, <2>1, GotoTyped
  <2>3. NewCandidate(r) \in Candidate
    BY <1>5, <1>h DEF NewCandidate, Candidate, InsertCandidate, At, HandlerTyped
  <2> QED
    BY <2>1, <2>2, <2>3 DEF Typed, TypeOK, RowsTyped, MailsTyped
<1>6. ASSUME QueryFails(r) PROVE Typed'
  BY <1>6, <1>h, <1>i, HandlerOnlyTyped DEF QueryFails
<1> QED
  BY <1>1, <1>2, <1>3, <1>4, <1>5, <1>6

LEMMA BackgroundTyped ==
    ASSUME Typed
    PROVE  /\ CleanUnconfirmed => Typed'
           /\ CleanConfirmed => Typed'
           /\ CleanFails => Typed'
           /\ Restart => Typed'
           /\ Tick => Typed'
<1> USE Constants
<1>1. ASSUME NEW ids, ids \subseteq PendingIds, \A p \in ids : Stored(p),
             DeleteRows(ids), cron' \in {"idle", "second"},
             UNCHANGED <<lastId, candidates, sentAge, inbox, req>>
      PROVE  Typed'
  <2>1. /\ pending' \in [PendingIds -> PendingRow]
        /\ \A p \in PendingIds : pending'[p].app = pending[p].app
        /\ \A p \in PendingIds :
              pending'[p].state = "unused" <=> pending[p].state = "unused"
    BY <1>1 DEF DeleteRows, Typed, TypeOK, PendingRow, Stored
  <2>2. \A p \in PendingIds : p > lastId => pending'[p] = pending[p]
    <3>1. \A p \in ids : ~(p > lastId)
      BY <1>1 DEF Typed, TypeOK, Stored
    <3> QED
      BY <1>1, <3>1 DEF DeleteRows
  <2> QED
    BY <1>1, <2>1, <2>2
    DEF Typed, TypeOK, RowsTyped, HandlersTyped, MailsTyped
<1>2. CleanUnconfirmed => Typed'
  BY <1>1 DEF CleanUnconfirmed, UnconfirmedTooOld
<1>3. CleanConfirmed => Typed'
  BY <1>1 DEF CleanConfirmed, ConfirmedTooOld
<1>4. CleanFails => Typed'
  BY DEF CleanFails, Typed, TypeOK, RowsTyped, HandlersTyped, MailsTyped
<1>5. ASSUME Restart PROVE Typed'
  <2>1. \A n \in Nat : HandlerTyped(Idle, n)
    BY HandlerTypes DEF HandlerTyped, Idle
  <2>2. req' \in [Requests -> Handler] /\ HandlersTyped'
    BY <1>5, <2>1, HandlerTypes DEF Restart, Typed, TypeOK, HandlersTyped
  <2>3. sentAge' \in [PendingIds -> 0..Cooldown]
    BY <1>5 DEF Restart
  <2> QED
    BY <1>5, <2>2, <2>3 DEF Restart, Typed, TypeOK, RowsTyped, MailsTyped
<1>6. ASSUME Tick PROVE Typed'
  <2>1. ASSUME NEW p \in PendingIds
        PROVE  /\ pending'[p] \in PendingRow
               /\ pending'[p].app = pending[p].app
               /\ pending'[p].state = pending[p].state
               /\ p > lastId => pending'[p] = pending[p]
    <3>1. CASE ~Stored(p)
      BY <1>6, <3>1 DEF Tick, Typed, TypeOK
    <3>2. CASE Stored(p)
      <4>1. pending[p] \in PendingRow /\ ~(p > lastId)
        BY <3>2 DEF Typed, TypeOK, Stored
      <4>2. CASE IsConfirmed(p)
        <5>1. pending'[p] = [pending[p] EXCEPT
                               !.age = Older(@), !.confirmed = Older(@)]
          BY <1>6, <3>2, <4>2 DEF Tick
        <5>2. pending[p].confirmed \in 0..MaxAge
          BY <4>1, <4>2 DEF IsConfirmed, PendingRow
        <5>3. Older(pending[p].age) \in 0..MaxAge /\ Older(pending[p].confirmed) \in 0..MaxAge
          BY <4>1, <5>2 DEF PendingRow
        <5>4. 0..MaxAge \subseteq -1..MaxAge
          OBVIOUS
        <5> QED
          BY <4>1, <5>1, <5>3, <5>4 DEF PendingRow
      <4>3. CASE ~IsConfirmed(p)
        <5>1. pending'[p] = [pending[p] EXCEPT !.age = Older(@), !.confirmed = @]
          BY <1>6, <3>2, <4>3 DEF Tick
        <5> QED
          BY <4>1, <5>1 DEF PendingRow
      <4> QED
        BY <4>2, <4>3
    <3> QED
      BY <3>1, <3>2
  <2>2. pending' \in [PendingIds -> PendingRow]
    BY <1>6, <2>1 DEF Tick
  <2>3. sentAge' \in [PendingIds -> 0..Cooldown]
    <3>1. \A c \in 0..Cooldown : (IF c < Cooldown THEN c + 1 ELSE c) \in 0..Cooldown
      OBVIOUS
    <3>2. sentAge \in [PendingIds -> 0..Cooldown]
      BY DEF Typed, TypeOK
    <3>3. sentAge' = [p \in PendingIds |-> IF sentAge[p] < Cooldown
                                           THEN sentAge[p] + 1 ELSE sentAge[p]]
      BY <1>6 DEF Tick
    <3> QED
      BY <3>1, <3>2, <3>3
  <2>4. UNCHANGED <<lastId, candidates, inbox, req, cron>>
    BY <1>6 DEF Tick
  <2>5. TypeOK'
    BY <2>1, <2>2, <2>3, <2>4 DEF Typed, TypeOK
  <2>6. RowsTyped' /\ HandlersTyped' /\ MailsTyped'
    <3>1. lastId \in Nat
      BY DEF Typed, TypeOK
    <3>2. RowsTyped'
      BY <2>1, <2>4, <3>1 DEF Typed, RowsTyped
    <3> QED
      BY <2>4, <3>2 DEF Typed, HandlersTyped, MailsTyped
  <2> QED
    BY <2>5, <2>6 DEF Typed
<1> QED
  BY <1>2, <1>3, <1>4, <1>5, <1>6

LEMMA NextTyped == Typed /\ [Next]_vars => Typed'
<1> SUFFICES ASSUME Typed, [Next]_vars PROVE Typed'
  OBVIOUS
<1>1. CASE UNCHANGED vars
  BY <1>1 DEF vars, Typed, TypeOK, RowsTyped, HandlersTyped, MailsTyped, Stored
<1>2. ASSUME NEW r \in Requests, Arrival(r) PROVE Typed'
  BY <1>2, SelfRegisterTyped, MailTyped, CompletionTyped DEF Arrival
<1>3. ASSUME NEW r \in Requests, HandlerStep(r) PROVE Typed'
  BY <1>3, SelfRegisterTyped, MailTyped, CompletionTyped DEF HandlerStep
<1>4. CASE CleanUnconfirmed \/ CleanConfirmed \/ CleanFails \/ Restart \/ Tick
  BY <1>4, BackgroundTyped
<1> QED
  BY <1>1, <1>2, <1>3, <1>4 DEF Next

\* Every reachable state is well typed, and rows are numbered without a gap.
THEOREM TypeCorrect == Spec => []TypeOK
<1>1. Typed => TypeOK
  BY DEF Typed
<1> QED
  BY <1>1, InitTyped, NextTyped, PTL DEF Spec

-----------------------------------------------------------------------------
(* Mails, confirmations and candidates *)

\* The mail that proves the address row t was created for.
ProofMail(table, t) == [email |-> table[t].app.email, token |-> t]

\* What a handler in flight still knows to be true of the tables, although it
\* read them some steps ago.
HandlerHonest(h, table, mails) ==
    /\ h.pc \in {"mail", "mailing"} => table[h.token].app.email = h.app.email
    /\ h.pc = "confirm" => ProofMail(table, h.token) \in mails
    /\ h.pc \in {"check", "complete"} =>
          /\ table[h.token].confirmed # Unconfirmed
          /\ table[h.token].app = h.app

HandlersHonest == \A r \in Requests : HandlerHonest(req[r], pending, inbox)

ConfirmedWereMailed ==
    \A p \in PendingIds : IsConfirmed(p) => ProofMail(pending, p) \in inbox

Honest == /\ MailGoesToOwner
          /\ HandlersHonest
          /\ ConfirmedWereMailed
          /\ CandidateProvedEmail

\* No step takes back what others rely on: rows keep their application, a
\* confirmation stays and a mail that arrived has arrived.
Grows ==
    /\ \A p \in PendingIds : p <= lastId =>
          /\ pending'[p].app = pending[p].app
          /\ pending[p].confirmed # Unconfirmed => pending'[p].confirmed # Unconfirmed
    /\ inbox \subseteq inbox'

LEMMA NextGrows == Typed /\ [Next]_vars => Grows
<1> SUFFICES ASSUME Typed, [Next]_vars PROVE Grows
  OBVIOUS
<1> USE Constants
<1>t. /\ pending \in [PendingIds -> PendingRow] /\ lastId \in Nat
      /\ \A r \in Requests : req[r] \in Handler
  BY DEF Typed, TypeOK
<1>1. CASE UNCHANGED <<pending, inbox>>
  BY <1>1 DEF Grows
<1>2. ASSUME NEW r \in Requests, InvalidateOne(r) PROVE Grows
  <2>1. PICK p \in PendingIds :
           pending' = [pending EXCEPT ![p].invalidated = @ \/ Stored(p)]
    BY <1>2, <1>t DEF InvalidateOne, Handler
  <2>2. \A q \in PendingIds : /\ pending'[q].app = pending[q].app
                             /\ pending'[q].confirmed = pending[q].confirmed
    BY <2>1, <1>t DEF PendingRow
  <2> QED
    BY <1>2, <2>2 DEF Grows, InvalidateOne
<1>3. ASSUME NEW r \in Requests, InsertPending(r) PROVE Grows
  <2>1. \A q \in PendingIds : q <= lastId => pending'[q] = pending[q]
    BY <1>3, <1>t DEF InsertPending
  <2> QED
    BY <1>3, <2>1 DEF Grows, InsertPending
<1>4. ASSUME NEW r \in Requests, MailAccepted(r) \/ MailFailed(r) PROVE Grows
  BY <1>4 DEF Grows, MailAccepted, MailFailed
<1>5. ASSUME NEW r \in Requests, ConfirmPending(r) PROVE Grows
  <2>1. \A q \in PendingIds :
           /\ pending'[q].app = pending[q].app
           /\ pending'[q].confirmed \in {pending[q].confirmed, 0}
    BY <1>5, <1>t DEF ConfirmPending, PendingRow
  <2> QED
    BY <1>5, <2>1 DEF Grows, ConfirmPending
<1>6. CASE CleanUnconfirmed \/ CleanConfirmed
  <2>1. \A q \in PendingIds : /\ pending'[q].app = pending[q].app
                             /\ pending'[q].confirmed = pending[q].confirmed
    BY <1>6, <1>t DEF CleanUnconfirmed, CleanConfirmed, DeleteRows, PendingRow
  <2> QED
    BY <1>6, <2>1 DEF Grows, CleanUnconfirmed, CleanConfirmed
<1>7. CASE Tick
  <2>1. ASSUME NEW q \in PendingIds
        PROVE  /\ pending'[q].app = pending[q].app
               /\ IsConfirmed(q) => pending'[q].confirmed # Unconfirmed
    <3>1. pending'[q] = pending[q] \/
          pending'[q] = [pending[q] EXCEPT
                           !.age = Older(@),
                           !.confirmed = IF IsConfirmed(q) THEN Older(@) ELSE @]
      BY <1>7 DEF Tick
    <3>2. IsConfirmed(q) => Older(pending[q].confirmed) \in 0..MaxAge
      BY <1>t DEF IsConfirmed, PendingRow
    <3>3. pending[q] \in PendingRow
      BY <1>t
    <3>4. CASE pending'[q] = pending[q]
      BY <3>4 DEF IsConfirmed
    <3>5. CASE pending'[q] = [pending[q] EXCEPT
                                !.age = Older(@),
                                !.confirmed = IF IsConfirmed(q) THEN Older(@) ELSE @]
      <4>1. /\ pending'[q].app = pending[q].app
            /\ IsConfirmed(q) => pending'[q].confirmed = Older(pending[q].confirmed)
        BY <3>3, <3>5 DEF PendingRow
      <4> QED
        BY <3>2, <4>1
    <3> QED
      BY <3>1, <3>4, <3>5
  <2> QED
    BY <1>7, <2>1 DEF Grows, Tick, IsConfirmed
<1>8. ASSUME NEW r \in Requests, Arrival(r) PROVE Grows
  BY <1>8, <1>1 DEF Arrival, StartRegister, ResendConfirmation,
     ConfirmRegistration, CompleteRegistration
<1>9. ASSUME NEW r \in Requests, HandlerStep(r) PROVE Grows
  <2>1. CASE FindExisting(r) \/ ReadActive(r) \/ CheckCooldown(r)
             \/ CheckAvailable(r) \/ InsertCandidate(r) \/ QueryFails(r)
    BY <2>1, <1>1 DEF FindExisting, ReadActive, CheckCooldown, CheckAvailable,
       InsertCandidate, QueryFails
  <2> QED
    BY <1>9, <2>1, <1>2, <1>3, <1>4, <1>5 DEF HandlerStep
<1>10. CASE CleanFails \/ Restart \/ UNCHANGED vars
  BY <1>10, <1>1 DEF CleanFails, Restart, vars
<1> QED
  BY <1>6, <1>7, <1>8, <1>9, <1>10 DEF Next

\* Handlers that do not move stay honest while the tables only grow.
LEMMA HonestyLasts ==
    ASSUME Typed, Grows, NEW h, HandlerTyped(h, lastId), HandlerHonest(h, pending, inbox)
    PROVE  HandlerHonest(h, pending', inbox')
BY DEF HandlerTyped, HandlerHonest, Grows, ProofMail

LEMMA GotoHonest ==
    ASSUME Typed, HandlersHonest, Grows, NEW r \in Requests, NEW h, Goto(r, h),
           HandlerHonest(h, pending', inbox')
    PROVE  HandlersHonest'
<1>1. ASSUME NEW q \in Requests PROVE HandlerHonest(req'[q], pending', inbox')
  <2>1. CASE q = r
    BY <2>1 DEF Goto, Typed, TypeOK
  <2>2. CASE q # r
    <3>1. req'[q] = req[q]
      BY <2>2 DEF Goto, Typed, TypeOK
    <3>2. HandlerHonest(req[q], pending', inbox')
      BY HonestyLasts DEF Typed, HandlersTyped, HandlersHonest
    <3> QED
      BY <3>1, <3>2
  <2> QED
    BY <2>1, <2>2
<1> QED
  BY <1>1 DEF HandlersHonest

\* The only mails that appear are those the handlers at "mailing" send.
LEMMA NewMails ==
    ASSUME [Next]_vars, NEW m \in inbox'
    PROVE  m \in inbox \/ \E r \in Requests : At(r, "mailing") /\ m = Delivered(r)
<1>1. CASE UNCHANGED inbox
  BY <1>1
<1>2. ASSUME NEW r \in Requests, MailAccepted(r) \/ MailFailed(r)
      PROVE  m \in inbox \/ (At(r, "mailing") /\ m = Delivered(r))
  BY <1>2 DEF MailAccepted, MailFailed
<1>3. ASSUME NEW r \in Requests, Arrival(r) PROVE UNCHANGED inbox
  BY <1>3 DEF Arrival, StartRegister, ResendConfirmation, ConfirmRegistration,
     CompleteRegistration
<1>4. ASSUME NEW r \in Requests, HandlerStep(r)
      PROVE  UNCHANGED inbox \/ MailAccepted(r) \/ MailFailed(r)
  BY <1>4 DEF HandlerStep, FindExisting, ReadActive, InvalidateOne, InsertPending,
     CheckCooldown, ConfirmPending, CheckAvailable, InsertCandidate, QueryFails
<1>5. CleanUnconfirmed \/ CleanConfirmed \/ CleanFails \/ Restart \/ Tick
        \/ UNCHANGED vars => UNCHANGED inbox
  BY DEF CleanUnconfirmed, CleanConfirmed, CleanFails, Restart, Tick, vars
<1> QED
  BY <1>1, <1>2, <1>3, <1>4, <1>5 DEF Next

\* The only candidates that appear are those the handlers at "complete" insert.
LEMMA NewCandidates ==
    ASSUME [Next]_vars, NEW c \in candidates'
    PROVE  c \in candidates \/
           \E r \in Requests : At(r, "complete") /\ c = NewCandidate(r)
<1>1. ASSUME NEW r \in Requests, InsertCandidate(r)
      PROVE  c \in candidates \/ (At(r, "complete") /\ c = NewCandidate(r))
  BY <1>1 DEF InsertCandidate
<1>2. ASSUME NEW r \in Requests, Arrival(r) PROVE UNCHANGED candidates
  BY <1>2 DEF Arrival, StartRegister, ResendConfirmation, ConfirmRegistration,
     CompleteRegistration
<1>3. ASSUME NEW r \in Requests, HandlerStep(r)
      PROVE  UNCHANGED candidates \/ InsertCandidate(r)
  BY <1>3 DEF HandlerStep, FindExisting, ReadActive, InvalidateOne, InsertPending,
     CheckCooldown, MailAccepted, MailFailed, ConfirmPending, CheckAvailable,
     QueryFails
<1>4. CleanUnconfirmed \/ CleanConfirmed \/ CleanFails \/ Restart \/ Tick
        \/ UNCHANGED vars => UNCHANGED candidates
  BY DEF CleanUnconfirmed, CleanConfirmed, CleanFails, Restart, Tick, vars
<1> QED
  BY <1>1, <1>2, <1>3, <1>4 DEF Next

\* The only rows that become confirmed are those the handlers at "confirm" update.
LEMMA NewConfirmations ==
    ASSUME Typed, [Next]_vars, NEW p \in PendingIds, pending'[p].confirmed # Unconfirmed
    PROVE  IsConfirmed(p) \/
           \E r \in Requests : At(r, "confirm") /\ p = req[r].token
<1> USE Constants
<1>t. /\ pending \in [PendingIds -> PendingRow] /\ lastId \in Nat
      /\ \A r \in Requests : req[r] \in Handler
  BY DEF Typed, TypeOK
<1>1. CASE UNCHANGED pending
  BY <1>1 DEF IsConfirmed
<1>2. ASSUME NEW r \in Requests, InvalidateOne(r) PROVE IsConfirmed(p)
  <2>1. PICK q \in PendingIds :
           pending' = [pending EXCEPT ![q].invalidated = @ \/ Stored(q)]
    BY <1>2, <1>t DEF InvalidateOne, Handler
  <2> QED
    BY <2>1, <1>t DEF PendingRow, IsConfirmed
<1>3. ASSUME NEW r \in Requests, InsertPending(r) PROVE IsConfirmed(p)
  BY <1>3, <1>t DEF InsertPending, IsConfirmed, NewRow
<1>4. ASSUME NEW r \in Requests, ConfirmPending(r)
      PROVE  IsConfirmed(p) \/ (At(r, "confirm") /\ p = req[r].token)
  BY <1>4, <1>t DEF ConfirmPending, IsConfirmed
<1>5. CASE CleanUnconfirmed \/ CleanConfirmed
  BY <1>5, <1>t DEF CleanUnconfirmed, CleanConfirmed, DeleteRows, PendingRow, IsConfirmed
<1>6. CASE Tick
  BY <1>6, <1>t DEF Tick, PendingRow, IsConfirmed
<1>7. ASSUME NEW r \in Requests, Arrival(r) PROVE UNCHANGED pending
  BY <1>7 DEF Arrival, StartRegister, ResendConfirmation, ConfirmRegistration,
     CompleteRegistration
<1>8. ASSUME NEW r \in Requests, HandlerStep(r)
      PROVE  \/ UNCHANGED pending
             \/ InvalidateOne(r) \/ InsertPending(r) \/ ConfirmPending(r)
  BY <1>8 DEF HandlerStep, FindExisting, ReadActive, CheckCooldown, MailAccepted,
     MailFailed, CheckAvailable, InsertCandidate, QueryFails
<1>9. CleanFails \/ Restart \/ UNCHANGED vars => UNCHANGED pending
  BY DEF CleanFails, Restart, vars
<1> QED
  BY <1>1, <1>2, <1>3, <1>4, <1>5, <1>6, <1>7, <1>8, <1>9 DEF Next

\* A confirmed row is a row that was inserted.
LEMMA ConfirmedIsInserted ==
    ASSUME Typed, NEW p \in PendingIds, IsConfirmed(p)
    PROVE  p <= lastId /\ pending[p].app \in Applications
BY Constants DEF Typed, RowsTyped, IsConfirmed, NoRow, NewRow

LEMMA HandlersStayHonest ==
    ASSUME Typed, Honest, [Next]_vars
    PROVE  HandlersHonest'
<1> USE Constants
<1>g. Grows
  BY NextGrows
<1>t. /\ lastId \in Nat
      /\ pending \in [PendingIds -> PendingRow]
      /\ \A r \in Requests : /\ req[r] \in Handler
                             /\ HandlerTyped(req[r], lastId)
                             /\ HandlerHonest(req[r], pending, inbox)
  BY DEF Typed, TypeOK, HandlersTyped, Honest, HandlersHonest
<1>k. ASSUME NEW h, h.pc \notin {"mail", "mailing", "confirm", "check", "complete"}
      PROVE  HandlerHonest(h, pending', inbox')
  BY <1>k DEF HandlerHonest
<1>i. HandlerHonest(Idle, pending', inbox')
  BY <1>k DEF Idle
<1>0. ASSUME req' = req PROVE HandlersHonest'
  BY <1>0, <1>t, <1>g, HonestyLasts DEF HandlersHonest
<1>1. ASSUME NEW r \in Requests, NEW a \in Applications, StartRegister(r, a)
      PROVE  HandlersHonest'
  BY <1>1, <1>g, <1>k, GotoHonest DEF StartRegister, Idle, Honest
<1>2. ASSUME NEW r \in Requests, FindExisting(r) PROVE HandlersHonest'
  <2> DEFINE found == Newest(Uninvalidated(req[r].app.order))
  <2>1. ASSUME NEW p \in found, Reusable(p, req[r].app),
               Goto(r, [req[r] EXCEPT !.pc = "mail", !.token = p])
        PROVE  HandlersHonest'
    <3> DEFINE h == [req[r] EXCEPT !.pc = "mail", !.token = p]
    <3>1. /\ h.pc = "mail" /\ h.token = p /\ h.app = req[r].app
      BY <1>t DEF Handler
    <3>2. pending' = pending
      BY <1>2 DEF FindExisting
    <3>3. HandlerHonest(h, pending', inbox')
      BY <2>1, <3>1, <3>2 DEF HandlerHonest, Reusable
    <3> QED
      BY <1>g, <2>1, <3>3, GotoHonest DEF Honest
  <2>2. ASSUME Goto(r, [req[r] EXCEPT !.pc = "active"]) PROVE HandlersHonest'
    <3>1. [req[r] EXCEPT !.pc = "active"].pc = "active"
      BY <1>t DEF Handler
    <3> QED
      BY <1>g, <1>k, <2>2, <3>1, GotoHonest DEF Honest
  <2> QED
    BY <1>2, <2>1, <2>2 DEF FindExisting
<1>3. ASSUME NEW r \in Requests, ReadActive(r) PROVE HandlersHonest'
  <2> DEFINE found == ActivePendings(req[r].app.order)
             h == [req[r] EXCEPT !.pc = IF found = {} THEN "insert" ELSE "invalidate",
                                 !.todo = found]
  <2>1. h.pc \in {"insert", "invalidate"}
    BY <1>t DEF Handler
  <2>2. HandlerHonest(h, pending', inbox')
    BY <2>1, <1>k
  <2> QED
    BY <1>3, <1>g, <2>2, GotoHonest DEF ReadActive, Honest
<1>4. ASSUME NEW r \in Requests, InvalidateOne(r) PROVE HandlersHonest'
  <2>1. PICK p \in req[r].todo :
           Goto(r, [req[r] EXCEPT
                      !.pc = IF req[r].todo = {p} THEN "insert" ELSE @,
                      !.todo = @ \ {p}])
    BY <1>4 DEF InvalidateOne
  <2> DEFINE h == [req[r] EXCEPT
                      !.pc = IF req[r].todo = {p} THEN "insert" ELSE @,
                      !.todo = @ \ {p}]
  <2>2. h.pc \in {"insert", "invalidate"}
    BY <1>4, <1>t DEF Handler, InvalidateOne, At
  <2>3. HandlerHonest(h, pending', inbox')
    BY <2>2, <1>k
  <2> QED
    BY <1>g, <2>1, <2>3, GotoHonest DEF Honest
<1>5. ASSUME NEW r \in Requests, InsertPending(r) PROVE HandlersHonest'
  <2> DEFINE h == [req[r] EXCEPT !.pc = "mail", !.token = lastId + 1]
  <2>1. h.pc = "mail" /\ h.token = lastId + 1 /\ h.app = req[r].app
    BY <1>t DEF Handler
  <2>2. pending'[lastId + 1].app = req[r].app
    BY <1>5, <1>t DEF InsertPending, NewRow, PendingIds
  <2>3. HandlerHonest(h, pending', inbox')
    BY <2>1, <2>2 DEF HandlerHonest
  <2> QED
    BY <1>5, <1>g, <2>3, GotoHonest DEF InsertPending, Honest
<1>6. ASSUME NEW r \in Requests, CheckCooldown(r) PROVE HandlersHonest'
  <2> DEFINE h == [req[r] EXCEPT !.pc = "mailing"]
  <2>1. h.pc = "mailing" /\ h.token = req[r].token /\ h.app = req[r].app
    BY <1>t DEF Handler
  <2>2. HandlerHonest(h, pending', inbox')
    BY <1>6, <1>t, <2>1 DEF HandlerHonest, CheckCooldown, At
  <2> QED
    BY <1>6, <1>g, <1>i, <2>2, GotoHonest DEF CheckCooldown, Honest
<1>7. ASSUME NEW r \in Requests,
             MailAccepted(r) \/ MailFailed(r) \/ ConfirmPending(r)
               \/ InsertCandidate(r) \/ QueryFails(r)
      PROVE  HandlersHonest'
  <2>1. Goto(r, Idle)
    BY <1>7 DEF MailAccepted, MailFailed, ConfirmPending, InsertCandidate, QueryFails
  <2> QED
    BY <1>g, <1>i, <2>1, GotoHonest DEF Honest
<1>8. ASSUME NEW r \in Requests, NEW o \in Orders, ResendConfirmation(r, o)
      PROVE  HandlersHonest'
  <2>1. PICK p \in Newest(Uninvalidated(o)) :
           Goto(r, [Idle EXCEPT !.pc = "mail", !.token = p, !.app = pending[p].app])
    BY <1>8 DEF ResendConfirmation
  <2>2. pending' = pending
    BY <1>8 DEF ResendConfirmation
  <2> DEFINE h == [Idle EXCEPT !.pc = "mail", !.token = p, !.app = pending[p].app]
  <2>3. HandlerHonest(h, pending', inbox')
    BY <2>2 DEF HandlerHonest, Idle
  <2> QED
    BY <1>g, <2>1, <2>3, GotoHonest DEF Honest
<1>9. ASSUME NEW r \in Requests, NEW m \in inbox, ConfirmRegistration(r, m)
      PROVE  HandlersHonest'
  <2> DEFINE h == [Idle EXCEPT !.pc = "confirm", !.token = m.token]
  <2>1. ProofMail(pending, m.token) = m /\ m.token \in PendingIds
    BY DEF ProofMail, Honest, MailGoesToOwner, Typed, TypeOK, Mail
  <2>2. pending' = pending /\ inbox' = inbox /\ Goto(r, h)
    BY <1>9 DEF ConfirmRegistration
  <2>3. h.pc = "confirm" /\ h.token = m.token
    BY DEF Idle
  <2>4. HandlerHonest(h, pending', inbox')
    BY <2>1, <2>2, <2>3 DEF HandlerHonest
  <2> QED
    BY <1>g, <2>2, <2>4, GotoHonest DEF Honest
<1>10. ASSUME NEW r \in Requests, NEW m \in inbox, CompleteRegistration(r, m)
       PROVE  HandlersHonest'
  <2> DEFINE h == [Idle EXCEPT !.pc = "check", !.token = m.token,
                               !.app = pending[m.token].app]
  <2>1. pending' = pending /\ IsConfirmed(m.token) /\ Goto(r, h)
    BY <1>10 DEF CompleteRegistration
  <2>2. h.pc = "check" /\ h.token = m.token /\ h.app = pending[m.token].app
    BY DEF Idle
  <2>3. HandlerHonest(h, pending', inbox')
    BY <2>1, <2>2 DEF HandlerHonest, IsConfirmed
  <2> QED
    BY <1>g, <2>1, <2>3, GotoHonest DEF Honest
<1>11. ASSUME NEW r \in Requests, CheckAvailable(r) PROVE HandlersHonest'
  <2> DEFINE h == [req[r] EXCEPT !.pc = "complete"]
  <2>1. h.pc = "complete" /\ h.token = req[r].token /\ h.app = req[r].app
    BY <1>t DEF Handler
  <2>2. HandlerHonest(h, pending', inbox')
    BY <1>11, <1>t, <2>1 DEF HandlerHonest, CheckAvailable, At
  <2> QED
    BY <1>11, <1>g, <1>i, <2>2, GotoHonest DEF CheckAvailable, Honest
<1>12. CASE CleanUnconfirmed \/ CleanConfirmed \/ CleanFails \/ Tick \/ UNCHANGED vars
  BY <1>12, <1>0 DEF CleanUnconfirmed, CleanConfirmed, CleanFails, Tick, vars
<1>13. CASE Restart
  BY <1>13, <1>i DEF Restart, HandlersHonest
<1>14. ASSUME NEW r \in Requests, Arrival(r) PROVE HandlersHonest'
  BY <1>14, <1>1, <1>8, <1>9, <1>10 DEF Arrival
<1>15. ASSUME NEW r \in Requests, HandlerStep(r) PROVE HandlersHonest'
  BY <1>15, <1>2, <1>3, <1>4, <1>5, <1>6, <1>7, <1>11 DEF HandlerStep
<1> QED
  BY <1>12, <1>13, <1>14, <1>15 DEF Next

LEMMA HonestNext == Typed /\ Honest /\ [Next]_vars => Honest'
<1> SUFFICES ASSUME Typed, Honest, [Next]_vars PROVE Honest'
  OBVIOUS
<1> USE Constants
<1>g. Grows
  BY NextGrows
<1>1. HandlersHonest'
  BY HandlersStayHonest
<1>2. MailGoesToOwner'
  <2> SUFFICES ASSUME NEW m \in inbox' PROVE pending'[m.token].app.email = m.email
    BY DEF MailGoesToOwner
  <2>1. CASE m \in inbox
    <3>1. m.token \in PendingIds /\ m.token <= lastId
      BY <2>1 DEF Typed, TypeOK, MailsTyped, Mail
    <3> QED
      BY <2>1, <3>1, <1>g DEF Grows, Honest, MailGoesToOwner
  <2>2. ASSUME NEW r \in Requests, At(r, "mailing"), m = Delivered(r)
        PROVE  pending'[m.token].app.email = m.email
    <3>1. /\ HandlerTyped(req[r], lastId)
          /\ HandlerHonest(req[r], pending, inbox)
      BY DEF Typed, HandlersTyped, Honest, HandlersHonest
    <3>2. /\ req[r].token \in PendingIds /\ req[r].token <= lastId
          /\ pending[req[r].token].app.email = req[r].app.email
      BY <2>2, <3>1 DEF HandlerTyped, HandlerHonest, At
    <3> QED
      BY <2>2, <3>2, <1>g DEF Grows, Delivered
  <2> QED
    BY <2>1, <2>2, NewMails
<1>3. ConfirmedWereMailed'
  <2> SUFFICES ASSUME NEW p \in PendingIds, pending'[p].confirmed # Unconfirmed
               PROVE  ProofMail(pending', p) \in inbox'
    BY DEF ConfirmedWereMailed, IsConfirmed
  <2>1. p <= lastId /\ ProofMail(pending, p) \in inbox
    <3>1. CASE IsConfirmed(p)
      BY <3>1, ConfirmedIsInserted DEF Honest, ConfirmedWereMailed
    <3>2. ASSUME NEW r \in Requests, At(r, "confirm"), p = req[r].token
          PROVE  p <= lastId /\ ProofMail(pending, p) \in inbox
      BY <3>2 DEF Typed, HandlersTyped, HandlerTyped, Honest, HandlersHonest,
         HandlerHonest, At
    <3> QED
      BY <3>1, <3>2, NewConfirmations
  <2> QED
    BY <2>1, <1>g DEF Grows, ProofMail
<1>4. CandidateProvedEmail'
  <2> DEFINE Proved(c, table, mails) ==
               /\ [email |-> c.email, token |-> c.token] \in mails
               /\ table[c.token].confirmed # Unconfirmed
               /\ table[c.token].app =
                    [order |-> c.order, identity |-> c.identity, email |-> c.email]
  <2>1. ASSUME NEW c \in candidates' 
        PROVE  c.token \in PendingIds /\ Proved(c, pending, inbox)
    <3>1. CASE c \in candidates
      BY <3>1 DEF Honest, CandidateProvedEmail, IsConfirmed, Typed, TypeOK, Candidate
    <3>2. ASSUME NEW r \in Requests, At(r, "complete"), c = NewCandidate(r)
          PROVE  c.token \in PendingIds /\ Proved(c, pending, inbox)
      <4> DEFINE t == req[r].token
      <4>1. /\ t \in PendingIds /\ req[r].app \in Applications
            /\ IsConfirmed(t) /\ pending[t].app = req[r].app
        BY <3>2 DEF Typed, HandlersTyped, HandlerTyped, Honest, HandlersHonest,
           HandlerHonest, At, IsConfirmed
      <4>2. ProofMail(pending, t) \in inbox
        BY <4>1 DEF Honest, ConfirmedWereMailed
      <4>3. req[r].app = [order |-> req[r].app.order, identity |-> req[r].app.identity,
                          email |-> req[r].app.email]
        BY <4>1, ApplicationsAssumption
      <4>4. /\ c.token = t /\ c.order = req[r].app.order
            /\ c.identity = req[r].app.identity /\ c.email = req[r].app.email
        BY <3>2 DEF NewCandidate
      <4> QED
        BY <4>1, <4>2, <4>3, <4>4 DEF ProofMail, IsConfirmed
    <3> QED
      BY <3>1, <3>2, NewCandidates
  <2>2. ASSUME NEW c \in candidates' PROVE Proved(c, pending', inbox')
    <3>1. c.token \in PendingIds /\ Proved(c, pending, inbox)
      BY <2>1
    <3>2. c.token <= lastId
      BY <3>1, ConfirmedIsInserted DEF IsConfirmed
    <3> QED
      BY <3>1, <3>2, <1>g DEF Grows
  <2> QED
    BY <2>2 DEF CandidateProvedEmail, IsConfirmed
<1> QED
  BY <1>1, <1>2, <1>3, <1>4 DEF Honest

LEMMA InitHonest == Init => Honest
BY Constants DEF Init, Honest, MailGoesToOwner, HandlersHonest, HandlerHonest, Idle,
   ConfirmedWereMailed, IsConfirmed, NoRow, NewRow, CandidateProvedEmail

\* A confirmation link only ever reaches the address its row was created for.
THEOREM MailsAreSafe == Spec => []MailGoesToOwner
<1>1. Typed /\ Honest => MailGoesToOwner
  BY DEF Honest
<1> QED
  BY <1>1, InitTyped, NextTyped, InitHonest, HonestNext, PTL DEF Spec

\* Every candidate proved the address and carries the data of the proven row.
THEOREM CandidatesAreProven == Spec => []CandidateProvedEmail
<1>1. Typed /\ Honest => CandidateProvedEmail
  BY DEF Honest
<1> QED
  BY <1>1, InitTyped, NextTyped, InitHonest, HonestNext, PTL DEF Spec

-----------------------------------------------------------------------------
(* The bound on double registrations *)

Counted == IsFiniteSet(candidates) /\ CopiesBoundedByConcurrency

LEMMA CountsAreFinite ==
    ASSUME IsFiniteSet(candidates), NEW i
    PROVE  /\ IsFiniteSet(CopiesOf(i)) /\ IsFiniteSet(Inserting(i))
           /\ Cardinality(CopiesOf(i)) \in Nat
           /\ Cardinality(Inserting(i)) \in Nat
           /\ Cardinality(Requests) \in Nat
           /\ Cardinality(Inserting(i)) <= Cardinality(Requests)
BY RequestsAssumption, FS_Subset, FS_CardinalityType DEF CopiesOf, Inserting

\* Which handlers are about to insert after a step.
LEMMA NewInserters ==
    ASSUME Typed, [Next]_vars, NEW i, NEW r \in Inserting(i)'
    PROVE  r \in Inserting(i) \/
           (CheckAvailable(r) /\ ~IdentityRegistered(i))
<1>t. \A q \in Requests : req[q] \in Handler
  BY DEF Typed, TypeOK
<1>d. r \in Requests /\ req'[r].pc = "complete" /\ req'[r].app.identity = i
  BY DEF Inserting, At
<1>0. ASSUME req'[r] = req[r] PROVE r \in Inserting(i)
  BY <1>0, <1>d DEF Inserting, At
<1>1. ASSUME NEW q \in Requests, NEW h, Goto(q, h), h.pc # "complete"
      PROVE  r \in Inserting(i)
  BY <1>1, <1>0, <1>d DEF Goto, Typed, TypeOK
<1>2. ASSUME NEW q \in Requests, CheckAvailable(q)
      PROVE  r \in Inserting(i) \/ (CheckAvailable(r) /\ ~IdentityRegistered(i))
  <2>1. CASE q = r
    <3> DEFINE h == [req[r] EXCEPT !.pc = "complete"]
    <3>1. Idle.pc # "complete" /\ h.app = req[r].app
      BY <1>d, <1>t DEF Idle, Handler
    <3>2. CASE Goto(r, Idle)
      BY <3>1, <3>2, <1>1, <1>d
    <3>3. CASE Goto(r, h) /\ ~IdentityRegistered(req[r].app.identity)
      <4>1. req'[r] = h
        BY <3>3, <1>d DEF Goto, Typed, TypeOK
      <4> QED
        BY <1>2, <2>1, <3>1, <3>3, <4>1, <1>d
    <3> QED
      BY <1>2, <2>1, <3>2, <3>3 DEF CheckAvailable
  <2>2. CASE q # r
    BY <1>2, <2>2, <1>0, <1>d DEF CheckAvailable, Goto, Typed, TypeOK, Idle
  <2> QED
    BY <2>1, <2>2
<1>3. ASSUME NEW q \in Requests, Arrival(q) PROVE r \in Inserting(i)
  <2>1. ASSUME NEW a \in Applications, StartRegister(q, a) PROVE r \in Inserting(i)
    <3> DEFINE h == [Idle EXCEPT !.pc = "find", !.app = a]
    <3>1. Goto(q, h) /\ h.pc = "find"
      BY <2>1 DEF StartRegister, Idle
    <3> HIDE DEF h
    <3> QED
      BY <3>1, <1>1
  <2>2. ASSUME NEW o \in Orders, ResendConfirmation(q, o) PROVE r \in Inserting(i)
    <3>1. PICK p : Goto(q, [Idle EXCEPT !.pc = "mail", !.token = p,
                                        !.app = pending[p].app])
      BY <2>2 DEF ResendConfirmation
    <3> DEFINE h == [Idle EXCEPT !.pc = "mail", !.token = p, !.app = pending[p].app]
    <3>2. Goto(q, h) /\ h.pc = "mail"
      BY <3>1 DEF Idle
    <3> HIDE DEF h
    <3> QED
      BY <3>2, <1>1
  <2>3. ASSUME NEW m \in inbox, ConfirmRegistration(q, m) PROVE r \in Inserting(i)
    <3> DEFINE h == [Idle EXCEPT !.pc = "confirm", !.token = m.token]
    <3>1. Goto(q, h) /\ h.pc = "confirm"
      BY <2>3 DEF ConfirmRegistration, Idle
    <3> HIDE DEF h
    <3> QED
      BY <3>1, <1>1
  <2>4. ASSUME NEW m \in inbox, CompleteRegistration(q, m) PROVE r \in Inserting(i)
    <3> DEFINE h == [Idle EXCEPT !.pc = "check", !.token = m.token,
                                 !.app = pending[m.token].app]
    <3>1. Goto(q, h) /\ h.pc = "check"
      BY <2>4 DEF CompleteRegistration, Idle
    <3> HIDE DEF h
    <3> QED
      BY <3>1, <1>1
  <2> QED
    BY <1>3, <2>1, <2>2, <2>3, <2>4 DEF Arrival
<1>4. ASSUME NEW q \in Requests, HandlerStep(q), ~CheckAvailable(q)
      PROVE  r \in Inserting(i)
  <2>i. Idle.pc # "complete"
    BY DEF Idle
  <2>1. CASE FindExisting(q)
    <3>1. /\ \A p : [req[q] EXCEPT !.pc = "mail", !.token = p].pc = "mail"
          /\ [req[q] EXCEPT !.pc = "active"].pc = "active"
      BY <1>t DEF Handler
    <3> QED
      BY <2>1, <3>1, <1>1 DEF FindExisting
  <2>2. CASE ReadActive(q)
    <3> DEFINE found == ActivePendings(req[q].app.order)
               h == [req[q] EXCEPT
                       !.pc = IF found = {} THEN "insert" ELSE "invalidate",
                       !.todo = found]
    <3>1. Goto(q, h) /\ h.pc # "complete"
      BY <2>2, <1>t DEF ReadActive, Handler
    <3> HIDE DEF h
    <3> QED
      BY <3>1, <1>1
  <2>3. CASE InvalidateOne(q)
    <3>1. PICK p : Goto(q, [req[q] EXCEPT
                              !.pc = IF req[q].todo = {p} THEN "insert" ELSE @,
                              !.todo = @ \ {p}])
      BY <2>3 DEF InvalidateOne
    <3> DEFINE h == [req[q] EXCEPT
                       !.pc = IF req[q].todo = {p} THEN "insert" ELSE @,
                       !.todo = @ \ {p}]
    <3>2. Goto(q, h) /\ h.pc # "complete"
      BY <2>3, <3>1, <1>t DEF Handler, InvalidateOne, At
    <3> HIDE DEF h
    <3> QED
      BY <3>2, <1>1
  <2>4. CASE InsertPending(q)
    <3> DEFINE h == [req[q] EXCEPT !.pc = "mail", !.token = lastId + 1]
    <3>1. Goto(q, h) /\ h.pc = "mail"
      BY <2>4, <1>t DEF InsertPending, Handler
    <3> HIDE DEF h
    <3> QED
      BY <3>1, <1>1
  <2>5. CASE CheckCooldown(q)
    <3>1. [req[q] EXCEPT !.pc = "mailing"].pc = "mailing"
      BY <1>t DEF Handler
    <3>2. Goto(q, Idle) \/ Goto(q, [req[q] EXCEPT !.pc = "mailing"])
      BY <2>5 DEF CheckCooldown
    <3> QED
      BY <2>i, <3>1, <3>2, <1>1
  <2>6. CASE MailAccepted(q) \/ MailFailed(q) \/ ConfirmPending(q)
             \/ InsertCandidate(q) \/ QueryFails(q)
    <3>1. Goto(q, Idle)
      BY <2>6 DEF MailAccepted, MailFailed, ConfirmPending, InsertCandidate, QueryFails
    <3> QED
      BY <2>i, <3>1, <1>1
  <2> QED
    BY <1>4, <2>1, <2>2, <2>3, <2>4, <2>5, <2>6 DEF HandlerStep
<1>5. CASE CleanUnconfirmed \/ CleanConfirmed \/ CleanFails \/ Tick \/ UNCHANGED vars
  BY <1>5, <1>0 DEF CleanUnconfirmed, CleanConfirmed, CleanFails, Tick, vars
<1>6. ~Restart
  BY <1>d DEF Restart, Idle
<1> QED
  BY <1>2, <1>3, <1>4, <1>5, <1>6 DEF Next

LEMMA CountedNext == Typed /\ Counted /\ [Next]_vars => Counted'
<1> SUFFICES ASSUME Typed, Counted, [Next]_vars PROVE Counted'
  OBVIOUS
<1> DEFINE N == Cardinality(Requests)
<1>f. \A i : IsFiniteSet(CopiesOf(i)) /\ IsFiniteSet(Inserting(i))
  BY CountsAreFinite DEF Counted
<1>1. CASE \E r \in Requests : InsertCandidate(r) /\ candidates' # candidates
  <2>1. PICK r \in Requests : InsertCandidate(r) /\ candidates' # candidates
    BY <1>1
  <2>2. /\ candidates' = candidates \cup {NewCandidate(r)}
        /\ At(r, "complete") /\ Goto(r, Idle)
    BY <2>1 DEF InsertCandidate
  <2>3. IsFiniteSet(candidates')
    BY <2>2, FS_AddElement DEF Counted
  <2>4. ASSUME NEW i \in Identities
        PROVE  Cardinality(CopiesOf(i)') + Cardinality(Inserting(i)') <= N
    <3>1. Inserting(i)' = Inserting(i) \ {r}
      BY <2>2 DEF Inserting, At, Goto, Idle, Typed, TypeOK
    <3>2. /\ Cardinality(CopiesOf(i)) \in Nat /\ Cardinality(Inserting(i)) \in Nat
          /\ N \in Nat
          /\ Cardinality(CopiesOf(i)) + Cardinality(Inserting(i)) <= N
      BY CountsAreFinite DEF Counted, CopiesBoundedByConcurrency
    <3>3. CASE req[r].app.identity = i
      <4>1. CopiesOf(i)' = CopiesOf(i) \cup {NewCandidate(r)}
        BY <2>2, <3>3 DEF CopiesOf, NewCandidate
      <4>2. r \in Inserting(i)
        BY <2>2, <3>3 DEF Inserting
      <4>3. Cardinality(Inserting(i)') = Cardinality(Inserting(i)) - 1
        BY <3>1, <4>2, <1>f, FS_RemoveElement
      <4>4. Cardinality(CopiesOf(i)') \in
              {Cardinality(CopiesOf(i)), Cardinality(CopiesOf(i)) + 1}
        BY <4>1, <1>f, FS_AddElement
      <4> QED
        BY <3>2, <4>3, <4>4
    <3>4. CASE req[r].app.identity # i
      <4>1. CopiesOf(i)' = CopiesOf(i)
        BY <2>2, <3>4 DEF CopiesOf, NewCandidate
      <4>2. Inserting(i)' = Inserting(i)
        BY <3>1, <3>4 DEF Inserting
      <4> QED
        BY <3>2, <4>1, <4>2
    <3> QED
      BY <3>3, <3>4
  <2> QED
    BY <2>3, <2>4 DEF Counted, CopiesBoundedByConcurrency
<1>2. CASE candidates' = candidates
  <2>1. ASSUME NEW i \in Identities
        PROVE  Cardinality(CopiesOf(i)') + Cardinality(Inserting(i)') <= N
    <3>1. CopiesOf(i)' = CopiesOf(i)
      BY <1>2 DEF CopiesOf
    <3>2. /\ Cardinality(CopiesOf(i)) \in Nat /\ Cardinality(Inserting(i)) \in Nat
          /\ N \in Nat
          /\ Cardinality(CopiesOf(i)) + Cardinality(Inserting(i)) <= N
      BY CountsAreFinite DEF Counted, CopiesBoundedByConcurrency
    <3>3. CASE IdentityRegistered(i)
      <4>1. Inserting(i)' \subseteq Inserting(i)
        BY <3>3, NewInserters
      <4>2. /\ Cardinality(Inserting(i)') <= Cardinality(Inserting(i))
            /\ Cardinality(Inserting(i)') \in Nat
        BY <4>1, <1>f, FS_Subset, FS_CardinalityType
      <4> QED
        BY <3>1, <3>2, <4>2
    <3>4. CASE ~IdentityRegistered(i)
      <4>1. CopiesOf(i) = {}
        BY <3>4 DEF CopiesOf, IdentityRegistered
      <4>2. Inserting(i)' \subseteq Requests
        BY DEF Inserting
      <4>3. /\ Cardinality(Inserting(i)') <= N
            /\ Cardinality(Inserting(i)') \in Nat
        BY <4>2, RequestsAssumption, FS_Subset, FS_CardinalityType
      <4> QED
        BY <3>1, <3>2, <4>1, <4>3, FS_EmptySet
    <3> QED
      BY <3>3, <3>4
  <2> QED
    BY <1>2, <2>1 DEF Counted, CopiesBoundedByConcurrency
<1>3. candidates' = candidates \/ \E r \in Requests : InsertCandidate(r)
  <2>1. ASSUME NEW r \in Requests, Arrival(r) PROVE UNCHANGED candidates
    BY <2>1 DEF Arrival, StartRegister, ResendConfirmation, ConfirmRegistration,
       CompleteRegistration
  <2>2. ASSUME NEW r \in Requests, HandlerStep(r)
        PROVE  UNCHANGED candidates \/ InsertCandidate(r)
    BY <2>2 DEF HandlerStep, FindExisting, ReadActive, InvalidateOne, InsertPending,
       CheckCooldown, MailAccepted, MailFailed, ConfirmPending, CheckAvailable,
       QueryFails
  <2>3. CleanUnconfirmed \/ CleanConfirmed \/ CleanFails \/ Restart \/ Tick
          \/ UNCHANGED vars => UNCHANGED candidates
    BY DEF CleanUnconfirmed, CleanConfirmed, CleanFails, Restart, Tick, vars
  <2> QED
    BY <2>1, <2>2, <2>3 DEF Next
<1> QED
  BY <1>1, <1>2, <1>3

LEMMA InitCounted == Init => Counted
<1> SUFFICES ASSUME Init PROVE Counted
  OBVIOUS
<1>1. \A i : CopiesOf(i) = {} /\ Inserting(i) = {}
  BY DEF Init, CopiesOf, Inserting, At, Idle
<1>2. Cardinality(Requests) \in Nat
  BY RequestsAssumption, FS_CardinalityType
<1> QED
  BY <1>1, <1>2, FS_EmptySet DEF Init, Counted, CopiesBoundedByConcurrency

\* However many orders a person has and however the completions interleave, a
\* person is never inserted more often than there are handlers in flight.
THEOREM CopiesAreBounded == Spec => []CopiesBoundedByConcurrency
<1>1. Counted => CopiesBoundedByConcurrency
  BY DEF Counted
<1> QED
  BY <1>1, InitTyped, NextTyped, InitCounted, CountedNext, PTL DEF Spec

-----------------------------------------------------------------------------
(* The cooldown *)

LEMMA WaitNext == Typed /\ WaitOnlyAfterMail /\ [Next]_vars => WaitOnlyAfterMail'
<1> SUFFICES ASSUME Typed, WaitOnlyAfterMail, [Next]_vars,
                    NEW p \in PendingIds, sentAge'[p] < Cooldown
             PROVE  \E m \in inbox' : m.token = p
  BY DEF WaitOnlyAfterMail
<1>t. sentAge \in [PendingIds -> 0..Cooldown]
  BY DEF Typed, TypeOK
<1>k. inbox \subseteq inbox' /\ sentAge[p] < Cooldown => \E m \in inbox' : m.token = p
  BY DEF WaitOnlyAfterMail
<1>1. ASSUME NEW r \in Requests, Arrival(r)
      PROVE  inbox \subseteq inbox' /\ sentAge[p] < Cooldown
  BY <1>1 DEF Arrival, StartRegister, ResendConfirmation, ConfirmRegistration,
     CompleteRegistration
<1>2. ASSUME NEW r \in Requests, MailAccepted(r)
      PROVE  \E m \in inbox' : m.token = p
  <2>1. CASE p = req[r].token
    <3>1. Delivered(r) \in inbox' /\ Delivered(r).token = p
      BY <1>2, <2>1 DEF MailAccepted, Delivered
    <3> QED
      BY <3>1
  <2>2. CASE p # req[r].token
    BY <1>2, <1>t, <1>k, <2>2 DEF MailAccepted
  <2> QED
    BY <2>1, <2>2
<1>3. ASSUME NEW r \in Requests, HandlerStep(r), ~MailAccepted(r)
      PROVE  inbox \subseteq inbox' /\ sentAge[p] < Cooldown
  BY <1>3 DEF HandlerStep, FindExisting, ReadActive, InvalidateOne, InsertPending,
     CheckCooldown, MailFailed, ConfirmPending, CheckAvailable, InsertCandidate,
     QueryFails
<1>4. CASE CleanUnconfirmed \/ CleanConfirmed \/ CleanFails \/ UNCHANGED vars
  BY <1>4, <1>k DEF CleanUnconfirmed, CleanConfirmed, CleanFails, vars
<1>5. CASE Restart
  BY <1>5, Constants DEF Restart
<1>6. CASE Tick
  BY <1>6, <1>t, <1>k, Constants DEF Tick
<1> QED
  BY <1>1, <1>2, <1>3, <1>4, <1>5, <1>6, <1>k DEF Next

\* Nobody is told to wait for a mail that did not leave: whatever sends fail, however
\* the process restarts, a token in its cooldown is one that was delivered.
THEOREM WaitsAreHonest == Spec => []WaitOnlyAfterMail
<1>1. Init => WaitOnlyAfterMail
  BY Constants DEF Init, WaitOnlyAfterMail
<1> QED
  BY <1>1, InitTyped, NextTyped, WaitNext, PTL DEF Spec

-----------------------------------------------------------------------------
(* The life of a token *)

\* Why a token that was accepted is refused after a step.
LostFor(p) ==
    \/ ~IsConfirmed(p) /\ Expired(p)'
    \/ pending[p].confirmed > ConfirmedAge
    \/ \E r \in Requests : p \in req[r].todo

LEMMA LossHasReason ==
    ASSUME Typed, [Next]_vars, NEW p \in PendingIds, TokenAccepted(p), ~TokenAccepted(p)'
    PROVE  LostFor(p)
<1> USE Constants
<1>p. /\ pending \in [PendingIds -> PendingRow]
      /\ pending[p].age \in 0..MaxAge /\ pending[p].confirmed \in -1..MaxAge
  BY DEF Typed, TypeOK, PendingRow
<1>u. ASSUME pending' = pending PROVE FALSE
  BY <1>u DEF TokenAccepted, Stored, IsConfirmed, Expired
<1>o. ASSUME pending'[p] = pending[p] PROVE FALSE
  BY <1>o DEF TokenAccepted, Stored, IsConfirmed, Expired
<1>1. ASSUME NEW r \in Requests, InvalidateOne(r) PROVE LostFor(p)
  <2>1. PICK q \in req[r].todo :
           pending' = [pending EXCEPT ![q].invalidated = @ \/ Stored(q)]
    BY <1>1 DEF InvalidateOne
  <2>2. q = p
    BY <2>1, <1>p, <1>o
  <2> QED
    BY <2>2 DEF LostFor
<1>2. ASSUME NEW r \in Requests, InsertPending(r) PROVE FALSE
  <2>1. p # lastId + 1
    BY DEF TokenAccepted, Stored, Typed, TypeOK
  <2> QED
    BY <1>2, <2>1, <1>p, <1>o DEF InsertPending
<1>3. ASSUME NEW r \in Requests, ConfirmPending(r) PROVE FALSE
  <2>1. p = req[r].token
    BY <1>3, <1>p, <1>o DEF ConfirmPending
  <2>2. pending'[p] = [pending[p] EXCEPT !.confirmed = 0]
    BY <1>3, <2>1, <1>p DEF ConfirmPending, TokenAccepted
  <2>3. /\ pending'[p].state = pending[p].state /\ pending'[p].confirmed = 0
        /\ pending'[p].invalidated = pending[p].invalidated
    BY <2>2, <1>p DEF PendingRow
  <2> QED
    BY <2>3 DEF TokenAccepted, Stored, IsConfirmed
<1>4. CASE CleanUnconfirmed
  <2>1. p \in UnconfirmedTooOld
    BY <1>4, <1>p, <1>o DEF CleanUnconfirmed, DeleteRows
  <2>2. Expired(p)
    BY <2>1, <1>p, TimesAssumption DEF UnconfirmedTooOld, Expired
  <2> QED
    BY <2>1, <2>2 DEF UnconfirmedTooOld, TokenAccepted
<1>5. CASE CleanConfirmed
  <2>1. p \in ConfirmedTooOld
    BY <1>5, <1>p, <1>o DEF CleanConfirmed, DeleteRows
  <2> QED
    BY <2>1 DEF ConfirmedTooOld, LostFor
<1>6. CASE Tick
  <2>1. Stored(p) /\ ~pending[p].invalidated
    BY DEF TokenAccepted
  <2>2. pending'[p] = [pending[p] EXCEPT
                         !.age = Older(@),
                         !.confirmed = IF IsConfirmed(p) THEN Older(@) ELSE @]
    BY <1>6, <2>1 DEF Tick
  <2>3. /\ pending'[p].state = pending[p].state
        /\ pending'[p].invalidated = pending[p].invalidated
        /\ pending'[p].confirmed = IF IsConfirmed(p) THEN Older(pending[p].confirmed)
                                                     ELSE pending[p].confirmed
    BY <2>2, <1>p DEF PendingRow
  <2>4. ~IsConfirmed(p)'
    BY <2>1, <2>3 DEF TokenAccepted, Stored
  <2>5. ~IsConfirmed(p)
    BY <2>3, <2>4, <1>p DEF IsConfirmed
  <2>6. Expired(p)'
    BY <2>1, <2>3 DEF TokenAccepted, Stored
  <2> QED
    BY <2>5, <2>6 DEF LostFor
<1>7. ASSUME NEW r \in Requests, Arrival(r) PROVE FALSE
  BY <1>7, <1>u DEF Arrival, StartRegister, ResendConfirmation, ConfirmRegistration,
     CompleteRegistration
<1>8. ASSUME NEW r \in Requests, HandlerStep(r), ~InvalidateOne(r), ~InsertPending(r),
             ~ConfirmPending(r)
      PROVE  FALSE
  BY <1>8, <1>u DEF HandlerStep, FindExisting, ReadActive, CheckCooldown, MailAccepted,
     MailFailed, CheckAvailable, InsertCandidate, QueryFails
<1>9. CASE CleanFails \/ Restart \/ UNCHANGED vars
  BY <1>9, <1>u DEF CleanFails, Restart, vars
<1> QED
  BY <1>1, <1>2, <1>3, <1>4, <1>5, <1>6, <1>7, <1>8, <1>9 DEF Next

\* A token stops being accepted only when it expires unconfirmed, when it was confirmed
\* too long ago, or for a registration that listed its row to invalidate it.
THEOREM TokensAreKept == Spec => TokenLostOnlyTo
<1>1. Typed /\ [Next]_vars =>
        [\A p \in PendingIds :
            TokenAccepted(p) /\ ~TokenAccepted(p)' =>
               \/ ~IsConfirmed(p) /\ Expired(p)'
               \/ pending[p].confirmed > ConfirmedAge
               \/ \E r \in Requests : p \in req[r].todo]_vars
  BY LossHasReason DEF LostFor
<1> QED
  BY <1>1, InitTyped, NextTyped, PTL DEF Spec, TokenLostOnlyTo

-----------------------------------------------------------------------------
(* The promise: every handler step maps to a step of RegistrationPromise   *)
(* or changes nothing of it.                                               *)

\* What the promise sees of the table.
Requested == [p \in PendingIds |-> pending[p].app]
Proven == {p \in PendingIds : IsConfirmed(p)}

LEMMA InitPromise == Init => Promise!Init
BY Constants DEF Init, Promise!Init, NoRow, NewRow, IsConfirmed

\* A step that keeps every application, every confirmation, the mails and the
\* candidates is invisible to the promise.
LEMMA Invisible ==
    ASSUME \A p \in PendingIds :
              /\ pending'[p].app = pending[p].app
              /\ pending'[p].confirmed # Unconfirmed <=> IsConfirmed(p),
           UNCHANGED <<inbox, candidates>>
    PROVE  UNCHANGED Promise!promiseVars
<1>1. Requested' = Requested
  BY DEF Requested
<1>2. Proven' = Proven
  BY DEF Proven, IsConfirmed
<1> QED
  BY <1>1, <1>2 DEF Promise!promiseVars, Requested, Proven

LEMMA InsertIsRequest ==
    ASSUME Typed, NEW r \in Requests, InsertPending(r)
    PROVE  Promise!Next
<1> USE Constants
<1>0. /\ lastId + 1 \in PendingIds /\ lastId \in Nat
      /\ req[r].app \in Applications
  BY DEF InsertPending, At, Typed, TypeOK, HandlersTyped, HandlerTyped, PendingIds
<1>1. PICK t \in PendingIds, a \in Applications : t = lastId + 1 /\ a = req[r].app
  BY <1>0
<1>2. pending[t] = NoRow
  BY <1>0, <1>1 DEF Typed, RowsTyped
<1>3. /\ pending'[t] = NewRow("stored", a)
      /\ \A p \in PendingIds : p # t => pending'[p] = pending[p]
  BY <1>0, <1>1 DEF InsertPending, Typed, TypeOK
<1>k. /\ pending[t].app = NoApp /\ pending[t].confirmed = Unconfirmed
      /\ pending'[t].app = a /\ pending'[t].confirmed = Unconfirmed
  BY <1>2, <1>3 DEF NoRow, NewRow
<1>4. Requested[t] = NoApp /\ Requested' = [Requested EXCEPT ![t] = a]
  BY <1>1, <1>3, <1>k DEF Requested
<1>5. Proven' = Proven
  <2>1. \A p \in PendingIds : pending'[p].confirmed = pending[p].confirmed
    BY <1>3, <1>k
  <2> QED
    BY <2>1 DEF Proven, IsConfirmed
<1>6. Promise!Request(t, a)
  BY <1>4, <1>5 DEF Promise!Request, Requested, Proven, InsertPending
<1> QED
  BY <1>6 DEF Promise!Next

LEMMA MailIsDelivery ==
    ASSUME Typed, Honest, NEW r \in Requests, MailAccepted(r) \/ MailFailed(r)
    PROVE  Promise!Next \/ UNCHANGED Promise!promiseVars
<1> USE Constants
<1> DEFINE t == req[r].token
<1>1. UNCHANGED <<pending, candidates>> /\ At(r, "mailing")
  BY DEF MailAccepted, MailFailed
<1>2. /\ t \in PendingIds /\ t <= lastId
      /\ pending[t].app.email = req[r].app.email
  BY <1>1 DEF Typed, HandlersTyped, HandlerTyped, Honest, HandlersHonest,
     HandlerHonest, At
<1>3. CASE inbox' = inbox
  BY <1>1, <1>3, Invisible DEF IsConfirmed
<1>4. CASE inbox' = inbox \cup {Delivered(r)}
  <2>1. Requested[t] # NoApp
    BY <1>2 DEF Typed, RowsTyped, Requested
  <2>2. Delivered(r) = [email |-> Requested[t].email, token |-> t]
    BY <1>2 DEF Delivered, Requested
  <2>3. Requested' = Requested /\ Proven' = Proven
    BY <1>1 DEF Requested, Proven, IsConfirmed
  <2>4. Promise!Deliver(t)
    BY <1>1, <1>4, <2>1, <2>2, <2>3
    DEF Promise!Deliver, Promise!MailOf, Requested, Proven
  <2> QED
    BY <1>2, <2>4 DEF Promise!Next
<1> QED
  BY <1>3, <1>4 DEF MailAccepted, MailFailed

LEMMA ConfirmIsProof ==
    ASSUME Typed, Honest, NEW r \in Requests, ConfirmPending(r)
    PROVE  Promise!Next \/ UNCHANGED Promise!promiseVars
<1> USE Constants
<1> DEFINE t == req[r].token
<1>1. t \in PendingIds /\ ProofMail(pending, t) \in inbox
  BY DEF ConfirmPending, At, Typed, HandlersTyped, HandlerTyped, Honest,
     HandlersHonest, HandlerHonest
<1>2. pending \in [PendingIds -> PendingRow]
  BY DEF Typed, TypeOK
<1>3. CASE ~Stored(t)
  <2>1. \A p \in PendingIds : /\ pending'[p].app = pending[p].app
                             /\ pending'[p].confirmed = pending[p].confirmed
    BY <1>1, <1>2, <1>3 DEF ConfirmPending, PendingRow
  <2> QED
    BY <2>1, Invisible DEF ConfirmPending, IsConfirmed
<1>4. CASE Stored(t)
  <2>1. /\ \A p \in PendingIds : pending'[p].app = pending[p].app
        /\ \A p \in PendingIds : p # t => pending'[p] = pending[p]
        /\ pending'[t].confirmed = 0
    BY <1>1, <1>2, <1>4 DEF ConfirmPending, PendingRow
  <2>2. Requested' = Requested /\ Proven' = Proven \cup {t}
    <3>1. \A p \in PendingIds :
             pending'[p].confirmed # Unconfirmed <=> IsConfirmed(p) \/ p = t
      BY <2>1 DEF IsConfirmed
    <3> QED
      BY <1>1, <2>1, <3>1 DEF Requested, Proven, IsConfirmed
  <2>3. \E m \in inbox : m.token = t
    BY <1>1 DEF ProofMail
  <2>4. Promise!Prove(t)
    BY <2>2, <2>3 DEF Promise!Prove, Requested, Proven, ConfirmPending
  <2> QED
    BY <1>1, <2>4 DEF Promise!Next
<1> QED
  BY <1>3, <1>4

LEMMA InsertIsRegistration ==
    ASSUME Typed, Honest, NEW r \in Requests, InsertCandidate(r)
    PROVE  Promise!Next \/ UNCHANGED Promise!promiseVars
<1> USE Constants
<1> DEFINE t == req[r].token
<1>1. /\ t \in PendingIds /\ IsConfirmed(t)
      /\ pending[t].app = req[r].app
  BY DEF InsertCandidate, At, Typed, HandlersTyped, HandlerTyped, Honest,
     HandlersHonest, HandlerHonest, IsConfirmed
<1>2. UNCHANGED <<pending, inbox>>
  BY DEF InsertCandidate
<1>3. CASE candidates' = candidates
  BY <1>2, <1>3, Invisible DEF IsConfirmed
<1>4. CASE ~OrderUsed(req[r].app.order) /\
           candidates' = candidates \cup {NewCandidate(r)}
  <2>1. Requested' = Requested /\ Proven' = Proven /\ t \in Proven
    BY <1>1, <1>2 DEF Requested, Proven, IsConfirmed
  <2>2. Requested[t] = req[r].app
    BY <1>1 DEF Requested
  <2>3. \A c \in candidates : c.order # Requested[t].order
    BY <1>4, <2>2 DEF OrderUsed
  <2>4. Promise!Register(t)
    BY <1>2, <1>4, <2>1, <2>2, <2>3
    DEF Promise!Register, Requested, Proven, NewCandidate
  <2> QED
    BY <1>1, <2>4 DEF Promise!Next
<1> QED
  BY <1>3, <1>4 DEF InsertCandidate

LEMMA StepKeepsPromise ==
    ASSUME Typed, Honest, [Next]_vars
    PROVE  [Promise!Next]_(Promise!promiseVars)
<1> USE Constants
<1>t. /\ pending \in [PendingIds -> PendingRow]
      /\ \A r \in Requests : req[r] \in Handler
  BY DEF Typed, TypeOK
<1>1. ASSUME UNCHANGED <<pending, inbox, candidates>>
      PROVE  UNCHANGED Promise!promiseVars
  BY <1>1, Invisible DEF IsConfirmed
<1>2. ASSUME NEW r \in Requests, InvalidateOne(r)
      PROVE  UNCHANGED Promise!promiseVars
  <2>1. PICK q \in PendingIds :
           pending' = [pending EXCEPT ![q].invalidated = @ \/ Stored(q)]
    BY <1>2, <1>t DEF InvalidateOne, Handler
  <2>2. \A p \in PendingIds : /\ pending'[p].app = pending[p].app
                             /\ pending'[p].confirmed = pending[p].confirmed
    BY <2>1, <1>t DEF PendingRow
  <2> QED
    BY <1>2, <2>2, Invisible DEF InvalidateOne, IsConfirmed
<1>3. CASE CleanUnconfirmed \/ CleanConfirmed
  <2>1. \A p \in PendingIds : /\ pending'[p].app = pending[p].app
                             /\ pending'[p].confirmed = pending[p].confirmed
    BY <1>3, <1>t DEF CleanUnconfirmed, CleanConfirmed, DeleteRows, PendingRow
  <2> QED
    BY <1>3, <2>1, Invisible DEF CleanUnconfirmed, CleanConfirmed, IsConfirmed
<1>4. CASE Tick
  <2>1. Grows
    BY NextGrows
  <2>2. ASSUME NEW p \in PendingIds
        PROVE  /\ pending'[p].app = pending[p].app
               /\ pending'[p].confirmed # Unconfirmed <=> IsConfirmed(p)
    <3>1. CASE Stored(p)
      <4>1. p <= lastId
        BY <3>1 DEF Typed, TypeOK, Stored, PendingIds
      <4>2. ~IsConfirmed(p) => pending'[p].confirmed = Unconfirmed
        BY <1>4, <1>t DEF Tick, PendingRow, IsConfirmed
      <4> QED
        BY <2>1, <4>1, <4>2 DEF Grows, IsConfirmed
    <3>2. CASE ~Stored(p)
      BY <1>4, <3>2 DEF Tick, IsConfirmed
    <3> QED
      BY <3>1, <3>2
  <2> QED
    BY <1>4, <2>2, Invisible DEF Tick
<1>5. ASSUME NEW r \in Requests, Arrival(r) PROVE UNCHANGED Promise!promiseVars
  <2>1. UNCHANGED <<pending, inbox, candidates>>
    BY <1>5 DEF Arrival, StartRegister, ResendConfirmation, ConfirmRegistration,
       CompleteRegistration
  <2> QED
    BY <2>1, <1>1
<1>6. ASSUME NEW r \in Requests, HandlerStep(r)
      PROVE  Promise!Next \/ UNCHANGED Promise!promiseVars
  <2>1. CASE FindExisting(r) \/ ReadActive(r) \/ CheckCooldown(r)
             \/ CheckAvailable(r) \/ QueryFails(r)
    BY <2>1, <1>1 DEF FindExisting, ReadActive, CheckCooldown, CheckAvailable,
       QueryFails
  <2> QED
    BY <1>6, <2>1, <1>2, InsertIsRequest, MailIsDelivery, ConfirmIsProof,
       InsertIsRegistration DEF HandlerStep
<1>7. CASE CleanFails \/ Restart \/ UNCHANGED vars
  BY <1>7, <1>1 DEF CleanFails, Restart, vars
<1> QED
  BY <1>3, <1>4, <1>5, <1>6, <1>7 DEF Next

\* Self-registration, with all its races, failures and clean-up, implements the
\* promise.
THEOREM RegistrationKeepsPromise == Spec => KeepsPromise
<1>1. Typed /\ Honest /\ [Next]_vars => [Promise!Next]_(Promise!promiseVars)
  BY StepKeepsPromise
<1> QED
  BY <1>1, InitPromise, InitTyped, NextTyped, InitHonest, HonestNext, PTL
  DEF Spec, KeepsPromise, Promise!Spec
=============================================================================
