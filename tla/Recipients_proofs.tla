-------------------------- MODULE Recipients_proofs --------------------------
(***************************************************************************)
(* Proofs about Recipients, for any number of runs, requests and pages:    *)
(* what a run that began alone finds in the cache, that the forms keep a   *)
(* question that says whom they are mailed to, that a field has one        *)
(* minister, and the types.                                                *)
(***************************************************************************)
EXTENDS Recipients, Directory_proofs

-----------------------------------------------------------------------------
(* The strengthening. *)

\* Runs are records with the fields of Idle.
RunFields == {"at", "types", "todo", "useless", "pages", "page", "found", "alone"}
RunShape ==
    /\ DOMAIN run = Runs /\ run = [k \in Runs |-> run[k]]
    /\ \A k \in Runs : /\ DOMAIN run[k] = RunFields
                       /\ run[k] = [d \in RunFields |-> run[k][d]]
                       /\ run[k].alone \in BOOLEAN

\* At most one run under way began alone, and one that is not under way did not.
OneAlone ==
    /\ \A k \in Runs : run[k].alone => InFlight(k)
    /\ \A k, l \in Runs : run[k].alone /\ run[l].alone => k = l

\* Between runs that ended well nothing is cached.
EmptyBetween == (\A k \in Runs : ~InFlight(k)) /\ ~spoiled => cache = None

Same(entry) == [name |-> entry.name, contact |-> entry.contact]

\* The pages that wait to go into the cache are those of ministers of the same
\* moments as what it holds.
PagesCurrent ==
    \A k, l \in Runs : run[k].alone /\ run[l].at = "put" =>
        \A i \in DOMAIN run[l].found : Same(run[l].found[i]) \in inForce[k]

RunsInv == RunShape /\ OneAlone /\ EmptyBetween /\ PagesCurrent /\ AloneFindsCurrent

-----------------------------------------------------------------------------
(* Pages. *)

\* A page has ministers who are active, and nobody else.
LEMMA PageOfActive ==
    ASSUME NEW s \in Orderings, NEW page, NEW i \in DOMAIN PageOf(s, page)
    PROVE  Same(PageOf(s, page)[i]) \in Listed
<1>1. s \in [1..Cardinality(Active) -> Active] BY DEF Orderings, SetToSeqs
<1>2. PlaceOf(page, i) \in DOMAIN s BY DEF PageOf
<1>3. PageOf(s, page)[i] = EntryOf(s[PlaceOf(page, i)]) BY DEF PageOf
<1> QED BY <1>1, <1>2, <1>3 DEF Listed, EntryOf, Same

\* What is cached after a page was put was cached before or is on the page.
LEMMA PutEntries ==
    ASSUME NEW entries, NEW page, NEW n \in DOMAIN Put(entries, page)
    PROVE  \/ n \in DOMAIN entries /\ Put(entries, page)[n] = entries[n]
           \/ \E i \in DOMAIN page : /\ page[i].name = n
                                     /\ page[i].contact = Put(entries, page)[n]
<1>1. PICK names : names = {page[i].name : i \in Staying(page)} OBVIOUS
<1>2. Put(entries, page) =
        [m \in DOMAIN entries \cup names |->
            IF m \in names THEN page[CHOOSE i \in Staying(page) : page[i].name = m].contact
            ELSE entries[m]]
  BY <1>1 DEF Put
<1>3. CASE n \in names
  <2>1. PICK i \in Staying(page) : page[i].name = n BY <1>1, <1>3
  <2>2. PICK j : j = CHOOSE h \in Staying(page) : page[h].name = n OBVIOUS
  <2>3. j \in Staying(page) /\ page[j].name = n BY <2>1, <2>2
  <2>4. Put(entries, page)[n] = page[j].contact BY <1>2, <1>3, <2>2
  <2> QED BY <2>3, <2>4 DEF Staying
<1>4. CASE n \notin names BY <1>2, <1>4
<1> QED BY <1>3, <1>4
-----------------------------------------------------------------------------
(* Steps. *)

\* What a step must show that begins no run: the rest is the same for all.
LEMMA StepKeeps ==
    ASSUME RunsInv, Remember, RunShape', EmptyBetween',
           \A k \in Runs : run'[k].alone => run[k].alone /\ InFlight(k)',
           \A k, l \in Runs : run'[k].alone /\ run'[l].at = "put" =>
               \A i \in DOMAIN run'[l].found :
                   Same(run'[l].found[i]) \in inForce[k] \cup Listed',
           \A k \in Runs : run'[k].alone /\ cache' # None =>
               \A n \in DOMAIN cache' :
                   [name |-> n, contact |-> cache'[n]] \in inForce[k] \cup Listed'
    PROVE  RunsInv'
<1>1. \A k \in Runs : run'[k].alone => inForce'[k] = inForce[k] \cup Listed'
  BY DEF Remember, RunsInv, OneAlone
<1>2. OneAlone' BY DEF RunsInv, OneAlone
<1>3. PagesCurrent' BY <1>1 DEF PagesCurrent, Same
<1>4. AloneFindsCurrent' BY <1>1 DEF AloneFindsCurrent
<1> QED BY <1>2, <1>3, <1>4 DEF RunsInv

\* A step that leaves the runs and the cache alone.
LEMMA OthersKeep ==
    ASSUME RunsInv, Remember, UNCHANGED <<run, cache, spoiled>>
    PROVE  RunsInv'
<1>1. RunShape' /\ EmptyBetween' BY DEF RunsInv, RunShape, EmptyBetween, InFlight
<1>2. \A k \in Runs : run'[k].alone => run[k].alone /\ InFlight(k)'
  BY DEF RunsInv, OneAlone, InFlight
<1>3. \A k, l \in Runs : run'[k].alone /\ run'[l].at = "put" =>
        \A i \in DOMAIN run'[l].found : Same(run'[l].found[i]) \in inForce[k] \cup Listed'
  BY DEF RunsInv, PagesCurrent
<1>4. \A k \in Runs : run'[k].alone /\ cache' # None =>
        \A n \in DOMAIN cache' :
            [name |-> n, contact |-> cache'[n]] \in inForce[k] \cup Listed'
  BY DEF RunsInv, AloneFindsCurrent
<1> QED BY <1>1, <1>2, <1>3, <1>4, StepKeeps

\* A run that changes its place and keeps the rest: the page it holds, if it is to
\* put one, and the cache must be of the moments that count.
LEMMA MoveKeeps ==
    ASSUME RunsInv, Remember, NEW k \in Runs, InFlight(k),
           NEW r, DOMAIN r = RunFields, r = [d \in RunFields |-> r[d]],
           r.at # "idle", r.alone = run[k].alone,
           run' = [run EXCEPT ![k] = r],
           r.at = "put" => \A l \in Runs : run[l].alone =>
               \A i \in DOMAIN r.found : Same(r.found[i]) \in inForce[l] \cup Listed',
           \A l \in Runs : run[l].alone /\ cache' # None =>
               \A n \in DOMAIN cache' :
                   [name |-> n, contact |-> cache'[n]] \in inForce[l] \cup Listed'
    PROVE  RunsInv'
<1>1. RunShape' BY DEF RunsInv, RunShape
<1>2. run'[k] = r /\ \A l \in Runs \ {k} : run'[l] = run[l] BY DEF RunsInv, RunShape
<1>3. EmptyBetween' BY <1>2 DEF EmptyBetween, InFlight
<1>4. \A l \in Runs : run'[l].alone => run[l].alone /\ InFlight(l)'
  BY <1>2 DEF RunsInv, OneAlone, InFlight
<1>5. \A l, m \in Runs : run'[l].alone /\ run'[m].at = "put" =>
        \A i \in DOMAIN run'[m].found : Same(run'[m].found[i]) \in inForce[l] \cup Listed'
  BY <1>2, <1>4 DEF RunsInv, PagesCurrent
<1>6. \A l \in Runs : run'[l].alone /\ cache' # None =>
        \A n \in DOMAIN cache' :
            [name |-> n, contact |-> cache'[n]] \in inForce[l] \cup Listed'
  BY <1>4
<1> QED BY <1>1, <1>3, <1>4, <1>5, <1>6, StepKeeps

\* A run that is over, well or not.
LEMMA OverKeeps ==
    ASSUME RunsInv, Remember, NEW k \in Runs, run' = [run EXCEPT ![k] = Idle],
           cache' = None \/ (cache' = cache /\ spoiled' = TRUE)
    PROVE  RunsInv'
<1>1. RunShape' BY DEF RunsInv, RunShape, Idle, RunFields
<1>2. run'[k] = Idle /\ \A l \in Runs \ {k} : run'[l] = run[l] BY DEF RunsInv, RunShape
<1>3. EmptyBetween' BY DEF EmptyBetween
<1>4. \A l \in Runs : run'[l].alone => run[l].alone /\ InFlight(l)'
  BY <1>2 DEF RunsInv, OneAlone, InFlight, Idle
<1>5. \A l, m \in Runs : run'[l].alone /\ run'[m].at = "put" =>
        \A i \in DOMAIN run'[m].found : Same(run'[m].found[i]) \in inForce[l] \cup Listed'
  BY <1>2, <1>4 DEF RunsInv, PagesCurrent, Idle
<1>6. \A l \in Runs : run'[l].alone /\ cache' # None =>
        \A n \in DOMAIN cache' :
            [name |-> n, contact |-> cache'[n]] \in inForce[l] \cup Listed'
  BY <1>4 DEF RunsInv, AloneFindsCurrent
<1> QED BY <1>1, <1>3, <1>4, <1>5, <1>6, StepKeeps

-----------------------------------------------------------------------------
(* The actions of a run. *)

LEMMA StartRunKeeps ==
    ASSUME RunsInv, Remember, NEW k \in Runs, StartRun(k)
    PROVE  RunsInv'
<1>1. PICK r : r = [Idle EXCEPT !.at = "types", !.types = [f \in DOMAIN form |-> form[f].type],
                       !.alone = ~(\E l \in Runs : InFlight(l)) /\ ~spoiled]
  OBVIOUS
<1>2. run' = [run EXCEPT ![k] = r] BY <1>1 DEF StartRun
<1>3. /\ DOMAIN r = RunFields /\ r = [d \in RunFields |-> r[d]]
      /\ r.at = "types" /\ r.alone \in BOOLEAN
      /\ r.alone <=> ~(\E l \in Runs : InFlight(l)) /\ ~spoiled
  BY <1>1 DEF Idle, RunFields
<1>4. RunShape' BY <1>2, <1>3 DEF RunsInv, RunShape
<1>5. run'[k] = r /\ \A l \in Runs \ {k} : run'[l] = run[l]
  BY <1>2 DEF RunsInv, RunShape
<1>6. cache' = cache /\ ~InFlight(k) BY DEF StartRun
<1>7. EmptyBetween' BY <1>3, <1>5 DEF EmptyBetween, InFlight
<1>8. CASE r.alone
  <2>1. (\A l \in Runs : ~InFlight(l)) /\ cache' = None
    BY <1>3, <1>6, <1>8 DEF RunsInv, EmptyBetween
  <2>2. \A l \in Runs : run'[l].alone => l = k
    BY <1>5, <2>1 DEF RunsInv, OneAlone
  <2>3. OneAlone' BY <1>3, <1>5, <2>2 DEF OneAlone, InFlight
  <2>4. \A l \in Runs : run'[l].at # "put" BY <1>3, <1>5, <2>1 DEF InFlight
  <2>5. PagesCurrent' /\ AloneFindsCurrent'
    BY <2>1, <2>4 DEF PagesCurrent, AloneFindsCurrent
  <2> QED BY <1>4, <1>7, <2>3, <2>5 DEF RunsInv
<1>9. CASE ~r.alone
  <2>1. \A l \in Runs : run'[l].alone => run[l].alone /\ InFlight(l)'
    BY <1>5, <1>9 DEF RunsInv, OneAlone, InFlight
  <2>2. \A l, m \in Runs : run'[l].alone /\ run'[m].at = "put" =>
          \A i \in DOMAIN run'[m].found : Same(run'[m].found[i]) \in inForce[l] \cup Listed'
    BY <1>3, <1>5, <2>1 DEF RunsInv, PagesCurrent
  <2>3. \A l \in Runs : run'[l].alone /\ cache' # None =>
          \A n \in DOMAIN cache' :
              [name |-> n, contact |-> cache'[n]] \in inForce[l] \cup Listed'
    BY <1>6, <2>1 DEF RunsInv, AloneFindsCurrent
  <2> QED BY <1>4, <1>7, <2>1, <2>2, <2>3, StepKeeps
<1> QED BY <1>3, <1>8, <1>9

\* The cache is begun: it is empty, whichever runs are under way.
LEMMA ReadRowsKeeps ==
    ASSUME RunsInv, Remember, NEW k \in Runs, ReadRows(k)
    PROVE  RunsInv'
<1>1. PICK r : r = [[run[k] EXCEPT !.at = IF cache = None /\ Todo # {} THEN "count" ELSE "rows"]
                        EXCEPT !.todo = Todo]
  OBVIOUS
<1>2. run' = [run EXCEPT ![k] = r] BY <1>1 DEF ReadRows, RunsInv, RunShape, RunFields
<1>3. /\ DOMAIN r = RunFields /\ r = [d \in RunFields |-> r[d]]
      /\ r.at \in {"count", "rows"} /\ r.alone = run[k].alone
  BY <1>1 DEF RunsInv, RunShape, RunFields
<1>4. \A l \in Runs : run[l].alone /\ cache' # None =>
        \A n \in DOMAIN cache' :
            [name |-> n, contact |-> cache'[n]] \in inForce[l] \cup Listed'
  <2>1. cache' = cache \/ cache' = <<>> BY DEF ReadRows
  <2> QED BY <2>1 DEF RunsInv, AloneFindsCurrent
<1>5. InFlight(k) BY DEF ReadRows, InFlight
<1> QED BY <1>2, <1>3, <1>4, <1>5, MoveKeeps

LEMMA CountPagesKeeps ==
    ASSUME RunsInv, Remember, NEW k \in Runs, CountPages(k)
    PROVE  RunsInv'
<1>1. PICK n : n = PagesOf(Cardinality(Active)) OBVIOUS
<1>2. \A l \in Runs : run[l].alone /\ cache # None =>
        \A m \in DOMAIN cache :
            [name |-> m, contact |-> cache[m]] \in inForce[l] \cup Listed'
  BY DEF RunsInv, AloneFindsCurrent
<1>3. InFlight(k) BY DEF CountPages, InFlight
<1>4. CASE run' = [run EXCEPT ![k].at = "fetch", ![k].page = 1, ![k].pages = n]
           /\ cache' = cache
  <2>1. PICK r : r = [[[run[k] EXCEPT !.at = "fetch"] EXCEPT !.page = 1] EXCEPT !.pages = n]
    OBVIOUS
  <2>2. run' = [run EXCEPT ![k] = r] BY <1>4, <2>1 DEF RunsInv, RunShape, RunFields
  <2>3. /\ DOMAIN r = RunFields /\ r = [d \in RunFields |-> r[d]]
        /\ r.at = "fetch" /\ r.alone = run[k].alone
    BY <2>1 DEF RunsInv, RunShape, RunFields
  <2> QED BY <1>2, <1>3, <1>4, <2>2, <2>3, MoveKeeps
<1>5. CASE run' = [run EXCEPT ![k].at = "rows"] /\ cache' = cache
  <2>1. PICK r : r = [run[k] EXCEPT !.at = "rows"] OBVIOUS
  <2>2. run' = [run EXCEPT ![k] = r] BY <1>5, <2>1 DEF RunsInv, RunShape, RunFields
  <2>3. /\ DOMAIN r = RunFields /\ r = [d \in RunFields |-> r[d]]
        /\ r.at = "rows" /\ r.alone = run[k].alone
    BY <2>1 DEF RunsInv, RunShape, RunFields
  <2> QED BY <1>2, <1>3, <1>5, <2>2, <2>3, MoveKeeps
<1>6. CASE Broken(k) BY <1>6, OverKeeps DEF Broken
<1> QED BY <1>1, <1>4, <1>5, <1>6 DEF CountPages

\* Who is fetched is active at that moment.
LEMMA FetchPageKeeps ==
    ASSUME RunsInv, Remember, NEW k \in Runs, FetchPage(k)
    PROVE  RunsInv'
<1>1. PICK s \in Orderings :
        run' = [run EXCEPT ![k].at = "put", ![k].found = PageOf(s, run[k].page)]
  BY DEF FetchPage
<1>2. PICK page : page = PageOf(s, run[k].page) OBVIOUS
<1>3. PICK r : r = [[run[k] EXCEPT !.at = "put"] EXCEPT !.found = page] OBVIOUS
<1>4. run' = [run EXCEPT ![k] = r] BY <1>1, <1>2, <1>3 DEF RunsInv, RunShape, RunFields
<1>5. /\ DOMAIN r = RunFields /\ r = [d \in RunFields |-> r[d]]
      /\ r.at = "put" /\ r.alone = run[k].alone /\ r.found = page
  BY <1>3 DEF RunsInv, RunShape, RunFields
<1>6. Listed' = Listed BY DEF FetchPage, directoryVars, Listed, Active, EntryOf
<1>7. \A i \in DOMAIN r.found : Same(r.found[i]) \in Listed'
  BY <1>2, <1>5, <1>6, PageOfActive
<1>8. \A l \in Runs : run[l].alone /\ cache' # None =>
        \A n \in DOMAIN cache' :
            [name |-> n, contact |-> cache'[n]] \in inForce[l] \cup Listed'
  BY DEF RunsInv, AloneFindsCurrent, FetchPage
<1>9. InFlight(k) BY DEF FetchPage, InFlight
<1> QED BY <1>4, <1>5, <1>7, <1>8, <1>9, MoveKeeps

\* Whichever run began the cache, what goes into it counts for the one alone.
LEMMA PutPageKeeps ==
    ASSUME RunsInv, Remember, NEW k \in Runs, PutPage(k)
    PROVE  RunsInv'
<1>1. CASE Broken(k) BY <1>1, OverKeeps DEF Broken
<1>2. ASSUME NEW last \in BOOLEAN,
             cache' = IF cache = None THEN None ELSE Put(cache, run[k].found),
             run' = [run EXCEPT ![k].at = IF last THEN "rows" ELSE "fetch",
                                ![k].page = IF last THEN 0 ELSE @ + 1,
                                ![k].pages = IF last THEN 0 ELSE @,
                                ![k].found = <<>>]
      PROVE  RunsInv'
  <2>1. PICK a, p, n : /\ a = IF last THEN "rows" ELSE "fetch"
                       /\ p = IF last THEN 0 ELSE run[k].page + 1
                       /\ n = IF last THEN 0 ELSE run[k].pages
    OBVIOUS
  <2>2. PICK r : r = [[[[run[k] EXCEPT !.at = a] EXCEPT !.page = p] EXCEPT !.pages = n]
                          EXCEPT !.found = <<>>]
    OBVIOUS
  <2>3. run' = [run EXCEPT ![k] = r]
    BY <1>2, <2>1, <2>2 DEF RunsInv, RunShape, RunFields
  <2>4. /\ DOMAIN r = RunFields /\ r = [d \in RunFields |-> r[d]]
        /\ r.at \in {"rows", "fetch"} /\ r.alone = run[k].alone
    BY <2>1, <2>2 DEF RunsInv, RunShape, RunFields
  <2>5. run[k].at = "put" BY DEF PutPage
  <2>6. ASSUME NEW l \in Runs, run[l].alone, cache' # None, NEW n0 \in DOMAIN cache'
        PROVE  [name |-> n0, contact |-> cache'[n0]] \in inForce[l] \cup Listed'
    <3>1. cache # None /\ cache' = Put(cache, run[k].found) BY <1>2, <2>6
    <3>2. CASE n0 \in DOMAIN cache /\ cache'[n0] = cache[n0]
      BY <2>6, <3>1, <3>2 DEF RunsInv, AloneFindsCurrent
    <3>3. CASE \E i \in DOMAIN run[k].found : /\ run[k].found[i].name = n0
                                              /\ run[k].found[i].contact = cache'[n0]
      <4>1. PICK i \in DOMAIN run[k].found : /\ run[k].found[i].name = n0
                                             /\ run[k].found[i].contact = cache'[n0]
        BY <3>3
      <4>2. Same(run[k].found[i]) \in inForce[l] BY <2>5, <2>6 DEF RunsInv, PagesCurrent
      <4> QED BY <4>1, <4>2 DEF Same
    <3> QED BY <2>6, <3>1, <3>2, <3>3, PutEntries
  <2>7. InFlight(k) BY <2>5 DEF InFlight
  <2> QED BY <2>3, <2>4, <2>6, <2>7, MoveKeeps
<1>3. PICK last \in BOOLEAN : last <=> run[k].page = run[k].pages OBVIOUS
<1> QED BY <1>1, <1>2, <1>3 DEF PutPage

LEMMA HandleRowKeeps ==
    ASSUME RunsInv, Remember, NEW k \in Runs, HandleRow(k)
    PROVE  RunsInv'
<1>0. PICK t \in run[k].todo :
        \E U : run' = [run EXCEPT ![k].todo = @ \ {t}, ![k].useless = U]
  BY DEF HandleRow
<1>1. PICK U : run' = [run EXCEPT ![k].todo = @ \ {t}, ![k].useless = U] BY <1>0
<1>2. PICK r : r = [[run[k] EXCEPT !.todo = run[k].todo \ {t}] EXCEPT !.useless = U] OBVIOUS
<1>3. run' = [run EXCEPT ![k] = r] BY <1>1, <1>2 DEF RunsInv, RunShape, RunFields
<1>4. /\ DOMAIN r = RunFields /\ r = [d \in RunFields |-> r[d]]
      /\ r.at = run[k].at /\ r.alone = run[k].alone
  BY <1>2 DEF RunsInv, RunShape, RunFields
<1>5. run[k].at = "rows" /\ cache' = cache BY DEF HandleRow
<1>6. \A l \in Runs : run[l].alone /\ cache' # None =>
        \A n \in DOMAIN cache' :
            [name |-> n, contact |-> cache'[n]] \in inForce[l] \cup Listed'
  BY <1>5 DEF RunsInv, AloneFindsCurrent
<1>7. InFlight(k) BY <1>5 DEF InFlight
<1> QED BY <1>3, <1>4, <1>5, <1>6, <1>7, MoveKeeps

LEMMA MarkUselessKeeps ==
    ASSUME RunsInv, Remember, NEW k \in Runs, MarkUseless(k)
    PROVE  RunsInv'
<1>1. PICK x \in run[k].useless : run' = [run EXCEPT ![k].useless = @ \ {x}]
  BY DEF MarkUseless
<1>2. PICK r : r = [run[k] EXCEPT !.useless = run[k].useless \ {x}] OBVIOUS
<1>3. run' = [run EXCEPT ![k] = r] BY <1>1, <1>2 DEF RunsInv, RunShape, RunFields
<1>4. /\ DOMAIN r = RunFields /\ r = [d \in RunFields |-> r[d]]
      /\ r.at = run[k].at /\ r.alone = run[k].alone
  BY <1>2 DEF RunsInv, RunShape, RunFields
<1>5. run[k].at = "rows" /\ cache' = cache BY DEF MarkUseless
<1>6. \A l \in Runs : run[l].alone /\ cache' # None =>
        \A n \in DOMAIN cache' :
            [name |-> n, contact |-> cache'[n]] \in inForce[l] \cup Listed'
  BY <1>5 DEF RunsInv, AloneFindsCurrent
<1>7. InFlight(k) BY <1>5 DEF InFlight
<1> QED BY <1>3, <1>4, <1>5, <1>6, <1>7, MoveKeeps

LEMMA RestartKeeps ==
    ASSUME RunsInv, Remember, Restart
    PROVE  RunsInv'
<1>1. RunShape' /\ OneAlone' BY DEF Restart, RunShape, OneAlone, Idle, RunFields
<1>2. EmptyBetween' /\ PagesCurrent' /\ AloneFindsCurrent'
  BY DEF Restart, EmptyBetween, PagesCurrent, AloneFindsCurrent, Idle
<1> QED BY <1>1, <1>2 DEF RunsInv

-----------------------------------------------------------------------------
(* Forms and questions. *)

\* A form is a record of its process, type and question.
FormShape ==
    /\ form = [f \in DOMAIN form |-> form[f]]
    /\ \A f \in DOMAIN form :
        form[f] = [process |-> form[f].process, type |-> form[f].type,
                   question |-> form[f].question]

KindShape == kind = [q \in Questions |-> kind[q]]

FormsInv == FormShape /\ KindShape /\ RecipientQuestionFits

\* What the property says of a form of type t with question q.
Fits(t, q) == /\ t = "normal" => q \in Questions /\ kind[q] = "email"
              /\ t = "candidate" => q = None

LEMMA FitsOf == RecipientQuestionFits <=>
                    (~raced => \A f \in DOMAIN form : Fits(form[f].type, form[f].question))
BY DEF RecipientQuestionFits, Fits

LEMMA CreateFormKeeps ==
    ASSUME FormsInv, NEW r \in Requests, CreateForm(r)
    PROVE  FormsInv'
<1>1. PICK new : new = [process |-> request[r].process, type |-> request[r].type,
                        question |-> request[r].question]
  OBVIOUS
<1>2. form' = [f \in DOMAIN form \cup {nextForm} |-> IF f = nextForm THEN new ELSE form[f]]
  BY <1>1 DEF CreateForm
<1>3. kind' = kind BY DEF CreateForm
<1>4. FormShape' BY <1>1, <1>2 DEF FormsInv, FormShape
<1>5. KindShape' BY <1>3 DEF FormsInv, KindShape
<1>6. ASSUME ~raced'
      PROVE  \A f \in DOMAIN form' : Fits(form'[f].type, form'[f].question)
  <2>1. ~raced /\ Accepted(request[r]) BY <1>6 DEF CreateForm, Judge
  <2>2. request[r].kind = "createForm" BY DEF CreateForm, Due
  <2>3. QuestionFits(request[r].type, request[r].question) BY <2>1, <2>2 DEF Accepted
  <2>4. Fits(new.type, new.question) BY <1>1, <2>3 DEF QuestionFits, Fits
  <2>5. \A f \in DOMAIN form : Fits(form[f].type, form[f].question)
    BY <2>1, FitsOf DEF FormsInv
  <2> QED BY <1>2, <2>4, <2>5
<1>7. RecipientQuestionFits'
  BY <1>3, <1>6 DEF RecipientQuestionFits, Fits
<1> QED BY <1>4, <1>5, <1>7 DEF FormsInv

LEMMA UpdateFormKeeps ==
    ASSUME FormsInv, NEW r \in Requests, UpdateForm(r)
    PROVE  FormsInv'
<1>1. PICK e, q : e = request[r] /\ q = QuestionWritten(e.type, e.question) OBVIOUS
<1>2. form' = [f \in DOMAIN form |->
                  IF f = e.form THEN [form[f] EXCEPT !.type = e.type, !.question = q]
                  ELSE form[f]]
  BY <1>1 DEF UpdateForm
<1>3. kind' = kind BY DEF UpdateForm
<1>4. ASSUME NEW f \in DOMAIN form, f = e.form
      PROVE  form'[f] = [process |-> form[f].process, type |-> e.type, question |-> q]
  <2>1. PICK p, t, k : form[f] = [process |-> p, type |-> t, question |-> k]
    BY DEF FormsInv, FormShape
  <2>2. form'[f] = [form[f] EXCEPT !.type = e.type, !.question = q] BY <1>2, <1>4
  <2> QED BY <2>1, <2>2
<1>5. /\ DOMAIN form' = DOMAIN form
      /\ \A f \in DOMAIN form : f # e.form => form'[f] = form[f]
  BY <1>2
<1>6. FormShape'
  <2>1. form' = [f \in DOMAIN form' |-> form'[f]] BY <1>2
  <2>2. \A f \in DOMAIN form' :
          form'[f] = [process |-> form'[f].process, type |-> form'[f].type,
                      question |-> form'[f].question]
    BY <1>4, <1>5 DEF FormsInv, FormShape
  <2> QED BY <2>1, <2>2 DEF FormShape
<1>7. KindShape' BY <1>3 DEF FormsInv, KindShape
<1>8. ASSUME ~raced'
      PROVE  \A f \in DOMAIN form' : Fits(form'[f].type, form'[f].question)
  <2>1. ~raced /\ Accepted(e) BY <1>1, <1>8 DEF UpdateForm, Judge
  <2>2. e.kind = "updateForm" BY <1>1 DEF UpdateForm, Due
  <2>3. QuestionFits(e.type, e.question) BY <2>1, <2>2 DEF Accepted
  <2>4. Fits(e.type, q) BY <1>1, <2>3 DEF QuestionFits, Fits, QuestionWritten
  <2>5. \A f \in DOMAIN form : Fits(form[f].type, form[f].question)
    BY <2>1, FitsOf DEF FormsInv
  <2> QED BY <1>4, <1>5, <2>4, <2>5
<1>9. RecipientQuestionFits' BY <1>3, <1>8 DEF RecipientQuestionFits, Fits
<1> QED BY <1>6, <1>7, <1>9 DEF FormsInv

LEMMA DeleteFormKeeps ==
    ASSUME FormsInv, NEW r \in Requests, DeleteForm(r, Range(FormOf))
    PROVE  FormsInv'
<1>1. form' = [g \in DOMAIN form \ {request[r].form} |-> form[g]] /\ kind' = kind
  BY DEF DeleteForm
<1>2. FormShape' /\ KindShape' BY <1>1 DEF FormsInv, FormShape, KindShape
<1>3. ~raced' => ~raced BY DEF DeleteForm, Judge
<1>4. RecipientQuestionFits' BY <1>1, <1>3 DEF FormsInv, RecipientQuestionFits
<1> QED BY <1>2, <1>4 DEF FormsInv

\* A question that a form is mailed by stays one for an address.
LEMMA UpdateQuestionKeeps ==
    ASSUME FormsInv, NEW r \in Requests, UpdateQuestion(r)
    PROVE  FormsInv'
<1>1. PICK q, k : q = request[r].question /\ k = request[r].to OBVIOUS
<1>2. kind' = [kind EXCEPT ![q] = k] /\ form' = form BY <1>1 DEF UpdateQuestion
<1>3. FormShape' /\ KindShape' BY <1>2 DEF FormsInv, FormShape, KindShape
<1>4. ASSUME ~raced', NEW f \in DOMAIN form
      PROVE  /\ form[f].type = "normal" =>
                    form[f].question \in Questions /\ kind'[form[f].question] = "email"
             /\ form[f].type = "candidate" => form[f].question = None
  <2>1. ~raced /\ Accepted(request[r]) BY <1>4 DEF UpdateQuestion, Judge
  <2>2. request[r].kind = "updateQuestion" BY DEF UpdateQuestion, Due
  <2>3. KindMayChange(q, k) BY <1>1, <2>1, <2>2 DEF Accepted
  <2>4. /\ form[f].type = "normal" =>
               form[f].question \in Questions /\ kind[form[f].question] = "email"
        /\ form[f].type = "candidate" => form[f].question = None
    BY <1>4, <2>1 DEF FormsInv, RecipientQuestionFits
  <2>5. DOMAIN kind = Questions BY DEF FormsInv, KindShape
  <2>6. form[f].question = q /\ kind[q] = "email" => k = "email"
    BY <1>4, <2>3 DEF KindMayChange
  <2> QED BY <1>2, <2>4, <2>5, <2>6
<1>5. RecipientQuestionFits' BY <1>2, <1>4 DEF RecipientQuestionFits
<1> QED BY <1>3, <1>5 DEF FormsInv

LEMMA FormsKept ==
    ASSUME FormsInv, UNCHANGED <<form, kind, raced>>
    PROVE  FormsInv'
BY DEF FormsInv, FormShape, KindShape, RecipientQuestionFits

-----------------------------------------------------------------------------
(* Types. *)

CacheTyped ==
    cache # None => \E N \in SUBSET FieldNames : cache \in [N -> Contacts \cup {NoContact}]

PagesTyped == \A k \in Runs : \A i \in DOMAIN run[k].found : run[k].found[i] \in Entries

CronTyped ==
    /\ waiting \subseteq Rows
    /\ CacheTyped /\ PagesTyped
    /\ \A k \in Runs : run[k].at \in Steps
    /\ faults \in 0 .. MaxFaults /\ overlaps \in 0 .. MaxOverlaps
    /\ spoiled \in BOOLEAN

\* A minister is listed under the name of a field, with what is known of him.
LEMMA PageOfEntries ==
    ASSUME MinistersTyped, NEW s \in Orderings, NEW page, NEW i \in DOMAIN PageOf(s, page)
    PROVE  PageOf(s, page)[i] \in Entries
<1>1. s \in [1..Cardinality(Active) -> Active] BY DEF Orderings, SetToSeqs
<1>2. PlaceOf(page, i) \in DOMAIN s BY DEF PageOf
<1>3. PICK m : m = s[PlaceOf(page, i)] OBVIOUS
<1>4. m \in DOMAIN minister BY <1>1, <1>2, <1>3 DEF Active
<1>5. minister[m] \in Minister /\ minister[m].field \in DOMAIN field
  BY <1>4 DEF MinistersTyped
<1>6. field[minister[m].field] \in Field BY <1>5 DEF MinistersTyped
<1>7. EntryOf(m) \in Entries BY <1>5, <1>6 DEF EntryOf, Entries, Minister, Field
<1>8. PageOf(s, page)[i] = EntryOf(m) BY <1>3 DEF PageOf
<1> QED BY <1>7, <1>8

\* A page goes into the cache under the names of fields.
LEMMA PutTyped ==
    ASSUME NEW N \in SUBSET FieldNames, NEW entries \in [N -> Contacts \cup {NoContact}],
           NEW page, \A i \in DOMAIN page : page[i] \in Entries
    PROVE  \E M \in SUBSET FieldNames : Put(entries, page) \in [M -> Contacts \cup {NoContact}]
<1>1. PICK M : M = DOMAIN Put(entries, page) OBVIOUS
<1>2. Put(entries, page) = [n \in M |-> Put(entries, page)[n]] BY <1>1 DEF Put
<1>3. ASSUME NEW n \in M
      PROVE  n \in FieldNames /\ Put(entries, page)[n] \in Contacts \cup {NoContact}
  BY <1>1, <1>3, PutEntries DEF Entries
<1>4. M \in SUBSET FieldNames BY <1>3
<1> QED BY <1>2, <1>3, <1>4

\* What a step must show: one run is somewhere else, with a page or without.
LEMMA CronMoves ==
    ASSUME RunShape, CronTyped, NEW k \in Runs, NEW r, run' = [run EXCEPT ![k] = r],
           r.at \in Steps, \A i \in DOMAIN r.found : r.found[i] \in Entries,
           waiting' \subseteq waiting, CacheTyped',
           faults' \in 0 .. MaxFaults, overlaps' \in 0 .. MaxOverlaps, spoiled' \in BOOLEAN
    PROVE  CronTyped'
<1>1. \A l \in Runs : run'[l] = r \/ run'[l] = run[l] BY DEF RunShape
<1>2. PagesTyped' BY <1>1 DEF CronTyped, PagesTyped
<1>3. \A l \in Runs : run'[l].at \in Steps BY <1>1 DEF CronTyped
<1>4. waiting' \subseteq Rows BY DEF CronTyped
<1> QED BY <1>2, <1>3, <1>4 DEF CronTyped

\* ... or is over.
LEMMA CronOver ==
    ASSUME RunShape, CronTyped, NEW k \in Runs, run' = [run EXCEPT ![k] = Idle],
           cache' \in {cache, None}, waiting' = waiting, overlaps' = overlaps,
           faults' \in 0 .. MaxFaults, spoiled' \in BOOLEAN
    PROVE  CronTyped'
<1>1. Idle.at \in Steps /\ \A i \in DOMAIN Idle.found : Idle.found[i] \in Entries
  BY DEF Idle, Steps
<1>2. CacheTyped' BY DEF CronTyped, CacheTyped
<1>3. overlaps' \in 0 .. MaxOverlaps BY DEF CronTyped
<1> QED BY <1>1, <1>2, <1>3, CronMoves

LEMMA StartRunTypes ==
    ASSUME RunShape, CronTyped, NEW k \in Runs, StartRun(k)
    PROVE  CronTyped'
<1>1. PICK r : r = [Idle EXCEPT !.at = "types", !.types = [f \in DOMAIN form |-> form[f].type],
                       !.alone = ~(\E l \in Runs : InFlight(l)) /\ ~spoiled]
  OBVIOUS
<1>2. run' = [run EXCEPT ![k] = r] BY <1>1 DEF StartRun
<1>3. r.at \in Steps /\ r.found = <<>> BY <1>1 DEF Idle, Steps
<1>4. overlaps' = overlaps \/ (overlaps < MaxOverlaps /\ overlaps' = overlaps + 1)
  BY DEF StartRun
<1>5. overlaps' \in 0 .. MaxOverlaps BY <1>4, RecipientsAssumption DEF CronTyped
<1>6. CacheTyped' BY DEF CronTyped, CacheTyped, StartRun
<1>7. UNCHANGED <<waiting, faults, spoiled>> BY DEF StartRun
<1>8. waiting' \subseteq waiting /\ faults' \in 0 .. MaxFaults /\ spoiled' \in BOOLEAN
  BY <1>7 DEF CronTyped
<1>9. \A i \in DOMAIN r.found : r.found[i] \in Entries BY <1>3
<1> QED BY <1>2, <1>3, <1>5, <1>6, <1>8, <1>9, CronMoves

\* A step of a run under way, after which the page it holds is r.found.
LEMMA CronStays ==
    ASSUME RunShape, CronTyped, NEW k \in Runs, NEW r, run' = [run EXCEPT ![k] = r],
           r.at \in Steps, r.found = run[k].found \/ r.found = <<>>,
           waiting' \subseteq waiting, CacheTyped', UNCHANGED <<faults, overlaps, spoiled>>
    PROVE  CronTyped'
<1>1. \A i \in DOMAIN r.found : r.found[i] \in Entries BY DEF CronTyped, PagesTyped
<1>2. faults' \in 0 .. MaxFaults /\ overlaps' \in 0 .. MaxOverlaps /\ spoiled' \in BOOLEAN
  BY DEF CronTyped
<1> QED BY <1>1, <1>2, CronMoves

LEMMA ReadRowsTypes ==
    ASSUME RunShape, CronTyped, NEW k \in Runs, ReadRows(k)
    PROVE  CronTyped'
<1>1. PICK r : r = [[run[k] EXCEPT !.at = IF cache = None /\ Todo # {} THEN "count" ELSE "rows"]
                        EXCEPT !.todo = Todo]
  OBVIOUS
<1>2. run' = [run EXCEPT ![k] = r] BY <1>1 DEF ReadRows, RunShape, RunFields
<1>3. r.at \in Steps /\ r.found = run[k].found BY <1>1 DEF RunShape, RunFields, Steps
<1>4. CacheTyped'
  <2>1. cache' = cache \/ cache' = <<>> BY DEF ReadRows
  <2>2. <<>> \in [{} -> Contacts \cup {NoContact}] OBVIOUS
  <2> QED BY <2>1, <2>2 DEF CronTyped, CacheTyped
<1>5. waiting' \subseteq waiting /\ UNCHANGED <<faults, overlaps, spoiled>> BY DEF ReadRows
<1> QED BY <1>2, <1>3, <1>4, <1>5, CronStays

LEMMA CountPagesTypes ==
    ASSUME RunShape, CronTyped, NEW k \in Runs, CountPages(k)
    PROVE  CronTyped'
<1>1. PICK n : n = PagesOf(Cardinality(Active)) OBVIOUS
<1>2. UNCHANGED <<waiting, faults, overlaps>> BY DEF CountPages
<1>3. CASE run' = [run EXCEPT ![k].at = "fetch", ![k].page = 1, ![k].pages = n]
           /\ UNCHANGED <<cache, spoiled>>
  <2>1. PICK r : r = [[[run[k] EXCEPT !.at = "fetch"] EXCEPT !.page = 1] EXCEPT !.pages = n]
    OBVIOUS
  <2>2. run' = [run EXCEPT ![k] = r] BY <1>3, <2>1 DEF RunShape, RunFields
  <2>3. r.at \in Steps /\ r.found = run[k].found BY <2>1 DEF RunShape, RunFields, Steps
  <2>4. CacheTyped' BY <1>3 DEF CronTyped, CacheTyped
  <2> QED BY <1>2, <1>3, <2>2, <2>3, <2>4, CronStays
<1>4. CASE run' = [run EXCEPT ![k].at = "rows"] /\ UNCHANGED <<cache, spoiled>>
  <2>1. PICK r : r = [run[k] EXCEPT !.at = "rows"] OBVIOUS
  <2>2. run' = [run EXCEPT ![k] = r] BY <1>4, <2>1 DEF RunShape, RunFields
  <2>3. r.at \in Steps /\ r.found = run[k].found BY <2>1 DEF RunShape, RunFields, Steps
  <2>4. CacheTyped' BY <1>4 DEF CronTyped, CacheTyped
  <2> QED BY <1>2, <1>4, <2>2, <2>3, <2>4, CronStays
<1>5. CASE Broken(k)
  <2>1. faults' \in 0 .. MaxFaults BY <1>2 DEF CronTyped
  <2> QED BY <1>2, <1>5, <2>1, CronOver DEF Broken
<1> QED BY <1>1, <1>3, <1>4, <1>5 DEF CountPages

LEMMA FetchPageTypes ==
    ASSUME RunShape, MinistersTyped, CronTyped, NEW k \in Runs, FetchPage(k)
    PROVE  CronTyped'
<1>1. PICK s \in Orderings :
        run' = [run EXCEPT ![k].at = "put", ![k].found = PageOf(s, run[k].page)]
  BY DEF FetchPage
<1>2. PICK page : page = PageOf(s, run[k].page) OBVIOUS
<1>3. PICK r : r = [[run[k] EXCEPT !.at = "put"] EXCEPT !.found = page] OBVIOUS
<1>4. run' = [run EXCEPT ![k] = r] BY <1>1, <1>2, <1>3 DEF RunShape, RunFields
<1>5. r.at \in Steps /\ r.found = page BY <1>3 DEF RunShape, RunFields, Steps
<1>6. \A i \in DOMAIN r.found : r.found[i] \in Entries BY <1>2, <1>5, PageOfEntries
<1>7. UNCHANGED <<waiting, cache, faults, overlaps, spoiled>> BY DEF FetchPage
<1>8. CacheTyped' BY <1>7 DEF CronTyped, CacheTyped
<1>9. /\ waiting' \subseteq waiting /\ faults' \in 0 .. MaxFaults
      /\ overlaps' \in 0 .. MaxOverlaps /\ spoiled' \in BOOLEAN
  BY <1>7 DEF CronTyped
<1> QED BY <1>4, <1>5, <1>6, <1>8, <1>9, CronMoves

LEMMA PutPageTypes ==
    ASSUME RunShape, CronTyped, NEW k \in Runs, PutPage(k)
    PROVE  CronTyped'
<1>1. UNCHANGED <<waiting, faults, overlaps>> BY DEF PutPage
<1>2. CASE Broken(k)
  <2>1. faults' \in 0 .. MaxFaults BY <1>1 DEF CronTyped
  <2> QED BY <1>1, <1>2, <2>1, CronOver DEF Broken
<1>3. ASSUME NEW last \in BOOLEAN, spoiled' = spoiled,
             cache' = IF cache = None THEN None ELSE Put(cache, run[k].found),
             run' = [run EXCEPT ![k].at = IF last THEN "rows" ELSE "fetch",
                                ![k].page = IF last THEN 0 ELSE @ + 1,
                                ![k].pages = IF last THEN 0 ELSE @,
                                ![k].found = <<>>]
      PROVE  CronTyped'
  <2>1. PICK a, p, n : /\ a = IF last THEN "rows" ELSE "fetch"
                       /\ p = IF last THEN 0 ELSE run[k].page + 1
                       /\ n = IF last THEN 0 ELSE run[k].pages
    OBVIOUS
  <2>2. PICK r : r = [[[[run[k] EXCEPT !.at = a] EXCEPT !.page = p] EXCEPT !.pages = n]
                          EXCEPT !.found = <<>>]
    OBVIOUS
  <2>3. run' = [run EXCEPT ![k] = r] BY <1>3, <2>1, <2>2 DEF RunShape, RunFields
  <2>4. r.at \in Steps /\ r.found = <<>> BY <2>1, <2>2 DEF RunShape, RunFields, Steps
  <2>5. CacheTyped'
    <3>1. CASE cache = None BY <1>3, <3>1 DEF CacheTyped
    <3>2. CASE cache # None
      <4>1. PICK N \in SUBSET FieldNames : cache \in [N -> Contacts \cup {NoContact}]
        BY <3>2 DEF CronTyped, CacheTyped
      <4>2. \A i \in DOMAIN run[k].found : run[k].found[i] \in Entries
        BY DEF CronTyped, PagesTyped
      <4>3. cache' = Put(cache, run[k].found) BY <1>3, <3>2
      <4> QED BY <4>1, <4>2, <4>3, PutTyped DEF CacheTyped
    <3> QED BY <3>1, <3>2
  <2> QED BY <1>1, <1>3, <2>3, <2>4, <2>5, CronStays
<1>4. (run[k].page = run[k].pages) \in BOOLEAN OBVIOUS
<1> QED BY <1>2, <1>3, <1>4 DEF PutPage

LEMMA HandleRowTypes ==
    ASSUME RunShape, CronTyped, NEW k \in Runs, HandleRow(k)
    PROVE  CronTyped'
<1>1. PICK t \in run[k].todo :
        \E U : run' = [run EXCEPT ![k].todo = @ \ {t}, ![k].useless = U]
  BY DEF HandleRow
<1>2. PICK U : run' = [run EXCEPT ![k].todo = @ \ {t}, ![k].useless = U] BY <1>1
<1>3. PICK r : r = [[run[k] EXCEPT !.todo = run[k].todo \ {t}] EXCEPT !.useless = U] OBVIOUS
<1>4. run' = [run EXCEPT ![k] = r] BY <1>2, <1>3 DEF RunShape, RunFields
<1>5. r.at = run[k].at /\ r.found = run[k].found BY <1>3 DEF RunShape, RunFields
<1>6. r.at \in Steps BY <1>5 DEF CronTyped
<1>7. waiting' \subseteq waiting BY DEF HandleRow
<1>8. UNCHANGED <<cache, faults, overlaps, spoiled>> BY DEF HandleRow
<1>9. CacheTyped' BY <1>8 DEF CronTyped, CacheTyped
<1> QED BY <1>4, <1>5, <1>6, <1>7, <1>8, <1>9, CronStays

LEMMA MarkUselessTypes ==
    ASSUME RunShape, CronTyped, NEW k \in Runs, MarkUseless(k)
    PROVE  CronTyped'
<1>1. PICK x \in run[k].useless : run' = [run EXCEPT ![k].useless = @ \ {x}]
  BY DEF MarkUseless
<1>2. PICK r : r = [run[k] EXCEPT !.useless = run[k].useless \ {x}] OBVIOUS
<1>3. run' = [run EXCEPT ![k] = r] BY <1>1, <1>2 DEF RunShape, RunFields
<1>4. r.at = run[k].at /\ r.found = run[k].found BY <1>2 DEF RunShape, RunFields
<1>5. r.at \in Steps BY <1>4 DEF CronTyped
<1>6. waiting' \subseteq waiting BY DEF MarkUseless
<1>7. UNCHANGED <<cache, faults, overlaps, spoiled>> BY DEF MarkUseless
<1>8. CacheTyped' BY <1>7 DEF CronTyped, CacheTyped
<1> QED BY <1>3, <1>4, <1>5, <1>6, <1>7, <1>8, CronStays

LEMMA EndTypes ==
    ASSUME RunShape, CronTyped, NEW k \in Runs, EndRun(k) \/ RunFails(k)
    PROVE  CronTyped'
<1>1. CASE EndRun(k)
  <2>1. faults' \in 0 .. MaxFaults /\ spoiled' \in BOOLEAN BY <1>1 DEF EndRun, CronTyped
  <2> QED BY <1>1, <2>1, CronOver DEF EndRun
<1>2. CASE RunFails(k)
  <2>1. faults' \in 0 .. MaxFaults BY <1>2, RecipientsAssumption DEF RunFails, CronTyped
  <2>2. spoiled' \in BOOLEAN BY <1>2 DEF RunFails, Broken
  <2> QED BY <1>2, <2>1, <2>2, CronOver DEF RunFails, Broken
<1> QED BY <1>1, <1>2

LEMMA RestartTypes ==
    ASSUME CronTyped, Restart
    PROVE  CronTyped'
<1>1. faults' \in 0 .. MaxFaults BY RecipientsAssumption DEF Restart, CronTyped
<1>2. PagesTyped' /\ \A k \in Runs : run'[k].at \in Steps
  BY DEF Restart, PagesTyped, Idle, Steps
<1>3. CacheTyped' /\ spoiled' \in BOOLEAN BY DEF Restart, CacheTyped
<1>4. waiting' \subseteq Rows /\ overlaps' \in 0 .. MaxOverlaps BY DEF Restart, CronTyped
<1> QED BY <1>1, <1>2, <1>3, <1>4 DEF CronTyped

LEMMA CronKept ==
    ASSUME CronTyped, UNCHANGED cronVars
    PROVE  CronTyped'
BY DEF CronTyped, CacheTyped, PagesTyped, cronVars

LEMMA DirectoryKept ==
    ASSUME DirectoryInv, UNCHANGED directoryVars
    PROVE  DirectoryInv'
<1>1. FormsTyped' /\ RestTyped' BY DEF DirectoryInv, FormsTyped, RestTyped, directoryVars
<1>2. RequestsTyped' BY DEF DirectoryInv, RequestsTyped, ImportShape, directoryVars
<1>3. MinistersTyped' /\ OneMinisterPerField' BY MinistersKept DEF DirectoryInv, directoryVars
<1> QED BY <1>1, <1>2, <1>3 DEF DirectoryInv

-----------------------------------------------------------------------------
(* The theorems. *)

IInv == RunsInv /\ FormsInv /\ DirectoryInv /\ CronTyped

LEMMA InitIInv == Init => IInv
<1> SUFFICES ASSUME Init PROVE IInv OBVIOUS
<1>1. RunsInv
  <2>1. /\ run = [k \in Runs |-> Idle] /\ cache = None BY DEF Init
  <2>2. RunShape /\ OneAlone BY <2>1 DEF RunShape, OneAlone, Idle, RunFields
  <2>3. EmptyBetween /\ PagesCurrent /\ AloneFindsCurrent
    BY <2>1 DEF EmptyBetween, PagesCurrent, AloneFindsCurrent, Idle
  <2> QED BY <2>2, <2>3 DEF RunsInv
<1>2. form = FirstForms /\ kind = FirstKind BY DEF Init, DirectoryInit
<1>3. FirstForms \in [1..Len(FirstForms) -> Form] BY RecipientsAssumption
<1>4. FormShape BY <1>2, <1>3 DEF FormShape, Form
<1>5. KindShape BY <1>2, DirectoryAssumption DEF KindShape
<1>6. RecipientQuestionFits BY <1>2, RecipientsAssumption DEF RecipientQuestionFits
<1>7. DirectoryInv
  <2>1. DirectoryInit(FirstForms, FirstAnswered, FirstFile) BY DEF Init
  <2> QED BY <2>1, DirectoryInitInv, RecipientsAssumption
<1>8. CronTyped
  <2>1. /\ waiting = Rows /\ cache = None /\ run = [k \in Runs |-> Idle]
        /\ faults = 0 /\ overlaps = 0 /\ spoiled = FALSE
    BY DEF Init
  <2>2. CacheTyped /\ PagesTyped BY <2>1 DEF CacheTyped, PagesTyped, Idle
  <2>3. \A k \in Runs : run[k].at \in Steps BY <2>1 DEF Idle, Steps
  <2>4. faults \in 0 .. MaxFaults /\ overlaps \in 0 .. MaxOverlaps
    BY <2>1, RecipientsAssumption
  <2>5. waiting \subseteq Rows /\ spoiled \in BOOLEAN BY <2>1
  <2> QED BY <2>2, <2>3, <2>4, <2>5 DEF CronTyped
<1> QED BY <1>1, <1>4, <1>5, <1>6, <1>7, <1>8 DEF IInv, FormsInv

LEMMA AdministrationKeeps ==
    ASSUME IInv, Remember, Administration
    PROVE  IInv'
<1>1. UNCHANGED <<run, cache, spoiled>> BY DEF Administration, cronVars
<1>2. RunsInv' BY <1>1, OthersKeep DEF IInv
<1>3. DirectoryNext(Range(FormOf)) BY DEF Administration
<1>4. ASSUME \E m \in DOMAIN minister, person \in Persons, tick \in BOOLEAN \cup {None} :
                UpdateMinister(m, person, tick)
      PROVE  FormsInv'
  <2>1. UNCHANGED <<form, kind, raced>> BY <1>4 DEF UpdateMinister
  <2> QED BY <2>1, FormsKept DEF IInv
<1>5. ASSUME NEW r \in Requests,
             \/ AskEdit(r) \/ BeginImport(r) \/ CommitImport(r) \/ NothingWritten(r)
      PROVE  FormsInv'
  <2>1. UNCHANGED <<form, kind, raced>>
    BY <1>5 DEF AskEdit, BeginImport, CommitImport, NothingWritten
  <2> QED BY <2>1, FormsKept DEF IInv
<1>6. ASSUME NEW r \in Requests,
             \/ CreateForm(r) \/ UpdateForm(r) \/ DeleteForm(r, Range(FormOf))
             \/ UpdateQuestion(r)
      PROVE  FormsInv'
  BY <1>6, CreateFormKeeps, UpdateFormKeeps, DeleteFormKeeps, UpdateQuestionKeeps DEF IInv
<1>7. FormsInv' BY <1>3, <1>4, <1>5, <1>6 DEF DirectoryNext
<1>8. DirectoryInv' BY <1>3, DirectoryNextKeeps DEF IInv
<1>9. CronTyped' BY CronKept DEF IInv, Administration
<1> QED BY <1>2, <1>7, <1>8, <1>9 DEF IInv

LEMMA RunKeeps ==
    ASSUME IInv, Remember, NEW k \in Runs, StartRun(k) \/ RunStep(k) \/ RunFails(k)
    PROVE  IInv'
<1>1. UNCHANGED <<form, kind, raced>>
  BY DEF StartRun, RunStep, RunFails, ReadRows, CountPages, FetchPage, PutPage, HandleRow,
         MarkUseless, EndRun, directoryVars
<1>2. FormsInv' BY <1>1, FormsKept DEF IInv
<1>3. EndRun(k) => RunsInv' BY OverKeeps DEF EndRun, IInv
<1>4. RunFails(k) => RunsInv' BY OverKeeps DEF RunFails, Broken, IInv
<1>5. RunsInv'
  BY <1>3, <1>4, StartRunKeeps, ReadRowsKeeps, CountPagesKeeps, FetchPageKeeps, PutPageKeeps,
     HandleRowKeeps, MarkUselessKeeps DEF RunStep, IInv
<1>6. UNCHANGED directoryVars
  BY DEF StartRun, RunStep, RunFails, ReadRows, CountPages, FetchPage, PutPage, HandleRow,
         MarkUseless, EndRun
<1>7. DirectoryInv' BY <1>6, DirectoryKept DEF IInv
<1>8. RunShape /\ CronTyped /\ MinistersTyped BY DEF IInv, RunsInv, DirectoryInv
<1>9. CronTyped'
  BY <1>8, StartRunTypes, ReadRowsTypes, CountPagesTypes, FetchPageTypes, PutPageTypes,
     HandleRowTypes, MarkUselessTypes, EndTypes DEF RunStep
<1> QED BY <1>2, <1>5, <1>7, <1>9 DEF IInv

LEMMA NextIInv == IInv /\ [Next]_vars => IInv'
<1> SUFFICES ASSUME IInv, [Next]_vars PROVE IInv' OBVIOUS
<1>1. CASE UNCHANGED vars
  <2>1. /\ UNCHANGED <<form, kind, raced, field, minister>>
        /\ UNCHANGED <<run, cache, spoiled, inForce>>
    BY <1>1 DEF vars, directoryVars, cronVars
  <2>2. FormsInv' BY <2>1, FormsKept DEF IInv
  <2>3. RunsInv'
    BY <2>1 DEF IInv, RunsInv, RunShape, OneAlone, EmptyBetween, PagesCurrent,
                AloneFindsCurrent, InFlight
  <2>4. DirectoryInv' BY <1>1, DirectoryKept DEF IInv, vars
  <2>5. CronTyped' BY <1>1, CronKept DEF IInv, vars
  <2> QED BY <2>2, <2>3, <2>4, <2>5 DEF IInv
<1>2. CASE Next
  <2>1. Remember BY <1>2 DEF Next
  <2>2. CASE Administration BY <2>1, <2>2, AdministrationKeeps
  <2>3. CASE \E k \in Runs : StartRun(k) \/ RunStep(k) \/ RunFails(k)
    BY <2>1, <2>3, RunKeeps
  <2>4. CASE Restart
    <3>1. UNCHANGED <<form, nextForm, answered, kind, field, minister, edits, raced>>
      BY <2>4 DEF Restart
    <3>2. RunsInv' /\ FormsInv' BY <2>1, <2>4, <3>1, RestartKeeps, FormsKept DEF IInv
    <3>3. CronTyped' BY <2>4, RestartTypes DEF IInv
    <3>4. RequestsTyped' BY <2>4 DEF Restart, RequestsTyped
    <3>5. FormsTyped' /\ RestTyped' BY <3>1 DEF IInv, DirectoryInv, FormsTyped, RestTyped
    <3>6. MinistersTyped' /\ OneMinisterPerField'
      BY <3>1, MinistersKept DEF IInv, DirectoryInv
    <3> QED BY <3>2, <3>3, <3>4, <3>5, <3>6 DEF IInv, DirectoryInv
  <2>5. CASE \E x \in Rows : Answer(x)
    <3>1. PICK x \in Rows : Answer(x) BY <2>5
    <3>2. /\ UNCHANGED <<form, nextForm, kind, field, minister, request, edits, raced>>
          /\ UNCHANGED cronVars /\ answered' = answered \cup {FormOf[x]}
      BY <3>1 DEF Answer
    <3>3. UNCHANGED <<run, cache, spoiled>> BY <3>2 DEF cronVars
    <3>4. RunsInv' /\ FormsInv' BY <2>1, <3>2, <3>3, OthersKeep, FormsKept DEF IInv
    <3>5. CronTyped' BY <3>2, CronKept DEF IInv
    <3>6. FormOf[x] \in FormIds
      <4>1. FormOf[x] \in DOMAIN FirstForms BY RecipientsAssumption
      <4>2. PICK n \in Nat : n = Len(FirstForms) BY RecipientsAssumption
      <4>3. DOMAIN FirstForms = 1 .. n /\ n <= MaxForms BY <4>2, RecipientsAssumption
      <4> QED BY <4>1, <4>3, DirectoryAssumption DEF FormIds
    <3>7. RestTyped' BY <3>2, <3>6 DEF IInv, DirectoryInv, RestTyped
    <3>8. FormsTyped' /\ RequestsTyped'
      BY <3>2 DEF IInv, DirectoryInv, FormsTyped, RequestsTyped, ImportShape
    <3>9. MinistersTyped' /\ OneMinisterPerField'
      BY <3>2, MinistersKept DEF IInv, DirectoryInv
    <3> QED BY <3>4, <3>5, <3>7, <3>8, <3>9 DEF IInv, DirectoryInv
  <2> QED BY <1>2, <2>2, <2>3, <2>4, <2>5 DEF Next
<1> QED BY <1>1, <1>2

\* A run of the cron that began alone, after one that ended well, finds in the
\* cache only ministers that were active since it began, whatever runs begin
\* beside it and fill or empty the cache, wherever they fail
\* (loadMinisterialsCache, handleProcessesInAnswerPeriod).
THEOREM AloneFindsCurrentHolds == Spec => []AloneFindsCurrent
<1>1. IInv => AloneFindsCurrent BY DEF IInv, RunsInv
<1> QED BY InitIInv, NextIInv, <1>1, PTL DEF Spec

\* As long as no two edits race, a normal form is mailed to the answer to a
\* question for an address, and the candidate's own form has no such question,
\* whatever is created, edited and deleted (validateCreateDto, validateUpdateDto,
\* validateUpdateQuestion, transformUpdateDto).
THEOREM RecipientQuestionFitsHolds == Spec => []RecipientQuestionFits
<1>1. IInv => RecipientQuestionFits BY DEF IInv, FormsInv
<1> QED BY InitIInv, NextIInv, <1>1, PTL DEF Spec

\* However imports of ministers overlap with each other and with what
\* administrators edit, a field has at most one active minister besides those
\* ticked by hand (createMinisterialsWithTransaction, updateMinisterial).
THEOREM OneMinisterPerFieldHolds == Spec => []OneMinisterPerField
<1>1. IInv => OneMinisterPerField BY DEF IInv, DirectoryInv
<1> QED BY InitIInv, NextIInv, <1>1, PTL DEF Spec

\* Every variable keeps its type: no import, page or edit puts anything else into
\* a table or the cache.
THEOREM TypeCorrect == Spec => []TypeOK
<1>1. IInv => TypeOK
  <2> SUFFICES ASSUME IInv PROVE TypeOK OBVIOUS
  <2>1. DirectoryTypeOK BY DirectoryInvTypes DEF IInv
  <2>2. \A k \in Runs : run[k].at \in Steps /\ run[k].alone \in BOOLEAN
    BY DEF IInv, RunsInv, RunShape, CronTyped
  <2> QED BY <2>1, <2>2 DEF IInv, CronTyped, CacheTyped, TypeOK
<1> QED BY InitIInv, NextIInv, <1>1, PTL DEF Spec

\* Only an administrator's tick takes a minister out of office without a successor in
\* the same field, for files of any length (createMinisterialsWithTransaction).
THEOREM SuccessorsHold == Spec => ReplacedBySuccessor
<1>1. ASSUME IInv, [Next]_vars, NEW m \in Active \ Active', edits' = edits
      PROVE  \E n \in Active' \ DOMAIN minister : minister'[n].field = minister[m].field
  <2>1. CASE Administration
    BY <1>1, <2>1, DirectorySucceeds DEF IInv, Administration
  <2>2. CASE minister' = minister
    BY <1>1, <2>2 DEF Active
  <2> QED
    BY <1>1, <2>1, <2>2 DEF Next, vars, directoryVars, StartRun, RunStep, ReadRows,
       CountPages, FetchPage, PutPage, HandleRow, MarkUseless, EndRun, RunFails, Restart,
       Answer
<1>2. IInv /\ [Next]_vars =>
        [\A m \in Active \ Active' :
            \/ edits' # edits
            \/ \E n \in Active' \ DOMAIN minister :
                  minister'[n].field = minister[m].field]_directoryVars
  BY <1>1
<1> QED BY <1>2, InitIInv, NextIInv, PTL DEF Spec, ReplacedBySuccessor

=============================================================================
