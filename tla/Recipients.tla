---------------------------- MODULE Recipients ----------------------------
(***************************************************************************)
(* Whom the mailing cron finds for the forms that wait for a minister:     *)
(* every run goes by the forms and the waiting rows as it read them and by *)
(* a cache of the ministers that belongs to the process, not to the run.   *)
(* The first run that needs it fills it page by page; a run that ends well *)
(* empties it; a run that fails leaves it; nothing keeps two runs apart.   *)
(*                                                                         *)
(* FormLifecycle has the rest of the life of a form, with a minister found *)
(* or not at will.                                                         *)
(***************************************************************************)
EXTENDS Directory

CONSTANTS
    Runs,           \* numbered slots for runs of the cron
    Rows,           \* rows of FormsCandidates that wait for a minister
    FormOf,         \* the form of each
    Asked,          \* the question its candidate has answered ...
    Named,          \* ... and the field that the answer names
    FirstForms,     \* the forms at first ...
    FirstAnswered,  \* ... and those that candidates have answered
    FirstFile,      \* the file of ministers that was imported at first
    PageSize,       \* elementsPerPage
    MaxFaults,      \* bound on failures and restarts
    MaxOverlaps     \* bound on runs begun beside another

ASSUME RecipientsAssumption ==
    /\ Runs \subseteq Nat
    /\ FormOf \in [Rows -> DOMAIN FirstForms]
    /\ FirstForms \in Seq(Form) /\ Len(FirstForms) <= MaxForms
    /\ \A f \in DOMAIN FirstForms :
        /\ FirstForms[f].type = "normal" => /\ FirstForms[f].question \in Questions
                                            /\ FirstKind[FirstForms[f].question] = "email"
        /\ FirstForms[f].type = "candidate" => FirstForms[f].question = None
    /\ FirstAnswered \subseteq DOMAIN FirstForms
    /\ FirstFile \in Seq(Lines)
    /\ Asked \in [Rows -> Questions]
    /\ Named \in [Rows -> FieldNames]
    /\ PageSize \in Nat \ {0} /\ MaxFaults \in Nat /\ MaxOverlaps \in Nat

VARIABLES
    waiting,        \* the rows that were not mailed yet
    cache,          \* ministerialsCache: a contact by name of field, or None
    run,            \* where each run is
    faults,
    overlaps,
    spoiled,        \* a run failed since one ended well
    inForce         \* by run, if alone: the ministers active since it began

cronVars == <<waiting, cache, run, faults, overlaps, spoiled>>
vars == <<directoryVars, cronVars, inForce>>

\* What the cache keeps of a minister, with the name of the field it is under.
Entries == [name : FieldNames, contact : Contacts \cup {NoContact}]

EntryOf(m) == [name |-> field[minister[m].field].name, contact |-> minister[m].contact]

Listed == {EntryOf(m) : m \in Active}

Idle == [at |-> "idle", types |-> <<>>, todo |-> {}, useless |-> {}, pages |-> 0, page |-> 0,
         found |-> <<>>, alone |-> FALSE]

Steps == {"idle", "types", "count", "fetch", "put", "rows"}

InFlight(k) == run[k].at # "idle"

----------------------------------------------------------------------------
(* A run *)

\* handleProcessesInAnswerPeriod: the forms of the processes.  Remembered:
\* whether no other run is under way and none has failed since one ended well.
StartRun(k) ==
    /\ ~InFlight(k) /\ \A l \in Runs : l < k => InFlight(l)
    /\ LET others == \E l \in Runs : InFlight(l) IN
       /\ others => overlaps < MaxOverlaps
       /\ overlaps' = IF others THEN overlaps + 1 ELSE overlaps
       /\ run' = [run EXCEPT ![k] = [Idle EXCEPT !.at = "types",
                      !.types = [f \in DOMAIN form |-> form[f].type],
                      !.alone = ~others /\ ~spoiled]]
    /\ UNCHANGED <<directoryVars, waiting, cache, faults, spoiled>>

\* The waiting rows of forms that are not the candidate's own, each with the
\* question of its form; a cache that is missing is begun, if there are any.
Todo == {[row |-> x, question |-> form[FormOf[x]].question] :
            x \in {x \in waiting : form[FormOf[x]].type # "candidate"}}

ReadRows(k) ==
    /\ run[k].at = "types"
    /\ LET load == cache = None /\ Todo # {} IN
       /\ run' = [run EXCEPT ![k].at = IF load THEN "count" ELSE "rows", ![k].todo = Todo]
       /\ cache' = IF load THEN <<>> ELSE cache
    /\ UNCHANGED <<directoryVars, waiting, faults, overlaps, spoiled>>

PagesOf(n) == (n + PageSize - 1) \div PageSize

\* An exception: the run is over, and the cache stays what it is.
Broken(k) ==
    /\ run' = [run EXCEPT ![k] = Idle]
    /\ spoiled' = TRUE
    /\ UNCHANGED cache

\* findMinisterialsQuantity.  Without a page to fetch the cache is asked for its
\* size at once: another run may have removed it.
CountPages(k) ==
    /\ run[k].at = "count"
    /\ LET pages == PagesOf(Cardinality(Active)) IN
       \/ /\ pages > 0
          /\ run' = [run EXCEPT ![k].at = "fetch", ![k].page = 1, ![k].pages = pages]
          /\ UNCHANGED <<cache, spoiled>>
       \/ /\ pages = 0 /\ cache # None
          /\ run' = [run EXCEPT ![k].at = "rows"]
          /\ UNCHANGED <<cache, spoiled>>
       \/ pages = 0 /\ cache = None /\ Broken(k)
    /\ UNCHANGED <<directoryVars, waiting, faults, overlaps>>

\* The active ministers by name; who comes first of those of one name is open.
Orderings ==
    {s \in SetToSeqs(Active) :
        \A i, j \in DOMAIN s : i < j => minister[s[i]].name <= minister[s[j]].name}

\* Mutant: pages counted from nought.
PlaceOfZeroBased(page, i) == page * PageSize + i

PlaceOf(page, i) == (page - 1) * PageSize + i

\* findAllMinisterials: one page of the ordering the query falls on.
PageOf(s, page) ==
    [i \in {i \in 1 .. PageSize : PlaceOf(page, i) \in DOMAIN s} |-> EntryOf(s[PlaceOf(page, i)])]

FetchPage(k) ==
    /\ run[k].at = "fetch"
    /\ \E s \in Orderings :
        run' = [run EXCEPT ![k].at = "put", ![k].found = PageOf(s, run[k].page)]
    /\ UNCHANGED <<directoryVars, waiting, cache, faults, overlaps, spoiled>>

\* Under the name of a field the last of its ministers on the page stays.
Staying(page) ==
    {i \in DOMAIN page : \A j \in DOMAIN page : page[j].name = page[i].name => j <= i}

Put(entries, page) ==
    LET names == {page[i].name : i \in Staying(page)} IN
    [n \in DOMAIN entries \cup names |->
        IF n \in names THEN page[CHOOSE i \in Staying(page) : page[i].name = n].contact
        ELSE entries[n]]

\* The page goes into whatever cache there is by now, perhaps not the one the
\* run began, or into none: an exception.
PutPage(k) ==
    /\ run[k].at = "put"
    /\ LET last == run[k].page = run[k].pages IN
       \/ /\ cache = None /\ (last \/ run[k].found # <<>>)
          /\ Broken(k)
       \/ /\ cache # None \/ (~last /\ run[k].found = <<>>)
          /\ cache' = IF cache = None THEN None ELSE Put(cache, run[k].found)
          /\ run' = [run EXCEPT ![k].at = IF last THEN "rows" ELSE "fetch",
                                ![k].page = IF last THEN 0 ELSE @ + 1,
                                ![k].pages = IF last THEN 0 ELSE @,
                                ![k].found = <<>>]
          /\ UNCHANGED spoiled
    /\ UNCHANGED <<directoryVars, waiting, faults, overlaps>>

\* getMinisterialEmail: what the cache has for the field that the answer names.
Found(x) == cache # None /\ Named[x] \in DOMAIN cache /\ cache[Named[x]] # NoContact

\* handleMinisterialForms: a row without a question, without an answer to it, or
\* without a minister is passed over.  A form that has become a normal one goes
\* to handleNormalForms, which may mail it to another address.
HandleRow(k) ==
    /\ run[k].at = "rows"
    /\ \E t \in run[k].todo :
        LET type == run[k].types[FormOf[t.row]] IN
        /\ run' = [run EXCEPT ![k].todo = @ \ {t},
                              ![k].useless = IF type = "candidate" THEN @ \cup {t.row} ELSE @]
        /\ \/ /\ type = "ministerial"
              /\ waiting' = IF t.question = Asked[t.row] /\ Found(t.row)
                            THEN waiting \ {t.row} ELSE waiting
           \/ type = "normal" /\ waiting' \in {waiting, waiting \ {t.row}}
           \/ type = "candidate" /\ waiting' = waiting
    /\ UNCHANGED <<directoryVars, cache, faults, overlaps, spoiled>>

\* markAsUnuseful, of a row whose form was a candidate's own when the run began.
MarkUseless(k) ==
    /\ run[k].at = "rows" /\ run[k].todo = {}
    /\ \E x \in run[k].useless :
        /\ run' = [run EXCEPT ![k].useless = @ \ {x}]
        /\ waiting' = waiting \ {x}
    /\ UNCHANGED <<directoryVars, cache, faults, overlaps, spoiled>>

\* The end of a run that went well.
\* Mutant: the cache stays for the next one.
EndRunKeepingCache(k) ==
    /\ run[k].at = "rows" /\ run[k].todo = {} /\ run[k].useless = {}
    /\ run' = [run EXCEPT ![k] = Idle]
    /\ spoiled' = FALSE
    /\ UNCHANGED <<directoryVars, waiting, cache, faults, overlaps>>

EndRun(k) ==
    /\ run[k].at = "rows" /\ run[k].todo = {} /\ run[k].useless = {}
    /\ run' = [run EXCEPT ![k] = Idle]
    /\ cache' = None
    /\ spoiled' = FALSE
    /\ UNCHANGED <<directoryVars, waiting, faults, overlaps>>

\* A query fails, or a mail is refused.
RunFails(k) ==
    /\ InFlight(k) /\ faults < MaxFaults
    /\ faults' = faults + 1
    /\ Broken(k)
    /\ UNCHANGED <<directoryVars, waiting, overlaps>>

\* The process restarts: the cache and everything under way are gone.
Restart ==
    /\ faults < MaxFaults
    /\ faults' = faults + 1
    /\ run' = [k \in Runs |-> Idle]
    /\ cache' = None
    /\ spoiled' = FALSE
    /\ request' = [r \in Requests |-> None]
    /\ UNCHANGED <<form, nextForm, answered, kind, field, minister, edits, raced,
                   waiting, overlaps>>

\* The minister answers, and the form can no longer be edited.
Answer(x) ==
    /\ x \notin waiting /\ FormOf[x] \notin answered
    /\ answered' = answered \cup {FormOf[x]}
    /\ UNCHANGED <<form, nextForm, kind, field, minister, request, edits, raced, cronVars>>

----------------------------------------------------------------------------
(* The specification *)

Init ==
    /\ DirectoryInit(FirstForms, FirstAnswered, FirstFile)
    /\ waiting = Rows
    /\ cache = None
    /\ run = [k \in Runs |-> Idle]
    /\ faults = 0 /\ overlaps = 0
    /\ spoiled = FALSE
    /\ inForce = [k \in Runs |-> {}]

RunStep(k) ==
    \/ ReadRows(k) \/ CountPages(k) \/ FetchPage(k) \/ PutPage(k)
    \/ HandleRow(k) \/ MarkUseless(k) \/ EndRun(k)

Administration == DirectoryNext(Range(FormOf)) /\ UNCHANGED cronVars

\* What has been active since a run began that began alone.
Remember ==
    inForce' = [k \in Runs |->
        IF ~run'[k].alone THEN {}
        ELSE IF InFlight(k) THEN inForce[k] \cup Listed' ELSE Listed']

Next ==
    /\ \/ Administration
       \/ \E k \in Runs : StartRun(k) \/ RunStep(k) \/ RunFails(k)
       \/ Restart
       \/ \E x \in Rows : Answer(x)
    /\ Remember

Spec == Init /\ [][Next]_vars

\* node-cron starts the job time and again, and every await returns.
FairSpec ==
    /\ Spec
    /\ WF_cronVars(\E k \in Runs : StartRun(k))
    /\ \A k \in Runs : WF_cronVars(RunStep(k))

----------------------------------------------------------------------------
(* Properties *)

\* Every variable keeps its type.
TypeOK ==
    /\ DirectoryTypeOK
    /\ waiting \subseteq Rows
    /\ cache # None => \E N \in SUBSET FieldNames : cache \in [N -> Contacts \cup {NoContact}]
    /\ \A k \in Runs : run[k].at \in Steps /\ run[k].alone \in BOOLEAN
    /\ faults \in 0 .. MaxFaults /\ overlaps \in 0 .. MaxOverlaps
    /\ spoiled \in BOOLEAN

\* A run that began alone, after one that ended well, finds only ministers that
\* were active at some moment since it began, although the cache outlives the
\* runs, others that begin later fill and empty it too, and the directory moves
\* (loadMinisterialsCache, handleProcessesInAnswerPeriod).
AloneFindsCurrent ==
    \A k \in Runs : run[k].alone /\ cache # None =>
        \A n \in DOMAIN cache : [name |-> n, contact |-> cache[n]] \in inForce[k]

\* The question of x's form is the one its candidate answered, its field has an
\* active minister, each with an address, and no two active ministers share a name.
Mailable(x) ==
    /\ form[FormOf[x]].type = "ministerial" /\ form[FormOf[x]].question = Asked[x]
    /\ \E m \in Active : EntryOf(m).name = Named[x]
    /\ \A m \in Active : EntryOf(m).name = Named[x] => minister[m].contact # NoContact
    /\ \A m, n \in Active : minister[m].name = minister[n].name => m = n

\* A row that stays mailable is mailed in the end: a cache left half filled by a
\* run that failed, or taken away by another that ended, delays it and no more
\* (handleMinisterialForms, loadMinisterialsCache).
MinisterIsMailed == \A x \in Rows : <>[]Mailable(x) => <>(x \notin waiting)
=============================================================================
