-------------------------- MODULE Directory_proofs --------------------------
(***************************************************************************)
(* Proofs about Directory, for any number of requests, forms and ministers *)
(* and for files of any length: the types of its tables, that a field has  *)
(* one minister, whatever is imported, edited and ticked, and that an      *)
(* import puts nobody out of office without a successor.                   *)
(*                                                                         *)
(* An import is a recursive function over the lines of a file.  That it    *)
(* exists, and what it preserves, is proved by induction on the lines,     *)
(* from the least element of a set of naturals.                            *)
(***************************************************************************)
EXTENDS Directory, TLAPS, WellFoundedInduction, FiniteSetTheorems

-----------------------------------------------------------------------------
(* Induction. *)

NatBelow == OpToRel(<, Nat)

\* A set of naturals has a least element.
LEMMA LeastNumber ==
    ASSUME NEW S, S \subseteq Nat, S # {}
    PROVE  \E x \in S : \A y \in S : x <= y
<1>1. \E x \in S : \A y \in S : ~ (<<y, x>> \in NatBelow)
  BY NatLessThanWellFounded, WFMin DEF NatBelow
<1>2. \A x, y \in S : <<y, x>> \notin NatBelow => ~(y < x)
  BY DEF NatBelow, OpToRel
<1>3. \A x, y \in S : ~(y < x) => x <= y OBVIOUS
<1> QED BY <1>1, <1>2, <1>3

\* A set that has nought and with a number the next one has all naturals.
LEMMA Induction ==
    ASSUME NEW T, 0 \in T, \A n \in Nat : n \in T => n + 1 \in T
    PROVE  Nat \subseteq T
<1> SUFFICES ASSUME Nat \ T # {} PROVE FALSE OBVIOUS
<1>1. PICK x \in Nat \ T : \A y \in Nat \ T : x <= y BY LeastNumber
<1>2. x - 1 \in Nat BY <1>1
<1>3. x - 1 \in T BY <1>1, <1>2
<1> QED BY <1>1, <1>2, <1>3

\* The first of some ids is one of them.
LEMMA MinOfNaturals ==
    ASSUME NEW S, S \subseteq Nat, S # {}
    PROVE  Min(S) \in S
BY LeastNumber DEF Min

-----------------------------------------------------------------------------
(* The import of a file. *)

\* g[n] is what a transaction has after n lines of the file.
Passes(view, file, m, g) ==
    g = [n \in 0 .. m |-> IF n = 0 THEN view ELSE ImportLine(g[n - 1], file[n])]

\* There is such a function, up to any line.
LEMMA PassesExist ==
    ASSUME NEW view, NEW file
    PROVE  \A m \in Nat : \E g : Passes(view, file, m, g)
<1> DEFINE T == {m \in Nat : \E g : Passes(view, file, m, g)}
<1>1. 0 \in T
  <2>1. PICK g : g = [n \in 0 .. 0 |-> view] OBVIOUS
  <2>2. Passes(view, file, 0, g) BY <2>1 DEF Passes
  <2> QED BY <2>2
<1>2. ASSUME NEW m \in Nat, m \in T PROVE m + 1 \in T
  <2>1. PICK g : Passes(view, file, m, g) BY <1>2
  <2>2. PICK h : h = [n \in 0 .. m + 1 |->
                        IF n = m + 1 THEN ImportLine(g[m], file[m + 1]) ELSE g[n]]
    OBVIOUS
  <2>3. ASSUME NEW n \in 0 .. m + 1
        PROVE  h[n] = IF n = 0 THEN view ELSE ImportLine(h[n - 1], file[n])
    <3>1. CASE n = m + 1
      <4>1. h[n] = ImportLine(g[m], file[m + 1]) BY <2>2, <3>1
      <4>2. n - 1 = m /\ m \in 0 .. m + 1 /\ m # m + 1 BY <3>1
      <4>3. h[n - 1] = g[m] BY <2>2, <4>2
      <4> QED BY <3>1, <4>1, <4>3
    <3>2. CASE n # m + 1
      <4>1. n \in 0 .. m BY <3>2
      <4>2. h[n] = g[n] BY <2>2, <3>2
      <4>3. g[n] = IF n = 0 THEN view ELSE ImportLine(g[n - 1], file[n])
        BY <2>1, <4>1 DEF Passes
      <4>4. n # 0 => h[n - 1] = g[n - 1] BY <2>2, <4>1
      <4> QED BY <4>2, <4>3, <4>4
    <3> QED BY <3>1, <3>2
  <2>4. Passes(view, file, m + 1, h) BY <2>2, <2>3 DEF Passes
  <2> QED BY <2>4
<1>3. Nat \subseteq T BY <1>1, <1>2, Induction
<1> QED BY <1>3

\* ImportAll is what there is after the last line.
LEMMA ImportAllPasses ==
    ASSUME NEW view, NEW file, Len(file) \in Nat
    PROVE  \E g : Passes(view, file, Len(file), g) /\ ImportAll(view, file) = g[Len(file)]
<1>1. PICK m \in Nat : m = Len(file) OBVIOUS
<1>2. \E g : Passes(view, file, m, g) BY PassesExist
<1>3. \E g : g = [n \in 0 .. Len(file) |-> IF n = 0 THEN view ELSE ImportLine(g[n - 1], file[n])]
  BY <1>1, <1>2 DEF Passes
<1> QED BY <1>3 DEF ImportAll, Passes

\* A transaction knows of fields that are there.
GoodReads(view) ==
    /\ DOMAIN view.reads = {"fields", "ministers"}
    /\ view.reads.fields \subseteq DOMAIN view.field

\* OneMinisterPerField, of what a transaction has.
OneActive(view) ==
    \A m, n \in DOMAIN view.minister :
        /\ view.minister[m].active /\ view.minister[n].active
        /\ view.minister[m].field = view.minister[n].field
        /\ ~view.minister[m].byHand /\ ~view.minister[n].byHand
        => m = n

\* What a transaction has after each line.
Good(view) ==
    /\ DOMAIN view = {"field", "minister", "reads"}
    /\ view.field \in Seq(Field) /\ view.minister \in Seq(Minister)
    /\ \A m \in DOMAIN view.minister : view.minister[m].field \in DOMAIN view.field
    /\ GoodReads(view)
    /\ OneActive(view)

\* The field of a line is there afterwards, found or inserted.
LEMMA WithFieldGood ==
    ASSUME NEW view, Good(view), NEW line \in Lines
    PROVE  /\ Good(WithField(view, line))
           /\ FieldFor(view, line) \in DOMAIN WithField(view, line).field
<1>1. CASE Matching(view, line) # {}
  <2>1. WithField(view, line) = view BY <1>1 DEF WithField
  <2>2. Matching(view, line) \subseteq DOMAIN view.field
    BY DEF Matching, Good, GoodReads
  <2>3. DOMAIN view.field \subseteq Nat BY DEF Good
  <2>4. Min(Matching(view, line)) \in Matching(view, line)
    BY <1>1, <2>2, <2>3, MinOfNaturals
  <2>5. FieldFor(view, line) \in DOMAIN view.field BY <1>1, <2>2, <2>4 DEF FieldFor
  <2> QED BY <2>1, <2>5
<1>2. CASE Matching(view, line) = {}
  <2>1. PICK row : row = [name |-> line.name, acronym |-> line.acronym] OBVIOUS
  <2>2. row \in Field BY <2>1 DEF Lines, Field
  <2>3. PICK f : f = Len(view.field) + 1 OBVIOUS
  <2>4. FieldFor(view, line) = f BY <1>2, <2>3 DEF FieldFor
  <2>5. PICK w : w = WithField(view, line) OBVIOUS
  <2>6. w = [view EXCEPT !.field = Append(view.field, row),
                         !.reads.fields = view.reads.fields \cup {f}]
    BY <1>2, <2>1, <2>4, <2>5 DEF WithField
  <2>7. /\ DOMAIN w = {"field", "minister", "reads"}
        /\ w.field = Append(view.field, row) /\ w.minister = view.minister
        /\ w.reads = [view.reads EXCEPT !.fields = view.reads.fields \cup {f}]
    BY <2>6 DEF Good
  <2>8. w.field \in Seq(Field) /\ DOMAIN w.field = DOMAIN view.field \cup {f}
    BY <2>2, <2>3, <2>7 DEF Good
  <2>9. GoodReads(w) BY <2>7, <2>8 DEF Good, GoodReads
  <2>10. OneActive(w) BY <2>7 DEF Good, OneActive
  <2> QED BY <2>4, <2>5, <2>7, <2>8, <2>9, <2>10 DEF Good
<1> QED BY <1>1, <1>2

\* What becomes of the rows of the ministers: one is added, the active ones of its
\* field are deactivated.
RowsReplaced(view, f, w, n) ==
    /\ w.minister \in Seq(Minister)
    /\ n \notin DOMAIN view.minister /\ DOMAIN w.minister = DOMAIN view.minister \cup {n}
    /\ w.minister[n].field = f /\ w.minister[n].active = TRUE
    /\ \A m \in DOMAIN view.minister :
          IF view.minister[m].field = f /\ view.minister[m].active
          THEN w.minister[m].field = f /\ w.minister[m].active = FALSE
          ELSE w.minister[m] = view.minister[m]

LEMMA ReplacedRows ==
    ASSUME NEW view, Good(view), NEW f \in DOMAIN view.field, NEW person \in Persons,
           NEW w, w = Replaced(view, f, person)
    PROVE  /\ DOMAIN w = {"field", "minister", "reads"} /\ w.field = view.field
           /\ GoodReads(w)
           /\ \E n : RowsReplaced(view, f, w, n)
<1>1. PICK gone : gone = {m \in DOMAIN view.minister :
                             view.minister[m].field = f /\ view.minister[m].active}
  OBVIOUS
<1>2. PICK rows : rows = [m \in DOMAIN view.minister |->
                    IF m \in gone
                    THEN [view.minister[m] EXCEPT !.active = FALSE, !.byHand = FALSE]
                    ELSE view.minister[m]]
  OBVIOUS
<1>3. PICK new : new = NewRow(f, person) OBVIOUS
<1>4. PICK reads : reads = (Len(rows) + 1 :> person)
                               @@ [m \in gone |-> PersonOf(rows[m])] @@ view.reads.ministers
  OBVIOUS
<1>5. w = [view EXCEPT !.minister = Append(rows, new), !.reads.ministers = reads]
  BY <1>1, <1>2, <1>3, <1>4 DEF Replaced
<1>6. /\ DOMAIN w = {"field", "minister", "reads"}
      /\ w.minister = Append(rows, new) /\ w.field = view.field
      /\ w.reads = [view.reads EXCEPT !.ministers = reads]
  BY <1>5 DEF Good
<1>7. new = [name |-> person.name, contact |-> person.contact, field |-> f, active |-> TRUE,
             byHand |-> FALSE]
  BY <1>3 DEF NewRow
<1>8. new \in Minister
  <2>1. f \in Nat BY DEF Good
  <2> QED BY <1>7, <2>1 DEF Persons, Minister
<1>9. ASSUME NEW m \in DOMAIN view.minister
      PROVE  /\ rows[m] \in Minister /\ rows[m].field = view.minister[m].field
             /\ m \in gone => rows[m].active = FALSE
             /\ m \notin gone => rows[m] = view.minister[m]
  <2>1. PICK o \in Minister : o = view.minister[m] BY DEF Good
  <2>2. rows[m] = IF m \in gone THEN [o EXCEPT !.active = FALSE, !.byHand = FALSE] ELSE o
    BY <1>2, <2>1
  <2> QED BY <2>1, <2>2 DEF Minister
<1>10. rows \in Seq(Minister) /\ DOMAIN rows = DOMAIN view.minister
  <2>1. DOMAIN view.minister = 1 .. Len(view.minister) /\ Len(view.minister) \in Nat
    BY DEF Good
  <2>2. rows \in [1 .. Len(view.minister) -> Minister] BY <1>2, <1>9, <2>1
  <2> QED BY <2>1, <2>2
<1>11. PICK n : n = Len(rows) + 1 OBVIOUS
<1>12. /\ w.minister \in Seq(Minister) /\ DOMAIN w.minister = DOMAIN view.minister \cup {n}
       /\ n \notin DOMAIN view.minister
       /\ w.minister[n] = new /\ \A m \in DOMAIN view.minister : w.minister[m] = rows[m]
  BY <1>6, <1>8, <1>10, <1>11
<1>13. new.field = f /\ new.active = TRUE BY <1>7
<1>14. ASSUME NEW m \in DOMAIN view.minister
       PROVE  IF view.minister[m].field = f /\ view.minister[m].active
              THEN w.minister[m].field = f /\ w.minister[m].active = FALSE
              ELSE w.minister[m] = view.minister[m]
  BY <1>1, <1>9, <1>12
<1>15. RowsReplaced(view, f, w, n) BY <1>12, <1>13, <1>14 DEF RowsReplaced
<1>16. GoodReads(w) BY <1>6 DEF Good, GoodReads
<1> QED BY <1>6, <1>15, <1>16

\* The new minister of a field is its only one.
LEMMA ReplacedGood ==
    ASSUME NEW view, Good(view), NEW f \in DOMAIN view.field, NEW person \in Persons
    PROVE  Good(Replaced(view, f, person))
<1>1. PICK w : w = Replaced(view, f, person) OBVIOUS
<1>2. /\ DOMAIN w = {"field", "minister", "reads"} /\ w.field = view.field
      /\ GoodReads(w)
  BY <1>1, ReplacedRows
<1>3. PICK n : RowsReplaced(view, f, w, n) BY <1>1, ReplacedRows
<1>4. \A m \in DOMAIN view.minister : w.minister[m].field = view.minister[m].field
  BY <1>3 DEF RowsReplaced
<1>5. \A m \in DOMAIN w.minister : w.minister[m].field \in DOMAIN w.field
  BY <1>2, <1>3, <1>4 DEF RowsReplaced, Good
<1>6. OneActive(w)
  <2> SUFFICES ASSUME NEW m \in DOMAIN w.minister, NEW l \in DOMAIN w.minister,
                      w.minister[m].active, w.minister[l].active,
                      w.minister[m].field = w.minister[l].field,
                      ~w.minister[m].byHand, ~w.minister[l].byHand
               PROVE  m = l
    BY DEF OneActive
  <2>1. \A k \in DOMAIN view.minister :
           w.minister[k].active => w.minister[k] = view.minister[k] /\ w.minister[k].field # f
    BY <1>3 DEF RowsReplaced
  <2>2. CASE m = n \/ l = n BY <1>3, <2>1, <2>2 DEF RowsReplaced
  <2>3. CASE m # n /\ l # n
    <3>1. m \in DOMAIN view.minister /\ l \in DOMAIN view.minister
      BY <1>3, <2>3 DEF RowsReplaced
    <3>2. w.minister[m] = view.minister[m] /\ w.minister[l] = view.minister[l]
      BY <2>1, <3>1
    <3> QED BY <3>1, <3>2 DEF Good, OneActive
  <2> QED BY <2>2, <2>3
<1>7. w.minister \in Seq(Minister) BY <1>3 DEF RowsReplaced
<1> QED BY <1>1, <1>2, <1>5, <1>6, <1>7 DEF Good

\* One line of a file ...
LEMMA ImportLineGood ==
    ASSUME NEW view, Good(view), NEW line \in Lines
    PROVE  Good(ImportLine(view, line))
<1>1. Good(WithField(view, line)) BY WithFieldGood
<1>2. FieldFor(view, line) \in DOMAIN WithField(view, line).field BY WithFieldGood
<1>3. line.minister # None => line.minister \in Persons BY DEF Lines
<1> QED BY <1>1, <1>2, <1>3, ReplacedGood DEF ImportLine

\* ... and all of them.
LEMMA ImportAllGood ==
    ASSUME NEW view, Good(view), NEW file \in Seq(Lines)
    PROVE  Good(ImportAll(view, file))
<1>1. PICK g : Passes(view, file, Len(file), g) /\ ImportAll(view, file) = g[Len(file)]
  BY ImportAllPasses
<1>2. \A n \in 0 .. Len(file) :
        g[n] = IF n = 0 THEN view ELSE ImportLine(g[n - 1], file[n])
  BY <1>1 DEF Passes
<1> DEFINE T == {n \in Nat : n <= Len(file) => Good(g[n])}
<1>3. 0 \in T BY <1>2
<1>4. ASSUME NEW n \in Nat, n \in T PROVE n + 1 \in T
  <2> SUFFICES ASSUME n + 1 <= Len(file) PROVE Good(g[n + 1]) OBVIOUS
  <2>1. g[n + 1] = ImportLine(g[n], file[n + 1]) BY <1>2
  <2>2. Good(g[n]) BY <1>4
  <2>3. file[n + 1] \in Lines OBVIOUS
  <2> QED BY <2>1, <2>2, <2>3, ImportLineGood
<1>5. Nat \subseteq T BY <1>3, <1>4, Induction
<1> QED BY <1>1, <1>5

\* No field is removed.
LEMMA ImportLineKeepsFields ==
    ASSUME NEW view, Good(view), NEW line \in Lines
    PROVE  DOMAIN view.field \subseteq DOMAIN ImportLine(view, line).field
<1>1. PICK w : w = WithField(view, line) OBVIOUS
<1>2. DOMAIN view.field \subseteq DOMAIN w.field
  <2>1. CASE Matching(view, line) # {} BY <1>1, <2>1 DEF WithField
  <2>2. CASE Matching(view, line) = {}
    <3>1. PICK row : row = [name |-> line.name, acronym |-> line.acronym] OBVIOUS
    <3>2. row \in Field BY <3>1 DEF Lines, Field
    <3>3. w.field = Append(view.field, row) BY <1>1, <2>2, <3>1 DEF WithField, Good
    <3> QED BY <3>2, <3>3 DEF Good
  <2> QED BY <2>1, <2>2
<1>3. Good(w) BY <1>1, WithFieldGood
<1>4. \A f, person : Replaced(w, f, person).field = w.field
  BY <1>3 DEF Replaced, Good
<1> QED BY <1>1, <1>2, <1>4 DEF ImportLine

LEMMA ImportAllKeepsFields ==
    ASSUME NEW view, Good(view), NEW file \in Seq(Lines)
    PROVE  DOMAIN view.field \subseteq DOMAIN ImportAll(view, file).field
<1>1. PICK g : Passes(view, file, Len(file), g) /\ ImportAll(view, file) = g[Len(file)]
  BY ImportAllPasses
<1>2. \A n \in 0 .. Len(file) :
        g[n] = IF n = 0 THEN view ELSE ImportLine(g[n - 1], file[n])
  BY <1>1 DEF Passes
<1> DEFINE T == {n \in Nat : n <= Len(file) =>
                    Good(g[n]) /\ DOMAIN view.field \subseteq DOMAIN g[n].field}
<1>3. 0 \in T BY <1>2
<1>4. ASSUME NEW n \in Nat, n \in T PROVE n + 1 \in T
  <2> SUFFICES ASSUME n + 1 <= Len(file)
               PROVE  Good(g[n + 1]) /\ DOMAIN view.field \subseteq DOMAIN g[n + 1].field
    OBVIOUS
  <2>1. g[n + 1] = ImportLine(g[n], file[n + 1]) BY <1>2
  <2>2. Good(g[n]) /\ DOMAIN view.field \subseteq DOMAIN g[n].field BY <1>4
  <2>3. file[n + 1] \in Lines OBVIOUS
  <2> QED BY <2>1, <2>2, <2>3, ImportLineGood, ImportLineKeepsFields
<1>5. Nat \subseteq T BY <1>3, <1>4, Induction
<1> QED BY <1>1, <1>5

\* ReplacedBySuccessor, of what a transaction has: whoever of the ministers it found is
\* out of office has a successor.
Succeeded(old, view) ==
    /\ DOMAIN old \subseteq DOMAIN view.minister
    /\ \A m \in DOMAIN old : view.minister[m].field = old[m].field
    /\ \A m \in DOMAIN old : old[m].active =>
          \/ view.minister[m].active
          \/ \E n \in DOMAIN view.minister \ DOMAIN old :
                view.minister[n].active /\ view.minister[n].field = old[m].field

LEMMA ReplacedSucceeds ==
    ASSUME NEW view, Good(view), NEW f \in DOMAIN view.field, NEW person \in Persons,
           NEW old, Succeeded(old, view)
    PROVE  Succeeded(old, Replaced(view, f, person))
<1>1. PICK w : w = Replaced(view, f, person) OBVIOUS
<1>2. PICK n : RowsReplaced(view, f, w, n) BY <1>1, ReplacedRows
<1>3. DOMAIN old \subseteq DOMAIN w.minister /\ n \in DOMAIN w.minister \ DOMAIN old
  BY <1>2 DEF RowsReplaced, Succeeded
<1>4. \A m \in DOMAIN old : w.minister[m].field = old[m].field
  BY <1>2 DEF RowsReplaced, Succeeded
<1>5. ASSUME NEW k \in DOMAIN view.minister, view.minister[k].active
      PROVE  \/ w.minister[k].active /\ w.minister[k].field = view.minister[k].field
             \/ view.minister[k].field = f
  BY <1>2, <1>5 DEF RowsReplaced
<1>6. ASSUME NEW m \in DOMAIN old, old[m].active
      PROVE  \/ w.minister[m].active
             \/ \E l \in DOMAIN w.minister \ DOMAIN old :
                   w.minister[l].active /\ w.minister[l].field = old[m].field
  <2>1. CASE old[m].field = f BY <1>2, <1>3, <2>1 DEF RowsReplaced
  <2>2. CASE old[m].field # f
    <3>1. CASE view.minister[m].active BY <1>5, <2>2, <3>1 DEF Succeeded
    <3>2. CASE ~view.minister[m].active
      <4>1. PICK l \in DOMAIN view.minister \ DOMAIN old :
               view.minister[l].active /\ view.minister[l].field = old[m].field
        BY <1>6, <3>2 DEF Succeeded
      <4>2. w.minister[l].active /\ w.minister[l].field = old[m].field BY <1>5, <2>2, <4>1
      <4>3. l \in DOMAIN w.minister BY <1>2 DEF RowsReplaced
      <4> QED BY <4>2, <4>3
    <3> QED BY <3>1, <3>2
  <2> QED BY <2>1, <2>2
<1> QED BY <1>1, <1>3, <1>4, <1>6 DEF Succeeded

LEMMA ImportLineSucceeds ==
    ASSUME NEW view, Good(view), NEW line \in Lines, NEW old, Succeeded(old, view)
    PROVE  Succeeded(old, ImportLine(view, line))
<1>1. PICK w : w = WithField(view, line) OBVIOUS
<1>2. w.minister = view.minister
  <2>1. CASE Matching(view, line) # {} BY <1>1, <2>1 DEF WithField
  <2>2. CASE Matching(view, line) = {} BY <1>1, <2>2 DEF WithField, Good
  <2> QED BY <2>1, <2>2
<1>3. Succeeded(old, w) BY <1>2 DEF Succeeded
<1>4. Good(w) /\ FieldFor(view, line) \in DOMAIN w.field BY <1>1, WithFieldGood
<1>5. line.minister # None => line.minister \in Persons BY DEF Lines
<1> QED BY <1>1, <1>3, <1>4, <1>5, ReplacedSucceeds DEF ImportLine

LEMMA ImportAllSucceeds ==
    ASSUME NEW view, Good(view), NEW file \in Seq(Lines)
    PROVE  Succeeded(view.minister, ImportAll(view, file))
<1>1. PICK g : Passes(view, file, Len(file), g) /\ ImportAll(view, file) = g[Len(file)]
  BY ImportAllPasses
<1>2. \A n \in 0 .. Len(file) :
        g[n] = IF n = 0 THEN view ELSE ImportLine(g[n - 1], file[n])
  BY <1>1 DEF Passes
<1> DEFINE T == {n \in Nat : n <= Len(file) => Good(g[n]) /\ Succeeded(view.minister, g[n])}
<1>3. 0 \in T BY <1>2 DEF Succeeded
<1>4. ASSUME NEW n \in Nat, n \in T PROVE n + 1 \in T
  <2> SUFFICES ASSUME n + 1 <= Len(file)
               PROVE  Good(g[n + 1]) /\ Succeeded(view.minister, g[n + 1])
    OBVIOUS
  <2>1. g[n + 1] = ImportLine(g[n], file[n + 1]) BY <1>2
  <2>2. Good(g[n]) /\ Succeeded(view.minister, g[n]) BY <1>4
  <2>3. file[n + 1] \in Lines OBVIOUS
  <2> QED BY <2>1, <2>2, <2>3, ImportLineGood, ImportLineSucceeds
<1>5. Nat \subseteq T BY <1>3, <1>4, Induction
<1> QED BY <1>1, <1>5

-----------------------------------------------------------------------------
(* The strengthening. *)

FormsTyped ==
    /\ DOMAIN form \subseteq 1 .. nextForm - 1
    /\ form \in [DOMAIN form -> Form]
    /\ nextForm \in 1 .. MaxForms + 1

MinistersTyped ==
    /\ field \in Seq(Field)
    /\ minister \in Seq(Minister)
    /\ \A m \in DOMAIN minister : minister[m].field \in DOMAIN field

\* An import under way knows of fields that are there: none is ever removed.
ImportShape(q) ==
    /\ q.kind = "import" /\ q.file \in Files
    /\ DOMAIN q.reads = {"fields", "ministers"} /\ q.reads.fields \subseteq DOMAIN field

RequestsTyped ==
    /\ request = [r \in Requests |-> request[r]]
    /\ \A r \in Requests : request[r] = None \/ request[r] \in Edits \/ ImportShape(request[r])

RestTyped ==
    /\ answered \subseteq FormIds
    /\ kind \in [Questions -> Kinds]
    /\ edits \in 0 .. MaxEdits
    /\ raced \in BOOLEAN

DirectoryInv ==
    FormsTyped /\ MinistersTyped /\ OneMinisterPerField /\ RequestsTyped /\ RestTyped

LEMMA DirectoryInvTypes == DirectoryInv => DirectoryTypeOK
BY DEF DirectoryInv, FormsTyped, MinistersTyped, RestTyped, DirectoryTypeOK

-----------------------------------------------------------------------------
(* Steps. *)

\* A view of tables that are in order is in order.
LEMMA ViewGood ==
    ASSUME MinistersTyped, OneMinisterPerField, NEW reads,
           DOMAIN reads = {"fields", "ministers"}, reads.fields \subseteq DOMAIN field
    PROVE  Good(View(reads))
<1>1. PICK view : view = View(reads) OBVIOUS
<1>2. /\ DOMAIN view = {"field", "minister", "reads"}
      /\ view.field = field /\ view.minister = minister /\ view.reads = reads
  BY <1>1 DEF View
<1>3. GoodReads(view) BY <1>2 DEF GoodReads
<1>4. OneActive(view)
  BY <1>2 DEF OneActive, OneMinisterPerField, Active
<1>5. Good(view) BY <1>2, <1>3, <1>4 DEF Good, MinistersTyped
<1> QED BY <1>1, <1>5

\* A transaction that found the tables in order leaves them in order.
LEMMA ImportedGood ==
    ASSUME MinistersTyped, OneMinisterPerField, NEW file \in Seq(Lines), NEW reads,
           DOMAIN reads = {"fields", "ministers"}, reads.fields \subseteq DOMAIN field
    PROVE  Good(Imported(reads, file))
BY ViewGood, ImportAllGood DEF Imported

\* ... and no field is removed.
LEMMA ImportedKeepsFields ==
    ASSUME MinistersTyped, OneMinisterPerField, NEW file \in Seq(Lines), NEW reads,
           DOMAIN reads = {"fields", "ministers"}, reads.fields \subseteq DOMAIN field
    PROVE  DOMAIN field \subseteq DOMAIN Imported(reads, file).field
<1>1. View(reads).field = field BY DEF View
<1> QED BY <1>1, ViewGood, ImportAllKeepsFields DEF Imported

\* A request that is answered is gone.
LEMMA DoneKeeps ==
    ASSUME RequestsTyped, DOMAIN field \subseteq DOMAIN field', NEW r \in Requests, Done(r)
    PROVE  RequestsTyped'
<1>1. request' = [request EXCEPT ![r] = None] BY DEF Done
<1>2. request' = [q \in Requests |-> request'[q]] BY <1>1 DEF RequestsTyped
<1>3. \A q \in Requests : request'[q] = None \/ request'[q] = request[q]
  BY <1>1 DEF RequestsTyped
<1>4. \A q : ImportShape(q) => ImportShape(q)' BY DEF ImportShape
<1> QED BY <1>2, <1>3, <1>4 DEF RequestsTyped

\* A request that begins.
LEMMA AskedKeeps ==
    ASSUME RequestsTyped, field' = field, NEW r \in Requests, NEW e,
           e \in Edits \/ ImportShape(e), request' = [request EXCEPT ![r] = e]
    PROVE  RequestsTyped'
<1>1. request' = [q \in Requests |-> request'[q]] BY DEF RequestsTyped
<1>2. \A q \in Requests : request'[q] = e \/ request'[q] = request[q] BY DEF RequestsTyped
<1>3. \A q : ImportShape(q) => ImportShape(q)' BY DEF ImportShape
<1> QED BY <1>1, <1>2, <1>3 DEF RequestsTyped

\* An edit of each kind has the fields of that kind.
LEMMA EditFields ==
    ASSUME RequestsTyped, NEW r \in Requests, request[r] # None, NEW e, e = request[r]
    PROVE  /\ e.kind = "createForm" =>
                  e.process \in Processes /\ e.type \in Types
                      /\ e.question \in Questions \cup {None}
           /\ e.kind = "updateForm" => e.type \in Types /\ e.question \in Questions \cup {None}
           /\ e.kind = "updateQuestion" => e.question \in Questions /\ e.to \in Kinds
           /\ e.kind = "import" => ImportShape(e)
<1>1. e \in Edits \/ ImportShape(e) BY DEF RequestsTyped
<1> QED BY <1>1 DEF Edits, ImportShape

LEMMA MinistersKept ==
    ASSUME MinistersTyped, OneMinisterPerField, UNCHANGED <<field, minister>>
    PROVE  MinistersTyped' /\ OneMinisterPerField'
BY DEF MinistersTyped, OneMinisterPerField, Active

LEMMA CreateFormTypes ==
    ASSUME DirectoryInv, NEW r \in Requests, CreateForm(r)
    PROVE  DirectoryInv'
<1>1. PICK new : new = [process |-> request[r].process, type |-> request[r].type,
                        question |-> request[r].question]
  OBVIOUS
<1>2. /\ form' = [f \in DOMAIN form \cup {nextForm} |-> IF f = nextForm THEN new ELSE form[f]]
      /\ nextForm' = nextForm + 1 /\ nextForm <= MaxForms
  BY <1>1 DEF CreateForm
<1>3. new \in Form
  <2>1. request[r] # None /\ request[r].kind = "createForm" BY DEF CreateForm, Due
  <2> QED BY <1>1, <2>1, EditFields DEF DirectoryInv, Form
<1>4. FormsTyped'
  <2>1. nextForm \in 1 .. MaxForms + 1 /\ DOMAIN form \subseteq 1 .. nextForm - 1
    BY DEF DirectoryInv, FormsTyped
  <2>2. nextForm' \in 1 .. MaxForms + 1 BY <1>2, <2>1, DirectoryAssumption
  <2>3. DOMAIN form' = DOMAIN form \cup {nextForm} BY <1>2
  <2>4. DOMAIN form' \subseteq 1 .. nextForm' - 1 BY <1>2, <2>1, <2>3
  <2>5. form' \in [DOMAIN form' -> Form] BY <1>2, <1>3 DEF DirectoryInv, FormsTyped
  <2> QED BY <2>2, <2>4, <2>5 DEF FormsTyped
<1>5. RequestsTyped' BY DoneKeeps DEF DirectoryInv, CreateForm
<1>6. RestTyped' BY DEF DirectoryInv, RestTyped, CreateForm, Judge
<1>7. MinistersTyped' /\ OneMinisterPerField' BY MinistersKept DEF DirectoryInv, CreateForm
<1> QED BY <1>4, <1>5, <1>6, <1>7 DEF DirectoryInv

LEMMA UpdateFormTypes ==
    ASSUME DirectoryInv, NEW r \in Requests, UpdateForm(r)
    PROVE  DirectoryInv'
<1>1. PICK e, q : e = request[r] /\ q = QuestionWritten(e.type, e.question) OBVIOUS
<1>2. /\ form' = [f \in DOMAIN form |->
                     IF f = e.form THEN [form[f] EXCEPT !.type = e.type, !.question = q]
                     ELSE form[f]]
      /\ nextForm' = nextForm
  BY <1>1 DEF UpdateForm
<1>3. e.type \in Types /\ q \in Questions \cup {None}
  <2>1. e # None /\ e.kind = "updateForm" BY <1>1 DEF UpdateForm, Due
  <2> QED BY <1>1, <2>1, EditFields DEF DirectoryInv, QuestionWritten
<1>4. FormsTyped'
  <2>1. DOMAIN form' = DOMAIN form BY <1>2
  <2>2. ASSUME NEW f \in DOMAIN form PROVE form'[f] \in Form
    <3>1. PICK o \in Form : o = form[f] BY DEF DirectoryInv, FormsTyped
    <3>2. form'[f] = IF f = e.form THEN [o EXCEPT !.type = e.type, !.question = q] ELSE o
      BY <1>2, <3>1
    <3> QED BY <1>3, <3>1, <3>2 DEF Form
  <2>3. form' \in [DOMAIN form' -> Form] BY <1>2, <2>1, <2>2
  <2> QED BY <1>2, <2>1, <2>3 DEF DirectoryInv, FormsTyped
<1>5. RequestsTyped' BY DoneKeeps DEF DirectoryInv, UpdateForm
<1>6. RestTyped' BY DEF DirectoryInv, RestTyped, UpdateForm, Judge
<1>7. MinistersTyped' /\ OneMinisterPerField' BY MinistersKept DEF DirectoryInv, UpdateForm
<1> QED BY <1>4, <1>5, <1>6, <1>7 DEF DirectoryInv

LEMMA DeleteFormTypes ==
    ASSUME DirectoryInv, NEW r \in Requests, NEW F, DeleteForm(r, F)
    PROVE  DirectoryInv'
<1>1. form' = [g \in DOMAIN form \ {request[r].form} |-> form[g]] /\ nextForm' = nextForm
  BY DEF DeleteForm
<1>2. FormsTyped' BY <1>1 DEF DirectoryInv, FormsTyped
<1>3. RequestsTyped' BY DoneKeeps DEF DirectoryInv, DeleteForm
<1>4. RestTyped' BY DEF DirectoryInv, RestTyped, DeleteForm, Judge
<1>5. MinistersTyped' /\ OneMinisterPerField' BY MinistersKept DEF DirectoryInv, DeleteForm
<1> QED BY <1>2, <1>3, <1>4, <1>5 DEF DirectoryInv

LEMMA UpdateQuestionTypes ==
    ASSUME DirectoryInv, NEW r \in Requests, UpdateQuestion(r)
    PROVE  DirectoryInv'
<1>1. request[r].question \in Questions /\ request[r].to \in Kinds
  <2>1. request[r] # None /\ request[r].kind = "updateQuestion" BY DEF UpdateQuestion, Due
  <2> QED BY <2>1, EditFields DEF DirectoryInv
<1>2. kind' \in [Questions -> Kinds] BY <1>1 DEF DirectoryInv, RestTyped, UpdateQuestion
<1>3. RestTyped' BY <1>2 DEF DirectoryInv, RestTyped, UpdateQuestion, Judge
<1>4. FormsTyped' BY DEF DirectoryInv, FormsTyped, UpdateQuestion
<1>5. RequestsTyped' BY DoneKeeps DEF DirectoryInv, UpdateQuestion
<1>6. MinistersTyped' /\ OneMinisterPerField' BY MinistersKept DEF DirectoryInv, UpdateQuestion
<1> QED BY <1>3, <1>4, <1>5, <1>6 DEF DirectoryInv

LEMMA AskEditTypes ==
    ASSUME DirectoryInv, NEW r \in Requests, AskEdit(r)
    PROVE  DirectoryInv'
<1>1. RequestsTyped' BY AskedKeeps DEF DirectoryInv, AskEdit
<1>2. FormsTyped' BY DEF DirectoryInv, FormsTyped, AskEdit
<1>3. RestTyped' BY DirectoryAssumption DEF DirectoryInv, RestTyped, AskEdit
<1>4. MinistersTyped' /\ OneMinisterPerField' BY MinistersKept DEF DirectoryInv, AskEdit
<1> QED BY <1>1, <1>2, <1>3, <1>4 DEF DirectoryInv

LEMMA BeginImportTypes ==
    ASSUME DirectoryInv, NEW r \in Requests, BeginImport(r)
    PROVE  DirectoryInv'
<1>1. PICK file \in Files :
        request' = [request EXCEPT ![r] = [kind |-> "import", file |-> file, reads |-> Reading]]
  BY DEF BeginImport
<1>2. ImportShape([kind |-> "import", file |-> file, reads |-> Reading])
  BY DEF ImportShape, Reading
<1>3. RequestsTyped' BY <1>1, <1>2, AskedKeeps DEF DirectoryInv, BeginImport
<1>4. FormsTyped' BY DEF DirectoryInv, FormsTyped, BeginImport
<1>5. RestTyped' BY DirectoryAssumption DEF DirectoryInv, RestTyped, BeginImport
<1>6. MinistersTyped' /\ OneMinisterPerField' BY MinistersKept DEF DirectoryInv, BeginImport
<1> QED BY <1>3, <1>4, <1>5, <1>6 DEF DirectoryInv

\* Whatever was written since its first query, the import leaves one minister.
LEMMA CommitImportTypes ==
    ASSUME DirectoryInv, NEW r \in Requests, CommitImport(r)
    PROVE  DirectoryInv'
<1>1. PICK after : after = Imported(request[r].reads, request[r].file) OBVIOUS
<1>2. field' = after.field /\ minister' = after.minister BY <1>1 DEF CommitImport
<1>3. ImportShape(request[r])
  <2>1. request[r] # None /\ request[r].kind = "import" BY DEF CommitImport, Due
  <2> QED BY <2>1, EditFields DEF DirectoryInv
<1>4. request[r].file \in Seq(Lines) BY <1>3, DirectoryAssumption DEF ImportShape
<1>5. Good(after) BY <1>1, <1>3, <1>4, ImportedGood DEF DirectoryInv, ImportShape
<1>6. MinistersTyped' /\ OneMinisterPerField'
  BY <1>2, <1>5 DEF Good, OneActive, MinistersTyped, OneMinisterPerField, Active
<1>7. DOMAIN field \subseteq DOMAIN field'
  BY <1>1, <1>2, <1>3, <1>4, ImportedKeepsFields DEF DirectoryInv, ImportShape
<1>8. RequestsTyped' BY <1>7, DoneKeeps DEF DirectoryInv, CommitImport
<1>9. FormsTyped' BY DEF DirectoryInv, FormsTyped, CommitImport
<1>10. RestTyped' BY DEF DirectoryInv, RestTyped, CommitImport
<1> QED BY <1>6, <1>8, <1>9, <1>10 DEF DirectoryInv

\* Who is ticked active by hand does not count, who is unticked is not active.
LEMMA UpdateMinisterTypes ==
    ASSUME DirectoryInv, NEW m \in DOMAIN minister, NEW person \in Persons,
           NEW tick \in BOOLEAN \cup {None}, UpdateMinister(m, person, tick)
    PROVE  DirectoryInv'
<1>1. PICK o \in Minister : o = minister[m] BY DEF DirectoryInv, MinistersTyped
<1>2. PICK row : row = [o EXCEPT !.name = person.name, !.contact = person.contact] OBVIOUS
<1>3. PICK new : new = IF tick = None THEN row
                       ELSE [row EXCEPT !.active = tick, !.byHand = tick]
  OBVIOUS
<1>4. minister' = [minister EXCEPT ![m] = new] /\ field' = field
  BY <1>1, <1>2, <1>3 DEF UpdateMinister
<1>5. row \in Minister /\ row.field = o.field /\ row.active = o.active /\ row.byHand = o.byHand
  BY <1>2 DEF Minister, Persons
<1>6. /\ new \in Minister /\ new.field = o.field
      /\ new.active /\ ~new.byHand => o.active /\ ~o.byHand
  BY <1>3, <1>5 DEF Minister
<1>7. /\ minister' \in Seq(Minister) /\ DOMAIN minister' = DOMAIN minister
      /\ minister'[m] = new /\ \A l \in DOMAIN minister : l # m => minister'[l] = minister[l]
  BY <1>4, <1>6 DEF DirectoryInv, MinistersTyped
<1>8. MinistersTyped' BY <1>1, <1>4, <1>6, <1>7 DEF DirectoryInv, MinistersTyped
<1>9. \A l \in DOMAIN minister :
        /\ minister'[l].field = minister[l].field
        /\ minister'[l].active /\ ~minister'[l].byHand =>
               minister[l].active /\ ~minister[l].byHand
  BY <1>1, <1>6, <1>7
<1>10. OneMinisterPerField' BY <1>7, <1>9 DEF DirectoryInv, OneMinisterPerField, Active
<1>11. RequestsTyped' BY <1>4 DEF DirectoryInv, RequestsTyped, ImportShape, UpdateMinister
<1>12. FormsTyped' BY DEF DirectoryInv, FormsTyped, UpdateMinister
<1>13. RestTyped' BY DirectoryAssumption DEF DirectoryInv, RestTyped, UpdateMinister
<1> QED BY <1>8, <1>10, <1>11, <1>12, <1>13 DEF DirectoryInv

LEMMA NothingWrittenTypes ==
    ASSUME DirectoryInv, NEW r \in Requests, NothingWritten(r)
    PROVE  DirectoryInv'
<1>1. RequestsTyped' BY DoneKeeps DEF DirectoryInv, NothingWritten
<1>2. FormsTyped' BY DEF DirectoryInv, FormsTyped, NothingWritten
<1>3. RestTyped' BY DEF DirectoryInv, RestTyped, NothingWritten
<1>4. MinistersTyped' /\ OneMinisterPerField' BY MinistersKept DEF DirectoryInv, NothingWritten
<1> QED BY <1>1, <1>2, <1>3, <1>4 DEF DirectoryInv

\* Whatever administrators do.
LEMMA DirectoryNextKeeps ==
    ASSUME DirectoryInv, NEW F, DirectoryNext(F)
    PROVE  DirectoryInv'
BY AskEditTypes, CreateFormTypes, UpdateFormTypes, DeleteFormTypes, UpdateQuestionTypes,
   BeginImportTypes, CommitImportTypes, NothingWrittenTypes, UpdateMinisterTypes
   DEF DirectoryNext

\* Who leaves office in a step of administrators is replaced or unticked by hand.
LEMMA DirectorySucceeds ==
    ASSUME DirectoryInv, NEW F, DirectoryNext(F), NEW m \in Active \ Active', edits' = edits
    PROVE  \E n \in Active' \ DOMAIN minister : minister'[n].field = minister[m].field
<1>1. ASSUME NEW r \in Requests, CommitImport(r)
      PROVE  \E n \in Active' \ DOMAIN minister : minister'[n].field = minister[m].field
  <2>1. PICK view : view = View(request[r].reads) OBVIOUS
  <2>2. PICK after : after = ImportAll(view, request[r].file) OBVIOUS
  <2>3. minister' = after.minister BY <1>1, <2>1, <2>2 DEF CommitImport, Imported
  <2>4. ImportShape(request[r])
    <3>1. request[r] # None /\ request[r].kind = "import" BY <1>1 DEF CommitImport, Due
    <3> QED BY <3>1, EditFields DEF DirectoryInv
  <2>5. request[r].file \in Seq(Lines) BY <2>4, DirectoryAssumption DEF ImportShape
  <2>6. Good(view) /\ view.minister = minister
    BY <2>1, <2>4, ViewGood DEF DirectoryInv, ImportShape, View
  <2>7. Succeeded(minister, after) BY <2>2, <2>5, <2>6, ImportAllSucceeds
  <2>8. minister[m].active /\ m \in DOMAIN minister /\ ~after.minister[m].active
    BY <2>3, <2>7 DEF Active, Succeeded
  <2>9. PICK n \in DOMAIN after.minister \ DOMAIN minister :
           after.minister[n].active /\ after.minister[n].field = minister[m].field
    BY <2>7, <2>8 DEF Succeeded
  <2> QED BY <2>3, <2>9 DEF Active
<1>2. CASE \E l \in DOMAIN minister, person \in Persons, tick \in BOOLEAN \cup {None} :
              UpdateMinister(l, person, tick)
  <2>1. edits \in Nat /\ edits' = edits + 1
    BY <1>2, DirectoryAssumption DEF UpdateMinister, DirectoryInv, RestTyped
  <2> QED BY <2>1
<1>3. CASE minister' = minister BY <1>3 DEF Active
<1> QED
  BY <1>1, <1>2, <1>3 DEF DirectoryNext, AskEdit, CreateForm, UpdateForm, DeleteForm,
     UpdateQuestion, BeginImport, NothingWritten

\* The tables at first.
LEMMA DirectoryInitInv ==
    ASSUME NEW forms \in Seq(Form), Len(forms) <= MaxForms, NEW filled,
           filled \subseteq DOMAIN forms, NEW file \in Seq(Lines),
           DirectoryInit(forms, filled, file)
    PROVE  DirectoryInv
<1>1. Cardinality(DOMAIN forms) = Len(forms)
  <2>1. PICK n \in Nat : n = Len(forms) OBVIOUS
  <2>2. Cardinality(1 .. n) = n BY FS_Interval
  <2>3. DOMAIN forms = 1 .. n BY <2>1
  <2> QED BY <2>1, <2>2, <2>3
<1>2. FormsTyped BY <1>1, DirectoryAssumption DEF FormsTyped, DirectoryInit
<1>3. PICK nothing : nothing = [field |-> <<>>, minister |-> <<>>,
                                reads |-> [fields |-> {}, ministers |-> <<>>]]
  OBVIOUS
<1>4. Good(nothing) BY <1>3 DEF Good, GoodReads, OneActive
<1>5. PICK first : first = ImportAll(nothing, file) OBVIOUS
<1>6. Good(first) BY <1>4, <1>5, ImportAllGood
<1>7. field = first.field /\ minister = first.minister
  BY <1>3, <1>5 DEF DirectoryInit
<1>8. MinistersTyped /\ OneMinisterPerField
  BY <1>6, <1>7 DEF Good, OneActive, MinistersTyped, OneMinisterPerField, Active
<1>9. RequestsTyped BY DEF RequestsTyped, DirectoryInit
<1>10. filled \subseteq FormIds
  <2>1. DOMAIN forms = 1 .. Len(forms) /\ MaxForms \in Nat BY DirectoryAssumption
  <2> QED BY <2>1 DEF FormIds
<1>11. /\ answered = filled /\ kind = FirstKind /\ edits = 0 /\ raced = FALSE
  BY DEF DirectoryInit
<1>12. RestTyped
  <2>1. edits \in 0 .. MaxEdits BY <1>11, DirectoryAssumption
  <2>2. kind \in [Questions -> Kinds] BY <1>11, DirectoryAssumption
  <2>3. raced \in BOOLEAN BY <1>11
  <2> QED BY <1>10, <1>11, <2>1, <2>2, <2>3 DEF RestTyped
<1> QED BY <1>2, <1>8, <1>9, <1>12 DEF DirectoryInv

=============================================================================
