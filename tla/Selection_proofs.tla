--------------------------- MODULE Selection_proofs ---------------------------
(***************************************************************************)
(* Proofs about Selection: the types, the balance of a distribution for    *)
(* any candidates and any interviewers, and what the decisions, the        *)
(* assignments, the rates and the comments have to do with each other.     *)
(***************************************************************************)
EXTENDS Selection, FiniteSetTheorems, TLAPS

-----------------------------------------------------------------------------
(* The strengthening. *)

\* Loads are compared over n places; `Ahead` is the extra one of a round that
\* has reached place p.
Ahead(i, p) == IF i <= p THEN 1 ELSE 0
Turn(g, n, t, p) == \A i \in 1..n : Load(g, i, Candidates) = t + Ahead(i, p)
Since(g, n, C, t, p) ==
    \A i \in 1..n : Load(g, i, C) + t + Ahead(i, p) = Load(g, i, Candidates)
\* A window is a status or a group: the distribution enters it, stays in it to
\* its end and leaves it.
Before(g, n, C) == \A i \in 1..n : Load(g, i, C) = 0
Inside(g, n, C) == \E t \in Nat, p \in 0..(n - 1) : Since(g, n, C, t, p)
Past(g, n, L, C) ==
    /\ \A c \in C \cap L : g[c] # 0
    /\ \A i, j \in 1..n : Load(g, i, C) <= Load(g, j, C) + 1
Window(g, n, L, C) == Before(g, n, C) \/ Inside(g, n, C) \/ Past(g, n, L, C)
InOrder(g, L) == \A c, d \in L : g[c] # 0 /\ g[d] = 0 => ~Precedes(d, c)
Dealt(g, n, L) ==
    /\ \A c \in Candidates : c \notin L => g[c] = 0
    /\ InOrder(g, L)
    /\ \E t \in Nat, p \in 0..(n - 1) : Turn(g, n, t, p)
    /\ \A c \in Candidates : /\ Window(g, n, L, SameStatus(c))
                             /\ Window(g, n, L, SameGroup(c))

\* What a request knows of the records when it comes to write.
Drawn(r) == r.pc \in {"calculate", "save"} =>
    /\ \A c \in r.list : Statuses[c] \subseteq {0, 8}
    /\ \A c \in Candidates : r.given[c] \in 0..Len(r.crowd)
    /\ Dealt(r.given, Len(r.crowd), r.list)
    /\ r.pc = "save" => \A c \in r.list : r.given[c] # 0
Reviewed(r) ==
    /\ r.pc \in {"calculate", "save"} =>
          \A c \in r.list : approved[c] # Unreviewed
    /\ r.pc \in {"assignable", "assign"} => approved[r.cand] # Unreviewed
Entitled(r) ==
    r.pc \in {"rateable", "rateNew", "rate", "comment"} =>
        r.user \in assignees[r.cand]
Ordered(r) == r.pc = "process" => r.answers <= r.end
RequestOK(r) == Drawn(r) /\ Reviewed(r) /\ Entitled(r) /\ Ordered(r)
RequestsOK == \A h \in Handlers : RequestOK(req[h])

Assigned == \A c \in Candidates :
    interviewer[c] # NoUser => interviewer[c] \in assignees[c]
CronOK == cron.pc = "approve" => cron.cand \in cron.todo

\* The rates of a key, and the requests about to add another.
RowsLike(i) == {j \in DOMAIN rates : SameRate(rates[i], rates[j])}
PendingLike(i) ==
    {h \in Handlers : At(h, "rate") /\ SameRate(rates[i], req[h])}
RatesCounted == \A i \in DOMAIN rates :
    Cardinality(RowsLike(i)) + Cardinality(PendingLike(i))
        <= Cardinality(Handlers)

IInv == /\ TypeOK
        /\ RequestsOK
        /\ Assigned
        /\ CronOK
        /\ RatesCounted
        /\ AssignedWasReviewed
        /\ WritersWereAssigned

-----------------------------------------------------------------------------
(* Loads. *)

LEMMA LoadType ==
    ASSUME NEW g, NEW i, NEW C \in SUBSET Candidates
    PROVE  /\ Load(g, i, C) \in Nat
           /\ IsFiniteSet({c \in C : g[c] = i})
<1>1. IsFiniteSet(C) BY PeopleAssumption, FS_Subset
<1>2. IsFiniteSet({c \in C : g[c] = i}) BY <1>1, FS_Subset
<1> QED BY <1>2, FS_CardinalityType DEF Load

\* One more candidate has a place.
LEMMA LoadMore ==
    ASSUME NEW g, NEW f, NEW C \in SUBSET Candidates, NEW c \in C,
           NEW i \in Nat \ {0}, g[c] = 0, f[c] = i,
           \A d \in Candidates : d # c => f[d] = g[d]
    PROVE  Load(f, i, C) = Load(g, i, C) + 1
<1>1. PICK A : A = {d \in C : g[d] = i} OBVIOUS
<1>2. PICK B : B = {d \in C : f[d] = i} OBVIOUS
<1>3. IsFiniteSet(A)
  <2>1. IsFiniteSet(C) BY PeopleAssumption, FS_Subset
  <2> QED BY <1>1, <2>1, FS_Subset
<1>4. B = A \cup {c} /\ c \notin A BY <1>1, <1>2
<1>5. Cardinality(B) = Cardinality(A) + 1 BY <1>3, <1>4, FS_AddElement
<1> QED BY <1>1, <1>2, <1>5 DEF Load

LEMMA LoadSame ==
    ASSUME NEW g, NEW f, NEW C \in SUBSET Candidates, NEW c, NEW i,
           NEW j \in Nat \ {0}, g[c] = 0, f[c] = i,
           \A d \in Candidates : d # c => f[d] = g[d],
           ~(j = i /\ c \in C)
    PROVE  Load(f, j, C) = Load(g, j, C)
<1>1. {d \in C : f[d] = j} = {d \in C : g[d] = j} OBVIOUS
<1> QED BY <1>1 DEF Load

LEMMA KeyTypes ==
    ASSUME NEW c \in Candidates
    PROVE  MaritalKey(c) \in 1..7 /\ AgeGroup(c) \in 1..3
<1>1. AgeGroup(c) \in 1..3 BY DEF AgeGroup
<1>2. MaritalKey(c) \in 1..7 BY DEF MaritalKey
<1> QED BY <1>1, <1>2

LEMMA WindowsOf ==
    ASSUME NEW c \in Candidates
    PROVE  /\ SameStatus(c) \in SUBSET Candidates
           /\ SameGroup(c) \in SUBSET Candidates
           /\ c \in SameStatus(c) /\ c \in SameGroup(c)
BY DEF SameStatus, SameGroup

\* The next place: the loops choose the one the round has reached.
LEMMA NextPlace ==
    ASSUME NEW g, NEW n \in Nat \ {0}, NEW t \in Nat, NEW p \in 0..(n - 1),
           Turn(g, n, t, p), NEW c \in Candidates, NEW i \in 1..n,
           Before(g, n, SameGroup(c)) \/ Inside(g, n, SameGroup(c)),
           \A j \in 1..n : Prefers(g, c, i, j)
    PROVE  i = p + 1
<1>1. PICK j \in 1..n : j = p + 1 OBVIOUS
<1>2. Prefers(g, c, i, j) BY <1>1
<1>3. PICK Gi, Gj, Ti, Tj : /\ Gi = Load(g, i, SameGroup(c))
                            /\ Gj = Load(g, j, SameGroup(c))
                            /\ Ti = Load(g, i, Candidates)
                            /\ Tj = Load(g, j, Candidates)
  OBVIOUS
<1>4. Gi \in Nat /\ Gj \in Nat /\ Ti \in Nat /\ Tj \in Nat
  BY <1>3, WindowsOf, LoadType
<1>5. \/ Gi < Gj
      \/ Gi = Gj /\ Ti < Tj
      \/ Gi = Gj /\ Ti = Tj /\ i <= j
  BY <1>2, <1>3 DEF Prefers
<1>6. Ti = t + Ahead(i, p) /\ Tj = t + Ahead(j, p) BY <1>3 DEF Turn
<1>7. CASE Before(g, n, SameGroup(c))
  <2>1. Gi = 0 /\ Gj = 0 BY <1>3, <1>7 DEF Before
  <2> QED BY <1>1, <1>5, <1>6, <2>1 DEF Ahead
<1>8. CASE Inside(g, n, SameGroup(c))
  <2>1. PICK s \in Nat, q \in 0..(n - 1) :
           /\ Gi + s + Ahead(i, q) = Ti
           /\ Gj + s + Ahead(j, q) = Tj
    BY <1>3, <1>8 DEF Inside, Since
  <2>2. /\ Gi + s + Ahead(i, q) = t + Ahead(i, p)
        /\ Gj + s + Ahead(j, q) = t + Ahead(j, p)
    BY <1>6, <2>1
  <2>3. Gi < Gj \/ (Gi = Gj /\ (Ti < Tj \/ (Ti = Tj /\ i <= j))) BY <1>5
  <2> QED BY <1>1, <1>4, <1>6, <2>2, <2>3 DEF Ahead
<1> QED BY <1>7, <1>8

\* Two windows in one state of a round are level.
LEMMA InsideIsLevel ==
    ASSUME NEW g, NEW n \in Nat \ {0}, NEW C \in SUBSET Candidates,
           NEW t \in Nat, NEW p \in 0..(n - 1), Turn(g, n, t, p),
           Inside(g, n, C), NEW i \in 1..n, NEW j \in 1..n
    PROVE  Load(g, i, C) <= Load(g, j, C) + 1
<1>1. PICK s \in Nat, q \in 0..(n - 1) : Since(g, n, C, s, q) BY DEF Inside
<1>2. PICK Gi, Gj, Ti, Tj : /\ Gi = Load(g, i, C)
                            /\ Gj = Load(g, j, C)
                            /\ Ti = Load(g, i, Candidates)
                            /\ Tj = Load(g, j, Candidates)
  OBVIOUS
<1>3. Gi \in Nat /\ Gj \in Nat BY <1>2, LoadType
<1>4. /\ Gi + s + Ahead(i, q) = Ti
      /\ Gj + s + Ahead(j, q) = Tj
      /\ Ti = t + Ahead(i, p) /\ Tj = t + Ahead(j, p)
  BY <1>1, <1>2 DEF Since, Turn
<1>5. Gi <= Gj + 1 BY <1>3, <1>4 DEF Ahead
<1> QED BY <1>2, <1>5

\* A window the distribution has left has nobody waiting.
LEMMA LeftBehind ==
    ASSUME NEW L \in SUBSET Candidates, NEW x \in Candidates,
           NEW C \in {SameStatus(x), SameGroup(x)},
           NEW b \in C \cap L, NEW c \in L \ C, NEW d \in C \cap L,
           ~Precedes(d, c), ~Precedes(c, b)
    PROVE  FALSE
<1>1. ~Precedes(d, c) /\ ~Precedes(c, b) OBVIOUS
<1>2. PICK kb, kc, kd, ab, ac, ad :
         /\ kb = MaritalKey(b) /\ kc = MaritalKey(c) /\ kd = MaritalKey(d)
         /\ ab = AgeGroup(b) /\ ac = AgeGroup(c) /\ ad = AgeGroup(d)
  OBVIOUS
<1>3. /\ b \in Candidates /\ c \in Candidates /\ d \in Candidates
  OBVIOUS
<1>4. /\ kb \in Int /\ kc \in Int /\ kd \in Int
      /\ ab \in Int /\ ac \in Int /\ ad \in Int
  BY <1>2, <1>3, KeyTypes
<1>5. /\ ~(kd < kc \/ (kd = kc /\ ad < ac))
      /\ ~(kc < kb \/ (kc = kb /\ ac < ab))
  BY <1>1, <1>2 DEF Precedes
<1>6. CASE C = SameStatus(x)
  <2>1. kb = kd /\ kc # kd BY <1>2, <1>3, <1>6 DEF SameStatus
  <2> QED BY <1>4, <1>5, <2>1
<1>7. CASE C = SameGroup(x)
  <2>1. kb = kd /\ ab = ad /\ ~(kc = kd /\ ac = ad)
    BY <1>2, <1>3, <1>7 DEF SameGroup, SameStatus
  <2> QED BY <1>4, <1>5, <2>1
<1> QED BY <1>6, <1>7

\* One candidate is dealt to the interviewer the loops prefer.
LEMMA DealtStep ==
    ASSUME NEW L \in SUBSET Candidates, NEW n \in Nat \ {0},
           NEW g \in [Candidates -> 0..n], Dealt(g, n, L),
           NEW c \in L, g[c] = 0, \A d \in L : g[d] = 0 => ~Precedes(d, c),
           NEW i \in 1..n, \A j \in 1..n : Prefers(g, c, i, j),
           NEW f \in [Candidates -> 0..n], f[c] = i,
           \A d \in Candidates : d # c => f[d] = g[d]
    PROVE  Dealt(f, n, L)
<1>1. /\ f[c] = i
      /\ \A d \in Candidates : d # c => f[d] = g[d]
  OBVIOUS
<1>2. PICK t \in Nat, p \in 0..(n - 1) : Turn(g, n, t, p) BY DEF Dealt
<1>3. \A x \in Candidates : \A C \in {SameStatus(x), SameGroup(x)} :
         C \in SUBSET Candidates /\ Window(g, n, L, C)
  BY WindowsOf DEF Dealt
<1>4. ASSUME NEW C, c \in C, Window(g, n, L, C)
      PROVE  Before(g, n, C) \/ Inside(g, n, C)
  <2>1. ~Past(g, n, L, C) BY <1>4 DEF Past
  <2> QED BY <1>4, <2>1 DEF Window
<1>5. i = p + 1
  <2>1. c \in SameGroup(c) /\ Window(g, n, L, SameGroup(c)) BY <1>3, WindowsOf
  <2>2. Before(g, n, SameGroup(c)) \/ Inside(g, n, SameGroup(c))
    BY <1>4, <2>1
  <2> QED BY <1>2, <2>2, NextPlace
<1>6. ASSUME NEW C \in SUBSET Candidates, NEW j \in 1..n
      PROVE  /\ Load(g, j, C) \in Nat
             /\ j = i /\ c \in C => Load(f, j, C) = Load(g, j, C) + 1
             /\ ~(j = i /\ c \in C) => Load(f, j, C) = Load(g, j, C)
  <2>1. /\ c \in Candidates /\ i \in Nat \ {0} /\ j \in Nat \ {0}
    OBVIOUS
  <2>2. Load(g, j, C) \in Nat BY LoadType
  <2>3. CASE j = i /\ c \in C
    <3>1. Load(f, i, C) = Load(g, i, C) + 1 BY <1>1, <2>1, <2>3, LoadMore
    <3> QED BY <2>2, <2>3, <3>1
  <2>4. CASE ~(j = i /\ c \in C)
    <3>1. Load(f, j, C) = Load(g, j, C) BY <1>1, <2>1, <2>4, LoadSame
    <3> QED BY <2>2, <2>4, <3>1
  <2> QED BY <2>3, <2>4
<1>7. \E s \in Nat, q \in 0..(n - 1) : Turn(f, n, s, q)
  <2>1. ASSUME NEW j \in 1..n
        PROVE  /\ j = i => Load(f, j, Candidates) = t + Ahead(j, p) + 1
               /\ j # i => Load(f, j, Candidates) = t + Ahead(j, p)
    <3>1. Load(g, j, Candidates) = t + Ahead(j, p) BY <1>2 DEF Turn
    <3>2. Candidates \in SUBSET Candidates OBVIOUS
    <3> QED BY <1>6, <3>1, <3>2
  <2>2. CASE p + 1 < n
    <3>1. ASSUME NEW j \in 1..n
          PROVE  Load(f, j, Candidates) = t + Ahead(j, p + 1)
      <4>1. /\ j = i => Ahead(j, p) = 0 /\ Ahead(j, p + 1) = 1
            /\ j # i => Ahead(j, p) = Ahead(j, p + 1)
        BY <1>5 DEF Ahead
      <4>2. /\ j = i => Load(f, j, Candidates) = t + Ahead(j, p) + 1
            /\ j # i => Load(f, j, Candidates) = t + Ahead(j, p)
        BY <2>1
      <4>3. CASE j = i
        <5>1. t + Ahead(j, p) + 1 = t + Ahead(j, p + 1) BY <4>1, <4>3
        <5> QED BY <4>2, <4>3, <5>1
      <4>4. CASE j # i
        <5>1. t + Ahead(j, p) = t + Ahead(j, p + 1) BY <4>1, <4>4
        <5> QED BY <4>2, <4>4, <5>1
      <4> QED BY <4>3, <4>4
    <3>2. p + 1 \in 0..(n - 1) BY <2>2
    <3> QED BY <3>1, <3>2 DEF Turn
  <2>3. CASE p + 1 = n
    <3>1. ASSUME NEW j \in 1..n
          PROVE  Load(f, j, Candidates) = (t + 1) + Ahead(j, 0)
      <4>1. /\ j = i => Ahead(j, p) = 0
            /\ j # i => Ahead(j, p) = 1
            /\ Ahead(j, 0) = 0
        BY <1>5, <2>3 DEF Ahead
      <4>2. /\ j = i => Load(f, j, Candidates) = t + Ahead(j, p) + 1
            /\ j # i => Load(f, j, Candidates) = t + Ahead(j, p)
        BY <2>1
      <4>3. CASE j = i
        <5>1. t + Ahead(j, p) + 1 = (t + 1) + Ahead(j, 0) BY <4>1, <4>3
        <5> QED BY <4>2, <4>3, <5>1
      <4>4. CASE j # i
        <5>1. t + Ahead(j, p) = (t + 1) + Ahead(j, 0) BY <4>1, <4>4
        <5> QED BY <4>2, <4>4, <5>1
      <4> QED BY <4>3, <4>4
    <3>2. t + 1 \in Nat /\ 0 \in 0..(n - 1) OBVIOUS
    <3> QED BY <3>1, <3>2 DEF Turn
  <2>4. p + 1 < n \/ p + 1 = n OBVIOUS
  <2> QED BY <2>2, <2>3, <2>4
<1>8. ASSUME NEW C \in SUBSET Candidates, c \in C, Window(g, n, L, C)
      PROVE  Inside(f, n, C)
  <2>1. CASE Before(g, n, C)
    <3>1. ASSUME NEW j \in 1..n
          PROVE  Load(f, j, C) + t + Ahead(j, p) = Load(f, j, Candidates)
      <4>1. PICK a : a = t + Ahead(j, p) OBVIOUS
      <4>2. Load(g, j, C) = 0 /\ Load(g, j, Candidates) = a
        BY <1>2, <2>1, <4>1 DEF Before, Turn
      <4>3. Candidates \in SUBSET Candidates /\ c \in Candidates OBVIOUS
      <4>4. CASE j = i
        <5>1. Load(f, j, C) = Load(g, j, C) + 1 BY <1>6, <1>8, <4>4
        <5>2. Load(f, j, Candidates) = Load(g, j, Candidates) + 1
          BY <1>6, <4>3, <4>4
        <5>3. Load(f, j, C) = 1 /\ Load(f, j, Candidates) = a + 1
          BY <4>2, <5>1, <5>2
        <5> QED BY <4>1, <5>3 DEF Ahead
      <4>5. CASE j # i
        <5>1. Load(f, j, C) = Load(g, j, C) BY <1>6, <1>8, <4>5
        <5>2. Load(f, j, Candidates) = Load(g, j, Candidates)
          BY <1>6, <4>3, <4>5
        <5>3. Load(f, j, C) = 0 /\ Load(f, j, Candidates) = a
          BY <4>2, <5>1, <5>2
        <5> QED BY <4>1, <5>3 DEF Ahead
      <4> QED BY <4>4, <4>5
    <3> QED BY <3>1 DEF Inside, Since
  <2>2. CASE Inside(g, n, C)
    <3>1. PICK s \in Nat, q \in 0..(n - 1) : Since(g, n, C, s, q)
      BY <2>2 DEF Inside
    <3>2. ASSUME NEW j \in 1..n
          PROVE  Load(f, j, C) + s + Ahead(j, q) = Load(f, j, Candidates)
      <4>1. PICK a, b : a = Load(g, j, C) /\ b = Load(g, j, Candidates) OBVIOUS
      <4>2. a \in Nat /\ b \in Nat /\ a + s + Ahead(j, q) = b
        BY <1>6, <3>1, <4>1 DEF Since
      <4>3. /\ j = i => /\ Load(f, j, C) = a + 1
                        /\ Load(f, j, Candidates) = b + 1
            /\ j # i => /\ Load(f, j, C) = a
                        /\ Load(f, j, Candidates) = b
        BY <1>6, <1>8, <4>1
      <4> QED BY <4>2, <4>3 DEF Ahead
    <3> QED BY <3>2 DEF Inside, Since
  <2> QED BY <1>4, <1>8, <2>1, <2>2
<1>9. ASSUME NEW x \in Candidates, NEW C \in {SameStatus(x), SameGroup(x)},
             c \notin C
      PROVE  Window(f, n, L, C)
  <2>1. C \in SUBSET Candidates /\ Window(g, n, L, C) BY <1>3
  <2>2. \A j \in 1..n : Load(f, j, C) = Load(g, j, C) BY <1>6, <1>9, <2>1
  <2>3. CASE Before(g, n, C) BY <2>2, <2>3 DEF Window, Before
  <2>4. CASE Past(g, n, L, C)
    <3>1. \A d \in C \cap L : f[d] # 0 BY <1>1, <1>9, <2>4 DEF Past
    <3> QED BY <2>2, <2>4, <3>1 DEF Window, Past
  <2>5. CASE Inside(g, n, C) /\ ~Before(g, n, C)
    <3>1. PICK j \in 1..n : Load(g, j, C) # 0 BY <2>5 DEF Before
    <3>2. PICK b \in C : g[b] = j
      <4>1. {d \in C : g[d] = j} # {} BY <3>1, FS_EmptySet DEF Load
      <4> QED BY <4>1
    <3>3. b \in C \cap L /\ g[b] # 0 BY <2>1, <3>2 DEF Dealt
    <3>4. ASSUME NEW d \in C \cap L PROVE g[d] # 0
      <4>1. ~Precedes(c, b) BY <3>3 DEF Dealt, InOrder
      <4>2. c \in L \ C BY <1>9
      <4> QED BY <1>9, <3>3, <4>1, <4>2, LeftBehind
    <3>5. \A d \in C \cap L : f[d] # 0 BY <1>1, <1>9, <3>4
    <3>6. \A k, l \in 1..n : Load(g, k, C) <= Load(g, l, C) + 1
      BY <1>2, <2>1, <2>5, InsideIsLevel
    <3> QED BY <2>2, <3>5, <3>6 DEF Window, Past
  <2> QED BY <2>1, <2>3, <2>4, <2>5 DEF Window
<1>10. \A x \in Candidates : /\ Window(f, n, L, SameStatus(x))
                             /\ Window(f, n, L, SameGroup(x))
  BY <1>3, <1>8, <1>9 DEF Window
<1>11. InOrder(f, L) BY <1>1 DEF InOrder, Dealt
<1> QED BY <1>1, <1>7, <1>10, <1>11 DEF Dealt

\* Nothing has been dealt yet.
LEMMA DealtFirst ==
    ASSUME NEW L \in SUBSET Candidates, NEW n \in Nat \ {0},
           NEW g, g = [c \in Candidates |-> 0]
    PROVE  Dealt(g, n, L)
<1>1. ASSUME NEW C \in SUBSET Candidates, NEW i \in 1..n
      PROVE  Load(g, i, C) = 0
  <2>1. {c \in C : g[c] = i} = {} OBVIOUS
  <2> QED BY <2>1, FS_EmptySet DEF Load
<1>2. Turn(g, n, 0, 0) BY <1>1 DEF Turn, Ahead
<1>3. \A c \in Candidates : /\ Window(g, n, L, SameStatus(c))
                            /\ Window(g, n, L, SameGroup(c))
  BY <1>1, WindowsOf DEF Window, Before
<1>4. InOrder(g, L) BY DEF InOrder
<1> QED BY <1>2, <1>3, <1>4 DEF Dealt

\* What is dealt is level, in all and in each window.
LEMMA DealtIsLevel ==
    ASSUME NEW L \in SUBSET Candidates, NEW n \in Nat \ {0},
           NEW g, Dealt(g, n, L), NEW i \in 1..n, NEW j \in 1..n
    PROVE  /\ Load(g, i, Candidates) <= Load(g, j, Candidates) + 1
           /\ \A c \in Candidates :
                 /\ Load(g, i, SameStatus(c)) <= Load(g, j, SameStatus(c)) + 1
                 /\ Load(g, i, SameGroup(c)) <= Load(g, j, SameGroup(c)) + 1
<1>1. PICK t \in Nat, p \in 0..(n - 1) : Turn(g, n, t, p) BY DEF Dealt
<1>2. Load(g, i, Candidates) <= Load(g, j, Candidates) + 1
  BY <1>1 DEF Turn, Ahead
<1>3. ASSUME NEW C \in SUBSET Candidates, Window(g, n, L, C)
      PROVE  Load(g, i, C) <= Load(g, j, C) + 1
  <2>1. CASE Before(g, n, C) BY <2>1 DEF Before
  <2>2. CASE Inside(g, n, C) BY <1>1, <2>2, InsideIsLevel
  <2>3. CASE Past(g, n, L, C) BY <2>3 DEF Past
  <2> QED BY <1>3, <2>1, <2>2, <2>3 DEF Window
<1> QED BY <1>2, <1>3, WindowsOf DEF Dealt

-----------------------------------------------------------------------------
(* Requests. *)

LEMMA CrowdFacts ==
    ASSUME NEW w \in Crowds
    PROVE  /\ Len(w) \in Nat \ {0}
           /\ DOMAIN w = 1..Len(w)
           /\ w \in [1..Len(w) -> Interviewers]
           /\ \A i, j \in 1..Len(w) : w[i] = w[j] => i = j
           /\ Len(w) <= Cardinality(Interviewers)
           /\ Cardinality(Interviewers) \in Nat
<1>1. PICK S \in (SUBSET Interviewers) \ {{}} : w \in Orders(S) BY DEF Crowds
<1>2. /\ IsFiniteSet(S) /\ Cardinality(S) <= Cardinality(Interviewers)
      /\ Cardinality(S) \in Nat /\ Cardinality(Interviewers) \in Nat
  BY <1>1, PeopleAssumption, FS_Subset, FS_CardinalityType
<1>3. Cardinality(S) # 0 BY <1>1, <1>2, FS_EmptySet
<1>4. PICK n \in Nat \ {0} : n = Cardinality(S) BY <1>2, <1>3
<1>5. /\ w \in [1..n -> S] /\ \A i, j \in DOMAIN w : w[i] = w[j] => i = j
  BY <1>1, <1>4 DEF Orders
<1>6. Len(w) = n BY <1>5
<1> QED BY <1>1, <1>2, <1>4, <1>5, <1>6

LEMMA ReqFields ==
    ASSUME NEW r \in Requests
    PROVE  /\ r.pc = "list" => r.crowd \in Crowds
           /\ r.pc \in {"calculate", "save"} =>
                 /\ r.crowd \in Crowds
                 /\ r.list \in SUBSET Candidates
                 /\ r.given \in [Candidates -> 0..Cardinality(Interviewers)]
                 /\ r \in [pc : {"calculate", "save"}, crowd : Crowds,
                           list : SUBSET Candidates,
                           given : [Candidates -> 0..Cardinality(Interviewers)]]
           /\ r.pc \in {"assignable", "assign", "comment"} =>
                 r \in [pc : {"assignable", "assign", "comment"},
                       user : Interviewers, cand : Candidates]
           /\ r.pc = "approve" =>
                 r.cand \in Candidates /\ r.to \in {"true", "false"}
           /\ r.pc \in {"rateable", "rateNew", "rate"} =>
                 r \in [pc : {"rateable", "rateNew", "rate"}, cand : Candidates,
                       user : Interviewers, area : Areas, note : Notes]
           /\ r.pc \in {"rateUpdate", "rateSave"} =>
                 r \in [pc : {"rateUpdate", "rateSave"}, row : DOMAIN rates,
                       note : Notes]
           /\ r.pc = "process" =>
                 r.answers \in Dates /\ r.end \in Dates
<1>1. CASE r \in [pc : {"idle", "crowd"}] BY <1>1
<1>2. CASE r \in [pc : {"list"}, crowd : Crowds] BY <1>2
<1>3. CASE r \in [pc : {"calculate", "save"}, crowd : Crowds,
                 list : SUBSET Candidates,
                 given : [Candidates -> 0..Cardinality(Interviewers)]]
  BY <1>3
<1>4. CASE r \in [pc : {"assignable", "assign", "comment"},
                 user : Interviewers, cand : Candidates]
  BY <1>4
<1>5. CASE r \in [pc : {"approve"}, cand : Candidates, to : {"true", "false"}]
  BY <1>5
<1>6. CASE r \in [pc : {"rateable", "rateNew", "rate"}, cand : Candidates,
                 user : Interviewers, area : Areas, note : Notes]
  BY <1>6
<1>7. CASE r \in [pc : {"rateUpdate", "rateSave"}, row : DOMAIN rates,
                 note : Notes]
  BY <1>7
<1>8. CASE r \in [pc : {"process"}, answers : Dates, end : Dates] BY <1>8
<1> QED BY <1>1, <1>2, <1>3, <1>4, <1>5, <1>6, <1>7, <1>8 DEF Requests

LEMMA Finite ==
    /\ IsFiniteSet(Handlers) /\ Cardinality(Handlers) \in Nat
    /\ \A G \in SUBSET Handlers :
          /\ IsFiniteSet(G) /\ Cardinality(G) \in Nat
          /\ Cardinality(G) <= Cardinality(Handlers)
          /\ \A h \in G : Cardinality(G \ {h}) = Cardinality(G) - 1
          /\ \A F \in SUBSET G : Cardinality(F) <= Cardinality(G)
<1>1. IsFiniteSet(Handlers) BY PeopleAssumption
<1>2. \A G \in SUBSET Handlers :
         IsFiniteSet(G) /\ Cardinality(G) <= Cardinality(Handlers)
  BY <1>1, FS_Subset
<1>3. ASSUME NEW G \in SUBSET Handlers
      PROVE  /\ \A h \in G : Cardinality(G \ {h}) = Cardinality(G) - 1
             /\ \A F \in SUBSET G : Cardinality(F) <= Cardinality(G)
  BY <1>2, FS_RemoveElement, FS_Subset
<1> QED BY <1>1, <1>2, <1>3, FS_CardinalityType

LEMMA RowsFinite ==
    ASSUME TypeOK, NEW i
    PROVE  IsFiniteSet(RowsLike(i)) /\ Cardinality(RowsLike(i)) \in Nat
<1>1. DOMAIN rates = 1..Len(rates) /\ Len(rates) \in Nat BY DEF TypeOK
<1>2. IsFiniteSet(1..Len(rates)) BY <1>1, FS_Interval
<1>3. IsFiniteSet(RowsLike(i)) BY <1>1, <1>2, FS_Subset DEF RowsLike
<1> QED BY <1>3, FS_CardinalityType

\* No further request is about to add a rate of the key.
LEMMA CountKept ==
    ASSUME IInv, NEW i \in DOMAIN rates, NEW G, G \subseteq PendingLike(i)
    PROVE  Cardinality(RowsLike(i)) + Cardinality(G) <= Cardinality(Handlers)
<1>1. PICK H \in SUBSET Handlers : H = PendingLike(i) BY DEF PendingLike
<1>2. PICK k \in Nat : k = Cardinality(RowsLike(i))
  BY RowsFinite DEF IInv
<1>3. k + Cardinality(H) <= Cardinality(Handlers)
  BY <1>1, <1>2 DEF IInv, RatesCounted
<1>4. /\ Cardinality(H) \in Nat /\ Cardinality(G) \in Nat
      /\ Cardinality(Handlers) \in Nat /\ Cardinality(G) <= Cardinality(H)
  BY <1>1, Finite
<1> QED BY <1>2, <1>3, <1>4

\* A request moves on; the tables stay.
LEMMA Moves ==
    ASSUME IInv, NEW h \in Handlers, NEW r \in Requests, Goto(h, r),
           UNCHANGED <<today, process, cron, records>>,
           served' \in 0..MaxRequests, RequestOK(r),
           \A i \in DOMAIN rates :
              r.pc = "rate" /\ SameRate(rates[i], r) => h \in PendingLike(i)
    PROVE  IInv'
<1> USE DEF IInv, records
<1>1. /\ req' \in [Handlers -> Requests] /\ req'[h] = r
      /\ \A g \in Handlers : g # h => req'[g] = req[g]
  BY DEF Goto, TypeOK
<1>2. TypeOK' BY <1>1 DEF TypeOK, Requests
<1>3. \A g \in Handlers : RequestOK(req'[g]) BY <1>1 DEF RequestsOK
<1>4. RequestsOK'
  BY <1>3 DEF RequestsOK, RequestOK, Drawn, Reviewed, Entitled, Ordered
<1>5. Assigned' /\ CronOK' /\ AssignedWasReviewed' /\ WritersWereAssigned'
  BY DEF Assigned, CronOK, AssignedWasReviewed, WritersWereAssigned
<1>6. RatesCounted'
  <2> SUFFICES ASSUME NEW i \in DOMAIN rates
               PROVE  Cardinality(RowsLike(i)) + Cardinality(PendingLike(i)')
                          <= Cardinality(Handlers)
    BY DEF RatesCounted, RowsLike
  <2>1. PendingLike(i)' \subseteq PendingLike(i)
    BY <1>1 DEF PendingLike, At
  <2> QED BY <2>1, CountKept
<1> QED BY <1>2, <1>4, <1>5, <1>6

LEMMA IdleOK == Idle \in Requests /\ Idle.pc = "idle" /\ RequestOK(Idle)
<1>1. Idle.pc = "idle" /\ Idle \in [pc : {"idle", "crowd"}] BY DEF Idle
<1> QED BY <1>1 DEF Requests, RequestOK, Drawn, Reviewed, Entitled, Ordered

\* A request that is to do nothing but ask or wait has nothing to answer for.
LEMMA Refused ==
    ASSUME IInv, NEW h \in Handlers, Refuse(h),
           UNCHANGED <<today, process, cron, served, records>>
    PROVE  IInv'
<1>1. served' \in 0..MaxRequests BY DEF IInv, TypeOK
<1> QED BY <1>1, IdleOK, Moves DEF Refuse

LEMMA StepFacts ==
    ASSUME IInv, NEW h \in Handlers
    PROVE  /\ req[h] \in Requests /\ RequestOK(req[h])
           /\ Accept(h) => /\ served' \in 0..MaxRequests
                           /\ UNCHANGED <<today, cron>>
           /\ \A pc : Step(h, pc) =>
                 /\ req[h].pc = pc
                 /\ served' \in 0..MaxRequests
                 /\ UNCHANGED <<today, process, cron, served, records>>
<1>1. req[h] \in Requests /\ RequestOK(req[h]) /\ served \in 0..MaxRequests
  BY DEF IInv, TypeOK, RequestsOK
<1>2. Accept(h) => served' \in 0..MaxRequests /\ UNCHANGED <<today, cron>>
  BY <1>1, DatesAssumption DEF Accept
<1> QED BY <1>1, <1>2 DEF Step, At

LEMMA AsksInv ==
    ASSUME IInv, NEW h \in Handlers,
           \/ AskDistribution(h) \/ AskAssignment(h) \/ AskApproval(h)
           \/ AskRate(h) \/ AskRateUpdate(h) \/ AskComment(h) \/ AskProcess(h)
    PROVE  IInv'
<1>0. /\ TypeOK /\ Assigned BY DEF IInv
<1>1. /\ Accept(h) /\ UNCHANGED <<process, records>>
  BY DEF AskDistribution, AskAssignment, AskApproval, AskRate, AskRateUpdate,
         AskComment, AskProcess
<1>2. /\ served' \in 0..MaxRequests
      /\ UNCHANGED <<today, process, cron, records>>
  BY <1>1, StepFacts
<1>3. ASSUME NEW r \in Requests, Goto(h, r), RequestOK(r), r.pc # "rate"
      PROVE  IInv'
  BY <1>2, <1>3, Moves
<1>4. CASE AskDistribution(h)
  <2>1. PICK r : r = [pc |-> "crowd"] OBVIOUS
  <2>2. r \in Requests /\ r.pc = "crowd" BY <2>1 DEF Requests
  <2>3. RequestOK(r)
    BY <2>2 DEF RequestOK, Drawn, Reviewed, Entitled, Ordered
  <2> QED BY <1>3, <1>4, <2>1, <2>2, <2>3 DEF AskDistribution
<1>5. CASE AskAssignment(h)
  <2>1. PICK u \in Interviewers, c \in Candidates :
           /\ approved[c] = "true"
           /\ Goto(h, [pc |-> "assignable", user |-> u, cand |-> c])
    BY <1>5 DEF AskAssignment
  <2>2. PICK r : r = [pc |-> "assignable", user |-> u, cand |-> c] OBVIOUS
  <2>3. r \in Requests /\ r.pc = "assignable" /\ r.cand = c
    BY <2>2 DEF Requests
  <2>4. RequestOK(r)
    BY <2>1, <2>3 DEF RequestOK, Drawn, Reviewed, Entitled, Ordered, Unreviewed
  <2> QED BY <1>3, <2>1, <2>2, <2>3, <2>4
<1>6. CASE AskApproval(h)
  <2>1. PICK c \in Candidates, v \in {"true", "false"} :
           Goto(h, [pc |-> "approve", cand |-> c, to |-> v])
    BY <1>6 DEF AskApproval
  <2>2. PICK r : r = [pc |-> "approve", cand |-> c, to |-> v] OBVIOUS
  <2>3. r \in Requests /\ r.pc = "approve" BY <2>2 DEF Requests
  <2>4. RequestOK(r)
    BY <2>3 DEF RequestOK, Drawn, Reviewed, Entitled, Ordered
  <2> QED BY <1>3, <2>1, <2>2, <2>3, <2>4
<1>7. CASE AskRate(h)
  <2>1. PICK c \in Candidates, u \in Interviewers, a \in Areas, n \in Notes :
           /\ interviewer[c] = u
           /\ Goto(h, [pc |-> "rateable", cand |-> c, user |-> u, area |-> a,
                       note |-> n])
    BY <1>7 DEF AskRate
  <2>2. PICK r : r = [pc |-> "rateable", cand |-> c, user |-> u, area |-> a,
                      note |-> n]
    OBVIOUS
  <2>3. r \in Requests /\ r.pc = "rateable" /\ r.cand = c /\ r.user = u
    BY <2>2 DEF Requests
  <2>4. u \in assignees[c] BY <1>0, <2>1, PeopleAssumption DEF Assigned
  <2>5. RequestOK(r)
    BY <2>3, <2>4 DEF RequestOK, Drawn, Reviewed, Entitled, Ordered
  <2> QED BY <1>3, <2>1, <2>2, <2>3, <2>5
<1>8. CASE AskRateUpdate(h)
  <2>1. PICK i \in DOMAIN rates, n \in Notes :
           Goto(h, [pc |-> "rateUpdate", row |-> i, note |-> n])
    BY <1>8 DEF AskRateUpdate
  <2>2. PICK r : r = [pc |-> "rateUpdate", row |-> i, note |-> n] OBVIOUS
  <2>3. r \in Requests /\ r.pc = "rateUpdate" BY <2>2 DEF Requests
  <2>4. RequestOK(r)
    BY <2>3 DEF RequestOK, Drawn, Reviewed, Entitled, Ordered
  <2> QED BY <1>3, <2>1, <2>2, <2>3, <2>4
<1>9. CASE AskComment(h)
  <2>1. PICK c \in Candidates, u \in Interviewers :
           /\ interviewer[c] = u
           /\ Goto(h, [pc |-> "comment", cand |-> c, user |-> u])
    BY <1>9 DEF AskComment
  <2>2. PICK r : r = [pc |-> "comment", cand |-> c, user |-> u] OBVIOUS
  <2>3. r \in Requests /\ r.pc = "comment" /\ r.cand = c /\ r.user = u
    BY <2>2 DEF Requests
  <2>4. u \in assignees[c] BY <1>0, <2>1, PeopleAssumption DEF Assigned
  <2>5. RequestOK(r)
    BY <2>3, <2>4 DEF RequestOK, Drawn, Reviewed, Entitled, Ordered
  <2> QED BY <1>3, <2>1, <2>2, <2>3, <2>5
<1>10. CASE AskProcess(h)
  <2>1. PICK a \in Dates, e \in Dates :
           a <= e /\ Goto(h, [pc |-> "process", answers |-> a, end |-> e])
    BY <1>10 DEF AskProcess
  <2>2. PICK r : r = [pc |-> "process", answers |-> a, end |-> e] OBVIOUS
  <2>3. r \in Requests /\ r.pc = "process" /\ r.answers = a /\ r.end = e
    BY <2>2 DEF Requests
  <2>4. RequestOK(r)
    BY <2>1, <2>3 DEF RequestOK, Drawn, Reviewed, Entitled, Ordered
  <2> QED BY <1>3, <2>1, <2>2, <2>3, <2>4
<1> QED BY <1>4, <1>5, <1>6, <1>7, <1>8, <1>9, <1>10

LEMMA ChecksInv ==
    ASSUME IInv, NEW h \in Handlers,
           \/ CheckInterviewer(h) \/ CheckRateDate(h) \/ FindExistingRate(h)
           \/ CheckUpdateDate(h)
    PROVE  IInv'
<1>1. req[h] \in Requests /\ RequestOK(req[h]) BY StepFacts
<1>2. PICK pc \in {"assignable", "rateable", "rateNew", "rateUpdate"} : Step(h, pc)
  BY DEF CheckInterviewer, CheckRateDate, FindExistingRate, CheckUpdateDate
<1>3. /\ served' \in 0..MaxRequests /\ req[h].pc = pc
      /\ UNCHANGED <<today, process, cron, served, records>>
  BY <1>2, StepFacts
<1>4. ASSUME Refuse(h) PROVE IInv'
  BY <1>3, <1>4, Refused
<1>5. CASE CheckInterviewer(h)
  <2>1. req[h].pc = "assignable"
    BY <1>5, StepFacts DEF CheckInterviewer
  <2>2. PICK r : r = [req[h] EXCEPT !.pc = "assign"] OBVIOUS
  <2>3. req[h] \in [pc : {"assignable", "assign", "comment"},
                   user : Interviewers, cand : Candidates]
    BY <1>1, <2>1, ReqFields
  <2>4. /\ r.pc = "assign" /\ r.cand = req[h].cand
        /\ r \in [pc : {"assignable", "assign", "comment"},
                 user : Interviewers, cand : Candidates]
    BY <2>2, <2>3
  <2>5. r \in Requests BY <2>4 DEF Requests
  <2>6. RequestOK(r)
    BY <1>1, <2>1, <2>4 DEF RequestOK, Drawn, Reviewed, Entitled, Ordered
  <2>7. Refuse(h) \/ Goto(h, r) BY <1>5, <2>2 DEF CheckInterviewer
  <2> QED BY <1>3, <1>4, <2>4, <2>5, <2>6, <2>7, Moves
<1>6. CASE CheckRateDate(h) \/ FindExistingRate(h)
  <2>1. PICK from \in {"rateable", "rateNew"} : req[h].pc = from
    BY <1>6, StepFacts DEF CheckRateDate, FindExistingRate
  <2>2. req[h] \in [pc : {"rateable", "rateNew", "rate"}, cand : Candidates,
                   user : Interviewers, area : Areas, note : Notes]
    BY <1>1, <2>1, ReqFields
  <2>3. ASSUME NEW to \in {"rateNew", "rate"},
               Goto(h, [req[h] EXCEPT !.pc = to]),
               to = "rate" => \A i \in DOMAIN rates : ~SameRate(rates[i], req[h])
        PROVE  IInv'
    <3>1. PICK r : r = [req[h] EXCEPT !.pc = to] OBVIOUS
    <3>2. /\ r.pc = to /\ r.cand = req[h].cand /\ r.user = req[h].user
          /\ r.area = req[h].area
          /\ r \in [pc : {"rateable", "rateNew", "rate"}, cand : Candidates,
                   user : Interviewers, area : Areas, note : Notes]
      BY <2>2, <3>1
    <3>3. r \in Requests BY <3>2 DEF Requests
    <3>4. RequestOK(r)
      BY <1>1, <2>1, <3>2 DEF RequestOK, Drawn, Reviewed, Entitled, Ordered
    <3>5. \A i \in DOMAIN rates : ~(r.pc = "rate" /\ SameRate(rates[i], r))
      BY <2>3, <3>2 DEF SameRate
    <3> QED BY <1>3, <2>3, <3>1, <3>3, <3>4, <3>5, Moves
  <2>4. CASE CheckRateDate(h) BY <1>4, <2>3, <2>4 DEF CheckRateDate
  <2>5. CASE FindExistingRate(h) BY <1>4, <2>3, <2>5 DEF FindExistingRate
  <2> QED BY <1>6, <2>4, <2>5
<1>7. CASE CheckUpdateDate(h)
  <2>1. req[h].pc = "rateUpdate" BY <1>7, StepFacts DEF CheckUpdateDate
  <2>2. PICK r : r = [req[h] EXCEPT !.pc = "rateSave"] OBVIOUS
  <2>3. req[h] \in [pc : {"rateUpdate", "rateSave"}, row : DOMAIN rates,
                   note : Notes]
    BY <1>1, <2>1, ReqFields
  <2>4. /\ r.pc = "rateSave"
        /\ r \in [pc : {"rateUpdate", "rateSave"}, row : DOMAIN rates,
                 note : Notes]
    BY <2>2, <2>3
  <2>5. r \in Requests BY <2>4 DEF Requests
  <2>6. RequestOK(r)
    BY <2>4 DEF RequestOK, Drawn, Reviewed, Entitled, Ordered
  <2>7. Refuse(h) \/ Goto(h, r) BY <1>7, <2>2 DEF CheckUpdateDate
  <2> QED BY <1>3, <1>4, <2>4, <2>5, <2>6, <2>7, Moves
<1> QED BY <1>5, <1>6, <1>7

\* A distribution reads and deals.
LEMMA DistributionInv ==
    ASSUME IInv, NEW h \in Handlers,
           \/ ReadInterviewers(h) \/ ReadCandidates(h)
           \/ AssignNext(h) \/ EndCalculation(h)
    PROVE  IInv'
<1>0. TypeOK BY DEF IInv
<1>1. req[h] \in Requests /\ RequestOK(req[h]) BY StepFacts
<1>2. PICK pc \in {"crowd", "list", "calculate"} : Step(h, pc)
  BY DEF ReadInterviewers, ReadCandidates, AssignNext, EndCalculation
<1>3. /\ served' \in 0..MaxRequests /\ req[h].pc = pc
      /\ UNCHANGED <<today, process, cron, served, records>>
  BY <1>2, StepFacts
<1>4. ASSUME Refuse(h) PROVE IInv'
  BY <1>3, <1>4, Refused
<1>5. CASE ReadInterviewers(h)
  <2>1. CASE active = {} BY <1>4, <1>5, <2>1 DEF ReadInterviewers
  <2>2. CASE active # {}
    <3>1. PICK w \in Orders(active) : Goto(h, [pc |-> "list", crowd |-> w])
      BY <1>5, <2>2 DEF ReadInterviewers
    <3>2. PICK r : r = [pc |-> "list", crowd |-> w] OBVIOUS
    <3>3. w \in Crowds BY <1>0, <2>2, <3>1 DEF Crowds, TypeOK
    <3>4. r \in Requests /\ r.pc = "list" BY <3>2, <3>3 DEF Requests
    <3>5. RequestOK(r)
      BY <3>4 DEF RequestOK, Drawn, Reviewed, Entitled, Ordered
    <3> QED BY <1>3, <3>1, <3>2, <3>4, <3>5, Moves
  <2> QED BY <2>1, <2>2
<1>6. CASE ReadCandidates(h)
  <2>1. req[h].pc = "list" BY <1>6, StepFacts DEF ReadCandidates
  <2>2. PICK w \in Crowds : w = req[h].crowd BY <1>1, <2>1, ReqFields
  <2>3. PICK L : L = Distributable OBVIOUS
  <2>4. /\ L \in SUBSET Candidates
        /\ \A c \in L : approved[c] # Unreviewed /\ Statuses[c] \subseteq {0, 8}
    BY <2>3 DEF Distributable, Unreviewed
  <2>5. PICK g : g = [c \in Candidates |-> 0] OBVIOUS
  <2>6. Len(w) \in Nat \ {0} /\ Cardinality(Interviewers) \in Nat
    BY CrowdFacts
  <2>7. /\ \A c \in Candidates : g[c] \in 0..Len(w)
        /\ g \in [Candidates -> 0..Cardinality(Interviewers)]
    BY <2>5, <2>6
  <2>8. Dealt(g, Len(w), L) BY <2>4, <2>5, <2>6, DealtFirst
  <2>9. PICK r : r = [pc |-> "calculate", crowd |-> w, list |-> L, given |-> g]
    OBVIOUS
  <2>10. /\ r \in Requests /\ r.pc = "calculate" /\ r.crowd = w
         /\ r.list = L /\ r.given = g
    BY <2>4, <2>7, <2>9 DEF Requests
  <2>11. RequestOK(r)
    BY <2>4, <2>7, <2>8, <2>10 DEF RequestOK, Drawn, Reviewed, Entitled, Ordered
  <2>12. Refuse(h) \/ Goto(h, r)
    BY <1>6, <2>2, <2>3, <2>5, <2>9 DEF ReadCandidates
  <2> QED BY <1>3, <1>4, <2>10, <2>11, <2>12, Moves
<1>7. CASE AssignNext(h) \/ EndCalculation(h)
  <2>1. req[h].pc = "calculate"
    BY <1>7, StepFacts DEF AssignNext, EndCalculation
  <2>2. /\ req[h] \in [pc : {"calculate", "save"}, crowd : Crowds,
                      list : SUBSET Candidates,
                      given : [Candidates -> 0..Cardinality(Interviewers)]]
    BY <1>1, <2>1, ReqFields
  <2>3. PICK w, L, g : w = req[h].crowd /\ L = req[h].list /\ g = req[h].given
    OBVIOUS
  <2>4. /\ w \in Crowds /\ L \in SUBSET Candidates
        /\ g \in [Candidates -> 0..Cardinality(Interviewers)]
    BY <2>2, <2>3
  <2>5. PICK n \in Nat \ {0} : n = Len(w) BY <2>4, CrowdFacts
  <2>6. /\ DOMAIN w = 1..n /\ n <= Cardinality(Interviewers)
        /\ Cardinality(Interviewers) \in Nat
    BY <2>4, <2>5, CrowdFacts
  <2>7. /\ \A c \in L : Statuses[c] \subseteq {0, 8} /\ approved[c] # Unreviewed
        /\ \A c \in Candidates : g[c] \in 0..n
        /\ Dealt(g, n, L)
    BY <1>1, <2>1, <2>3, <2>5 DEF RequestOK, Drawn, Reviewed
  <2>8. g \in [Candidates -> 0..n] BY <2>4, <2>7
  <2>9. CASE AssignNext(h)
    <3>1. PICK c \in Candidates, i \in 1..n :
             /\ c \in L /\ g[c] = 0
             /\ \A d \in L : g[d] = 0 => ~Precedes(d, c)
             /\ \A j \in 1..n : Prefers(g, c, i, j)
             /\ Goto(h, [req[h] EXCEPT !.given = [@ EXCEPT ![c] = i]])
      BY <2>3, <2>4, <2>6, <2>9 DEF AssignNext
    <3>2. PICK f : f = [g EXCEPT ![c] = i] OBVIOUS
    <3>3. /\ f \in [Candidates -> 0..n] /\ f[c] = i
          /\ \A d \in Candidates : d # c => f[d] = g[d]
      BY <2>8, <3>2
    <3>4. Dealt(f, n, L) BY <2>4, <2>7, <2>8, <3>1, <3>3, DealtStep
    <3>5. PICK r : r = [req[h] EXCEPT !.given = f] OBVIOUS
    <3>6. f \in [Candidates -> 0..Cardinality(Interviewers)] BY <2>6, <3>3
    <3>7. /\ r \in [pc : {"calculate", "save"}, crowd : Crowds,
                   list : SUBSET Candidates,
                   given : [Candidates -> 0..Cardinality(Interviewers)]]
          /\ r.pc = "calculate" /\ r.crowd = w /\ r.list = L /\ r.given = f
      BY <2>1, <2>2, <2>3, <3>5, <3>6
    <3>8. r \in Requests BY <3>7 DEF Requests
    <3>9. RequestOK(r)
      BY <2>5, <2>7, <3>3, <3>4, <3>7
         DEF RequestOK, Drawn, Reviewed, Entitled, Ordered
    <3>10. Goto(h, r) BY <2>3, <3>1, <3>2, <3>5
    <3> QED BY <1>3, <3>7, <3>8, <3>9, <3>10, Moves
  <2>10. CASE EndCalculation(h)
    <3>1. /\ \A c \in L : g[c] # 0
          /\ Goto(h, [req[h] EXCEPT !.pc = "save"])
      BY <2>3, <2>10 DEF EndCalculation
    <3>2. PICK r : r = [req[h] EXCEPT !.pc = "save"] OBVIOUS
    <3>3. /\ r \in [pc : {"calculate", "save"}, crowd : Crowds,
                   list : SUBSET Candidates,
                   given : [Candidates -> 0..Cardinality(Interviewers)]]
          /\ r.pc = "save" /\ r.crowd = w /\ r.list = L /\ r.given = g
      BY <2>2, <2>3, <3>2
    <3>4. r \in Requests BY <3>3 DEF Requests
    <3>5. RequestOK(r)
      BY <2>5, <2>7, <3>1, <3>3
         DEF RequestOK, Drawn, Reviewed, Entitled, Ordered
    <3> QED BY <1>3, <3>1, <3>2, <3>3, <3>4, <3>5, Moves
  <2> QED BY <1>7, <2>9, <2>10
<1> QED BY <1>5, <1>6, <1>7

-----------------------------------------------------------------------------
(* Writes. *)

\* A write that does not touch the rates, by a handler or by the nightly run.
LEMMA Writes ==
    ASSUME IInv, UNCHANGED <<rates>>, served' \in 0..MaxRequests,
           req' \in [Handlers -> Requests],
           \A g \in Handlers : req'[g] = req[g] \/ req'[g] = Idle,
           today' \in 0..LastDay,
           process' \in [answers : Dates, end : Dates],
           process'.answers <= process'.end,
           active' \subseteq Interviewers,
           approved' \in [Candidates -> Approvals],
           \A c \in Candidates :
              approved[c] # Unreviewed => approved'[c] # Unreviewed,
           interviewer' \in [Candidates -> Users],
           assignees' \in [Candidates -> SUBSET Interviewers],
           \A c \in Candidates :
              /\ assignees[c] \subseteq assignees'[c]
              /\ interviewer'[c] # NoUser => /\ interviewer'[c] \in assignees'[c]
                                             /\ approved'[c] # Unreviewed,
           comment' \in [Candidates -> Users],
           \A c \in Candidates :
              comment'[c] # NoUser => comment'[c] \in assignees'[c],
           cron' \in [pc : {"idle", "score"}, todo : SUBSET Candidates]
                     \cup [pc : {"approve"}, todo : SUBSET Candidates,
                           cand : Candidates],
           CronOK'
    PROVE  IInv'
<1> USE DEF IInv
<1>1. TypeOK' BY DEF TypeOK, Requests
<1>2. RequestsOK'
  <2> SUFFICES ASSUME NEW g \in Handlers PROVE RequestOK(req[g])'
    BY DEF RequestsOK
  <2>1. RequestOK(req[g]) /\ req[g] \in Requests BY DEF RequestsOK, TypeOK
  <2>2. CASE req'[g] = Idle
    BY <2>2, IdleOK DEF RequestOK, Drawn, Reviewed, Entitled, Ordered
  <2>3. CASE req'[g] = req[g]
    <3>1. Drawn(req[g])' /\ Ordered(req[g])'
      BY <2>1, <2>3 DEF RequestOK, Drawn, Ordered
    <3>2. Reviewed(req[g])'
      BY <2>1, <2>3, ReqFields DEF RequestOK, Reviewed
    <3>3. Entitled(req[g])'
      BY <2>1, <2>3, ReqFields DEF RequestOK, Entitled
    <3> QED BY <3>1, <3>2, <3>3 DEF RequestOK
  <2> QED BY <2>2, <2>3
<1>3. Assigned' BY DEF Assigned
<1>4. AssignedWasReviewed' BY DEF AssignedWasReviewed
<1>5. WritersWereAssigned'
  <2>1. \A i \in DOMAIN rates : rates[i] \in Rate BY DEF TypeOK
  <2> QED BY <2>1 DEF WritersWereAssigned, Rate
<1>6. RatesCounted'
  <2> SUFFICES ASSUME NEW i \in DOMAIN rates
               PROVE  Cardinality(RowsLike(i)) + Cardinality(PendingLike(i)')
                          <= Cardinality(Handlers)
    BY DEF RatesCounted, RowsLike
  <2>1. PendingLike(i)' \subseteq PendingLike(i)
    BY IdleOK DEF PendingLike, At
  <2> QED BY <2>1, CountKept
<1> QED BY <1>1, <1>2, <1>3, <1>4, <1>5, <1>6

LEMMA FinishFacts ==
    ASSUME IInv, NEW h \in Handlers, NEW pc, Finish(h, pc)
    PROVE  /\ req[h] \in Requests /\ RequestOK(req[h]) /\ req[h].pc = pc
           /\ req' \in [Handlers -> Requests] /\ req'[h] = Idle
           /\ \A g \in Handlers : g # h => req'[g] = req[g]
           /\ UNCHANGED <<today, cron, served>>
           /\ served' \in 0..MaxRequests
<1>1. req \in [Handlers -> Requests] /\ served \in 0..MaxRequests
  BY DEF IInv, TypeOK
<1>2. req' = [req EXCEPT ![h] = Idle] BY DEF Finish, Goto
<1>3. req[h].pc = pc /\ UNCHANGED <<today, cron, served>> BY DEF Finish, At
<1> QED BY <1>1, <1>2, <1>3, IdleOK, StepFacts

\* Interviewers are given, by a distribution or by hand.
LEMMA GiveInv ==
    ASSUME IInv, NEW h \in Handlers, NEW pc, Finish(h, pc),
           UNCHANGED <<process, active, approved, rates, comment>>,
           NEW who, DOMAIN who \subseteq Candidates,
           \A c \in DOMAIN who :
              who[c] \in Interviewers /\ approved[c] # Unreviewed,
           GiveInterviewers(who)
    PROVE  IInv'
<1> USE DEF IInv
<1>1. /\ req' \in [Handlers -> Requests]
      /\ \A g \in Handlers : req'[g] = req[g] \/ req'[g] = Idle
      /\ UNCHANGED <<today, cron, served>> /\ served' \in 0..MaxRequests
  BY FinishFacts
<1>2. \A c \in Candidates :
         /\ interviewer'[c] = IF c \in DOMAIN who THEN who[c] ELSE interviewer[c]
         /\ assignees'[c] = assignees[c] \cup ({interviewer'[c]} \ {NoUser})
  BY DEF GiveInterviewers
<1>3. interviewer \in [Candidates -> Users]
      /\ assignees \in [Candidates -> SUBSET Interviewers]
  BY DEF TypeOK
<1>4. \A c \in Candidates :
         /\ interviewer'[c] \in Users
         /\ assignees'[c] \in SUBSET Interviewers
  BY <1>2, <1>3 DEF Users
<1>5. /\ interviewer' \in [Candidates -> Users]
      /\ assignees' \in [Candidates -> SUBSET Interviewers]
  BY <1>4 DEF GiveInterviewers
<1>6. \A c \in Candidates :
         /\ assignees[c] \subseteq assignees'[c]
         /\ interviewer'[c] # NoUser => /\ interviewer'[c] \in assignees'[c]
                                        /\ approved'[c] # Unreviewed
  BY <1>2 DEF AssignedWasReviewed
<1>7. \A c \in Candidates :
         comment'[c] # NoUser => comment'[c] \in assignees'[c]
  BY <1>6 DEF WritersWereAssigned
<1>8. /\ today' \in 0..LastDay /\ process' \in [answers : Dates, end : Dates]
      /\ process'.answers <= process'.end /\ active' \subseteq Interviewers
      /\ approved' \in [Candidates -> Approvals]
      /\ comment' \in [Candidates -> Users]
      /\ cron' \in [pc : {"idle", "score"}, todo : SUBSET Candidates]
                   \cup [pc : {"approve"}, todo : SUBSET Candidates,
                         cand : Candidates]
  BY <1>1 DEF TypeOK
<1>9. CronOK' BY <1>1 DEF CronOK
<1>10. \A c \in Candidates :
          approved[c] # Unreviewed => approved'[c] # Unreviewed
  OBVIOUS
<1> QED BY <1>1, <1>5, <1>6, <1>7, <1>8, <1>9, <1>10, Writes

LEMMA SaveInterviewersInv ==
    ASSUME IInv, NEW h \in Handlers, SaveDistribution(h) \/ SaveAssignment(h)
    PROVE  IInv'
<1>1. CASE SaveDistribution(h)
  <2>1. /\ req[h] \in Requests /\ RequestOK(req[h]) /\ req[h].pc = "save"
    BY <1>1, FinishFacts DEF SaveDistribution
  <2>2. PICK w, L, g : w = req[h].crowd /\ L = req[h].list /\ g = req[h].given
    OBVIOUS
  <2>3. /\ w \in Crowds /\ L \in SUBSET Candidates
    BY <2>1, <2>2, ReqFields
  <2>4. \A c \in L : /\ g[c] \in 0..Len(w) /\ g[c] # 0
                     /\ approved[c] # Unreviewed
    BY <2>1, <2>2, <2>3 DEF RequestOK, Drawn, Reviewed
  <2>5. w \in [1..Len(w) -> Interviewers] /\ Len(w) \in Nat
    BY <2>3, CrowdFacts
  <2>6. PICK who : who = [c \in L |-> w[g[c]]] OBVIOUS
  <2>7. /\ DOMAIN who \subseteq Candidates
        /\ \A c \in DOMAIN who :
              who[c] \in Interviewers /\ approved[c] # Unreviewed
    BY <2>3, <2>4, <2>5, <2>6
  <2>8. /\ GiveInterviewers(who) /\ Finish(h, "save")
        /\ UNCHANGED <<process, active, approved, rates, comment>>
    BY <1>1, <2>2, <2>6 DEF SaveDistribution
  <2> QED BY <2>7, <2>8, GiveInv
<1>2. CASE SaveAssignment(h)
  <2>1. /\ req[h] \in Requests /\ RequestOK(req[h]) /\ req[h].pc = "assign"
    BY <1>2, FinishFacts DEF SaveAssignment
  <2>2. /\ req[h].cand \in Candidates /\ req[h].user \in Interviewers
        /\ approved[req[h].cand] # Unreviewed
    BY <2>1, ReqFields DEF RequestOK, Reviewed
  <2>3. PICK who : who = [c \in {req[h].cand} |-> req[h].user] OBVIOUS
  <2>4. /\ DOMAIN who \subseteq Candidates
        /\ \A c \in DOMAIN who :
              who[c] \in Interviewers /\ approved[c] # Unreviewed
    BY <2>2, <2>3
  <2>5. /\ GiveInterviewers(who) /\ Finish(h, "assign")
        /\ UNCHANGED <<process, active, approved, rates, comment>>
    BY <1>2, <2>3 DEF SaveAssignment
  <2> QED BY <2>4, <2>5, GiveInv
<1> QED BY <1>1, <1>2

LEMMA KeptFacts ==
    ASSUME IInv
    PROVE  /\ today \in 0..LastDay
           /\ req \in [Handlers -> Requests]
           /\ process \in [answers : Dates, end : Dates]
           /\ process.answers <= process.end
           /\ active \subseteq Interviewers
           /\ approved \in [Candidates -> Approvals]
           /\ interviewer \in [Candidates -> Users]
           /\ assignees \in [Candidates -> SUBSET Interviewers]
           /\ \A c \in Candidates :
                 interviewer[c] # NoUser => /\ interviewer[c] \in assignees[c]
                                            /\ approved[c] # Unreviewed
           /\ comment \in [Candidates -> Users]
           /\ \A c \in Candidates :
                 comment[c] # NoUser => comment[c] \in assignees[c]
           /\ cron \in [pc : {"idle", "score"}, todo : SUBSET Candidates]
                       \cup [pc : {"approve"}, todo : SUBSET Candidates,
                             cand : Candidates]
           /\ cron.pc = "approve" => cron.cand \in cron.todo
           /\ served \in 0..MaxRequests
BY DEF IInv, TypeOK, Assigned, AssignedWasReviewed, WritersWereAssigned, CronOK

\* The other writes of the handlers, the administration and the clock.
LEMMA OtherWritesInv ==
    ASSUME IInv, NEW h \in Handlers,
           SaveApproval(h) \/ SaveComment(h) \/ SaveProcess(h) \/ UpdateUser(h)
    PROVE  IInv'
<1>1. CASE SaveApproval(h)
  <2>1. /\ req[h] \in Requests /\ req[h].pc = "approve"
        /\ req' \in [Handlers -> Requests]
        /\ \A g \in Handlers : req'[g] = req[g] \/ req'[g] = Idle
        /\ UNCHANGED <<today, cron, served>>
    BY <1>1, FinishFacts DEF SaveApproval
  <2>2. req[h].cand \in Candidates /\ req[h].to \in {"true", "false"}
    BY <2>1, ReqFields
  <2>3. approved' = [approved EXCEPT ![req[h].cand] = req[h].to]
    BY <1>1 DEF SaveApproval
  <2>4. /\ approved' \in [Candidates -> Approvals]
        /\ \A c \in Candidates :
              approved[c] # Unreviewed => approved'[c] # Unreviewed
    BY <2>2, <2>3, KeptFacts DEF Approvals, Unreviewed
  <2>5. UNCHANGED <<process, active, interviewer, rates, comment, assignees>>
    BY <1>1 DEF SaveApproval
  <2> QED BY <2>1, <2>4, <2>5, KeptFacts, Writes DEF CronOK
<1>2. CASE SaveComment(h)
  <2>1. /\ req[h] \in Requests /\ req[h].pc = "comment" /\ RequestOK(req[h])
        /\ req' \in [Handlers -> Requests]
        /\ \A g \in Handlers : req'[g] = req[g] \/ req'[g] = Idle
        /\ UNCHANGED <<today, cron, served>>
    BY <1>2, FinishFacts DEF SaveComment
  <2>2. /\ req[h].cand \in Candidates /\ req[h].user \in Interviewers
        /\ req[h].user \in assignees[req[h].cand]
    BY <2>1, ReqFields DEF RequestOK, Entitled
  <2>3. comment' = [comment EXCEPT ![req[h].cand] = req[h].user]
    BY <1>2 DEF SaveComment
  <2>4. /\ comment' \in [Candidates -> Users]
        /\ \A c \in Candidates :
              comment'[c] # NoUser => comment'[c] \in assignees[c]
    BY <2>2, <2>3, KeptFacts DEF Users
  <2>5. UNCHANGED <<process, active, approved, interviewer, rates, assignees>>
    BY <1>2 DEF SaveComment
  <2> QED BY <2>1, <2>4, <2>5, KeptFacts, Writes DEF CronOK
<1>3. CASE SaveProcess(h)
  <2>1. /\ req[h] \in Requests /\ req[h].pc = "process" /\ RequestOK(req[h])
        /\ req' \in [Handlers -> Requests]
        /\ \A g \in Handlers : req'[g] = req[g] \/ req'[g] = Idle
        /\ UNCHANGED <<today, cron, served>>
    BY <1>3, FinishFacts DEF SaveProcess
  <2>2. /\ req[h].answers \in Dates /\ req[h].end \in Dates
        /\ req[h].answers <= req[h].end
    BY <2>1, ReqFields DEF RequestOK, Ordered
  <2>3. process' = [answers |-> req[h].answers, end |-> req[h].end]
    BY <1>3 DEF SaveProcess
  <2>4. /\ process' \in [answers : Dates, end : Dates]
        /\ process'.answers <= process'.end
    BY <2>2, <2>3
  <2>5. UNCHANGED records BY <1>3 DEF SaveProcess
  <2> QED BY <2>1, <2>4, <2>5, KeptFacts, Writes DEF CronOK, records
<1>4. CASE UpdateUser(h)
  <2>1. /\ served' \in 0..MaxRequests /\ UNCHANGED <<today, cron>>
    BY <1>4, StepFacts DEF UpdateUser
  <2>2. active' \subseteq Interviewers
    <3>1. PICK u \in Interviewers :
             active' = IF u \in active THEN active \ {u} ELSE active \cup {u}
      BY <1>4 DEF UpdateUser
    <3> QED BY <3>1, KeptFacts
  <2>3. UNCHANGED <<process, approved, interviewer, rates, comment, req, assignees>>
    BY <1>4 DEF UpdateUser
  <2> QED BY <2>1, <2>2, <2>3, KeptFacts, Writes DEF CronOK
<1> QED BY <1>1, <1>2, <1>3, <1>4

LEMMA TickInv == ASSUME IInv, Tick PROVE IInv'
<1>1. today' \in 0..LastDay BY KeptFacts, DatesAssumption DEF Tick
<1>2. UNCHANGED <<process, req, cron, served, records>> BY DEF Tick
<1> QED BY <1>1, <1>2, KeptFacts, Writes DEF CronOK, records

\* The nightly run.
LEMMA CronInv == ASSUME IInv, Cron PROVE IInv'
<1>1. PICK T \in SUBSET Candidates : T = cron.todo
  BY KeptFacts
<1>2. T # {} => First(T) \in T BY DEF First
<1>3. ASSUME cron' \in [pc : {"idle", "score"}, todo : SUBSET Candidates]
                      \cup [pc : {"approve"}, todo : SUBSET Candidates,
                            cand : Candidates],
             cron'.pc = "approve" => cron'.cand \in cron'.todo,
             UNCHANGED <<today, process, req, served, records>>
      PROVE  IInv'
  BY <1>3, KeptFacts, Writes DEF CronOK, records
<1>4. ASSUME NEW pc \in {"idle", "score"}, NEW U \in SUBSET Candidates,
             cron' = [pc |-> pc, todo |-> U],
             UNCHANGED <<today, process, req, served, records>>
      PROVE  IInv'
  <2>1. /\ cron' \in [pc : {"idle", "score"}, todo : SUBSET Candidates]
        /\ cron'.pc # "approve"
    BY <1>4
  <2> QED BY <1>3, <1>4, <2>1
<1>5. CASE StartScores
  <2>1. PICK U \in SUBSET Candidates :
           cron' = [pc |-> "score", todo |-> U]
    BY <1>5 DEF StartScores
  <2> QED BY <1>4, <1>5, <2>1 DEF StartScores
<1>6. CASE ScoreOne
  <2>1. T # {} BY <1>1, <1>6 DEF ScoreOne
  <2>2. PICK c \in T : c = First(T) BY <1>2, <2>1
  <2>3. \/ cron' = [pc |-> "approve", todo |-> T, cand |-> c]
        \/ cron' = [pc |-> "score", todo |-> T \ {c}]
    BY <1>1, <1>6, <2>2 DEF ScoreOne
  <2>4. CASE cron' = [pc |-> "approve", todo |-> T, cand |-> c]
    <3>1. /\ cron' \in [pc : {"approve"}, todo : SUBSET Candidates,
                        cand : Candidates]
          /\ cron'.cand \in cron'.todo
      BY <2>2, <2>4
    <3> QED BY <1>3, <1>6, <3>1 DEF ScoreOne
  <2>5. CASE cron' = [pc |-> "score", todo |-> T \ {c}]
    BY <1>4, <1>6, <2>5 DEF ScoreOne
  <2> QED BY <2>3, <2>4, <2>5
<1>7. CASE ScoreFails
  <2>1. cron' = [pc |-> "score", todo |-> T \ {First(T)}]
    BY <1>1, <1>7 DEF ScoreFails
  <2> QED BY <1>4, <1>7, <2>1 DEF ScoreFails
<1>8. CASE EndScores BY <1>4, <1>8 DEF EndScores, Asleep
<1>9. CASE ApproveOne
  <2>1. cron.cand \in Candidates BY <1>9, KeptFacts DEF ApproveOne
  <2>2. approved' = [approved EXCEPT ![cron.cand] = "true"]
    BY <1>9 DEF ApproveOne
  <2>3. /\ approved' \in [Candidates -> Approvals]
        /\ \A c \in Candidates :
              approved[c] # Unreviewed => approved'[c] # Unreviewed
    BY <2>1, <2>2, KeptFacts DEF Approvals, Unreviewed
  <2>4. cron' = [pc |-> "score", todo |-> T \ {cron.cand}]
    BY <1>1, <1>9 DEF ApproveOne
  <2>5. /\ cron' \in [pc : {"idle", "score"}, todo : SUBSET Candidates]
        /\ cron'.pc = "score"
    BY <2>4
  <2>6. UNCHANGED <<today, process, active, interviewer, rates, comment, req,
                    served, assignees>>
    BY <1>9 DEF ApproveOne
  <2> QED BY <2>3, <2>5, <2>6, KeptFacts, Writes DEF CronOK
<1> QED BY <1>5, <1>6, <1>7, <1>8, <1>9 DEF Cron

-----------------------------------------------------------------------------
(* The writes of the rates. *)

\* What stays when only the rates are written and requests end.
LEMMA RatesOnly ==
    ASSUME IInv, NEW h \in Handlers,
           Finish(h, "rate") \/ Finish(h, "rateSave"),
           UNCHANGED <<process, active, approved, interviewer, comment, assignees>>,
           rates' \in Seq(Rate), DOMAIN rates \subseteq DOMAIN rates'
    PROVE  /\ TypeOK' /\ RequestsOK' /\ Assigned' /\ CronOK'
           /\ AssignedWasReviewed'
           /\ \A c \in Candidates :
                 comment'[c] # NoUser => comment'[c] \in assignees'[c]
<1>1. /\ req[h] \in Requests /\ req' \in [Handlers -> Requests]
      /\ \A g \in Handlers : req'[g] = req[g] \/ req'[g] = Idle
      /\ UNCHANGED <<today, cron>> /\ served' \in 0..MaxRequests
  BY FinishFacts
<1>2. Requests \subseteq Requests'
  <2>1. ASSUME NEW r \in Requests PROVE r \in Requests'
    <3>1. CASE r \in [pc : {"rateUpdate", "rateSave"}, row : DOMAIN rates,
                      note : Notes]
      <4>1. r \in [pc : {"rateUpdate", "rateSave"}, row : DOMAIN rates',
                   note : Notes]
        BY <3>1
      <4> QED BY <4>1 DEF Requests
    <3>2. CASE r \notin [pc : {"rateUpdate", "rateSave"}, row : DOMAIN rates,
                         note : Notes]
      BY <2>1, <3>2 DEF Requests
    <3> QED BY <3>1, <3>2
  <2> QED BY <2>1
<1>3. req' \in [Handlers -> Requests'] BY <1>1, <1>2
<1>4. TypeOK' BY <1>1, <1>3 DEF IInv, TypeOK
<1>5. RequestsOK'
  <2> SUFFICES ASSUME NEW g \in Handlers PROVE RequestOK(req[g])'
    BY DEF RequestsOK
  <2>1. RequestOK(req[g]) BY DEF IInv, RequestsOK
  <2>2. CASE req'[g] = Idle
    BY <2>2, IdleOK DEF RequestOK, Drawn, Reviewed, Entitled, Ordered
  <2>3. CASE req'[g] = req[g]
    BY <2>1, <2>3 DEF RequestOK, Drawn, Reviewed, Entitled, Ordered
  <2> QED BY <1>1, <2>2, <2>3
<1>6. Assigned' BY DEF IInv, Assigned
<1>7. CronOK' BY <1>1 DEF IInv, CronOK
<1>8. AssignedWasReviewed' BY DEF IInv, AssignedWasReviewed
<1>9. \A c \in Candidates : comment'[c] # NoUser => comment'[c] \in assignees'[c]
  BY KeptFacts
<1> QED BY <1>4, <1>5, <1>6, <1>7, <1>8, <1>9

LEMMA SameRateFacts ==
    ASSUME NEW r, NEW s
    PROVE  /\ SameRate(r, r)
           /\ SameRate(r, s) => SameRate(s, r)
           /\ \A x : SameRate(r, s) => (SameRate(r, x) <=> SameRate(s, x))
BY DEF SameRate

LEMMA InsertRateInv == ASSUME IInv, NEW h \in Handlers, InsertRate(h) PROVE IInv'
<1>1. /\ req[h] \in Requests /\ req[h].pc = "rate" /\ RequestOK(req[h])
      /\ req' \in [Handlers -> Requests] /\ req'[h] = Idle
      /\ \A g \in Handlers : g # h => req'[g] = req[g]
  BY FinishFacts DEF InsertRate
<1>2. PICK r : r = req[h] OBVIOUS
<1>3. /\ r \in [pc : {"rateable", "rateNew", "rate"}, cand : Candidates,
                user : Interviewers, area : Areas, note : Notes]
      /\ r.user \in assignees[r.cand]
  BY <1>1, <1>2, ReqFields DEF RequestOK, Entitled
<1>4. PICK row : row = NewRate(r) OBVIOUS
<1>5. row \in Rate /\ SameRate(row, r) /\ row.user \in assignees[row.cand]
  <2>1. PICK note \in Notes \cup {NoNote} :
           note = IF r.note = 0 THEN NoNote ELSE r.note
    BY <1>3
  <2>2. row = [cand |-> r.cand, user |-> r.user, area |-> r.area, note |-> note]
    BY <1>4, <2>1 DEF NewRate
  <2> QED BY <1>3, <2>2 DEF Rate, SameRate
<1>6. rates \in Seq(Rate) BY DEF IInv, TypeOK
<1>7. PICK n \in Nat : n = Len(rates) BY <1>6
<1>8. rates' = Append(rates, row) BY <1>2, <1>4 DEF InsertRate
<1>9. /\ DOMAIN rates = 1..n /\ DOMAIN rates' = 1..(n + 1)
      /\ rates' \in Seq(Rate) /\ rates'[n + 1] = row
      /\ \A i \in 1..n : rates'[i] = rates[i]
  BY <1>5, <1>6, <1>7, <1>8
<1>10. /\ TypeOK' /\ RequestsOK' /\ Assigned' /\ CronOK' /\ AssignedWasReviewed'
       /\ \A c \in Candidates :
             comment'[c] # NoUser => comment'[c] \in assignees'[c]
  BY <1>9, RatesOnly DEF InsertRate
<1>11. WritersWereAssigned'
  <2>1. ASSUME NEW i \in 1..(n + 1)
        PROVE  rates'[i].user \in assignees[rates'[i].cand]
    <3>1. CASE i = n + 1 BY <1>5, <1>9, <3>1
    <3>2. CASE i \in 1..n
      BY <1>9, <3>2 DEF IInv, WritersWereAssigned
    <3> QED BY <3>1, <3>2
  <2> QED BY <1>9, <1>10, <2>1 DEF InsertRate, WritersWereAssigned
<1>12. ASSUME NEW i \in 1..n
       PROVE  Cardinality(RowsLike(i)') + Cardinality(PendingLike(i)')
                 <= Cardinality(Handlers)
  <2>1. i \in DOMAIN rates /\ rates'[i] = rates[i] BY <1>9
  <2>2. PendingLike(i)' = PendingLike(i) \ {h}
    BY <1>1, <2>1, IdleOK DEF PendingLike, At
  <2>3. PICK A : A = RowsLike(i) OBVIOUS
  <2>4. CASE SameRate(rates[i], r)
    <3>1. RowsLike(i)' = A \cup {n + 1} /\ (n + 1) \notin A
      <4>1. SameRate(rates[i], row) BY <1>5, <2>4 DEF SameRate
      <4> QED BY <1>9, <2>1, <2>3, <4>1 DEF RowsLike
    <3>2. IsFiniteSet(A) /\ Cardinality(A) \in Nat BY <2>3, RowsFinite DEF IInv
    <3>3. Cardinality(RowsLike(i)') = Cardinality(A) + 1
      BY <3>1, <3>2, FS_AddElement
    <3>4. PICK H \in SUBSET Handlers : H = PendingLike(i) BY DEF PendingLike
    <3>5. h \in H BY <1>1, <1>2, <2>4, <3>4 DEF PendingLike, At
    <3>6. Cardinality(H \ {h}) = Cardinality(H) - 1 /\ Cardinality(H) \in Nat
      BY <3>5, Finite
    <3>7. Cardinality(A) + Cardinality(H) <= Cardinality(Handlers)
      BY <2>1, <2>3, <3>4, CountKept
    <3>8. PICK k \in Nat, m \in Nat, x \in Nat :
             k = Cardinality(A) /\ m = Cardinality(H) /\ x = Cardinality(Handlers)
      BY <3>2, <3>6, Finite
    <3>9. (k + 1) + (m - 1) <= x BY <3>7, <3>8
    <3> QED BY <2>2, <3>3, <3>4, <3>6, <3>8, <3>9
  <2>5. CASE ~SameRate(rates[i], r)
    <3>1. RowsLike(i)' = A
      <4>1. ~SameRate(rates[i], row) BY <1>5, <2>5 DEF SameRate
      <4> QED BY <1>9, <2>1, <2>3, <4>1 DEF RowsLike
    <3>2. PendingLike(i)' \subseteq PendingLike(i) BY <2>2
    <3> QED BY <2>1, <2>3, <3>1, <3>2, CountKept
  <2> QED BY <2>4, <2>5
<1>13. Cardinality(RowsLike(n + 1)') + Cardinality(PendingLike(n + 1)')
          <= Cardinality(Handlers)
  <2>1. CASE \E i \in 1..n : SameRate(rates[i], row)
    <3>1. PICK i \in 1..n : SameRate(rates[i], row) BY <2>1
    <3>2. SameRate(rates'[i], rates'[n + 1]) BY <1>9, <3>1
    <3>3. \A x : SameRate(rates'[n + 1], x) <=> SameRate(rates'[i], x)
      BY <3>2, SameRateFacts
    <3>4. /\ RowsLike(n + 1)' = RowsLike(i)'
          /\ PendingLike(n + 1)' = PendingLike(i)'
      BY <3>3 DEF RowsLike, PendingLike
    <3> QED BY <1>12, <3>4
  <2>2. CASE \A i \in 1..n : ~SameRate(rates[i], row)
    <3>1. RowsLike(n + 1)' = {n + 1}
      <4>1. \A j \in 1..n : ~SameRate(rates'[n + 1], rates'[j])
        BY <1>9, <2>2, SameRateFacts
      <4>2. SameRate(rates'[n + 1], rates'[n + 1]) BY SameRateFacts
      <4> QED BY <1>9, <4>1, <4>2 DEF RowsLike
    <3>2. Cardinality(RowsLike(n + 1)') = 1 BY <3>1, FS_Singleton
    <3>3. PendingLike(n + 1)' \subseteq Handlers \ {h}
      BY <1>1, IdleOK DEF PendingLike, At
    <3>4. PICK H \in SUBSET Handlers : H = Handlers \ {h} OBVIOUS
    <3>5. /\ Cardinality(PendingLike(n + 1)') \in Nat
          /\ Cardinality(PendingLike(n + 1)') <= Cardinality(H)
      BY <3>3, <3>4, Finite
    <3>6. /\ Cardinality(H) = Cardinality(Handlers) - 1
          /\ Cardinality(Handlers) \in Nat
      BY <3>4, Finite
    <3> QED BY <3>2, <3>5, <3>6
  <2> QED BY <2>1, <2>2
<1>14. RatesCounted'
  <2>1. ASSUME NEW i \in DOMAIN rates'
        PROVE  Cardinality(RowsLike(i)') + Cardinality(PendingLike(i)')
                  <= Cardinality(Handlers)
    <3>1. CASE i = n + 1 BY <1>13, <3>1
    <3>2. CASE i \in 1..n BY <1>12, <3>2
    <3> QED BY <1>9, <3>1, <3>2
  <2> QED BY <2>1 DEF RatesCounted
<1> QED BY <1>10, <1>11, <1>14 DEF IInv

LEMMA UpdateRateInv == ASSUME IInv, NEW h \in Handlers, UpdateRate(h) PROVE IInv'
<1>1. /\ req[h] \in Requests /\ req[h].pc = "rateSave"
      /\ req' \in [Handlers -> Requests] /\ req'[h] = Idle
      /\ \A g \in Handlers : g # h => req'[g] = req[g]
  BY FinishFacts DEF UpdateRate
<1>2. PICK x, note : x = req[h].row /\ note = req[h].note OBVIOUS
<1>3. x \in DOMAIN rates /\ note \in Notes BY <1>1, <1>2, ReqFields
<1>4. PICK n \in Nat : rates \in [1..n -> Rate] BY DEF IInv, TypeOK
<1>5. rates' = [rates EXCEPT ![x] = [@ EXCEPT !.note = note]]
  BY <1>2 DEF UpdateRate
<1>6. [rates[x] EXCEPT !.note = note] \in Rate
  BY <1>3, <1>4 DEF Rate
<1>7. /\ rates' \in [1..n -> Rate] /\ DOMAIN rates' = DOMAIN rates
      /\ \A i \in DOMAIN rates : /\ rates'[i].cand = rates[i].cand
                                 /\ rates'[i].user = rates[i].user
                                 /\ rates'[i].area = rates[i].area
  BY <1>3, <1>4, <1>5, <1>6 DEF Rate
<1>8. rates' \in Seq(Rate) BY <1>7
<1>9. /\ TypeOK' /\ RequestsOK' /\ Assigned' /\ CronOK' /\ AssignedWasReviewed'
      /\ \A c \in Candidates :
            comment'[c] # NoUser => comment'[c] \in assignees'[c]
  BY <1>7, <1>8, RatesOnly DEF UpdateRate
<1>10. WritersWereAssigned'
  BY <1>7, <1>9 DEF IInv, UpdateRate, WritersWereAssigned
<1>11. RatesCounted'
  <2> SUFFICES ASSUME NEW i \in DOMAIN rates
               PROVE  Cardinality(RowsLike(i)') + Cardinality(PendingLike(i)')
                          <= Cardinality(Handlers)
    BY <1>7 DEF RatesCounted
  <2>1. \A s : SameRate(rates'[i], s) <=> SameRate(rates[i], s)
    BY <1>7 DEF SameRate
  <2>2. \A j \in DOMAIN rates :
           SameRate(rates[i], rates'[j]) <=> SameRate(rates[i], rates[j])
    BY <1>7 DEF SameRate
  <2>3. RowsLike(i)' = RowsLike(i) BY <1>7, <2>1, <2>2 DEF RowsLike
  <2>4. PendingLike(i)' \subseteq PendingLike(i)
    BY <1>1, <2>1, IdleOK DEF PendingLike, At
  <2> QED BY <2>3, <2>4, CountKept
<1> QED BY <1>9, <1>10, <1>11 DEF IInv

-----------------------------------------------------------------------------
(* The invariant. *)

LEMMA InitInv == Init => IInv
<1> SUFFICES ASSUME Init PROVE IInv
  OBVIOUS
<1>1. PICK u \in Interviewers : BegunWith(u) BY DEF Init
<1>2. /\ interviewer \in [Candidates -> Users]
      /\ assignees \in [Candidates -> SUBSET Interviewers]
      /\ \A c \in Candidates : interviewer[c] # NoUser =>
            c \in Begun /\ interviewer[c] \in assignees[c]
  BY <1>1 DEF BegunWith, Users
<1>3. approved \in [Candidates -> Approvals]
      /\ \A c \in Candidates : c \in Begun => approved[c] # Unreviewed
  BY DEF Init, Approvals, Unreviewed
<1>4. rates \in Seq(Rate) /\ DOMAIN rates = {} BY DEF Init
<1>5. \A h \in Handlers : req[h] = Idle BY DEF Init
<1>6. req \in [Handlers -> Requests] BY IdleOK DEF Init
<1>7. /\ cron \in [pc : {"idle", "score"}, todo : SUBSET Candidates]
      /\ cron.pc # "approve"
  BY DEF Init, Asleep
<1>8. /\ process \in [answers : Dates, end : Dates]
      /\ process.answers <= process.end
  BY DEF Init
<1>9. TypeOK
  BY <1>2, <1>3, <1>4, <1>6, <1>7, <1>8, DatesAssumption DEF Init, TypeOK, Users
<1>10. RequestsOK BY <1>5, IdleOK DEF RequestsOK
<1>11. Assigned /\ AssignedWasReviewed
  BY <1>2, <1>3 DEF Assigned, AssignedWasReviewed
<1>12. CronOK BY <1>7 DEF CronOK
<1>13. RatesCounted BY <1>4 DEF RatesCounted
<1>14. WritersWereAssigned BY <1>4 DEF Init, WritersWereAssigned
<1> QED BY <1>9, <1>10, <1>11, <1>12, <1>13, <1>14 DEF IInv

LEMMA NextInv == IInv /\ [Next]_vars => IInv'
<1> SUFFICES ASSUME IInv, [Next]_vars PROVE IInv'
  OBVIOUS
<1>1. ASSUME NEW h \in Handlers, Handle(h) PROVE IInv'
  <2>1. CASE \/ AskDistribution(h) \/ AskAssignment(h) \/ AskApproval(h)
             \/ AskRate(h) \/ AskRateUpdate(h) \/ AskComment(h) \/ AskProcess(h)
    BY <2>1, AsksInv
  <2>2. CASE \/ CheckInterviewer(h) \/ CheckRateDate(h)
             \/ FindExistingRate(h) \/ CheckUpdateDate(h)
    BY <2>2, ChecksInv
  <2>3. CASE ReadInterviewers(h) \/ ReadCandidates(h)
    BY <2>3, DistributionInv
  <2>4. CASE SaveDistribution(h) \/ SaveAssignment(h)
    BY <2>4, SaveInterviewersInv
  <2>5. CASE SaveApproval(h) \/ SaveComment(h) \/ SaveProcess(h) \/ UpdateUser(h)
    BY <2>5, OtherWritesInv
  <2>6. CASE InsertRate(h) BY <2>6, InsertRateInv
  <2>7. CASE UpdateRate(h) BY <2>7, UpdateRateInv
  <2> QED BY <1>1, <2>1, <2>2, <2>3, <2>4, <2>5, <2>6, <2>7 DEF Handle
<1>2. ASSUME NEW h \in Handlers, AssignNext(h) \/ EndCalculation(h) PROVE IInv'
  BY <1>2, DistributionInv
<1>3. CASE Tick BY <1>3, TickInv
<1>4. CASE Cron BY <1>4, CronInv
<1>5. CASE UNCHANGED vars
  BY <1>5, KeptFacts, Writes DEF vars, CronOK
<1> QED BY <1>1, <1>2, <1>3, <1>4, <1>5 DEF Next

LEMMA Invariance == Spec => []IInv
BY InitInv, NextInv, PTL DEF Spec

\* The state keeps its shape, whatever the requests, the nightly run and the
\* clock do, and the end of the process never comes before its answers.
THEOREM TypeTheorem == Spec => []TypeOK
<1>1. IInv => TypeOK BY DEF IInv
<1> QED BY <1>1, Invariance, PTL

\* However many candidates and interviewers there are, a distribution is level
\* at every step, in all and within each status and group.
THEOREM BalancedTheorem == Spec => []Balanced
<1>1. IInv => Balanced
  <2> SUFFICES ASSUME IInv, NEW h \in Handlers, Distributing(h)
               PROVE  /\ Level(req[h], Candidates)
                      /\ \A c \in Candidates : /\ Level(req[h], SameStatus(c))
                                               /\ Level(req[h], SameGroup(c))
    BY DEF Balanced
  <2>1. /\ req[h] \in Requests /\ RequestOK(req[h])
        /\ req[h].pc \in {"calculate", "save"}
    BY StepFacts DEF Distributing, At
  <2>2. PICK w, L, g : w = req[h].crowd /\ L = req[h].list /\ g = req[h].given
    OBVIOUS
  <2>3. w \in Crowds /\ L \in SUBSET Candidates /\ Dealt(g, Len(w), L)
    BY <2>1, <2>2, ReqFields DEF RequestOK, Drawn
  <2>4. DOMAIN w = 1..Len(w) /\ Len(w) \in Nat \ {0} BY <2>3, CrowdFacts
  <2>5. ASSUME NEW i \in DOMAIN w, NEW j \in DOMAIN w
        PROVE  /\ Load(g, i, Candidates) <= Load(g, j, Candidates) + 1
               /\ \A c \in Candidates :
                     /\ Load(g, i, SameStatus(c)) <= Load(g, j, SameStatus(c)) + 1
                     /\ Load(g, i, SameGroup(c)) <= Load(g, j, SameGroup(c)) + 1
    BY <2>3, <2>4, DealtIsLevel
  <2> QED BY <2>2, <2>5 DEF Level
<1> QED BY <1>1, Invariance, PTL

\* Only reviewed candidates have an interviewer.
THEOREM AssignedTheorem == Spec => []AssignedWasReviewed
<1>1. IInv => AssignedWasReviewed BY DEF IInv
<1> QED BY <1>1, Invariance, PTL

\* Rates and comments come from somebody who had the candidate.
THEOREM WritersTheorem == Spec => []WritersWereAssigned
<1>1. IInv => WritersWereAssigned BY DEF IInv
<1> QED BY <1>1, Invariance, PTL

\* A key has at most as many rates as requests can be in flight.
THEOREM RatesTheorem == Spec => []RatesBoundedByConcurrency
<1>1. IInv => RatesBoundedByConcurrency
  <2> SUFFICES ASSUME IInv, NEW i \in DOMAIN rates
               PROVE  Cardinality(RowsLike(i)) <= Cardinality(Handlers)
    BY DEF RatesBoundedByConcurrency, RowsLike
  <2>1. PICK none : none = {} OBVIOUS
  <2>2. Cardinality(none) = 0 BY <2>1, FS_EmptySet
  <2>3. Cardinality(RowsLike(i)) + Cardinality(none) <= Cardinality(Handlers)
    BY <2>1, CountKept
  <2>4. Cardinality(RowsLike(i)) \in Nat BY RowsFinite DEF IInv
  <2> QED BY <2>2, <2>3, <2>4
<1> QED BY <1>1, Invariance, PTL

-----------------------------------------------------------------------------
(* What a step may not do. *)

\* Which actions write an interviewer or a decision.
LEMMA Writers ==
    ASSUME [Next]_vars
    PROVE  /\ \/ interviewer' = interviewer
              \/ \E h \in Handlers : SaveDistribution(h) \/ SaveAssignment(h)
           /\ \/ approved' = approved
              \/ \E h \in Handlers : SaveApproval(h)
              \/ ApproveOne
<1>1. ASSUME NEW h \in Handlers,
             \/ AskDistribution(h) \/ AskAssignment(h) \/ AskApproval(h)
             \/ AskRate(h) \/ AskRateUpdate(h) \/ AskComment(h) \/ AskProcess(h)
      PROVE  UNCHANGED <<interviewer, approved>>
  BY <1>1 DEF AskDistribution, AskAssignment, AskApproval, AskRate,
              AskRateUpdate, AskComment, AskProcess, records
<1>2. ASSUME NEW h \in Handlers,
             \/ CheckInterviewer(h) \/ CheckRateDate(h) \/ FindExistingRate(h)
             \/ CheckUpdateDate(h) \/ ReadInterviewers(h) \/ ReadCandidates(h)
             \/ AssignNext(h) \/ EndCalculation(h)
      PROVE  UNCHANGED <<interviewer, approved>>
  BY <1>2 DEF CheckInterviewer, CheckRateDate, FindExistingRate, CheckUpdateDate,
              ReadInterviewers, ReadCandidates, AssignNext, EndCalculation,
              Step, records
<1>3. ASSUME NEW h \in Handlers,
             \/ InsertRate(h) \/ UpdateRate(h) \/ SaveComment(h)
             \/ SaveProcess(h) \/ UpdateUser(h)
      PROVE  UNCHANGED <<interviewer, approved>>
  BY <1>3 DEF InsertRate, UpdateRate, SaveComment, SaveProcess, UpdateUser, records
<1>4. ASSUME NEW h \in Handlers, SaveDistribution(h) \/ SaveAssignment(h)
      PROVE  UNCHANGED approved
  BY <1>4 DEF SaveDistribution, SaveAssignment
<1>5. ASSUME NEW h \in Handlers, SaveApproval(h) PROVE UNCHANGED interviewer
  BY <1>5 DEF SaveApproval
<1>6. CASE Cron
  BY <1>6 DEF Cron, StartScores, ScoreOne, ScoreFails, EndScores, ApproveOne, records
<1>7. CASE Tick BY <1>7 DEF Tick, records
<1>8. CASE UNCHANGED vars BY <1>8 DEF vars
<1>9. ASSUME NEW h \in Handlers,
             Handle(h) \/ AssignNext(h) \/ EndCalculation(h)
      PROVE  /\ \/ interviewer' = interviewer
                \/ SaveDistribution(h) \/ SaveAssignment(h)
             /\ approved' = approved \/ SaveApproval(h)
  BY <1>1, <1>2, <1>3, <1>4, <1>5, <1>9 DEF Handle
<1> QED BY <1>6, <1>7, <1>8, <1>9 DEF Next

\* What a distribution writes.
LEMMA Saved ==
    ASSUME IInv, NEW h \in Handlers, SaveDistribution(h)
    PROVE  /\ req[h].pc = "save" /\ req[h].crowd \in Crowds
           /\ req[h].list \in SUBSET Candidates
           /\ Dealt(req[h].given, Len(req[h].crowd), req[h].list)
           /\ \A c \in req[h].list :
                 /\ Statuses[c] \subseteq {0, 8}
                 /\ req[h].given[c] \in 1..Len(req[h].crowd)
                 /\ interviewer'[c] = req[h].crowd[req[h].given[c]]
           /\ \A c \in Candidates :
                 c \notin req[h].list => interviewer'[c] = interviewer[c]
<1>1. /\ req[h] \in Requests /\ RequestOK(req[h]) /\ req[h].pc = "save"
  BY FinishFacts DEF SaveDistribution
<1>2. PICK w, L, g : w = req[h].crowd /\ L = req[h].list /\ g = req[h].given
  OBVIOUS
<1>3. w \in Crowds /\ L \in SUBSET Candidates BY <1>1, <1>2, ReqFields
<1>4. Len(w) \in Nat BY <1>3, CrowdFacts
<1>5. /\ Dealt(g, Len(w), L)
      /\ \A c \in L : /\ Statuses[c] \subseteq {0, 8}
                      /\ g[c] \in 1..Len(w)
  BY <1>1, <1>2, <1>3, <1>4 DEF RequestOK, Drawn
<1>6. PICK who : who = [c \in L |-> w[g[c]]] OBVIOUS
<1>7. GiveInterviewers(who) BY <1>2, <1>6 DEF SaveDistribution
<1>8. \A c \in Candidates :
         interviewer'[c] = IF c \in DOMAIN who THEN who[c] ELSE interviewer[c]
  BY <1>7 DEF GiveInterviewers
<1>9. \A c \in Candidates : /\ c \in L => interviewer'[c] = w[g[c]]
                            /\ c \notin L => interviewer'[c] = interviewer[c]
  BY <1>6, <1>8
<1> QED BY <1>1, <1>2, <1>3, <1>5, <1>9

\* A distribution leaves alone whoever handed in a form.
THEOREM SubmittedTheorem == Spec => SubmittedOnlyByHand
<1>1. IInv /\ [Next]_vars =>
         [\A c \in Candidates :
             (5 \in Statuses[c] /\ interviewer'[c] # interviewer[c]) =>
                \E h \in Handlers : At(h, "assign") /\ req[h].cand = c]_vars
  <2> SUFFICES ASSUME IInv, [Next]_vars, NEW c \in Candidates,
                      5 \in Statuses[c], interviewer'[c] # interviewer[c]
               PROVE  \E h \in Handlers : At(h, "assign") /\ req[h].cand = c
    OBVIOUS
  <2>1. PICK h \in Handlers : SaveDistribution(h) \/ SaveAssignment(h)
    BY Writers
  <2>2. CASE SaveDistribution(h)
    <3>1. c \in req[h].list /\ Statuses[c] \subseteq {0, 8} BY <2>2, Saved
    <3> QED BY <3>1
  <2>3. CASE SaveAssignment(h)
    <3>1. PICK who : who = [d \in {req[h].cand} |-> req[h].user] OBVIOUS
    <3>2. GiveInterviewers(who) /\ At(h, "assign")
      BY <2>3, <3>1 DEF SaveAssignment, Finish
    <3>3. c \in DOMAIN who
      <4>1. interviewer'[c] = IF c \in DOMAIN who THEN who[c] ELSE interviewer[c]
        BY <3>2 DEF GiveInterviewers
      <4> QED BY <4>1
    <3> QED BY <3>1, <3>2, <3>3
  <2> QED BY <2>1, <2>2, <2>3
<1> QED BY <1>1, Invariance, PTL DEF Spec, SubmittedOnlyByHand

\* The nightly run does not undo a refusal it could have seen.
THEOREM RefusalTheorem == Spec => RefusalUndoneOnlyInFlight
<1>1. IInv /\ [Next]_vars =>
         [/\ \A c \in cron'.todo \ cron.todo : approved[c] = Unreviewed
          /\ \A c \in Candidates :
                approved[c] = "false" /\ approved'[c] = "true" =>
                   \/ c \in cron.todo
                   \/ \E h \in Handlers : At(h, "approve") /\ req[h].cand = c]_vars
  <2> SUFFICES ASSUME IInv, [Next]_vars
               PROVE  /\ \A c \in cron'.todo \ cron.todo : approved[c] = Unreviewed
                      /\ \A c \in Candidates :
                            approved[c] = "false" /\ approved'[c] = "true" =>
                               \/ c \in cron.todo
                               \/ \E h \in Handlers :
                                     At(h, "approve") /\ req[h].cand = c
    OBVIOUS
  <2>1. ASSUME NEW c \in cron'.todo \ cron.todo PROVE approved[c] = Unreviewed
    <3>1. CASE cron' = cron BY <2>1, <3>1
    <3>2. CASE StartScores BY <2>1, <3>2 DEF StartScores
    <3>3. CASE ScoreOne BY <2>1, <3>3 DEF ScoreOne
    <3>4. CASE ApproveOne BY <2>1, <3>4 DEF ApproveOne
    <3>5. CASE ScoreFails BY <2>1, <3>5 DEF ScoreFails
    <3>6. CASE EndScores BY <2>1, <3>6 DEF EndScores, Asleep
    <3>7. ASSUME NEW h \in Handlers,
                 Handle(h) \/ AssignNext(h) \/ EndCalculation(h)
          PROVE  cron' = cron
      BY <3>7 DEF Handle, AskDistribution, AskAssignment, AskApproval, AskRate,
         AskRateUpdate, AskComment, AskProcess, Accept, CheckInterviewer,
         CheckRateDate, FindExistingRate, CheckUpdateDate, ReadInterviewers,
         ReadCandidates, AssignNext, EndCalculation, Step, SaveDistribution,
         SaveAssignment, SaveApproval, InsertRate, UpdateRate, SaveComment,
         SaveProcess, Finish, UpdateUser
    <3>8. CASE Tick BY <3>1, <3>8 DEF Tick
    <3>9. CASE UNCHANGED vars BY <3>1, <3>9 DEF vars
    <3> QED BY <3>1, <3>2, <3>3, <3>4, <3>5, <3>6, <3>7, <3>8, <3>9 DEF Next, Cron
  <2>2. ASSUME NEW c \in Candidates, approved[c] = "false", approved'[c] = "true"
        PROVE  \/ c \in cron.todo
               \/ \E h \in Handlers : At(h, "approve") /\ req[h].cand = c
    <3>1. CASE approved' = approved BY <2>2, <3>1
    <3>2. ASSUME NEW h \in Handlers, SaveApproval(h)
          PROVE  At(h, "approve") /\ req[h].cand = c
      BY <2>2, <3>2 DEF SaveApproval, Finish
    <3>3. CASE ApproveOne
      <4>1. cron.cand \in cron.todo BY <3>3, KeptFacts DEF ApproveOne
      <4>2. c = cron.cand BY <2>2, <3>3 DEF ApproveOne
      <4> QED BY <4>1, <4>2
    <3> QED BY <3>1, <3>2, <3>3, Writers
  <2> QED BY <2>1, <2>2
<1> QED BY <1>1, Invariance, PTL DEF Spec, RefusalUndoneOnlyInFlight

\* The one step of a request that is about to save a distribution.
LEMMA OnlySave ==
    ASSUME IInv, [Next]_vars, NEW h \in Handlers, At(h, "save"), req'[h] = Idle
    PROVE  SaveDistribution(h)
<1>1. req \in [Handlers -> Requests] /\ req[h] # Idle /\ req[h].pc = "save"
  BY KeptFacts, IdleOK DEF At
<1>2. ASSUME NEW g \in Handlers, NEW r, Goto(g, r) PROVE g = h
  BY <1>1, <1>2 DEF Goto
<1>3. ASSUME NEW g \in Handlers, NEW pc, pc # "save", Step(g, pc) \/ Finish(g, pc),
             NEW r, Goto(g, r)
      PROVE  FALSE
  BY <1>1, <1>2, <1>3 DEF Step, Finish, At
<1>4. ASSUME NEW g \in Handlers, NEW r, Accept(g), Goto(g, r)
      PROVE  FALSE
  BY <1>1, <1>2, <1>4 DEF Accept, At
<1>5. ASSUME NEW g \in Handlers,
             \/ AskDistribution(g) \/ AskAssignment(g) \/ AskApproval(g)
             \/ AskRate(g) \/ AskRateUpdate(g) \/ AskComment(g) \/ AskProcess(g)
      PROVE  FALSE
  BY <1>4, <1>5 DEF AskDistribution, AskAssignment, AskApproval, AskRate,
                    AskRateUpdate, AskComment, AskProcess
<1>6. ASSUME NEW g \in Handlers,
             \/ CheckInterviewer(g) \/ CheckRateDate(g) \/ FindExistingRate(g)
             \/ CheckUpdateDate(g) \/ ReadInterviewers(g) \/ ReadCandidates(g)
             \/ AssignNext(g) \/ EndCalculation(g)
      PROVE  FALSE
  BY <1>3, <1>6 DEF CheckInterviewer, CheckRateDate, FindExistingRate,
                    CheckUpdateDate, ReadInterviewers, ReadCandidates,
                    AssignNext, EndCalculation, Refuse
<1>7. ASSUME NEW g \in Handlers,
             \/ SaveAssignment(g) \/ SaveApproval(g) \/ InsertRate(g)
             \/ UpdateRate(g) \/ SaveComment(g) \/ SaveProcess(g)
      PROVE  FALSE
  BY <1>3, <1>7 DEF SaveAssignment, SaveApproval, InsertRate, UpdateRate,
                    SaveComment, SaveProcess, Finish
<1>8. ASSUME NEW g \in Handlers, SaveDistribution(g) PROVE g = h
  BY <1>2, <1>8 DEF SaveDistribution, Finish
<1>9. ASSUME NEW g \in Handlers, UpdateUser(g) PROVE FALSE
  BY <1>1, <1>9 DEF UpdateUser
<1>10. CASE Cron
  BY <1>1, <1>10 DEF Cron, StartScores, ScoreOne, ScoreFails, EndScores, ApproveOne
<1>11. CASE Tick BY <1>1, <1>11 DEF Tick
<1>12. CASE UNCHANGED vars BY <1>1, <1>12 DEF vars
<1>13. ASSUME NEW g \in Handlers,
              Handle(g) \/ AssignNext(g) \/ EndCalculation(g)
       PROVE  SaveDistribution(h)
  BY <1>5, <1>6, <1>7, <1>8, <1>9, <1>13 DEF Handle
<1> QED BY <1>10, <1>11, <1>12, <1>13 DEF Next

\* A saved distribution is level in the table.
THEOREM SavedLevelTheorem == Spec => SavedLevel
<1>1. IInv /\ [Next]_vars =>
         [\A h \in Handlers : At(h, "save") /\ req'[h] = Idle =>
             LET crowd == {req[h].crowd[i] : i \in DOMAIN req[h].crowd}
             IN  /\ \A c \in req[h].list : interviewer'[c] \in crowd
                 /\ \A u, v \in crowd :
                       Holds(u, req[h].list) <= Holds(v, req[h].list) + 1]_vars
  <2> SUFFICES ASSUME IInv, [Next]_vars, NEW h \in Handlers,
                      At(h, "save"), req'[h] = Idle
               PROVE  LET crowd == {req[h].crowd[i] : i \in DOMAIN req[h].crowd}
                      IN  /\ \A c \in req[h].list : interviewer'[c] \in crowd
                          /\ \A u, v \in crowd :
                                Holds(u, req[h].list) <= Holds(v, req[h].list) + 1
    OBVIOUS
  <2>1. SaveDistribution(h) BY OnlySave
  <2>2. PICK w, L, g : w = req[h].crowd /\ L = req[h].list /\ g = req[h].given
    OBVIOUS
  <2>3. /\ w \in Crowds /\ L \in SUBSET Candidates /\ Dealt(g, Len(w), L)
        /\ \A c \in L : g[c] \in 1..Len(w) /\ interviewer'[c] = w[g[c]]
    BY <2>1, <2>2, Saved
  <2>4. /\ DOMAIN w = 1..Len(w) /\ Len(w) \in Nat \ {0}
        /\ \A i, j \in 1..Len(w) : w[i] = w[j] => i = j
    BY <2>3, CrowdFacts
  <2>5. \A c \in L : interviewer'[c] \in {w[i] : i \in DOMAIN w}
    BY <2>3, <2>4
  <2>6. ASSUME NEW i \in DOMAIN w
        PROVE  Holds(w[i], L) = Load(g, i, Candidates)
    <3>1. \A c \in Candidates : c \notin L => g[c] = 0 BY <2>3 DEF Dealt
    <3>2. i # 0 BY <2>4
    <3>3. {c \in L : interviewer'[c] = w[i]} = {c \in Candidates : g[c] = i}
      BY <2>3, <2>4, <3>1, <3>2
    <3> QED BY <3>3 DEF Holds, Load
  <2>7. ASSUME NEW i \in DOMAIN w, NEW j \in DOMAIN w
        PROVE  Holds(w[i], L) <= Holds(w[j], L) + 1
    <3>1. Load(g, i, Candidates) <= Load(g, j, Candidates) + 1
      BY <2>3, <2>4, DealtIsLevel
    <3> QED BY <2>6, <3>1
  <2>8. \A u, v \in {w[i] : i \in DOMAIN w} : Holds(u, L) <= Holds(v, L) + 1
    BY <2>7
  <2> QED BY <2>2, <2>5, <2>8
<1> QED BY <1>1, Invariance, PTL DEF Spec, SavedLevel
=============================================================================
