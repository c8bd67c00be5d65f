-------------------------- MODULE GroupPacingProofs --------------------------
(* Theorems about GroupPacing, for any hours, slots, plans and bounds.     *)
EXTENDS GroupPacing, SumProofs

-----------------------------------------------------------------------------
(* Maxima *)

LEMMA MaxOfTwo ==
    ASSUME NEW a \in Int, NEW b \in Int
    PROVE  /\ Max({a, b}) \in {a, b}
           /\ Max({a, b}) >= a /\ Max({a, b}) >= b
<1>1. \E x \in {a, b} : \A y \in {a, b} : x >= y
  OBVIOUS
<1> QED
  BY <1>1 DEF Max

\* The elements of S from x on; the smallest such set begins at the maximum.
LEMMA MaxOfFinite ==
    ASSUME NEW S \in SUBSET Nat, IsFiniteSet(S), S # {}
    PROVE  Max(S) \in S /\ \A y \in S : Max(S) >= y
<1> DEFINE From(x) == {s \in S : s >= x}
           tails == {From(x) : x \in S}
           F == FiniteSubsetsOf(S)
           R == StrictSubsetOrdering(S)
<1>1. tails \subseteq F
  BY FS_Subset DEF FiniteSubsetsOf
<1>2. tails # {}
  OBVIOUS
<1>3. IsWellFoundedOn(R, F)
  BY FS_StrictSubsetOrderingWellFounded
<1>4. PICK T \in tails : \A U \in tails : ~(<<U, T>> \in R)
  <2> HIDE DEF tails, R, F
  <2> QED
    BY <1>1, <1>2, <1>3, WFMin
<1>5. PICK x \in S : T = From(x)
  BY <1>4
<1>6. \A y \in S : x >= y
  <2> SUFFICES ASSUME NEW y \in S, y > x PROVE FALSE
    OBVIOUS
  <2>1. From(y) \subseteq From(x) /\ x \in From(x) /\ x \notin From(y)
    <3>1. x \in Nat /\ y \in Nat /\ \A s \in S : s \in Nat
      OBVIOUS
    <3>2. \A s \in S : s >= y => s >= x
      BY <3>1
    <3>3. x >= x /\ ~(x >= y)
      BY <3>1
    <3> QED
      BY <3>2, <3>3
  <2>2. <<From(y), From(x)>> \in R
    BY <2>1 DEF StrictSubsetOrdering
  <2> QED
    BY <1>4, <1>5, <2>2
<1> QED
  BY <1>6 DEF Max
-----------------------------------------------------------------------------
(* Notices that wait in a queue *)

WaitingSet(S, k) == {e \in S : e.kind = k}

LEMMA WaitingIs ==
    ASSUME NEW S, NEW q \in Seq(S), NEW k
    PROVE  Waiting(q, k) = NumberIn(q, WaitingSet(S, k))
<1>1. DOMAIN q = 1..Len(q) /\ \A n \in 1..Len(q) : q[n] \in S
  BY ElementOfSeq, LenProperties
<1>2. {n \in DOMAIN q : q[n].kind = k} = PlacesIn(q, WaitingSet(S, k))
  BY <1>1 DEF PlacesIn, WaitingSet
<1> QED
  BY <1>2 DEF Waiting, Quantify, NumberIn

LEMMA WaitingType ==
    ASSUME NEW S, NEW q \in Seq(S), NEW k
    PROVE  Waiting(q, k) \in Nat
BY WaitingIs, NumberType

LEMMA WaitingNone ==
    ASSUME NEW k
    PROVE  Waiting(<<>>, k) = 0
<1>1. <<>> \in Seq({})
  OBVIOUS
<1> QED
  BY <1>1, WaitingIs, NumberNone

LEMMA WaitingAppend ==
    ASSUME NEW S, NEW q \in Seq(S), NEW e \in S, NEW k
    PROVE  Waiting(Append(q, e), k) = Waiting(q, k) + One(e.kind = k)
<1>1. e \in WaitingSet(S, k) <=> e.kind = k
  BY DEF WaitingSet
<1>2. Append(q, e) \in Seq(S)
  BY AppendProperties
<1>3. Waiting(Append(q, e), k) = NumberIn(Append(q, e), WaitingSet(S, k))
  BY <1>2, WaitingIs
<1> QED
  BY <1>1, <1>3, WaitingIs, NumberAppend DEF One

LEMMA WaitingTail ==
    ASSUME NEW S, NEW q \in Seq(S), q # <<>>, NEW k
    PROVE  Waiting(q, k) = Waiting(Tail(q), k) + One(Head(q).kind = k)
<1>1. Head(q) \in S /\ Tail(q) \in Seq(S)
  BY HeadTailProperties
<1>2. Head(q) \in WaitingSet(S, k) <=> Head(q).kind = k
  BY <1>1 DEF WaitingSet
<1>3. Waiting(Tail(q), k) = NumberIn(Tail(q), WaitingSet(S, k))
  BY <1>1, WaitingIs
<1> QED
  BY <1>2, <1>3, WaitingIs, NumberTail DEF One
-----------------------------------------------------------------------------
(* Hours and slots *)

SlotsOfDay == 0..HoursPerDay*Slots-1

LEMMA HourType ==
    ASSUME NEW n \in SlotsOfDay
    PROVE  Hour(n) \in Hours
<1> DEFINE q == n \div Slots
           s == Slots
           d == HoursPerDay
<1>1. s \in Nat \ {0} /\ d \in Nat \ {0} /\ n \in Nat /\ n < d * s
  BY PacingAssumption DEF SlotsOfDay
<1>2. q \in Nat /\ q * s <= n
  BY <1>1
<1>3. q < d
  <2> SUFFICES ASSUME q >= d PROVE FALSE
    BY <1>1, <1>2
  <2> HIDE DEF q, s, d
  <2>1. q * s >= d * s
    BY <1>1, <1>2
  <2> QED
    BY <1>1, <1>2, <2>1
<1> QED
  BY <1>2, <1>3, PacingAssumption DEF Hour, Hours

LEMMA HourMonotone ==
    ASSUME NEW m \in SlotsOfDay, NEW n \in SlotsOfDay, m <= n
    PROVE  Hour(m) <= Hour(n)
<1> DEFINE p == m \div Slots
           q == n \div Slots
           s == Slots
<1>1. s \in Nat \ {0} /\ n \in Nat /\ m \in Nat
  BY PacingAssumption DEF SlotsOfDay
<1>2. p \in Nat /\ p * s <= m /\ q \in Nat /\ n < q * s + s
  BY <1>1
<1>3. p <= q
  <2> SUFFICES ASSUME p >= q + 1 PROVE FALSE
    BY <1>1, <1>2
  <2> HIDE DEF p, q, s
  <2>1. p * s >= (q + 1) * s
    BY <1>1, <1>2
  <2>2. (q + 1) * s = q * s + s
    BY <1>1, <1>2
  <2> QED
    BY <1>1, <1>2, <2>1, <2>2
<1> QED
  BY <1>3 DEF Hour

LEMMA FirstSlot == 0 \in SlotsOfDay /\ Hour(0) = 0 /\ 0 \in Hours
<1>1. HoursPerDay * Slots \in Nat \ {0}
  BY PacingAssumption
<1> QED
  BY <1>1, PacingAssumption DEF SlotsOfDay, Hour, Hours

-----------------------------------------------------------------------------
(* The counting of a notice keeps the record's type *)

Labels == Nat \cup {None}

LEMMA RecordFields ==
    ASSUME NEW r \in Record
    PROVE  /\ r.live \in BOOLEAN
           /\ r.total \in [Kinds -> Nat]
           /\ r.dst \in [Kinds -> [Hours -> Labels]]
           /\ r.sum \in [Kinds -> [Hours -> Labels]]
           /\ r.slot \in [Kinds -> [SlotsOfDay -> Nat]]
           /\ r.fin \in [Kinds -> SUBSET Hours]
BY DEF Record, Labels, SlotsOfDay

LEMMA CountType ==
    ASSUME NEW c \in Labels
    PROVE  Count(c) \in Nat
BY DEF Labels, Count

LEMMA BlankType == Blank \in Record
BY DEF Blank, Record

LEMMA CarryType ==
    ASSUME NEW r \in Record, NEW t \in Kinds, NEW h \in Hours
    PROVE  Carry(r, t, h) \in Int
<1> DEFINE earlier == {i \in 1..h-1 : Count(r.dst[t][i]) # 0}
           i == Max(earlier)
<1>1. CASE earlier = {}
  BY <1>1 DEF Carry
<1>2. CASE earlier # {}
  <2>1. h \in Nat /\ \A j \in 1..h-1 : j \in Hours /\ j \in Nat
    BY PacingAssumption DEF Hours
  <2>2. earlier \in SUBSET Nat /\ IsFiniteSet(earlier)
    <3>1. IsFiniteSet(1..h-1)
      BY <2>1, FS_Interval
    <3> QED
      BY <2>1, <3>1, FS_Subset
  <2>3. i \in earlier
    <3> HIDE DEF earlier
    <3> QED
      BY <1>2, <2>2, MaxOfFinite
  <2>4. i \in Hours /\ Count(r.dst[t][i]) # 0
    BY <2>1, <2>3
  <2> HIDE DEF i
  <2>5. r.dst[t][i] \in Nat /\ Count(r.sum[t][i]) \in Nat
    BY <2>4, RecordFields, CountType DEF Labels, Count
  <2>6. Carry(r, t, h) = r.dst[t][i] - Count(r.sum[t][i])
    BY <1>2 DEF Carry, i
  <2> QED
    BY <2>5, <2>6
<1> QED
  BY <1>1, <1>2

\* A target is at least 1 unless the hour has no limit.
LEMMA TargetType ==
    ASSUME NEW r \in Record, NEW p \in Plan, p.type \in Kinds, NEW h \in Hours
    PROVE  Target(r, p, h) \in Nat
<1>1. p.frequency[h] \in Nat /\ Carry(r, p.type, h) \in Int
  BY CarryType DEF Plan
<1>2. CASE p.frequency[h] = 0
  BY <1>2 DEF Target
<1>3. CASE p.frequency[h] # 0
  <2> DEFINE x == p.frequency[h] + Carry(r, p.type, h)
  <2>1. x \in Int
    BY <1>1
  <2> HIDE DEF x
  <2>2. Max({1, x}) \in {1, x} /\ Max({1, x}) >= 1
    BY <2>1, MaxOfTwo
  <2>3. Target(r, p, h) = Max({1, x})
    BY <1>3 DEF Target, x
  <2> QED
    BY <2>1, <2>2, <2>3
<1> QED
  BY <1>2, <1>3

LEMMA PlannedType ==
    ASSUME NEW r \in Record, NEW p \in Plan, p.type \in Kinds, NEW h \in Hours
    PROVE  Planned(r, p, h) \in Record
<1>1. Target(r, p, h) \in Labels
  BY TargetType DEF Labels
<1>2. [r EXCEPT !.dst[p.type][h] = Target(r, p, h)] \in Record
  BY <1>1 DEF Record, Labels
<1> QED
  BY <1>2 DEF Planned

LEMMA CountHourType ==
    ASSUME NEW r \in Record, NEW p, NEW k \in Kinds, NEW n \in SlotsOfDay
    PROVE  CountHour(r, p, k, n) \in Record
<1> DEFINE h == Hour(n)
           f == IF Met(r, p, k, h) THEN r.fin[k] \cup {h} ELSE r.fin[k]
<1>1. h \in Hours
  BY HourType
<1>2. Count(r.sum[k][h]) + 1 \in Labels
  <2>1. r.sum[k][h] \in Labels
    BY <1>1, RecordFields
  <2> HIDE DEF h
  <2>2. Count(r.sum[k][h]) \in Nat
    BY <2>1, CountType
  <2> QED
    BY <2>2 DEF Labels
<1>3. r.slot[k][n] + 1 \in Nat
  BY RecordFields
<1>4. f \in SUBSET Hours
  BY <1>1, RecordFields
<1> DEFINE c == Count(r.sum[k][h]) + 1
           m == r.slot[k][n] + 1
           u == [r EXCEPT !.sum[k][h] = c, !.slot[k][n] = m, !.fin[k] = f]
<1>5. CountHour(r, p, k, n) = u
  BY DEF CountHour
<1> HIDE DEF h, f, c, m
<1>6. u \in Record
  BY <1>1, <1>2, <1>3, <1>4 DEF Record, Labels, SlotsOfDay, c, m
<1> QED
  BY <1>5, <1>6
LEMMA CreatedType ==
    ASSUME NEW p \in Plan, p.type \in Kinds, NEW k \in Kinds, NEW n \in SlotsOfDay
    PROVE  Created(p, k, n) \in Record
<1> DEFINE h == Hour(n)
           r == [Blank EXCEPT !.live = TRUE, !.total[k] = 1]
           s == [j \in Kinds |-> [r.sum[j] EXCEPT ![h] = IF j = k THEN 1 ELSE 0]]
<1>1. h \in Hours
  BY HourType
<1>2. r \in Record
  BY BlankType DEF Record
<1>3. s \in [Kinds -> [Hours -> Labels]]
  <2> HIDE DEF r, h
  <2>1. r.sum \in [Kinds -> [Hours -> Labels]]
    BY <1>2, RecordFields
  <2> QED
    BY <2>1 DEF Labels
<1>4. p.frequency[h] \in Labels
  BY <1>1 DEF Plan, Labels
<1> DEFINE x == p.frequency[h]
           c == [r EXCEPT !.sum = s, !.slot[k][n] = 1, !.dst[p.type][h] = x]
<1>5. Created(p, k, n) = IF p.day THEN r ELSE c
  BY DEF Created
<1> HIDE DEF h, r, s, x
<1>6. c \in Record
  BY <1>1, <1>2, <1>3, <1>4 DEF Record, Labels, SlotsOfDay, x
<1> QED
  BY <1>2, <1>5, <1>6

LEMMA CountedType ==
    ASSUME NEW r \in Record, NEW p \in Plan, p.type \in Kinds,
           NEW k \in Kinds, NEW n \in SlotsOfDay
    PROVE  Counted(r, p, k, n) \in Record
<1> DEFINE t == [r EXCEPT !.total[k] = @ + 1]
<1>1. t \in Record
  <2> DEFINE m == r.total[k] + 1
  <2>1. m \in Nat
    BY RecordFields
  <2> HIDE DEF m
  <2>2. [r EXCEPT !.total[k] = m] \in Record
    BY <2>1 DEF Record
  <2> QED
    BY <2>2 DEF m
<1>2. Counted(r, p, k, n) = IF ~r.live THEN Created(p, k, n)
                            ELSE IF p.day THEN t ELSE CountHour(Planned(t, p, Hour(n)), p, k, n)
  BY DEF Counted
<1> HIDE DEF t
<1> QED
  BY <1>1, <1>2, CreatedType, PlannedType, CountHourType, HourType

-----------------------------------------------------------------------------
(* What the counting of a notice does to a record                          *)

\* The labels of c are those of r, with one more notice of kind k in hour h.
OneMore(r, c, p, k, h) ==
    /\ c.live
    /\ c.total = [r.total EXCEPT ![k] = @ + 1]
    /\ \A j \in Kinds, i \in Hours :
          /\ r.dst[j][i] # None => c.dst[j][i] = r.dst[j][i]
          /\ Count(c.sum[j][i]) = Count(r.sum[j][i]) + One(~p.day /\ j = k /\ i = h)
          /\ ~p.day /\ j = p.type /\ i = h => c.dst[j][i] # None
          /\ c.dst[j][i] # r.dst[j][i] => j = p.type /\ i = h
          /\ c.dst[j][i] # None => c.dst[j][i] \in Nat

\* A finish time is recorded where the target is met, and stays.
Finishes(r, c) ==
    \A j \in Kinds : \A i \in c.fin[j] :
        \/ i \in r.fin[j]
        \/ Count(c.dst[j][i]) > 0 /\ Count(c.sum[j][i]) >= c.dst[j][i]

LEMMA BlankFields ==
    /\ Blank.live = FALSE
    /\ Blank.total \in [Kinds -> Nat] /\ \A k \in Kinds : Blank.total[k] = 0
    /\ \A k \in Kinds, h \in Hours : Blank.dst[k][h] = None /\ Blank.sum[k][h] = None
    /\ \A k \in Kinds : Blank.fin[k] = {}
BY DEF Blank

LEMMA CreatedCounts ==
    ASSUME NEW p \in Plan, p.type \in Kinds, NEW k \in Kinds, NEW n \in SlotsOfDay
    PROVE  /\ OneMore(Blank, Created(p, k, n), p, k, Hour(n))
           /\ \A j \in Kinds : Created(p, k, n).fin[j] = {}
<1> DEFINE h == Hour(n)
           c == Created(p, k, n)
<1>1. h \in Hours /\ None \notin Nat
  BY HourType, PacingAssumption
<1>2. /\ c.live
      /\ c.total = [Blank.total EXCEPT ![k] = @ + 1]
      /\ c.fin = Blank.fin
  BY DEF Created, Blank
<1>3. CASE p.day
  <2>1. c.dst = Blank.dst /\ c.sum = Blank.sum
    BY <1>3 DEF Created, Blank
  <2>2. \A j \in Kinds, i \in Hours : Count(c.sum[j][i]) \in Nat
    BY <2>1, BlankFields DEF Count
  <2> QED
    BY <1>2, <1>3, <2>1, <2>2, BlankFields DEF OneMore, One
<1>4. CASE ~p.day
  <2> DEFINE x == p.frequency[h]
  <2>1. x \in Nat
    BY <1>1 DEF Plan
  <2>2. \A j \in Kinds, i \in Hours :
           c.dst[j][i] = IF j = p.type /\ i = h THEN x ELSE None
    BY <1>1, <1>4 DEF Created, Blank
  <2>3. \A j \in Kinds, i \in Hours :
           c.sum[j][i] = IF i = h THEN (IF j = k THEN 1 ELSE 0) ELSE None
    BY <1>1, <1>4 DEF Created, Blank
  <2> HIDE DEF x, c, h
  <2>4. \A j \in Kinds, i \in Hours :
           Count(c.sum[j][i]) = Count(Blank.sum[j][i]) + One(~p.day /\ j = k /\ i = h)
    BY <1>1, <1>4, <2>3, BlankFields DEF Count, One
  <2> QED
    BY <1>1, <1>2, <2>1, <2>2, <2>4, BlankFields DEF OneMore, c, h
<1> QED
  BY <1>2, <1>3, <1>4, BlankFields

LEMMA PlannedCounts ==
    ASSUME NEW r \in Record, NEW p \in Plan, p.type \in Kinds, NEW h \in Hours
    PROVE  LET d == Planned(r, p, h)
           IN  /\ d.live = r.live /\ d.total = r.total /\ d.sum = r.sum
               /\ d.slot = r.slot /\ d.fin = r.fin
               /\ d.dst[p.type][h] # None
               /\ \A j \in Kinds, i \in Hours :
                     /\ r.dst[j][i] # None => d.dst[j][i] = r.dst[j][i]
                     /\ d.dst[j][i] # r.dst[j][i] => j = p.type /\ i = h
<1> DEFINE t == Target(r, p, h)
           u == [r EXCEPT !.dst[p.type][h] = t]
<1>1. t # None
  BY TargetType, PacingAssumption
<1> HIDE DEF t
<1>2. /\ u.live = r.live /\ u.total = r.total /\ u.sum = r.sum
      /\ u.slot = r.slot /\ u.fin = r.fin
      /\ \A j \in Kinds, i \in Hours :
            u.dst[j][i] = IF j = p.type /\ i = h THEN t ELSE r.dst[j][i]
  BY DEF Record
<1>3. Planned(r, p, h) = IF r.dst[p.type][h] # None THEN r ELSE u
  BY DEF Planned, t
<1> HIDE DEF u
<1>4. CASE r.dst[p.type][h] # None
  BY <1>3, <1>4
<1>5. CASE r.dst[p.type][h] = None
  BY <1>1, <1>2, <1>3, <1>5
<1> QED
  BY <1>4, <1>5

LEMMA MetMeans ==
    ASSUME NEW r \in Record, NEW p, NEW k \in Kinds, NEW h \in Hours, Met(r, p, k, h)
    PROVE  /\ Count(r.dst[k][h]) > 0
           /\ Count(r.sum[k][h]) + 1 >= r.dst[k][h]
<1>1. r.dst[k][h] \in Labels /\ r.sum[k][h] \in Labels
  BY RecordFields
<1>2. r.sum[k][h] # None /\ Count(r.dst[k][h]) # 0 /\ Count(r.dst[k][h]) <= r.sum[k][h] + 1
  BY DEF Met
<1> QED
  BY <1>1, <1>2 DEF Labels, Count

\* One more notice of kind k in hour h, of a record whose targets stay.
HourCounted(r, c, k, h) ==
    /\ c.live = r.live /\ c.total = r.total /\ c.dst = r.dst
    /\ \A j \in Kinds, i \in Hours :
          Count(c.sum[j][i]) = Count(r.sum[j][i]) + One(j = k /\ i = h)
    /\ \A j \in Kinds : \A i \in c.fin[j] :
          \/ i \in r.fin[j]
          \/ /\ j = k /\ i = h
             /\ Count(r.dst[k][h]) > 0 /\ Count(r.sum[k][h]) + 1 >= r.dst[k][h]

LEMMA CountHourCounts ==
    ASSUME NEW r \in Record, NEW p, NEW k \in Kinds, NEW n \in SlotsOfDay
    PROVE  HourCounted(r, CountHour(r, p, k, n), k, Hour(n))
<1> DEFINE h == Hour(n)
           c == CountHour(r, p, k, n)
           x == Count(r.sum[k][h]) + 1
<1>1. h \in Hours /\ None \notin Nat
  BY HourType, PacingAssumption
<1>2. \A j \in Kinds, i \in Hours : r.sum[j][i] \in Labels /\ Count(r.sum[j][i]) \in Nat
  BY RecordFields, CountType
<1>3. x \in Nat
  BY <1>1, <1>2
<1>4. /\ c.live = r.live /\ c.total = r.total /\ c.dst = r.dst
      /\ \A j \in Kinds, i \in Hours : c.sum[j][i] = IF j = k /\ i = h THEN x ELSE r.sum[j][i]
  BY DEF CountHour, Record
<1>6. \A j \in Kinds : \A i \in c.fin[j] : i \in r.fin[j] \/ (j = k /\ i = h /\ Met(r, p, k, h))
  BY DEF CountHour, Record
<1> HIDE DEF h, c
<1>5. \A j \in Kinds, i \in Hours :
         Count(c.sum[j][i]) = Count(r.sum[j][i]) + One(j = k /\ i = h)
  BY <1>1, <1>2, <1>3, <1>4 DEF Count, One
<1>7. Met(r, p, k, h) => Count(r.dst[k][h]) > 0 /\ Count(r.sum[k][h]) + 1 >= r.dst[k][h]
  BY <1>1, MetMeans
<1> QED
  BY <1>4, <1>5, <1>6, <1>7 DEF HourCounted, h, c
LEMMA CountedCounts ==
    ASSUME NEW r \in Record, RecordSound(r), NEW p \in Plan, p.type \in Kinds,
           NEW k \in Kinds, NEW n \in SlotsOfDay
    PROVE  LET c == Counted(r, p, k, n)
           IN  OneMore(r, c, p, k, Hour(n)) /\ RecordSound(c)
<1> DEFINE c == Counted(r, p, k, n)
           h == Hour(n)
<1>1. h \in Hours /\ c \in Record
  BY HourType, CountedType
<1>2. /\ \A j \in Kinds, i \in Hours : c.dst[j][i] \in Labels /\ c.sum[j][i] \in Labels
      /\ \A j \in Kinds, i \in Hours : r.dst[j][i] \in Labels /\ Count(r.sum[j][i]) \in Nat
      /\ \A j \in Kinds : r.fin[j] \subseteq Hours
  BY <1>1, RecordFields, CountType
<1>3. CASE ~r.live
  <2>1. r = Blank /\ c = Created(p, k, n)
    BY <1>3 DEF RecordSound, Counted
  <2>2. OneMore(r, c, p, k, h) /\ \A j \in Kinds : c.fin[j] = {}
    BY <2>1, CreatedCounts
  <2>3. RecordSound(c)
    BY <2>2 DEF RecordSound, OneMore
  <2> QED
    BY <2>2, <2>3
<1>4. CASE r.live /\ p.day
  <2> DEFINE m == r.total[k] + 1
  <2>1. c = [r EXCEPT !.total[k] = m]
    BY <1>4 DEF Counted
  <2> HIDE DEF c, m
  <2>2. /\ c.live /\ c.total = [r.total EXCEPT ![k] = m]
        /\ c.dst = r.dst /\ c.sum = r.sum /\ c.fin = r.fin
    BY <1>4, <2>1 DEF Record
  <2>3. OneMore(r, c, p, k, h)
    BY <1>2, <1>4, <2>2 DEF OneMore, One, Labels, m
  <2>4. RecordSound(c)
    BY <2>2 DEF RecordSound
  <2> QED
    BY <2>3, <2>4 DEF c
<1>5. CASE r.live /\ ~p.day
  <2> DEFINE m == r.total[k] + 1
             t == [r EXCEPT !.total[k] = m]
             d == Planned(t, p, h)
  <2>1. c = CountHour(d, p, k, n)
    BY <1>5 DEF Counted
  <2>2. m \in Nat
    BY RecordFields
  <2> HIDE DEF m, c
  <2>3. /\ t \in Record
        /\ t.live /\ t.total = [r.total EXCEPT ![k] = m]
        /\ t.dst = r.dst /\ t.sum = r.sum /\ t.fin = r.fin
    BY <1>5, <2>2 DEF Record
  <2> HIDE DEF t
  <2>4. d \in Record
    BY <1>1, <2>3, PlannedType
  <2>5. /\ d.live /\ d.total = t.total /\ d.sum = r.sum /\ d.fin = r.fin
        /\ d.dst[p.type][h] # None
        /\ \A j \in Kinds, i \in Hours :
              /\ r.dst[j][i] # None => d.dst[j][i] = r.dst[j][i]
              /\ d.dst[j][i] # r.dst[j][i] => j = p.type /\ i = h
    BY <1>1, <2>3, PlannedCounts
  <2> HIDE DEF d
  <2>6. HourCounted(d, c, k, h)
    BY <2>1, <2>4, CountHourCounts
  <2>7. OneMore(r, c, p, k, h)
    BY <1>1, <1>2, <1>5, <2>3, <2>5, <2>6 DEF OneMore, HourCounted, One, Labels, m
  <2>8. RecordSound(c)
    <3> SUFFICES ASSUME NEW j \in Kinds, NEW i \in c.fin[j]
                 PROVE  Count(c.dst[j][i]) > 0 /\ Count(c.sum[j][i]) >= c.dst[j][i]
      BY <2>5, <2>6 DEF RecordSound, HourCounted
    <3>1. CASE i \in r.fin[j]
      <4>1. i \in Hours /\ Count(r.dst[j][i]) > 0 /\ Count(r.sum[j][i]) >= r.dst[j][i]
        BY <1>2, <3>1 DEF RecordSound
      <4>2. r.dst[j][i] # None
        BY <4>1 DEF Count
      <4>3. c.dst[j][i] = r.dst[j][i] /\ r.dst[j][i] \in Nat
        BY <1>2, <2>5, <2>6, <4>1, <4>2 DEF Labels, HourCounted
      <4>4. Count(c.sum[j][i]) >= Count(r.sum[j][i])
        BY <1>2, <2>5, <2>6, <4>1 DEF One, HourCounted
      <4>5. Count(c.sum[j][i]) \in Nat
        BY <1>2, <4>1, CountType
      <4> QED
        BY <1>2, <4>1, <4>3, <4>4, <4>5
    <3>2. CASE i \notin r.fin[j]
      <4>1. /\ j = k /\ i = h
            /\ Count(d.dst[k][h]) > 0 /\ Count(d.sum[k][h]) + 1 >= d.dst[k][h]
        BY <2>5, <2>6, <3>2 DEF HourCounted
      <4>3. Count(c.sum[j][i]) = Count(d.sum[k][h]) + 1
        BY <1>1, <2>6, <4>1 DEF One, HourCounted
      <4> QED
        BY <2>6, <4>1, <4>3 DEF HourCounted
    <3> QED
      BY <3>1, <3>2
  <2> QED
    BY <2>7, <2>8 DEF c
<1> QED
  BY <1>3, <1>4, <1>5
-----------------------------------------------------------------------------
(* Type correctness *)

\* A write needs an item of a group with a limit in the worker's hands.
TypeInv == TypeOK /\ WorkerSound

LEMMA MinOfTwo ==
    ASSUME NEW a \in Nat, NEW b \in Nat
    PROVE  Min({a, b}) \in Nat
<1>1. \E x \in {a, b} : \A y \in {a, b} : x =< y
  OBVIOUS
<1>2. Min({a, b}) \in {a, b}
  BY <1>1 DEF Min
<1> QED
  BY <1>2

LEMMA PlanType ==
    /\ Len(Plans) \in Nat /\ 1 \in 1..Len(Plans)
    /\ \A i \in 1..Len(Plans) : Plans[i] \in Plan
    /\ \A e \in Item : e.kind \in Kinds /\ e.plan \in Plan
BY PacingAssumption DEF Item

\* The parts of the type invariant, for the steps that leave most of it alone.
TypeRedis == master \in Record /\ slave \in Record /\ lag \in Seq(Record)
TypeWorker ==
    /\ queue \in Seq(Item) /\ batch \in Seq(Item)
    /\ copy = <<>> \/ copy \in Record \X SlotsOfDay
TypeRest ==
    /\ now \in SlotsOfDay
    /\ ver \in [{"tracker", "bidder"} -> 1..Len(Plans)]
    /\ bids \in Nat /\ out \in Nat /\ shown \in Nat /\ strays \in Nat /\ unread \in Nat
    /\ pushed \in [Kinds -> Nat] /\ dropped \in [Kinds -> Nat]
    /\ stale \in BOOLEAN

LEMMA TypeParts == TypeOK <=> TypeRedis /\ TypeWorker /\ TypeRest
BY DEF TypeOK, TypeRedis, TypeWorker, TypeRest, SlotsOfDay

LEMMA TypePartsNext == TypeOK' <=> TypeRedis' /\ TypeWorker' /\ TypeRest'
BY DEF TypeOK, TypeRedis, TypeWorker, TypeRest, SlotsOfDay

LEMMA RedisSame == TypeRedis /\ UNCHANGED redisVars => TypeRedis'
BY DEF TypeRedis, redisVars

LEMMA InitType == Init => TypeInv
<1> SUFFICES ASSUME Init PROVE TypeInv
  OBVIOUS
<1>1. TypeRedis
  BY BlankType DEF Init, TypeRedis
<1>2. TypeWorker
  BY DEF Init, TypeWorker
<1>3. TypeRest
  BY FirstSlot, PlanType DEF Init, TypeRest
<1> QED
  BY <1>1, <1>2, <1>3, TypeParts DEF Init, WorkerSound, TypeInv

LEMMA TickType == TypeInv /\ Tick => TypeInv'
<1> SUFFICES ASSUME TypeInv, Tick PROVE TypeInv'
  OBVIOUS
<1>1. TypeRedis /\ TypeWorker /\ TypeRest
  BY TypeParts DEF TypeInv
<1>2. now' \in SlotsOfDay /\ now \in SlotsOfDay /\ now' = now + 1
  BY <1>1, PacingAssumption DEF Tick, SlotsOfDay, TypeRest
<1>3. TypeRedis'
  BY <1>1, RedisSame DEF Tick
<1>4. TypeWorker'
  BY <1>1 DEF Tick, TypeWorker, workerVars
<1>5. TypeRest'
  BY <1>1, <1>2 DEF Tick, TypeRest, bidVars, history
<1>6. WorkerSound'
  <2>1. batch' = batch /\ copy' = copy
    BY DEF Tick, workerVars
  <2>2. copy # <<>> => copy[2] \in SlotsOfDay
    BY <1>1 DEF TypeWorker
  <2> QED
    BY <1>2, <2>1, <2>2, PacingAssumption DEF TypeInv, WorkerSound, SlotsOfDay
<1> QED
  BY <1>3, <1>4, <1>5, <1>6, TypePartsNext DEF TypeInv

LEMMA ReloadType ==
    ASSUME TypeInv, NEW w \in {"tracker", "bidder"}, Reload(w)
    PROVE  TypeInv'
<1>1. TypeRedis /\ TypeWorker /\ TypeRest
  BY TypeParts DEF TypeInv
<1>2. ver' \in [{"tracker", "bidder"} -> 1..Len(Plans)]
  <2>1. ver[w] + 1 \in 1..Len(Plans)
    BY <1>1, PlanType DEF Reload, TypeRest
  <2> QED
    BY <1>1, <2>1 DEF Reload, TypeRest
<1>3. TypeRedis'
  BY <1>1, RedisSame DEF Reload
<1>4. TypeWorker' /\ WorkerSound'
  BY <1>1 DEF Reload, TypeWorker, WorkerSound, workerVars, TypeInv
<1>5. TypeRest'
  BY <1>1, <1>2 DEF Reload, TypeRest, bidVars, history
<1> QED
  BY <1>3, <1>4, <1>5, TypePartsNext DEF TypeInv

LEMMA ReplicateType == TypeInv /\ Replicate => TypeInv'
<1> SUFFICES ASSUME TypeInv, Replicate PROVE TypeInv'
  OBVIOUS
<1>1. TypeRedis /\ TypeWorker /\ TypeRest
  BY TypeParts DEF TypeInv
<1>2. Head(lag) \in Record /\ Tail(lag) \in Seq(Record)
  BY <1>1, HeadTailProperties DEF Replicate, TypeRedis
<1>3. TypeRedis'
  BY <1>1, <1>2 DEF Replicate, TypeRedis
<1>4. TypeWorker' /\ WorkerSound'
  BY <1>1 DEF Replicate, TypeWorker, WorkerSound, workerVars, envVars, TypeInv
<1>5. TypeRest'
  BY <1>1 DEF Replicate, TypeRest, envVars, bidVars, history
<1> QED
  BY <1>3, <1>4, <1>5, TypePartsNext DEF TypeInv

LEMMA BidType == TypeInv /\ (Bid \/ BidUnread) => TypeInv'
<1> SUFFICES ASSUME TypeInv, Bid \/ BidUnread PROVE TypeInv'
  OBVIOUS
<1>1. TypeRedis /\ TypeWorker /\ TypeRest
  BY TypeParts DEF TypeInv
<1>2. TypeRedis'
  BY <1>1, RedisSame DEF Bid, BidUnread
<1>3. TypeWorker' /\ WorkerSound'
  BY <1>1 DEF Bid, BidUnread, TypeWorker, WorkerSound, workerVars, envVars, TypeInv
<1>4. TypeRest'
  BY <1>1 DEF Bid, BidUnread, TypeRest, envVars, history
<1> QED
  BY <1>2, <1>3, <1>4, TypePartsNext DEF TypeInv

\* What a notice pushed leaves as it should be.
LEMMA PushType ==
    ASSUME TypeInv, NEW k \in Kinds, Push(k), UNCHANGED <<envVars, redisVars, batch, copy, dropped, stale>>,
           bids' \in Nat, out' \in Nat, shown' \in Nat, strays' \in Nat, unread' \in Nat
    PROVE  TypeInv'
<1>1. TypeRedis /\ TypeWorker /\ TypeRest
  BY TypeParts DEF TypeInv
<1>2. queue' \in Seq(Item)
  <2> DEFINE e == [kind |-> k, plan |-> Plans[ver["tracker"]]]
  <2>1. e \in Item
    BY <1>1 DEF TypeRest, Item
  <2> HIDE DEF e
  <2>2. Append(queue, e) \in Seq(Item)
    BY <1>1, <2>1, AppendProperties DEF TypeWorker
  <2> QED
    BY <2>2 DEF Push, e
<1>3. TypeRedis'
  BY <1>1, RedisSame
<1>4. TypeWorker' /\ WorkerSound'
  BY <1>1, <1>2 DEF TypeWorker, WorkerSound, envVars, TypeInv
<1>5. TypeRest'
  BY <1>1 DEF Push, TypeRest, envVars
<1> QED
  BY <1>3, <1>4, <1>5, TypePartsNext DEF TypeInv

LEMMA NoticeType == TypeInv /\ (Impression \/ Click \/ Stray) => TypeInv'
<1> SUFFICES ASSUME TypeInv, Impression \/ Click \/ Stray PROVE TypeInv'
  OBVIOUS
<1>1. TypeRest
  BY TypeParts DEF TypeInv
<1>2. bids \in Nat /\ out \in Nat /\ shown \in Nat /\ strays \in Nat /\ unread \in Nat
  BY <1>1 DEF TypeRest
<1>3. CASE Impression
  <2>1. Min({shown + 1, MaxClicks}) \in Nat
    BY <1>2, MinOfTwo, PacingAssumption
  <2>2. bids' \in Nat /\ out' \in Nat /\ shown' \in Nat /\ strays' \in Nat /\ unread' \in Nat
    BY <1>2, <1>3, <2>1 DEF Impression
  <2> QED
    BY <1>3, <2>2, PushType DEF Impression, Kinds
<1>4. CASE Click
  <2>1. bids' \in Nat /\ out' \in Nat /\ shown' \in Nat /\ strays' \in Nat /\ unread' \in Nat
    BY <1>2, <1>4 DEF Click
  <2> QED
    BY <1>4, <2>1, PushType DEF Click, Kinds
<1>5. CASE Stray
  <2>1. bids' \in Nat /\ out' \in Nat /\ shown' \in Nat /\ strays' \in Nat /\ unread' \in Nat
    BY <1>2, <1>5 DEF Stray
  <2> QED
    BY <1>5, <2>1, PushType DEF Stray, Kinds
<1> QED
  BY <1>3, <1>4, <1>5
LEMMA SwapType == TypeInv /\ Swap => TypeInv'
<1> SUFFICES ASSUME TypeInv, Swap PROVE TypeInv'
  OBVIOUS
<1>1. TypeRedis /\ TypeWorker /\ TypeRest
  BY TypeParts DEF TypeInv
<1>2. TypeRedis'
  BY <1>1, RedisSame DEF Swap
<1>3. TypeWorker' /\ WorkerSound'
  BY <1>1 DEF Swap, TypeWorker, WorkerSound, TypeInv
<1>4. TypeRest'
  BY <1>1 DEF Swap, TypeRest, envVars, bidVars, history
<1> QED
  BY <1>2, <1>3, <1>4, TypePartsNext DEF TypeInv

\* The item the worker has, and the rest of its batch.
LEMMA BatchType ==
    ASSUME TypeInv, batch # <<>>
    PROVE  /\ Head(batch) \in Item /\ Tail(batch) \in Seq(Item)
           /\ Head(batch).kind \in Kinds /\ Head(batch).plan \in Plan
<1>1. batch \in Seq(Item)
  BY TypeParts DEF TypeInv, TypeWorker
<1>2. Head(batch) \in Item /\ Tail(batch) \in Seq(Item)
  BY <1>1, HeadTailProperties
<1> QED
  BY <1>2, PlanType

\* What giving an item up leaves.
LEMMA ForgetType ==
    ASSUME TypeInv, batch # <<>>, Forget, batch' = Tail(batch), copy' = <<>>,
           UNCHANGED <<envVars, redisVars, queue, bidVars, pushed, stale>>
    PROVE  TypeInv'
<1>1. TypeRedis /\ TypeWorker /\ TypeRest
  BY TypeParts DEF TypeInv
<1>2. TypeRedis'
  BY <1>1, RedisSame
<1>3. TypeWorker' /\ WorkerSound'
  BY <1>1, BatchType DEF TypeWorker, WorkerSound
<1>4. dropped' \in [Kinds -> Nat]
  BY <1>1, BatchType DEF Forget, TypeRest
<1>5. TypeRest'
  BY <1>1, <1>4 DEF TypeRest, envVars, bidVars
<1> QED
  BY <1>2, <1>3, <1>5, TypePartsNext DEF TypeInv

LEMMA SkipType == TypeInv /\ (Skip \/ Drop) => TypeInv'
BY ForgetType DEF Skip, Drop

LEMMA ReadType == TypeInv /\ Read => TypeInv'
<1> SUFFICES ASSUME TypeInv, Read PROVE TypeInv'
  OBVIOUS
<1>1. TypeRedis /\ TypeWorker /\ TypeRest
  BY TypeParts DEF TypeInv
<1>2. TypeRedis'
  BY <1>1, RedisSame DEF Read
<1>3. slave \in Record /\ now \in SlotsOfDay /\ stale' \in BOOLEAN
  BY <1>1 DEF TypeRedis, TypeRest, Read
<1>4. /\ copy' = <<slave, now>> /\ now' = now
      /\ batch' = batch /\ queue' = queue /\ batch # <<>>
      /\ Head(batch).plan.type # "infinity"
  BY DEF Read, envVars
<1>5. TypeWorker'
  BY <1>1, <1>3, <1>4 DEF TypeWorker
<1>6. WorkerSound'
  BY <1>3, <1>4, PacingAssumption DEF WorkerSound, SlotsOfDay
<1>7. TypeRest'
  BY <1>1, <1>3 DEF Read, TypeRest, envVars, bidVars
<1> QED
  BY <1>2, <1>5, <1>6, <1>7, TypePartsNext DEF TypeInv

\* What the worker is about to write.
Written == Counted(copy[1], Head(batch).plan, Head(batch).kind, copy[2])

LEMMA HeldType ==
    ASSUME TypeInv, copy # <<>>
    PROVE  /\ batch # <<>> /\ copy[1] \in Record /\ copy[2] \in SlotsOfDay
           /\ Head(batch).kind \in Kinds /\ Head(batch).plan \in Plan
           /\ Head(batch).plan.type \in Kinds
           /\ Hour(copy[2]) \in Hours
           /\ Written \in Record
<1>1. copy \in Record \X SlotsOfDay
  BY TypeParts DEF TypeInv, TypeWorker
<1>2. batch # <<>> /\ Head(batch).plan.type # "infinity"
  BY DEF TypeInv, WorkerSound
<1>3. Head(batch).kind \in Kinds /\ Head(batch).plan \in Plan
  BY <1>2, BatchType
<1>4. Head(batch).plan.type \in Kinds
  BY <1>2, <1>3 DEF Plan
<1> QED
  BY <1>1, <1>2, <1>3, <1>4, CountedType, HourType DEF Written

LEMMA WriteIs ==
    ASSUME TypeInv, Write
    PROVE  /\ copy # <<>> /\ master' = Written /\ lag' = Append(lag, Written)
           /\ batch' = Tail(batch) /\ copy' = <<>>
           /\ UNCHANGED <<envVars, slave, queue, bidVars, history>>
BY DEF Write, Written

LEMMA WriteType == TypeInv /\ Write => TypeInv'
<1> SUFFICES ASSUME TypeInv, Write PROVE TypeInv'
  OBVIOUS
<1>1. TypeRedis /\ TypeWorker /\ TypeRest
  BY TypeParts DEF TypeInv
<1>2. Written \in Record /\ batch # <<>>
  BY WriteIs, HeldType
<1>3. Append(lag, Written) \in Seq(Record)
  BY <1>1, <1>2, AppendProperties DEF TypeRedis
<1>4. TypeRedis'
  BY <1>1, <1>2, <1>3, WriteIs DEF TypeRedis
<1>5. TypeWorker' /\ WorkerSound'
  BY <1>1, <1>2, WriteIs, BatchType DEF TypeWorker, WorkerSound
<1>6. TypeRest'
  BY <1>1, WriteIs DEF TypeRest, envVars, bidVars, history
<1> QED
  BY <1>4, <1>5, <1>6, TypePartsNext DEF TypeInv

LEMMA StutterType == TypeInv /\ UNCHANGED vars => TypeInv'
<1> SUFFICES ASSUME TypeInv, UNCHANGED vars PROVE TypeInv'
  OBVIOUS
<1>1. TypeRedis /\ TypeWorker /\ TypeRest
  BY TypeParts DEF TypeInv
<1>2. TypeRedis'
  BY <1>1, RedisSame DEF vars
<1>3. TypeWorker' /\ WorkerSound'
  BY <1>1 DEF vars, TypeWorker, WorkerSound, workerVars, envVars, TypeInv
<1>4. TypeRest'
  BY <1>1 DEF vars, TypeRest, envVars, bidVars, history
<1> QED
  BY <1>2, <1>3, <1>4, TypePartsNext DEF TypeInv

LEMMA NextType == TypeInv /\ [Next]_vars => TypeInv'
<1> SUFFICES ASSUME TypeInv, [Next]_vars PROVE TypeInv'
  OBVIOUS
<1>1. CASE Tick
  BY <1>1, TickType
<1>2. CASE Replicate
  BY <1>2, ReplicateType
<1>3. CASE \E w \in {"tracker", "bidder"} : Reload(w)
  BY <1>3, ReloadType
<1>4. CASE Bid \/ BidUnread
  BY <1>4, BidType
<1>5. CASE Impression \/ Click \/ Stray
  BY <1>5, NoticeType
<1>6. CASE Swap
  BY <1>6, SwapType
<1>7. CASE Skip \/ Drop
  BY <1>7, SkipType
<1>8. CASE Read
  BY <1>8, ReadType
<1>9. CASE Write
  BY <1>9, WriteType
<1>10. CASE UNCHANGED vars
  BY <1>10, StutterType
<1> QED
  BY <1>1, <1>2, <1>3, <1>4, <1>5, <1>6, <1>7, <1>8, <1>9, <1>10 DEF Next

LEMMA TypesHold == Spec => []TypeInv
<1>1. Init => TypeInv
  BY InitType
<1>2. TypeInv /\ [Next]_vars => TypeInv'
  BY NextType
<1> QED
  BY <1>1, <1>2, PTL DEF Spec

\* Every variable keeps its type: labels and totals stay natural numbers, so no
\* target that is computed from what earlier hours left ever becomes negative.
THEOREM TypeCorrect == Spec => []TypeOK
<1>1. TypeInv => TypeOK
  BY DEF TypeInv
<1> QED
  BY <1>1, TypesHold, PTL
-----------------------------------------------------------------------------
(* Every record there is comes from the worker                             *)

LEMMA RecordsHave ==
    /\ master \in Records /\ slave \in Records
    /\ \A i \in 1..Len(lag) : lag[i] \in Records
    /\ copy # <<>> => copy[1] \in Records
BY DEF Records

LEMMA RecordsSplit ==
    ASSUME NEW r \in Records
    PROVE  \/ r = master \/ r = slave
           \/ \E i \in 1..Len(lag) : r = lag[i]
           \/ copy # <<>> /\ r = copy[1]
<1>1. CASE copy = <<>>
  BY <1>1 DEF Records
<1>2. CASE copy # <<>>
  BY <1>2 DEF Records
<1> QED
  BY <1>1, <1>2

LEMMA RecordsSplitNext ==
    ASSUME NEW r \in Records'
    PROVE  \/ r = master' \/ r = slave'
           \/ \E i \in 1..Len(lag') : r = lag'[i]
           \/ copy' # <<>> /\ r = copy'[1]
<1>1. CASE copy' = <<>>
  BY <1>1 DEF Records
<1>2. CASE copy' # <<>>
  BY <1>2 DEF Records
<1> QED
  BY <1>1, <1>2

LEMMA RecordsType == TypeInv => \A r \in Records : r \in Record
<1> SUFFICES ASSUME TypeInv, NEW r \in Records PROVE r \in Record
  OBVIOUS
<1>1. TypeRedis /\ TypeWorker
  BY TypeParts DEF TypeInv
<1>2. \A i \in 1..Len(lag) : lag[i] \in Record
  BY <1>1, ElementOfSeq DEF TypeRedis
<1>3. copy # <<>> => copy[1] \in Record
  BY <1>1 DEF TypeWorker
<1> QED
  BY <1>1, <1>2, <1>3, RecordsSplit DEF TypeRedis

\* The steps that leave the worker's hands and redis alone.
Apart ==
    \/ Tick \/ (\E w \in {"tracker", "bidder"} : Reload(w))
    \/ Bid \/ BidUnread \/ Impression \/ Click \/ Stray \/ Swap \/ UNCHANGED vars

LEMMA ApartKeeps == Apart => UNCHANGED <<redisVars, copy>>
BY DEF Apart, Tick, Reload, Bid, BidUnread, Impression, Click, Stray, Swap, vars, redisVars, workerVars

LEMMA NextSplit == [Next]_vars => Apart \/ Replicate \/ Skip \/ Read \/ Write \/ Drop
BY DEF Next, Apart

\* What is written, and where the records move.
LEMMA LagTail ==
    ASSUME TypeInv, Replicate
    PROVE  /\ Len(lag) \in Nat \ {0} /\ Len(lag') = Len(lag) - 1
           /\ slave' = lag[1] /\ \A i \in 1..Len(lag') : lag'[i] = lag[i+1]
           /\ master' = master /\ copy' = copy
<1>1. lag \in Seq(Record) /\ lag # <<>> /\ lag' = Tail(lag) /\ slave' = Head(lag)
  BY TypeParts DEF TypeInv, TypeRedis, Replicate
<1>2. Len(lag) \in Nat \ {0}
  BY <1>1, EmptySeq, LenProperties
<1>3. master' = master /\ copy' = copy
  BY DEF Replicate, workerVars
<1> QED
  BY <1>1, <1>2, <1>3, HeadTailProperties

LEMMA LagAppend ==
    ASSUME TypeInv, Write
    PROVE  /\ Len(lag) \in Nat /\ Len(lag') = Len(lag) + 1
           /\ lag'[Len(lag')] = Written /\ \A i \in 1..Len(lag) : lag'[i] = lag[i]
<1>1. lag \in Seq(Record) /\ Written \in Record /\ lag' = Append(lag, Written)
  BY TypeParts, WriteIs, HeldType DEF TypeInv, TypeRedis
<1> QED
  BY <1>1, LenProperties, AppendProperties

LEMMA NewRecord ==
    ASSUME TypeInv, [Next]_vars, NEW r \in Records'
    PROVE  r \in Records \/ (Write /\ r = Written)
<1>1. CASE Apart
  <2>1. UNCHANGED <<master, slave, lag, copy>>
    BY <1>1, ApartKeeps DEF redisVars
  <2> QED
    BY <2>1, RecordsHave, RecordsSplitNext
<1>2. CASE Replicate
  <2>1. \A i \in 1..Len(lag') : i + 1 \in 1..Len(lag)
    BY <1>2, LagTail
  <2>2. 1 \in 1..Len(lag)
    BY <1>2, LagTail
  <2>3. \A i \in 1..Len(lag') : lag'[i] \in Records
    BY <1>2, <2>1, LagTail, RecordsHave
  <2>4. /\ master' \in Records /\ slave' \in Records
        /\ copy' # <<>> => copy'[1] \in Records
    BY <1>2, <2>2, LagTail, RecordsHave
  <2> QED
    BY <2>3, <2>4, RecordsSplitNext
<1>3. CASE Skip \/ Drop
  <2>1. UNCHANGED <<master, slave, lag>> /\ (copy' = copy \/ copy' = <<>>)
    BY <1>3 DEF Skip, Drop, redisVars
  <2> QED
    BY <2>1, RecordsHave, RecordsSplitNext
<1>4. CASE Read
  <2>1. UNCHANGED <<master, slave, lag>> /\ copy' = <<slave, now>>
    BY <1>4 DEF Read, redisVars
  <2>2. copy'[1] = slave
    BY <2>1
  <2> QED
    BY <2>1, <2>2, RecordsHave, RecordsSplitNext
<1>5. CASE Write
  <2>1. master' = Written /\ slave' = slave /\ copy' = <<>>
    BY <1>5, WriteIs
  <2>2. \A i \in 1..Len(lag') : i \in 1..Len(lag) \/ i = Len(lag')
    BY <1>5, LagAppend
  <2>3. \A i \in 1..Len(lag') : lag'[i] = Written \/ lag'[i] \in Records
    <3> SUFFICES ASSUME NEW i \in 1..Len(lag') PROVE lag'[i] = Written \/ lag'[i] \in Records
      OBVIOUS
    <3>1. CASE i \in 1..Len(lag)
      BY <1>5, <3>1, LagAppend, RecordsHave
    <3>2. CASE i = Len(lag')
      BY <1>5, <3>2, LagAppend
    <3> QED
      BY <2>2, <3>1, <3>2
  <2> QED
    BY <1>5, <2>1, <2>3, RecordsHave, RecordsSplitNext
<1> QED
  BY <1>1, <1>2, <1>3, <1>4, <1>5, NextSplit

-----------------------------------------------------------------------------
(* Finish times *)

SoundInv == TypeInv /\ \A r \in Records : RecordSound(r)

LEMMA BlankSound == RecordSound(Blank)
BY BlankFields DEF RecordSound

LEMMA InitSound == Init => SoundInv
<1> SUFFICES ASSUME Init PROVE SoundInv
  OBVIOUS
<1>1. \A r \in Records : r = Blank
  BY DEF Init, Records
<1> QED
  BY <1>1, InitType, BlankSound DEF SoundInv

\* What the worker makes of the record it holds.
LEMMA WrittenIs ==
    ASSUME SoundInv, copy # <<>>
    PROVE  /\ OneMore(copy[1], Written, Head(batch).plan, Head(batch).kind, Hour(copy[2]))
           /\ RecordSound(Written)
<1>1. RecordSound(copy[1])
  BY RecordsHave DEF SoundInv
<1>2. /\ copy[1] \in Record /\ copy[2] \in SlotsOfDay
      /\ Head(batch).kind \in Kinds /\ Head(batch).plan \in Plan
      /\ Head(batch).plan.type \in Kinds
  BY HeldType DEF SoundInv
<1> QED
  BY <1>1, <1>2, CountedCounts DEF Written

LEMMA NextSound == SoundInv /\ [Next]_vars => SoundInv'
<1> SUFFICES ASSUME SoundInv, [Next]_vars PROVE SoundInv'
  OBVIOUS
<1>1. TypeInv /\ TypeInv'
  BY NextType DEF SoundInv
<1>2. ASSUME NEW r \in Records' PROVE RecordSound(r)
  <2>1. CASE r \in Records
    BY <2>1 DEF SoundInv
  <2>2. CASE Write /\ r = Written
    BY <1>1, <2>2, WriteIs, WrittenIs
  <2> QED
    BY <1>1, <2>1, <2>2, NewRecord
<1> QED
  BY <1>1, <1>2 DEF SoundInv

LEMMA AllSound == Spec => []SoundInv
<1> QED
  BY InitSound, NextSound, PTL DEF Spec

\* A finish time is in the record only of an hour that reached its target,
\* however stale the copies the worker counted in.
THEOREM FinishTimesTrue == Spec => []FinishMeansTargetMet
<1>1. SoundInv => FinishMeansTargetMet
  BY RecordsHave DEF SoundInv, RecordSound, FinishMeansTargetMet
<1> QED
  BY <1>1, AllSound, PTL
-----------------------------------------------------------------------------
(* An hour that reached its target has a finish time                       *)

\* Finish times stay, and the notice that finds the target met records one.
LEMMA HourFinishes ==
    ASSUME NEW r \in Record, NEW p, NEW k \in Kinds, NEW n \in SlotsOfDay
    PROVE  LET c == CountHour(r, p, k, n)
           IN  /\ \A j \in Kinds : r.fin[j] \subseteq c.fin[j]
               /\ Met(r, p, k, Hour(n)) => Hour(n) \in c.fin[k]
<1> DEFINE f == IF Met(r, p, k, Hour(n)) THEN r.fin[k] \cup {Hour(n)} ELSE r.fin[k]
           c == CountHour(r, p, k, n)
<1>1. c.fin = [r.fin EXCEPT ![k] = f]
  BY DEF CountHour, Record
<1>2. r.fin \in [Kinds -> SUBSET Hours]
  BY RecordFields
<1>3. r.fin[k] \subseteq f /\ (Met(r, p, k, Hour(n)) => Hour(n) \in f)
  OBVIOUS
<1> HIDE DEF f, c
<1>4. \A j \in Kinds : r.fin[j] \subseteq c.fin[j]
  BY <1>1, <1>2, <1>3
<1>5. c.fin[k] = f
  BY <1>1, <1>2
<1> QED
  BY <1>3, <1>4, <1>5 DEF c

LEMMA CountedFinishes ==
    ASSUME NEW r \in Record, RecordSound(r), NEW p \in Plan, p.type \in Kinds, ~p.day,
           NEW k \in Kinds, NEW n \in SlotsOfDay
    PROVE  LET c == Counted(r, p, k, n)
               h == Hour(n)
           IN  /\ \A j \in Kinds : r.fin[j] \subseteq c.fin[j]
               /\ /\ p.type = k /\ Count(r.sum[k][h]) > 0
                  /\ Count(c.dst[k][h]) > 0 /\ Count(c.sum[k][h]) >= c.dst[k][h]
                  => h \in c.fin[k]
<1> DEFINE c == Counted(r, p, k, n)
           h == Hour(n)
<1>1. h \in Hours /\ c \in Record
  BY HourType, CountedType
<1>2. CASE ~r.live
  <2>1. r = Blank /\ Count(r.sum[k][h]) = 0
    BY <1>1, <1>2, BlankFields DEF RecordSound, Count
  <2>2. \A j \in Kinds : r.fin[j] = {}
    BY <2>1, BlankFields
  <2> QED
    BY <2>1, <2>2
<1>3. CASE r.live
  <2> DEFINE m == r.total[k] + 1
             t == [r EXCEPT !.total[k] = m]
             d == Planned(t, p, h)
  <2>1. c = CountHour(d, p, k, n)
    BY <1>3 DEF Counted
  <2>2. m \in Nat
    BY RecordFields
  <2> HIDE DEF m, c
  <2>3. t \in Record /\ t.sum = r.sum /\ t.fin = r.fin
    BY <2>2 DEF Record
  <2> HIDE DEF t
  <2>4. d \in Record /\ d.sum = r.sum /\ d.fin = r.fin
    BY <1>1, <2>3, PlannedType, PlannedCounts
  <2> HIDE DEF d
  <2>5. /\ \A j \in Kinds : r.fin[j] \subseteq c.fin[j]
        /\ Met(d, p, k, h) => h \in c.fin[k]
    BY <2>1, <2>4, HourFinishes
  <2>6. HourCounted(d, c, k, h)
    BY <2>1, <2>4, CountHourCounts
  <2>7. ASSUME p.type = k, Count(r.sum[k][h]) > 0,
               Count(c.dst[k][h]) > 0, Count(c.sum[k][h]) >= c.dst[k][h]
        PROVE  Met(d, p, k, h)
    <3>1. d.dst[k][h] \in Labels /\ d.sum[k][h] \in Labels /\ Count(d.sum[k][h]) \in Nat
      BY <1>1, <2>4, RecordFields, CountType
    <3>2. c.dst[k][h] = d.dst[k][h] /\ Count(c.sum[k][h]) = Count(d.sum[k][h]) + 1
      BY <1>1, <2>6 DEF HourCounted, One
    <3>3. d.sum[k][h] # None /\ Count(d.sum[k][h]) = d.sum[k][h]
      BY <2>4, <2>7 DEF Count
    <3>4. Count(d.dst[k][h]) > 0 /\ Count(d.dst[k][h]) = d.dst[k][h]
      BY <2>7, <3>2 DEF Count
    <3> QED
      BY <2>7, <3>1, <3>2, <3>3, <3>4 DEF Met, Labels
  <2> QED
    BY <2>5, <2>7 DEF c
<1> QED
  BY <1>2, <1>3

LEMMA CountedReaches ==
    ASSUME NEW r \in Record, RecordSound(r), NEW p \in Plan, p.type \in Kinds, ~p.day,
           NEW k \in Kinds, NEW n \in SlotsOfDay, Reached(r, p.type)
    PROVE  Reached(Counted(r, p, k, n), p.type)
<1> DEFINE c == Counted(r, p, k, n)
           h == Hour(n)
           q == p.type
<1>1. h \in Hours /\ c \in Record /\ q \in Kinds
  BY HourType, CountedType
<1>2. OneMore(r, c, p, k, h)
  BY CountedCounts
<1>3. /\ r.fin[q] \subseteq c.fin[q]
      /\ /\ q = k /\ Count(r.sum[k][h]) > 0
         /\ Count(c.dst[k][h]) > 0 /\ Count(c.sum[k][h]) >= c.dst[k][h]
         => h \in c.fin[k]
  BY CountedFinishes
<1> HIDE DEF c, h, q
<1> SUFFICES ASSUME NEW i \in Hours
             PROVE  /\ c.dst[q][i] = None => Count(c.sum[q][i]) = 0
                    /\ /\ Count(c.dst[q][i]) > 0 /\ Count(c.sum[q][i]) > 1
                       /\ Count(c.sum[q][i]) >= c.dst[q][i]
                       => i \in c.fin[q]
  BY DEF Reached, c, q
<1>4. /\ r.dst[q][i] = None => Count(r.sum[q][i]) = 0
      /\ /\ Count(r.dst[q][i]) > 0 /\ Count(r.sum[q][i]) > 1
         /\ Count(r.sum[q][i]) >= r.dst[q][i]
         => i \in r.fin[q]
  BY DEF Reached, q
<1>5. /\ r.dst[q][i] # None => c.dst[q][i] = r.dst[q][i]
      /\ Count(c.sum[q][i]) = Count(r.sum[q][i]) + One(~p.day /\ q = k /\ i = h)
      /\ i = h => c.dst[q][i] # None
      /\ c.dst[q][i] # r.dst[q][i] => i = h
  BY <1>1, <1>2 DEF OneMore, q
<1>6. Count(r.sum[q][i]) \in Nat
  BY <1>1, RecordFields, CountType
<1>7. CASE q = k /\ i = h
  <2>1. Count(c.sum[q][i]) = Count(r.sum[q][i]) + 1
    BY <1>5, <1>7 DEF One
  <2> QED
    BY <1>3, <1>5, <1>6, <1>7, <2>1
<1>8. CASE ~(q = k /\ i = h)
  <2>1. Count(c.sum[q][i]) = Count(r.sum[q][i])
    BY <1>5, <1>6, <1>8 DEF One
  <2>2. CASE c.dst[q][i] = r.dst[q][i]
    BY <1>3, <1>4, <1>5, <2>1, <2>2
  <2>3. CASE c.dst[q][i] # r.dst[q][i]
    BY <1>4, <1>5, <1>6, <2>1, <2>3
  <2> QED
    BY <2>2, <2>3
<1> QED
  BY <1>7, <1>8

ReachInv == SoundInv /\ TargetsReached

LEMMA BlankReached == \A k \in Kinds : Reached(Blank, k)
BY BlankFields DEF Reached, Count

LEMMA FirstKind == Hourly(Plans[1]) => Plans[1].type \in Kinds
<1>1. Plans[1] \in Plan
  BY PacingAssumption, ElementOfSeq, EmptySeq
<1> QED
  BY <1>1 DEF Plan, Hourly

LEMMA InitReach == Init => ReachInv
<1> SUFFICES ASSUME Init PROVE ReachInv
  OBVIOUS
<1>1. \A r \in Records : r = Blank
  BY DEF Init, Records
<1> QED
  BY <1>1, InitSound, BlankReached, FirstKind DEF ReachInv, TargetsReached

\* An item has one of the settings.
LEMMA PacedItem ==
    ASSUME TypeInv, batch # <<>>, PacedAlike
    PROVE  /\ Head(batch).plan.type = Plans[1].type
           /\ Head(batch).plan.day = Plans[1].day
<1>1. Head(batch) \in Item
  BY BatchType
<1>2. PICK n \in 1..Len(Plans) : Head(batch).plan = Plans[n]
  BY <1>1 DEF Item
<1> QED
  BY <1>2 DEF PacedAlike

LEMMA NextReach == ReachInv /\ [Next]_vars => ReachInv'
<1> SUFFICES ASSUME ReachInv, [Next]_vars PROVE ReachInv'
  OBVIOUS
<1>1. SoundInv /\ SoundInv' /\ TypeInv
  BY NextSound DEF ReachInv, SoundInv
<1> DEFINE q == Plans[1].type
<1>2. ASSUME PacedAlike, Hourly(Plans[1]), NEW r \in Records' PROVE Reached(r, q)
  <2>1. CASE r \in Records
    BY <1>2, <2>1 DEF ReachInv, TargetsReached
  <2>2. CASE Write /\ r = Written
    <3> DEFINE p == Head(batch).plan
    <3>1. copy # <<>>
      BY <1>1, <2>2, WriteIs
    <3>2. /\ batch # <<>> /\ copy[1] \in Record /\ copy[2] \in SlotsOfDay
          /\ Head(batch).kind \in Kinds /\ p \in Plan /\ p.type \in Kinds
      BY <1>1, <3>1, HeldType
    <3>3. p.type = q /\ ~p.day
      BY <1>1, <1>2, <3>2, PacedItem DEF Hourly
    <3>4. RecordSound(copy[1]) /\ Reached(copy[1], q)
      BY <1>2, <3>1, RecordsHave DEF ReachInv, TargetsReached, SoundInv
    <3> HIDE DEF q
    <3>5. Reached(copy[1], p.type)
      BY <3>3, <3>4
    <3>6. Reached(Written, p.type)
      BY <3>2, <3>3, <3>4, <3>5, CountedReaches DEF Written
    <3> QED
      BY <2>2, <3>3, <3>6
  <2> QED
    BY <1>1, <2>1, <2>2, NewRecord
<1>3. TargetsReached'
  BY <1>2 DEF TargetsReached, Reached, Count
<1> QED
  BY <1>1, <1>3 DEF ReachInv

LEMMA AllReach == Spec => []ReachInv
BY InitReach, NextReach, PTL DEF Spec

\* An hour that reached its target has a finish time, whatever was stale,
\* dropped or lost, and whatever the targets became: the converse of FinishTimesTrue.
THEOREM MetHoursFinish == Spec => []MetIsFinished
<1>1. ReachInv => MetIsFinished
  BY RecordsHave DEF ReachInv, TargetsReached, Reached, MetIsFinished
<1> QED
  BY <1>1, AllReach, PTL
-----------------------------------------------------------------------------
(* The slots add up to the hours, and the hours to no more than the day     *)

LEMMA SlotsFinite ==
    /\ IsFiniteSet(SlotsOfDay)
    /\ \A h : SlotsOf(h) \subseteq SlotsOfDay /\ IsFiniteSet(SlotsOf(h))
<1>1. HoursPerDay*Slots-1 \in Int
  BY PacingAssumption
<1>2. IsFiniteSet(SlotsOfDay)
  BY <1>1, FS_Interval DEF SlotsOfDay
<1>3. \A h : SlotsOf(h) \subseteq SlotsOfDay
  BY DEF SlotsOf, SlotsOfDay
<1> QED
  BY <1>2, <1>3, FS_Subset

\* One more notice in slot n of c than of r, and nowhere else.
SlotMore(r, c, k, n) ==
    \A j \in Kinds, m \in SlotsOfDay : c.slot[j][m] = r.slot[j][m] + One(j = k /\ m = n)

\* A slot more is an hour more, and a slot of the day more.
LEMMA SlotMoreSums ==
    ASSUME NEW r \in Record, NEW c \in Record, NEW k \in Kinds, NEW n \in SlotsOfDay,
           SlotMore(r, c, k, n), NEW j \in Kinds
    PROVE  /\ \A h \in Hours :
                 /\ SumFunctionOnSet(r.slot[j], SlotsOf(h)) \in Nat
                 /\ SumFunctionOnSet(c.slot[j], SlotsOf(h))
                       = SumFunctionOnSet(r.slot[j], SlotsOf(h)) + One(j = k /\ h = Hour(n))
           /\ SumFunctionOnSet(r.slot[j], SlotsOfDay) \in Nat
           /\ SumFunctionOnSet(c.slot[j], SlotsOfDay)
                 = SumFunctionOnSet(r.slot[j], SlotsOfDay) + One(j = k)
<1> DEFINE f == r.slot[j]
           g == c.slot[j]
<1>1. \A m \in SlotsOfDay : f[m] \in Nat /\ g[m] \in Nat /\ g[m] = f[m] + One(j = k /\ m = n)
  BY RecordFields DEF SlotMore
<1> HIDE DEF f, g
<1>2. ASSUME NEW T \in SUBSET SlotsOfDay, IsFiniteSet(T)
      PROVE  /\ SumFunctionOnSet(f, T) \in Nat
             /\ SumFunctionOnSet(g, T) = SumFunctionOnSet(f, T) + One(j = k /\ n \in T)
  <2>1. SumFunctionOnSet(f, T) \in Nat
    <3>1. \A m \in T : f[m] \in Nat
      BY <1>1
    <3> QED
      BY <1>2, <3>1, SumPart
  <2>2. CASE j = k /\ n \in T
    <3>1. /\ \A m \in T : f[m] \in Int
          /\ \A m \in T \ {n} : g[m] = f[m]
          /\ g[n] \in Int /\ g[n] = f[n] + 1 /\ f[n] \in Int
      BY <1>1, <2>2 DEF One
    <3>2. SumFunctionOnSet(g, T) = SumFunctionOnSet(f, T) - f[n] + g[n]
      BY <1>2, <2>2, <3>1, SumChange
    <3> QED
      BY <2>1, <2>2, <3>1, <3>2 DEF One
  <2>3. CASE ~(j = k /\ n \in T)
    <3>1. \A m \in T : g[m] = f[m]
      BY <1>1, <2>3 DEF One
    <3>2. SumFunctionOnSet(g, T) = SumFunctionOnSet(f, T)
      BY <1>2, <3>1, SumSame
    <3> QED
      BY <2>1, <2>3, <3>2 DEF One
  <2> QED
    BY <2>1, <2>2, <2>3
<1>3. ASSUME NEW h \in Hours
      PROVE  /\ SumFunctionOnSet(f, SlotsOf(h)) \in Nat
             /\ SumFunctionOnSet(g, SlotsOf(h))
                   = SumFunctionOnSet(f, SlotsOf(h)) + One(j = k /\ h = Hour(n))
  <2>1. n \in SlotsOf(h) <=> h = Hour(n)
    BY DEF SlotsOf, SlotsOfDay
  <2>2. SlotsOf(h) \in SUBSET SlotsOfDay /\ IsFiniteSet(SlotsOf(h))
    BY SlotsFinite
  <2> QED
    BY <1>2, <2>1, <2>2 DEF One
<1>4. /\ SumFunctionOnSet(f, SlotsOfDay) \in Nat
      /\ SumFunctionOnSet(g, SlotsOfDay) = SumFunctionOnSet(f, SlotsOfDay) + One(j = k)
  BY <1>2, SlotsFinite DEF One
<1> QED
  BY <1>3, <1>4 DEF f, g

LEMMA BlankAddsUp == AddsUp(Blank)
<1>1. \A k \in Kinds, n \in SlotsOfDay : Blank.slot[k][n] = 0
  BY DEF Blank, SlotsOfDay
<1>2. \A k \in Kinds, h \in Hours : SumFunctionOnSet(Blank.slot[k], SlotsOf(h)) = 0
  <2> TAKE k \in Kinds, h \in Hours
  <2>1. \A n \in SlotsOf(h) : Blank.slot[k][n] = 0
    BY <1>1, SlotsFinite
  <2> QED
    BY <2>1, SlotsFinite, SumZero
<1>3. \A k \in Kinds : SumFunctionOnSet(Blank.slot[k], SlotsOfDay) = 0
  <2> TAKE k \in Kinds
  <2>1. \A n \in SlotsOfDay : Blank.slot[k][n] = 0
    BY <1>1
  <2> QED
    BY <2>1, SlotsFinite, SumZero
<1> QED
  BY <1>2, <1>3, BlankFields DEF AddsUp, Count, SlotsOfDay

\* A notice is counted in its slot exactly when it is counted in its hour.
LEMMA CountedSlots ==
    ASSUME NEW r \in Record, RecordSound(r), NEW p \in Plan, p.type \in Kinds,
           NEW k \in Kinds, NEW n \in SlotsOfDay
    PROVE  IF p.day THEN Counted(r, p, k, n).slot = r.slot
                    ELSE SlotMore(r, Counted(r, p, k, n), k, n)
<1> DEFINE c == Counted(r, p, k, n)
           h == Hour(n)
<1>1. h \in Hours
  BY HourType
<1>2. \A j \in Kinds, m \in SlotsOfDay : r.slot[j][m] \in Nat
  BY RecordFields
<1>3. CASE ~r.live
  <2>1. r = Blank /\ c = Created(p, k, n)
    BY <1>3 DEF RecordSound, Counted
  <2>2. CASE p.day
    <3>1. Created(p, k, n).slot = Blank.slot
      BY <2>2 DEF Created, Blank
    <3> QED
      BY <2>1, <2>2, <3>1
  <2>3. CASE ~p.day
    <3>1. \A j \in Kinds, m \in SlotsOfDay :
             /\ Blank.slot[j][m] = 0
             /\ Created(p, k, n).slot[j][m] = IF j = k /\ m = n THEN 1 ELSE 0
      BY <2>3 DEF Created, Blank, SlotsOfDay
    <3> QED
      BY <2>1, <2>3, <3>1 DEF SlotMore, One
  <2> QED
    BY <2>2, <2>3
<1>4. CASE r.live /\ p.day
  BY <1>4 DEF Counted, Record
<1>5. CASE r.live /\ ~p.day
  <2> DEFINE m == r.total[k] + 1
             t == [r EXCEPT !.total[k] = m]
             d == Planned(t, p, h)
  <2>1. c = CountHour(d, p, k, n)
    BY <1>5 DEF Counted
  <2>2. m \in Nat
    BY RecordFields
  <2> HIDE DEF m, c
  <2>3. t \in Record /\ t.slot = r.slot
    BY <2>2 DEF Record
  <2> HIDE DEF t
  <2>4. d \in Record /\ d.slot = r.slot
    BY <1>1, <2>3, PlannedType, PlannedCounts
  <2> HIDE DEF d
  <2>5. \A j \in Kinds, i \in SlotsOfDay :
           c.slot[j][i] = IF j = k /\ i = n THEN d.slot[j][i] + 1 ELSE d.slot[j][i]
    BY <2>1, <2>4 DEF CountHour, Record, SlotsOfDay
  <2>6. SlotMore(r, c, k, n)
    BY <1>2, <2>4, <2>5 DEF SlotMore, One
  <2> QED
    BY <1>5, <2>6 DEF c
<1> QED
  BY <1>3, <1>4, <1>5

LEMMA CountedAddsUp ==
    ASSUME NEW r \in Record, RecordSound(r), AddsUp(r), NEW p \in Plan, p.type \in Kinds,
           NEW k \in Kinds, NEW n \in SlotsOfDay
    PROVE  AddsUp(Counted(r, p, k, n))
<1> DEFINE c == Counted(r, p, k, n)
           h == Hour(n)
<1>1. h \in Hours /\ c \in Record
  BY HourType, CountedType
<1>2. OneMore(r, c, p, k, h)
  BY CountedCounts
<1>3. IF p.day THEN c.slot = r.slot ELSE SlotMore(r, c, k, n)
  BY CountedSlots
<1>4. \A j \in Kinds : r.total[j] \in Nat /\ c.total[j] = r.total[j] + One(j = k)
  BY <1>2, RecordFields DEF OneMore, One
<1> HIDE DEF c
<1> SUFFICES ASSUME NEW j \in Kinds
             PROVE  /\ \A i \in Hours :
                          Count(c.sum[j][i]) = SumFunctionOnSet(c.slot[j], SlotsOf(i))
                    /\ SumFunctionOnSet(c.slot[j], SlotsOfDay) <= c.total[j]
  BY DEF AddsUp, SlotsOfDay, c
<1>5. /\ \A i \in Hours : Count(r.sum[j][i]) = SumFunctionOnSet(r.slot[j], SlotsOf(i))
      /\ SumFunctionOnSet(r.slot[j], SlotsOfDay) <= r.total[j]
  BY DEF AddsUp, SlotsOfDay
<1>6. \A i \in Hours : /\ Count(r.sum[j][i]) \in Nat
                       /\ Count(c.sum[j][i]) = Count(r.sum[j][i]) + One(~p.day /\ j = k /\ i = h)
  BY <1>2, RecordFields, CountType DEF OneMore
<1>7. SumFunctionOnSet(r.slot[j], SlotsOfDay) \in Nat
  <2>1. \A m \in SlotsOfDay : r.slot[j][m] \in Nat
    BY RecordFields
  <2> QED
    BY <2>1, SlotsFinite, SumPart
<1>8. CASE p.day
  <2>1. c.slot = r.slot
    BY <1>3, <1>8
  <2> QED
    BY <1>4, <1>5, <1>6, <1>7, <1>8, <2>1 DEF One
<1>9. CASE ~p.day
  <2>1. SlotMore(r, c, k, n)
    BY <1>3, <1>9
  <2>2. /\ \A i \in Hours :
              SumFunctionOnSet(c.slot[j], SlotsOf(i))
                 = SumFunctionOnSet(r.slot[j], SlotsOf(i)) + One(j = k /\ i = h)
        /\ SumFunctionOnSet(c.slot[j], SlotsOfDay)
              = SumFunctionOnSet(r.slot[j], SlotsOfDay) + One(j = k)
    BY <1>1, <2>1, SlotMoreSums
  <2> QED
    BY <1>4, <1>5, <1>6, <1>7, <1>9, <2>2 DEF One
<1> QED
  BY <1>8, <1>9

AddsUpInv == SoundInv /\ \A r \in Records : AddsUp(r)

LEMMA InitAddsUp == Init => AddsUpInv
<1> SUFFICES ASSUME Init PROVE AddsUpInv
  OBVIOUS
<1>1. \A r \in Records : r = Blank
  BY DEF Init, Records
<1> QED
  BY <1>1, InitSound, BlankAddsUp DEF AddsUpInv

LEMMA NextAddsUp == AddsUpInv /\ [Next]_vars => AddsUpInv'
<1> SUFFICES ASSUME AddsUpInv, [Next]_vars PROVE AddsUpInv'
  OBVIOUS
<1>1. SoundInv /\ SoundInv' /\ TypeInv
  BY NextSound DEF AddsUpInv, SoundInv
<1>2. ASSUME NEW r \in Records' PROVE AddsUp(r)
  <2>1. CASE r \in Records
    BY <2>1 DEF AddsUpInv
  <2>2. CASE Write /\ r = Written
    <3>1. copy # <<>>
      BY <1>1, <2>2, WriteIs
    <3>2. /\ copy[1] \in Record /\ copy[2] \in SlotsOfDay
          /\ Head(batch).kind \in Kinds /\ Head(batch).plan \in Plan
          /\ Head(batch).plan.type \in Kinds
      BY <1>1, <3>1, HeldType
    <3>3. RecordSound(copy[1]) /\ AddsUp(copy[1])
      BY <3>1, RecordsHave DEF AddsUpInv, SoundInv
    <3> QED
      BY <2>2, <3>2, <3>3, CountedAddsUp DEF Written
  <2> QED
    BY <1>1, <2>1, <2>2, NewRecord
<1> QED
  BY <1>1, <1>2 DEF AddsUpInv

\* The slots of an hour add up to the hour, and the slots of the day to no more
\* than the day, in every record there is: stale reads and lost writes drop whole
\* records, never a part of one.
THEOREM RecordsAddUp == Spec => []RecordAddsUp
<1>1. AddsUpInv => RecordAddsUp
  BY RecordsHave DEF AddsUpInv, RecordAddsUp
<1> QED
  BY <1>1, InitAddsUp, NextAddsUp, PTL DEF Spec
-----------------------------------------------------------------------------
(* Nothing is counted twice, and nothing forgotten unless a read is stale   *)

LEMMA UncountedType ==
    ASSUME TypeInv, NEW k \in Kinds
    PROVE  /\ Waiting(queue, k) \in Nat /\ Waiting(batch, k) \in Nat
           /\ Uncounted(k) \in Nat
           /\ dropped[k] \in Nat /\ pushed[k] \in Nat
<1>1. queue \in Seq(Item) /\ batch \in Seq(Item) /\ dropped[k] \in Nat /\ pushed[k] \in Nat
  BY TypeParts DEF TypeInv, TypeWorker, TypeRest
<1>2. Waiting(queue, k) \in Nat /\ Waiting(batch, k) \in Nat
  BY <1>1, WaitingType
<1> QED
  BY <1>1, <1>2 DEF Uncounted

LEMMA UncountedNext ==
    ASSUME NEW k
    PROVE  Uncounted(k)' = Waiting(queue', k) + Waiting(batch', k)
BY DEF Uncounted, Waiting, Quantify

LEMMA OneType == ASSUME NEW b \in BOOLEAN PROVE One(b) \in {0, 1}
BY DEF One

\* A notice pushed waits.
LEMMA PushWaits ==
    ASSUME TypeInv, NEW j \in Kinds, Push(j), NEW k \in Kinds
    PROVE  /\ Waiting(queue', k) = Waiting(queue, k) + One(j = k)
           /\ pushed'[k] = pushed[k] + One(j = k)
<1> DEFINE e == [kind |-> j, plan |-> Plans[ver["tracker"]]]
<1>1. queue \in Seq(Item) /\ ver["tracker"] \in 1..Len(Plans) /\ pushed \in [Kinds -> Nat]
  BY TypeParts DEF TypeInv, TypeWorker, TypeRest
<1>2. e \in Item /\ e.kind = j
  BY <1>1 DEF Item
<1>3. queue' = Append(queue, e)
  BY DEF Push
<1> HIDE DEF e
<1>4. Waiting(queue', k) = Waiting(queue, k) + One(j = k)
  BY <1>1, <1>2, <1>3, WaitingAppend
<1>5. pushed'[k] = pushed[k] + One(j = k)
  BY <1>1 DEF Push, One
<1> QED
  BY <1>4, <1>5

\* The item the worker is done with waits no more.
LEMMA TailWaits ==
    ASSUME TypeInv, batch # <<>>, NEW k \in Kinds
    PROVE  Waiting(batch, k) = Waiting(Tail(batch), k) + One(Head(batch).kind = k)
<1>1. batch \in Seq(Item)
  BY TypeParts DEF TypeInv, TypeWorker
<1> QED
  BY <1>1, WaitingTail

\* Outside of a write the balance of what is uncounted does not change.
LEMMA Balance ==
    ASSUME TypeInv, Apart \/ Replicate \/ Skip \/ Drop \/ Read, NEW k \in Kinds
    PROVE  Uncounted(k)' + dropped'[k] - pushed'[k] = Uncounted(k) + dropped[k] - pushed[k]
<1>1. /\ Waiting(queue, k) \in Nat /\ Waiting(batch, k) \in Nat
      /\ dropped[k] \in Nat /\ pushed[k] \in Nat
  BY UncountedType
<1>2. /\ Uncounted(k) = Waiting(queue, k) + Waiting(batch, k)
      /\ Uncounted(k)' = Waiting(queue', k) + Waiting(batch', k)
  BY UncountedNext DEF Uncounted
<1>3. CASE UNCHANGED <<queue, batch, dropped, pushed>>
  BY <1>1, <1>2, <1>3
<1>4. ASSUME NEW j \in Kinds, Push(j), UNCHANGED <<batch, dropped>>
      PROVE  Uncounted(k)' + dropped'[k] - pushed'[k] = Uncounted(k) + dropped[k] - pushed[k]
  <2>1. One(j = k) \in {0, 1}
    BY OneType
  <2> QED
    BY <1>1, <1>2, <1>4, <2>1, PushWaits
<1>5. CASE Impression \/ Click \/ Stray
  BY <1>4, <1>5 DEF Impression, Click, Stray, Kinds
<1>6. CASE Swap
  <2>1. queue' = <<>> /\ batch' = queue /\ batch = <<>> /\ UNCHANGED <<dropped, pushed>>
    BY <1>6 DEF Swap, history
  <2> QED
    BY <1>1, <1>2, <2>1, WaitingNone
<1>7. CASE Skip \/ Drop
  <2>1. /\ batch # <<>> /\ Forget /\ batch' = Tail(batch)
        /\ UNCHANGED <<queue, pushed>>
    BY <1>7 DEF Skip, Drop
  <2>2. dropped \in [Kinds -> Nat] /\ Head(batch).kind \in Kinds
    BY <2>1, TypeParts, BatchType DEF TypeInv, TypeRest
  <2>3. dropped'[k] = dropped[k] + One(Head(batch).kind = k)
    BY <2>1, <2>2 DEF Forget, One
  <2>4. Waiting(batch, k) = Waiting(batch', k) + One(Head(batch).kind = k)
    BY <2>1, TailWaits
  <2>5. Waiting(batch', k) \in Nat /\ One(Head(batch).kind = k) \in {0, 1}
    <3>1. Tail(batch) \in Seq(Item)
      BY <2>1, BatchType
    <3> QED
      BY <2>1, <3>1, WaitingType, OneType
  <2> QED
    BY <1>1, <1>2, <2>1, <2>3, <2>4, <2>5
<1>8. CASE Tick \/ (\E w \in {"tracker", "bidder"} : Reload(w)) \/ Bid \/ BidUnread \/ UNCHANGED vars
  BY <1>3, <1>8 DEF Tick, Reload, Bid, BidUnread, vars, workerVars, history
<1>9. CASE Replicate \/ Read
  BY <1>3, <1>9 DEF Replicate, Read, workerVars, history
<1> QED
  BY <1>5, <1>6, <1>7, <1>8, <1>9 DEF Apart

LEMMA WriteCounts ==
    ASSUME TypeInv, Write, NEW k \in Kinds
    PROVE  /\ Uncounted(k) = Uncounted(k)' + One(Head(batch).kind = k)
           /\ dropped'[k] = dropped[k] /\ pushed'[k] = pushed[k]
           /\ Uncounted(k)' \in Nat /\ One(Head(batch).kind = k) \in {0, 1}
<1>1. batch # <<>> /\ batch' = Tail(batch) /\ UNCHANGED <<queue, dropped, pushed>>
  BY WriteIs, HeldType DEF history
<1>2. Waiting(batch, k) = Waiting(batch', k) + One(Head(batch).kind = k)
  BY <1>1, TailWaits
<1>3. Waiting(batch', k) \in Nat /\ One(Head(batch).kind = k) \in {0, 1}
  <2>1. Tail(batch) \in Seq(Item)
    BY <1>1, BatchType
  <2> QED
    BY <1>1, <2>1, WaitingType, OneType
<1>4. /\ Uncounted(k) = Waiting(queue, k) + Waiting(batch, k)
      /\ Uncounted(k)' = Waiting(queue', k) + Waiting(batch', k)
  BY UncountedNext DEF Uncounted
<1> QED
  BY <1>1, <1>2, <1>3, <1>4, UncountedType
CountInv == SoundInv /\ Synced /\ TotalsBounded

LEMMA InitCount == Init => CountInv
<1> SUFFICES ASSUME Init PROVE CountInv
  OBVIOUS
<1>1. SoundInv
  BY InitSound
<1>2. Synced
  BY DEF Init, Synced
<1>3. ASSUME NEW k \in Kinds PROVE Uncounted(k) = 0 /\ dropped[k] = 0 /\ pushed[k] = 0
  BY WaitingNone DEF Init, Uncounted
<1>4. \A r \in Records : r = Blank
  BY DEF Init, Records
<1>5. master = Blank
  BY DEF Init
<1>6. TotalsBounded
  BY <1>3, <1>4, <1>5, BlankFields DEF TotalsBounded
<1> QED
  BY <1>1, <1>2, <1>6 DEF CountInv

LEMMA StaleStays == TypeInv /\ [Next]_vars /\ stale => stale'
<1> SUFFICES ASSUME TypeInv, [Next]_vars, stale PROVE stale'
  OBVIOUS
<1>1. stale \in BOOLEAN
  BY TypeParts DEF TypeInv, TypeRest
<1> QED
  BY <1>1 DEF Next, Tick, Reload, Replicate, Bid, BidUnread, Impression, Click, Stray, Swap, Skip, Read,
              Write, Drop, vars, history

LEMMA NextSynced ==
    ASSUME TypeInv, Synced, [Next]_vars
    PROVE  Synced'
<1>1. lag \in Seq(Record) /\ Len(lag) \in Nat /\ (lag # <<>> => Len(lag) > 0)
  <2>1. lag \in Seq(Record)
    BY TypeParts DEF TypeInv, TypeRedis
  <2> QED
    BY <2>1, EmptySeq, LenProperties
<1>2. ~stale' => ~stale
  BY StaleStays
<1>3. CASE Apart
  BY <1>2, <1>3, ApartKeeps DEF Synced, redisVars
<1>4. CASE Replicate
  <2>1. lag' \in Seq(Record) /\ (lag' = <<>> <=> Len(lag') = 0)
    <3>1. lag' \in Seq(Record)
      BY NextType, TypeParts, TypePartsNext DEF TypeInv, TypeRedis
    <3> QED
      BY <3>1, EmptySeq
  <2>2. lag # <<>> /\ master = lag[Len(lag)]
    BY <1>4 DEF Replicate, Synced
  <2>3. CASE lag' = <<>>
    <3>1. Len(lag) = 1
      BY <1>1, <1>4, <2>1, <2>3, LagTail
    <3> QED
      BY <1>2, <1>4, <2>2, <2>3, <3>1, LagTail DEF Synced
  <2>4. CASE lag' # <<>>
    <3>1. Len(lag') \in 1..Len(lag') /\ Len(lag') + 1 = Len(lag)
      BY <1>1, <1>4, <2>1, <2>4, LagTail
    <3>2. lag'[Len(lag')] = lag[Len(lag)]
      BY <1>4, <3>1, LagTail
    <3> QED
      BY <1>2, <1>4, <2>2, <2>4, <3>2, LagTail DEF Synced
  <2> QED
    BY <2>3, <2>4
<1>5. CASE Skip \/ Drop
  <2>1. UNCHANGED redisVars /\ (copy' = copy \/ copy' = <<>>)
    BY <1>5 DEF Skip, Drop
  <2> QED
    BY <1>2, <2>1 DEF Synced, redisVars
<1>6. CASE Read
  <2>1. UNCHANGED redisVars /\ copy'[1] = slave /\ (~stale' => lag = <<>>)
    BY <1>6 DEF Read
  <2> QED
    BY <2>1 DEF Synced, redisVars
<1>7. CASE Write
  <2>1. master' = lag'[Len(lag')] /\ copy' = <<>> /\ lag' # <<>>
    <3>1. lag' = Append(lag, Written) /\ Written \in Record
      BY <1>7, WriteIs, HeldType
    <3> QED
      BY <1>1, <1>7, <3>1, WriteIs, LagAppend, AppendProperties
  <2> QED
    BY <2>1 DEF Synced
<1> QED
  BY <1>3, <1>4, <1>5, <1>6, <1>7, NextSplit

LEMMA TotalType == TypeInv => \A r \in Records, k \in Kinds : r.total[k] \in Nat
BY RecordsType, RecordFields

LEMMA NextTotals ==
    ASSUME SoundInv, Synced, TotalsBounded, [Next]_vars
    PROVE  TotalsBounded'
<1>1. TypeInv /\ TypeInv'
  BY NextType DEF SoundInv
<1>2. CASE ~Write
  <2>1. \A r \in Records' : r \in Records
    BY <1>1, <1>2, NewRecord
  <2>2. Apart \/ Replicate \/ Skip \/ Drop \/ Read
    BY <1>2, NextSplit
  <2>3. master' = master
    BY <2>2, ApartKeeps DEF redisVars, Replicate, Skip, Drop, Read
  <2>4. ASSUME NEW r \in Records, NEW k \in Kinds
        PROVE  /\ r.total[k] + Uncounted(k)' + dropped'[k] <= pushed'[k]
               /\ ~stale => master.total[k] + Uncounted(k)' + dropped'[k] = pushed'[k]
    <3>1. r.total[k] \in Nat /\ master.total[k] \in Nat
      BY <1>1, TotalType, RecordsHave
    <3>2. Uncounted(k) \in Nat /\ dropped[k] \in Nat /\ pushed[k] \in Nat
      BY <1>1, UncountedType
    <3>3. Uncounted(k)' \in Nat /\ dropped'[k] \in Nat /\ pushed'[k] \in Nat
      <4>1. queue' \in Seq(Item) /\ batch' \in Seq(Item) /\ dropped'[k] \in Nat /\ pushed'[k] \in Nat
        BY <1>1, TypePartsNext DEF TypeInv, TypeWorker, TypeRest
      <4> QED
        BY <4>1, WaitingType, UncountedNext
    <3>4. Uncounted(k)' + dropped'[k] - pushed'[k] = Uncounted(k) + dropped[k] - pushed[k]
      BY <1>1, <2>2, Balance
    <3>5. /\ r.total[k] + Uncounted(k) + dropped[k] <= pushed[k]
          /\ ~stale => master.total[k] + Uncounted(k) + dropped[k] = pushed[k]
      BY DEF TotalsBounded
    <3>6. r.total[k] + Uncounted(k)' + dropped'[k] <= pushed'[k]
      BY <3>1, <3>2, <3>3, <3>4, <3>5
    <3>7. ASSUME ~stale PROVE master.total[k] + Uncounted(k)' + dropped'[k] = pushed'[k]
      <4>1. master.total[k] + Uncounted(k) + dropped[k] = pushed[k]
        BY <3>5, <3>7
      <4> QED
        BY <3>1, <3>2, <3>3, <3>4, <4>1
    <3> QED
      BY <3>6, <3>7
  <2>5. ~stale' => ~stale
    BY <1>1, StaleStays
  <2> QED
    BY <2>1, <2>3, <2>4, <2>5, RecordsHave DEF TotalsBounded
<1>3. CASE Write
  <2> DEFINE j == Head(batch).kind
  <2>1. copy # <<>> /\ master' = Written /\ stale' = stale /\ j \in Kinds
    BY <1>1, <1>3, WriteIs, HeldType DEF history
  <2>2. copy[1] \in Records /\ copy[1] \in Record
    BY <1>1, <2>1, RecordsHave, RecordsType
  <2>3. Written.total = [copy[1].total EXCEPT ![j] = @ + 1]
    BY <2>1, WrittenIs DEF OneMore
  <2>4. ASSUME NEW k \in Kinds
        PROVE  Written.total[k] = copy[1].total[k] + One(j = k)
    BY <2>2, <2>3, RecordFields DEF One
  <2> HIDE DEF j
  <2>5. ASSUME NEW k \in Kinds
        PROVE  /\ Uncounted(k) = Uncounted(k)' + One(j = k)
               /\ dropped'[k] = dropped[k] /\ pushed'[k] = pushed[k]
               /\ Uncounted(k)' \in Nat /\ One(j = k) \in {0, 1}
    BY <1>1, <1>3, WriteCounts DEF j
  <2>6. ASSUME NEW r \in Records, NEW k \in Kinds
        PROVE  /\ r.total[k] \in Nat /\ dropped[k] \in Nat /\ pushed[k] \in Nat
               /\ r.total[k] + Uncounted(k) + dropped[k] <= pushed[k]
    BY <1>1, TotalType, UncountedType DEF TotalsBounded
  <2>7. ASSUME NEW r \in Records', NEW k \in Kinds
        PROVE  r.total[k] + Uncounted(k)' + dropped'[k] <= pushed'[k]
    <3>1. CASE r \in Records
      BY <2>5, <2>6, <3>1
    <3>2. CASE r = Written
      BY <2>2, <2>4, <2>5, <2>6, <3>2
    <3> QED
      BY <1>1, <3>1, <3>2, NewRecord
  <2>8. ASSUME NEW k \in Kinds, ~stale'
        PROVE  master'.total[k] + Uncounted(k)' + dropped'[k] = pushed'[k]
    <3>1. copy[1] = master
      BY <2>1, <2>8 DEF Synced
    <3>2. master.total[k] + Uncounted(k) + dropped[k] = pushed[k]
      BY <2>1, <2>8 DEF TotalsBounded
    <3>3. Written.total[k] = master.total[k] + One(j = k)
      BY <2>4, <3>1
    <3>4. /\ Uncounted(k) = Uncounted(k)' + One(j = k)
          /\ dropped'[k] = dropped[k] /\ pushed'[k] = pushed[k]
          /\ Uncounted(k)' \in Nat /\ One(j = k) \in {0, 1}
      BY <2>5
    <3>5. master.total[k] \in Nat /\ dropped[k] \in Nat /\ pushed[k] \in Nat
      BY <2>6, RecordsHave
    <3> QED
      BY <2>1, <3>2, <3>3, <3>4, <3>5
  <2> QED
    BY <2>7, <2>8 DEF TotalsBounded
<1> QED
  BY <1>2, <1>3

LEMMA NextCount == CountInv /\ [Next]_vars => CountInv'
BY NextSound, NextSynced, NextTotals DEF CountInv, SoundInv

LEMMA CountsHold == Spec => []CountInv
BY InitCount, NextCount, PTL DEF Spec

\* Every notice pushed is counted, waits, or was given up, exactly, as long as
\* the worker's reads see its writes; and none is ever counted twice.
THEOREM EveryNoticeCounted == Spec => []CountsAddUp
<1>1. CountInv => CountsAddUp
  <2> SUFFICES ASSUME CountInv, NEW k \in Kinds
               PROVE  LET known == master.total[k] + Waiting(queue, k) + Waiting(batch, k) + dropped[k]
                      IN  IF stale THEN known <= pushed[k] ELSE known = pushed[k]
    BY DEF CountsAddUp
  <2>1. TypeInv
    BY DEF CountInv, SoundInv
  <2>2. /\ master.total[k] + Uncounted(k) + dropped[k] <= pushed[k]
        /\ ~stale => master.total[k] + Uncounted(k) + dropped[k] = pushed[k]
    BY RecordsHave DEF CountInv, TotalsBounded
  <2>3. master.total[k] \in Nat
    BY <2>1, TotalType, RecordsHave
  <2> QED
    BY <2>1, <2>2, <2>3, UncountedType DEF Uncounted
<1> QED
  BY <1>1, CountsHold, PTL

\* The target of an hour never changes while no read is stale: a change of the
\* settings, and what other hours do, come too late for it.
THEOREM TargetsFixed == Spec => TargetFixedInHour
<1> DEFINE Fixed == \A k \in Kinds, h \in Hours :
                       master.dst[k][h] # None /\ ~stale => master'.dst[k][h] = master.dst[k][h]
<1>1. CountInv /\ [Next]_vars => [Fixed]_vars
  <2> SUFFICES ASSUME CountInv, [Next]_vars PROVE Fixed
    OBVIOUS
  <2>1. TypeInv /\ SoundInv /\ Synced
    BY DEF CountInv, SoundInv
  <2>2. CASE Write
    <3>1. copy # <<>> /\ master' = Written
      BY <2>1, <2>2, WriteIs
    <3>2. ~stale => copy[1] = master
      BY <2>1, <3>1 DEF Synced
    <3>3. OneMore(copy[1], Written, Head(batch).plan, Head(batch).kind, Hour(copy[2]))
      BY <2>1, <3>1, WrittenIs
    <3> QED
      BY <3>1, <3>2, <3>3 DEF OneMore
  <2>3. CASE ~Write
    <3>1. master' = master
      BY <2>3, NextSplit, ApartKeeps DEF redisVars, Replicate, Skip, Drop, Read
    <3> QED
      BY <3>1
  <2> QED
    BY <2>2, <2>3
<1> QED
  BY <1>1, CountsHold, PTL DEF Spec, TargetFixedInHour
-----------------------------------------------------------------------------
(* A closed gate stays closed                                              *)

LEMMA CountedGrows ==
    ASSUME NEW r \in Record, RecordSound(r), NEW p \in Plan, p.type \in Kinds,
           NEW k \in Kinds, NEW n \in SlotsOfDay
    PROVE  Grown(r, Counted(r, p, k, n))
<1> DEFINE c == Counted(r, p, k, n)
           h == Hour(n)
<1>1. OneMore(r, c, p, k, h)
  BY CountedCounts
<1>2. IF p.day THEN c.slot = r.slot ELSE SlotMore(r, c, k, n)
  BY CountedSlots
<1>3. r.total \in [Kinds -> Nat] /\ r.slot \in [Kinds -> [SlotsOfDay -> Nat]]
  BY RecordFields
<1>4. \A j \in Kinds, i \in Hours : Count(r.sum[j][i]) \in Nat
  BY RecordFields, CountType
<1> HIDE DEF c, h
<1>5. \A j \in Kinds : r.total[j] <= c.total[j]
  BY <1>1, <1>3 DEF OneMore
<1>6. \A j \in Kinds, i \in Hours : Count(r.sum[j][i]) <= Count(c.sum[j][i])
  BY <1>1, <1>4 DEF OneMore, One
<1>7. \A j \in Kinds, m \in SlotsOfDay : r.slot[j][m] <= c.slot[j][m]
  BY <1>2, <1>3 DEF SlotMore, One
<1> QED
  BY <1>1, <1>5, <1>6, <1>7 DEF Grown, OneMore, SlotsOfDay, c

LEMMA CopyNext ==
    ASSUME NEW n
    PROVE  Copy(n)' = IF n = 0 THEN slave' ELSE lag'[n]
BY DEF Copy

LEMMA NextGrowing == CountInv /\ Growing /\ [Next]_vars => Growing'
<1> SUFFICES ASSUME CountInv, Growing, [Next]_vars, ~stale'
             PROVE  \A n \in 0..Len(lag')-1 : Grown(Copy(n)', Copy(n+1)')
  BY DEF Growing, Grown, Count
<1>1. TypeInv /\ SoundInv /\ Synced /\ ~stale
  BY StaleStays DEF CountInv, SoundInv
<1>2. \A n \in 0..Len(lag)-1 : Grown(Copy(n), Copy(n+1))
  BY <1>1 DEF Growing
<1>3. CASE UNCHANGED redisVars
  BY <1>2, <1>3, CopyNext DEF Copy, redisVars
<1>4. CASE Replicate
  <2> SUFFICES ASSUME NEW n \in 0..Len(lag')-1 PROVE Grown(Copy(n)', Copy(n+1)')
    OBVIOUS
  <2>1. /\ n + 1 \in 0..Len(lag)-1 /\ n + 1 # 0 /\ n + 2 # 0
        /\ n + 1 \in 1..Len(lag') /\ (n # 0 => n \in 1..Len(lag'))
    BY <1>1, <1>4, LagTail
  <2>2. Copy(n)' = lag[n + 1]
    BY <1>1, <1>4, <2>1, LagTail, CopyNext
  <2>3. Copy(n + 1)' = lag[(n + 1) + 1]
    BY <1>1, <1>4, <2>1, LagTail, CopyNext
  <2>4. Copy(n + 1) = lag[n + 1] /\ Copy((n + 1) + 1) = lag[(n + 1) + 1]
    BY <2>1 DEF Copy
  <2>5. Grown(Copy(n + 1), Copy((n + 1) + 1))
    BY <1>2, <2>1
  <2> QED
    BY <2>2, <2>3, <2>4, <2>5
<1>5. CASE Write
  <2> SUFFICES ASSUME NEW n \in 0..Len(lag')-1 PROVE Grown(Copy(n)', Copy(n+1)')
    OBVIOUS
  <2>1. Len(lag) \in Nat /\ Len(lag') = Len(lag) + 1 /\ n \in 0..Len(lag)
    BY <1>1, <1>5, LagAppend
  <2>2. Copy(n)' = Copy(n)
    <3>1. n = 0 \/ n \in 1..Len(lag)
      BY <2>1
    <3> QED
      BY <1>1, <1>5, <3>1, WriteIs, LagAppend, CopyNext DEF Copy
  <2>3. CASE n \in 0..Len(lag)-1
    <3>1. n + 1 # 0 /\ n + 1 \in 1..Len(lag)
      BY <2>1, <2>3
    <3>2. Copy(n + 1)' = Copy(n + 1)
      BY <1>1, <1>5, <3>1, LagAppend, CopyNext DEF Copy
    <3> QED
      BY <1>2, <2>2, <2>3, <3>2
  <2>4. CASE n = Len(lag)
    <3>1. Copy(n + 1)' = Written
      BY <1>1, <1>5, <2>1, <2>4, LagAppend, CopyNext
    <3>2. Copy(n) = master /\ copy # <<>> /\ copy[1] = master
      <4>1. lag = <<>> <=> Len(lag) = 0
        BY <1>1, TypeParts, EmptySeq DEF TypeInv, TypeRedis
      <4> QED
        BY <1>1, <1>5, <2>4, <4>1, WriteIs DEF Synced, Copy
    <3>3. Grown(copy[1], Written)
      BY <1>1, <3>2, HeldType, RecordsHave, CountedGrows DEF SoundInv, Written
    <3> QED
      BY <2>2, <3>1, <3>2, <3>3
  <2> QED
    BY <2>1, <2>3, <2>4
<1>6. CASE Apart \/ Skip \/ Drop \/ Read
  BY <1>3, <1>6, ApartKeeps DEF Skip, Drop, Read
<1> QED
  BY <1>4, <1>5, <1>6, NextSplit

\* A record that says no less, and keeps the targets there are, closes the gate
\* where the one before did.
LEMMA GrownFinished ==
    ASSUME NEW r \in Record, NEW t \in Record, AddsUp(r), Grown(r, t),
           NEW p \in Plan, NEW n \in SlotsOfDay,
           ~p.day /\ p.type # "infinity" => Reached(r, p.type),
           Finished(r, p, n)
    PROVE  Finished(t, p, n)
<1> DEFINE h == Hour(n)
           q == p.type
<1>1. h \in Hours /\ r.live /\ t.live
  BY HourType DEF Finished, Grown
<1>2. CASE Unplanned(p, h)
  BY <1>1, <1>2 DEF Finished
<1>3. CASE ~Unplanned(p, h)
  <2>1. q # "infinity" /\ q \in Kinds
    BY <1>3 DEF Finished, Plan
  <2>2. /\ r.total[q] <= t.total[q] /\ r.slot[q][n] <= t.slot[q][n]
        /\ Count(r.sum[q][h]) <= Count(t.sum[q][h])
        /\ r.dst[q][h] # None => t.dst[q][h] = r.dst[q][h]
    BY <1>1, <2>1 DEF Grown, SlotsOfDay
  <2>3. /\ r.total[q] \in Nat /\ t.total[q] \in Nat
        /\ r.slot[q][n] \in Nat /\ t.slot[q][n] \in Nat
        /\ Count(r.sum[q][h]) \in Nat /\ Count(t.sum[q][h]) \in Nat
        /\ r.dst[q][h] \in Labels /\ p.frequency[0] \in Nat /\ p.frequency[h] \in Nat
    BY <1>1, <2>1, FirstSlot, RecordFields, CountType DEF Plan
  <2>4. CASE p.day
    <3>1. Done(r, p, h) >= Goal(r, p, h)
      BY <1>3, <2>4 DEF Finished
    <3>2. Done(t, p, h) >= Goal(t, p, h)
      BY <2>2, <2>3, <2>4, <3>1 DEF Done, Goal
    <3> QED
      BY <1>1, <2>1, <3>2 DEF Finished
  <2>5. CASE ~p.day /\ r.dst[q][h] # None
    <3>1. Goal(t, p, h) = Goal(r, p, h) /\ Goal(r, p, h) \in Nat
      BY <2>2, <2>3, <2>5 DEF Goal, Labels
    <3> DEFINE g == Goal(r, p, h)
               x == g \div Slots
    <3>2. x \in Nat
      BY <3>1, PacingAssumption
    <3>3. Count(r.sum[q][h]) >= g \/ r.slot[q][n] > x
      BY <1>3, <2>5 DEF Finished, Done
    <3> HIDE DEF g, x
    <3>4. Count(t.sum[q][h]) >= g \/ t.slot[q][n] > x
      BY <2>2, <2>3, <3>1, <3>2, <3>3 DEF g
    <3> QED
      BY <1>1, <2>1, <2>5, <3>1, <3>4 DEF Finished, Done, g, x
  <2>6. CASE ~p.day /\ r.dst[q][h] = None
    <3>1. Count(r.sum[q][h]) = 0
      BY <1>1, <2>1, <2>6 DEF Reached
    <3>2. r.slot[q][n] = 0
      <4>1. SumFunctionOnSet(r.slot[q], SlotsOf(h)) = 0
        BY <1>1, <2>1, <3>1 DEF AddsUp
      <4>2. n \in SlotsOf(h)
        BY DEF SlotsOf, SlotsOfDay
      <4> DEFINE f == r.slot[q]
                 S == SlotsOf(h)
      <4>3. IsFiniteSet(S) /\ \A m \in S : f[m] \in Nat
        <5>1. S \subseteq SlotsOfDay /\ IsFiniteSet(S)
          BY SlotsFinite
        <5>2. f \in [SlotsOfDay -> Nat]
          BY <2>1, RecordFields
        <5> QED
          BY <5>1, <5>2
      <4>4. SumFunctionOnSet(f, S) = 0 /\ n \in S /\ f[n] \in Nat
        BY <2>3, <4>1, <4>2
      <4> HIDE DEF f, S
      <4>5. f[n] <= SumFunctionOnSet(f, S)
        <5>1. SumFunctionOnSet(f, {n}) = f[n]
          <6>1. SumFunctionOnSet(f, {} \cup {n}) = SumFunctionOnSet(f, {}) + f[n]
            BY <4>4, FS_EmptySet, SumAdd
          <6>2. {} \cup {n} = {n}
            OBVIOUS
          <6> QED
            BY <4>4, <6>1, <6>2, SumNone
        <5>2. {n} \in SUBSET S
          BY <4>4
        <5> QED
          BY <4>3, <5>1, <5>2, SumPart
      <4>6. f[n] = 0
        BY <4>4, <4>5
      <4> QED
        BY <4>6 DEF f
    <3>3. p.frequency[h] # 0
      BY <1>3, <2>6 DEF Unplanned
    <3>4. Goal(r, p, h) = p.frequency[h] /\ Done(r, p, h) = 0
      BY <2>6, <3>1 DEF Goal, Done
    <3> DEFINE g == p.frequency[h]
               x == g \div Slots
    <3>5. x \in Nat
      <4>1. g \in Nat /\ Slots \in Nat \ {0}
        BY <2>3, PacingAssumption
      <4> HIDE DEF g
      <4> QED
        BY <4>1
    <3>6. 0 >= g \/ 0 > x
      BY <1>3, <2>6, <3>2, <3>4 DEF Finished
    <3> HIDE DEF x
    <3> QED
      BY <2>3, <3>3, <3>5, <3>6
  <2> QED
    BY <2>4, <2>5, <2>6
<1> QED
  BY <1>2, <1>3

GateInv == CountInv /\ AddsUpInv /\ ReachInv /\ Growing

LEMMA InitGate == Init => GateInv
<1> SUFFICES ASSUME Init PROVE GateInv
  OBVIOUS
<1>1. Growing
  BY DEF Init, Growing
<1> QED
  BY <1>1, InitCount, InitAddsUp, InitReach DEF GateInv

LEMMA NextGate == GateInv /\ [Next]_vars => GateInv'
BY NextCount, NextAddsUp, NextReach, NextGrowing DEF GateInv

LEMMA GateHolds == Spec => []GateInv
BY InitGate, NextGate, PTL DEF Spec

\* The settings the bidder has are of the kind all settings have.
LEMMA PacedPlan ==
    ASSUME TypeInv, PacedAlike, NEW w \in {"tracker", "bidder"}
    PROVE  /\ Plans[ver[w]] \in Plan
           /\ Plans[ver[w]].type = Plans[1].type /\ Plans[ver[w]].day = Plans[1].day
<1>1. ver[w] \in 1..Len(Plans)
  BY TypeParts DEF TypeInv, TypeRest
<1> QED
  BY <1>1, PacingAssumption, ElementOfSeq DEF PacedAlike

\* While the slot and the bidder's settings stay and no read is stale, the gate
\* that is closed stays closed: the records replicated one after the other each
\* count more than the one before, and keep its targets.
THEOREM GateStays == Spec => GateStaysClosed
<1> DEFINE Stays == LET p == Plans[ver["bidder"]]
                    IN  /\ PacedAlike /\ ~stale' /\ now' = now /\ ver' = ver
                        /\ Finished(slave, p, now)
                        => Finished(slave', p, now)
<1>1. GateInv /\ [Next]_vars => [Stays]_vars
  <2> DEFINE p == Plans[ver["bidder"]]
  <2> SUFFICES ASSUME GateInv, [Next]_vars, PacedAlike, ~stale', Finished(slave, p, now)
               PROVE  Finished(slave', p, now)
    OBVIOUS
  <2>1. TypeInv /\ ~stale
    BY StaleStays DEF GateInv, CountInv, SoundInv
  <2>2. CASE Replicate
    <3>1. 0 \in 0..Len(lag)-1 /\ slave' = lag[1]
      BY <2>1, <2>2, LagTail
    <3>2. Grown(slave, slave')
      <4>1. Grown(Copy(0), Copy(0+1))
        BY <2>1, <3>1 DEF GateInv, Growing
      <4> QED
        BY <3>1, <4>1 DEF Copy
    <3>3. slave \in Record /\ slave' \in Record /\ now \in SlotsOfDay
      BY <2>1, NextType, TypeParts, TypePartsNext DEF TypeInv, TypeRedis, TypeRest, SlotsOfDay
    <3>4. /\ p \in Plan
          /\ ~p.day /\ p.type # "infinity" => Reached(slave, p.type)
      BY <2>1, PacedPlan, RecordsHave DEF GateInv, ReachInv, TargetsReached, Hourly
    <3>5. AddsUp(slave)
      BY RecordsHave DEF GateInv, AddsUpInv
    <3> HIDE DEF p
    <3> QED
      BY <3>2, <3>3, <3>4, <3>5, GrownFinished
  <2>3. CASE ~Replicate
    <3>1. slave' = slave
      BY <2>1, <2>3, NextSplit, ApartKeeps, WriteIs DEF redisVars, Skip, Drop, Read
    <3> QED
      BY <3>1
  <2> QED
    BY <2>2, <2>3
<1> QED
  BY <1>1, GateHolds, PTL DEF Spec, GateStaysClosed
-----------------------------------------------------------------------------
(* The overshoot of a group limited in its impressions                     *)

\* The group's plan, when nothing was dropped, stale or changed.
Plain(p) == p = Plans[1] /\ p \in Plan /\ p.type = "imp"

LEMMA PlainPlan == Plans[1] \in Plan
BY PlanType

LEMMA DoneType ==
    ASSUME NEW p, Plain(p), NEW r \in Record, NEW h \in Hours
    PROVE  /\ Done(r, p, h) \in Nat
           /\ Done(r, p, h) = IF p.day THEN r.total["imp"] ELSE Count(r.sum["imp"][h])
<1>1. r.total["imp"] \in Nat /\ Count(r.sum["imp"][h]) \in Nat
  BY RecordFields, CountType DEF Kinds
<1> QED
  BY <1>1 DEF Done, Plain

LEMMA DoneOneMore ==
    ASSUME NEW p, Plain(p), NEW r \in Record, NEW c \in Record, NEW k \in Kinds, NEW g \in Hours,
           OneMore(r, c, p, k, g), NEW h \in Hours
    PROVE  Done(c, p, h) = Done(r, p, h) + One(k = "imp" /\ (p.day \/ g = h))
<1>1. r.total \in [Kinds -> Nat] /\ "imp" \in Kinds
  BY RecordFields DEF Kinds
<1>2. c.total["imp"] = r.total["imp"] + One(k = "imp")
  BY <1>1 DEF OneMore, One
<1>3. Count(c.sum["imp"][h]) = Count(r.sum["imp"][h]) + One(~p.day /\ "imp" = k /\ h = g)
  BY <1>1 DEF OneMore
<1>4. CASE p.day
  BY <1>2, <1>4, DoneType DEF One
<1>5. CASE ~p.day
  BY <1>3, <1>5, DoneType DEF One
<1> QED
  BY <1>4, <1>5

LEMMA LimitType ==
    ASSUME NEW p, Plain(p), master \in Record, NEW h \in Hours
    PROVE  /\ Limit(p, h) \in Nat /\ Limit(p, h) >= 1
           /\ p.day => p.frequency[0] \in Nat /\ Limit(p, h) >= p.frequency[0]
           /\ ~p.day => Limit(p, h) >= Count(master.dst["imp"][h])
<1> DEFINE x == IF p.day THEN p.frequency[0] ELSE Count(master.dst["imp"][h])
<1>1. p.frequency[0] \in Nat
  BY FirstSlot DEF Plan, Plain
<1>2. Count(master.dst["imp"][h]) \in Nat
  BY RecordFields, CountType DEF Kinds
<1>3. x \in Nat
  BY <1>1, <1>2
<1>4. Limit(p, h) = Max({1, x})
  BY DEF Limit
<1>5. Max({1, x}) \in {1, x} /\ Max({1, x}) >= 1 /\ Max({1, x}) >= x
  <2> HIDE DEF x
  <2> QED
    BY <1>3, MaxOfTwo
<1> QED
  BY <1>1, <1>3, <1>4, <1>5

\* The limit of the next state, where a write may set a target.
LEMMA LimitNext ==
    ASSUME NEW p, Plain(p), master \in Record, master' \in Record, NEW h \in Hours,
           master.dst["imp"][h] # None => master'.dst["imp"][h] = master.dst["imp"][h]
    PROVE  Limit(p, h)' \in Nat /\ Limit(p, h)' >= Limit(p, h)
<1> DEFINE x == Count(master.dst["imp"][h])
           y == Count(master'.dst["imp"][h])
<1>1. x \in Nat /\ y \in Nat
  BY RecordFields, CountType DEF Kinds
<1>2. x <= y
  BY <1>1 DEF Count
<1>3. CASE p.day
  <2>1. Limit(p, h)' = Limit(p, h)
    BY <1>3 DEF Limit, Plain
  <2> QED
    BY <2>1, LimitType
<1>4. CASE ~p.day
  <2>1. Limit(p, h) = Max({1, x}) /\ Limit(p, h)' = Max({1, y})
    BY <1>4 DEF Limit, Plain
  <2> HIDE DEF x, y
  <2>2. Max({1, x}) \in {1, x} /\ Max({1, y}) \in {1, y} /\ Max({1, y}) >= 1 /\ Max({1, y}) >= y
    BY <1>1, MaxOfTwo
  <2> QED
    BY <1>1, <1>2, <2>1, <2>2
<1> QED
  BY <1>3, <1>4

\* Steps after which the group may still be undisturbed.
LEMMA Undisturbing ==
    ASSUME TypeInv, [Next]_vars, Undisturbed'
    PROVE  /\ Undisturbed
           /\ ver["tracker"] = 1 /\ ver["bidder"] = 1
           /\ Tick \/ Replicate \/ Bid \/ BidUnread \/ Impression \/ Click \/ Stray
              \/ Swap \/ Read \/ Write \/ UNCHANGED vars
<1>1. /\ dropped \in [Kinds -> Nat] /\ ver \in [{"tracker", "bidder"} -> 1..Len(Plans)]
      /\ Len(Plans) \in Nat
  BY TypeParts, PlanType DEF TypeInv, TypeRest
<1>2. ~stale' /\ dropped' = [k \in Kinds |-> 0] /\ ver' = [w \in DOMAIN ver' |-> 1]
  BY DEF Undisturbed
<1>3. ~stale
  BY <1>2, StaleStays
<1>4. ~Skip /\ ~Drop
  <2> SUFFICES ASSUME batch # <<>>, Forget PROVE FALSE
    BY DEF Skip, Drop
  <2>1. Head(batch).kind \in Kinds
    BY BatchType
  <2>2. dropped'[Head(batch).kind] = dropped[Head(batch).kind] + 1
    BY <1>1, <2>1 DEF Forget
  <2> QED
    BY <1>1, <1>2, <2>1, <2>2
<1>5. ASSUME NEW w \in {"tracker", "bidder"}, Reload(w) PROVE FALSE
  <2>1. ver' = [ver EXCEPT ![w] = @ + 1]
    BY <1>5 DEF Reload
  <2>2. ver'[w] = ver[w] + 1 /\ w \in DOMAIN ver'
    BY <1>1, <2>1
  <2>3. ver'[w] = 1
    BY <1>2, <2>2
  <2> QED
    BY <1>1, <2>2, <2>3
<1>6. \/ Tick \/ Replicate \/ Bid \/ BidUnread \/ Impression \/ Click \/ Stray
      \/ Swap \/ Read \/ Write \/ UNCHANGED vars
  BY <1>4, <1>5 DEF Next
<1>7. ver' = ver /\ dropped' = dropped
  BY <1>6 DEF Tick, Replicate, Bid, BidUnread, Impression, Click, Stray, Swap, Read, Write, vars,
              envVars, history, bidVars
<1>8. Undisturbed
  BY <1>2, <1>3, <1>7 DEF Undisturbed
<1>9. ver["tracker"] = 1 /\ ver["bidder"] = 1
  <2>1. DOMAIN ver = {"tracker", "bidder"}
    BY <1>1
  <2> QED
    BY <2>1, <1>8 DEF Undisturbed
<1> QED
  BY <1>6, <1>8, <1>9

LEMMA NextSame ==
    ASSUME CountInv, [Next]_vars, Undisturbed', NEW p, p = Plans[1], SamePlan(p)
    PROVE  SamePlan(p)'
<1>1. TypeInv /\ queue \in Seq(Item) /\ batch \in Seq(Item)
  BY TypeParts DEF CountInv, SoundInv, TypeInv, TypeWorker
<1>2. CASE UNCHANGED <<queue, batch>>
  BY <1>2 DEF SamePlan
<1>3. CASE Impression \/ Click \/ Stray
  <2> DEFINE e(k) == [kind |-> k, plan |-> Plans[ver["tracker"]]]
  <2>1. batch' = batch /\ \E k \in Kinds : queue' = Append(queue, e(k))
    BY <1>3 DEF Impression, Click, Stray, Push, Kinds
  <2>2. PICK k \in Kinds : queue' = Append(queue, e(k))
    BY <2>1
  <2>3. e(k).plan = p
    BY <1>1, Undisturbing
  <2> HIDE DEF e
  <2>4. /\ Len(queue') = Len(queue) + 1 /\ Len(queue) \in Nat
        /\ queue'[Len(queue) + 1] = e(k)
        /\ \A i \in 1..Len(queue) : queue'[i] = queue[i]
    BY <1>1, <2>2
  <2>5. \A i \in 1..Len(queue') : i \in 1..Len(queue) \/ i = Len(queue) + 1
    BY <2>4
  <2> QED
    BY <2>1, <2>3, <2>4, <2>5 DEF SamePlan
<1>4. CASE Swap
  <2>1. batch' = queue /\ queue' = <<>> /\ 1..Len(<<>>) = {}
    BY <1>4 DEF Swap
  <2> QED
    BY <2>1 DEF SamePlan
<1>5. CASE Write
  <2>1. batch # <<>> /\ batch' = Tail(batch) /\ queue' = queue
    BY <1>1, <1>5, WriteIs, HeldType
  <2>2. /\ Len(batch') = Len(batch) - 1 /\ Len(batch) \in Nat \ {0}
        /\ \A i \in 1..Len(batch') : batch'[i] = batch[i+1] /\ i+1 \in 1..Len(batch)
    BY <1>1, <2>1, EmptySeq, LenProperties, HeadTailProperties
  <2> QED
    BY <2>1, <2>2 DEF SamePlan
<1>6. CASE Tick \/ Replicate \/ Bid \/ BidUnread \/ Read \/ UNCHANGED vars
  BY <1>2, <1>6 DEF Tick, Replicate, Bid, BidUnread, Read, vars, workerVars
<1> QED
  BY <1>1, <1>3, <1>4, <1>5, <1>6, Undisturbing

\* What an undisturbed write does to the master's record.
LEMMA PlainWrite ==
    ASSUME CountInv, Undisturbed, NEW p, SamePlan(p), Write
    PROVE  /\ master \in Record /\ Written \in Record /\ master' = Written
           /\ Head(batch).kind \in Kinds
           /\ copy # <<>> /\ copy[1] = master /\ copy[1] \in Records
           /\ copy[2] \in SlotsOfDay /\ copy[2] <= now /\ Hour(copy[2]) \in Hours
           /\ OneMore(master, Written, p, Head(batch).kind, Hour(copy[2]))
<1>1. TypeInv /\ SoundInv
  BY DEF CountInv, SoundInv
<1>2. copy # <<>> /\ master' = Written /\ copy[1] \in Records
  BY <1>1, WriteIs, RecordsHave
<1>3. copy[1] = master
  BY <1>2 DEF CountInv, Synced, Undisturbed
<1>4. Head(batch).plan = p
  <2>1. batch # <<>> /\ batch \in Seq(Item)
    BY <1>1, <1>2, HeldType, TypeParts DEF TypeInv, TypeWorker
  <2>2. Head(batch) = batch[1] /\ 1 \in 1..Len(batch)
    BY <2>1, EmptySeq, LenProperties
  <2> QED
    BY <2>2 DEF SamePlan
<1>5. copy[2] <= now
  BY <1>1, <1>2 DEF TypeInv, WorkerSound
<1> QED
  BY <1>1, <1>2, <1>3, <1>4, <1>5, HeldType, WrittenIs

LEMMA NextHours ==
    ASSUME CountInv, [Next]_vars, Undisturbed', NEW p, Plain(p), ~p.day, SamePlan(p), HoursSound
    PROVE  HoursSound'
<1>1. TypeInv /\ Undisturbed
  BY Undisturbing DEF CountInv, SoundInv
<1>2. now \in SlotsOfDay /\ now' \in SlotsOfDay /\ now <= now'
  <2>1. now \in SlotsOfDay /\ now' \in SlotsOfDay
    BY <1>1, NextType, TypeParts, TypePartsNext DEF TypeInv, TypeRest
  <2>2. now' = now \/ now' = now + 1
    BY DEF Next, Tick, Reload, Replicate, Bid, BidUnread, Impression, Click, Stray, Swap, Skip, Read,
           Write, Drop, vars, envVars
  <2> QED
    BY <2>1, <2>2 DEF SlotsOfDay
<1>3. Hour(now) <= Hour(now') /\ Hour(now) \in Nat /\ Hour(now') \in Nat
  BY <1>2, HourMonotone, HourType DEF Hours
<1>4. ASSUME NEW r \in Records, NEW h \in Hours
      PROVE  (r.dst["imp"][h] = None \/ h > Hour(now)) => Count(r.sum["imp"][h]) = 0
  BY DEF HoursSound
<1>5. \A h \in Hours : h \in Nat /\ (h > Hour(now') => h > Hour(now))
  BY <1>3, PacingAssumption DEF Hours
<1>6. ASSUME NEW r \in Records', NEW h \in Hours, r.dst["imp"][h] = None \/ h > Hour(now')
      PROVE  Count(r.sum["imp"][h]) = 0
  <2>1. CASE r \in Records
    BY <1>4, <1>5, <1>6, <2>1
  <2>2. CASE Write /\ r = Written
    <3> DEFINE g == Hour(copy[2])
    <3>1. /\ master \in Records /\ master \in Record /\ "imp" \in Kinds
          /\ copy[2] \in SlotsOfDay /\ copy[2] <= now /\ g \in Hours
          /\ OneMore(master, r, p, Head(batch).kind, g)
      BY <1>1, <2>2, PlainWrite, RecordsHave DEF Kinds
    <3>2. g <= Hour(now) /\ g \in Nat
      BY <1>2, <3>1, HourMonotone DEF Hours
    <3> HIDE DEF g
    <3>3. h # g
      <4>1. CASE r.dst["imp"][h] = None
        BY <3>1, <4>1 DEF OneMore, Plain
      <4>2. CASE h > Hour(now')
        BY <1>3, <1>5, <3>2, <4>2
      <4> QED
        BY <1>6, <4>1, <4>2
    <3>4. Count(r.sum["imp"][h]) = Count(master.sum["imp"][h]) + 0
      BY <3>1, <3>3 DEF OneMore, One
    <3>5. master.dst["imp"][h] = None \/ h > Hour(now)
      <4>1. CASE r.dst["imp"][h] = None
        BY <3>1, <4>1 DEF OneMore
      <4> QED
        BY <1>5, <1>6, <4>1
    <3> QED
      BY <1>4, <3>1, <3>4, <3>5
  <2> QED
    BY <1>1, <2>1, <2>2, NewRecord
<1> QED
  BY <1>6 DEF HoursSound

LEMMA CopyType ==
    ASSUME TypeInv, NEW n \in 0..Len(lag)
    PROVE  Copy(n) \in Record
<1>1. slave \in Record /\ lag \in Seq(Record)
  BY TypeParts DEF TypeInv, TypeRedis
<1>2. n = 0 \/ n \in 1..Len(lag)
  <2>1. Len(lag) \in Nat
    BY <1>1
  <2> QED
    BY <2>1
<1> QED
  BY <1>1, <1>2, ElementOfSeq DEF Copy

\* The record c is at most m writes behind the master's, and has no other target.
Behind(c, p, m) ==
    \A h \in Hours :
        /\ Done(master, p, h) <= Done(c, p, h) + m
        /\ c.dst["imp"][h] # None => master.dst["imp"][h] = c.dst["imp"][h]

LEMMA ChainedIs ==
    ASSUME NEW p
    PROVE  /\ Chained(p) <=> \A n \in 0..Len(lag) : Behind(Copy(n), p, Len(lag) - n)
           /\ Chained(p)' <=> \A n \in 0..Len(lag') : Behind(Copy(n), p, Len(lag) - n)'
BY DEF Chained, Behind

LEMMA BehindNext ==
    ASSUME NEW p, NEW n
    PROVE  Behind(Copy(n), p, Len(lag) - n)' <=>
              \A h \in Hours :
                 /\ Done(master', p, h) <= Done(Copy(n)', p, h) + (Len(lag') - n)
                 /\ Copy(n)'.dst["imp"][h] # None => master'.dst["imp"][h] = Copy(n)'.dst["imp"][h]
BY DEF Behind, Copy, Done, Count

LEMMA NextChained ==
    ASSUME CountInv, [Next]_vars, Undisturbed', NEW p, Plain(p), SamePlan(p), Chained(p)
    PROVE  Chained(p)'
<1>1. TypeInv /\ Undisturbed
  BY Undisturbing DEF CountInv, SoundInv
<1>2. CASE UNCHANGED redisVars
  BY <1>2 DEF Chained, Copy, Done, Count, redisVars
<1>3. CASE Replicate
  <2> SUFFICES ASSUME NEW n \in 0..Len(lag') PROVE Behind(Copy(n), p, Len(lag) - n)'
    BY ChainedIs
  <2>1. n + 1 \in 0..Len(lag) /\ Len(lag) - (n + 1) = Len(lag') - n
    BY <1>1, <1>3, LagTail
  <2>2. Copy(n)' = lag[n + 1] /\ Copy(n + 1) = lag[n + 1]
    <3>1. CASE n = 0
      BY <1>1, <1>3, <3>1, LagTail DEF Copy
    <3>2. CASE n # 0
      <4>1. n \in 1..Len(lag') /\ n + 1 # 0
        BY <1>1, <1>3, <3>2, LagTail
      <4> QED
        BY <1>1, <1>3, <3>2, <4>1, LagTail DEF Copy
    <3> QED
      BY <3>1, <3>2
  <2>3. Behind(Copy(n + 1), p, Len(lag') - n)
    BY <2>1, ChainedIs
  <2>4. master' = master
    BY <1>1, <1>3, LagTail
  <2> QED
    BY <2>2, <2>3, <2>4, BehindNext DEF Behind
<1>4. CASE Write
  <2> SUFFICES ASSUME NEW n \in 0..Len(lag') PROVE Behind(Copy(n), p, Len(lag) - n)'
    BY ChainedIs
  <2> DEFINE k == Head(batch).kind
             g == Hour(copy[2])
  <2>1. /\ master \in Record /\ Written \in Record /\ master' = Written
        /\ k \in Kinds /\ g \in Hours /\ OneMore(master, Written, p, k, g)
    BY <1>1, <1>4, PlainWrite
  <2>2. Len(lag) \in Nat /\ Len(lag') = Len(lag) + 1
    BY <1>1, <1>4, LagAppend
  <2> HIDE DEF k, g
  <2>3. ASSUME NEW h \in Hours
        PROVE  /\ Done(Written, p, h) \in Nat /\ Done(master, p, h) \in Nat
               /\ Done(Written, p, h) <= Done(master, p, h) + 1
               /\ master.dst["imp"][h] # None => Written.dst["imp"][h] = master.dst["imp"][h]
    <3>1. One(k = "imp" /\ (p.day \/ g = h)) \in {0, 1}
      BY OneType
    <3>2. Done(Written, p, h) \in Nat /\ Done(master, p, h) \in Nat
      BY <2>1, DoneType
    <3>3. Done(Written, p, h) = Done(master, p, h) + One(k = "imp" /\ (p.day \/ g = h))
      BY <2>1, DoneOneMore
    <3>4. master.dst["imp"][h] # None => Written.dst["imp"][h] = master.dst["imp"][h]
      BY <2>1 DEF OneMore, Kinds
    <3> QED
      BY <3>1, <3>2, <3>3, <3>4
  <2>4. CASE n \in 0..Len(lag)
    <3>1. Copy(n)' = Copy(n)
      <4>1. n = 0 \/ n \in 1..Len(lag)
        BY <2>2, <2>4
      <4> QED
        BY <1>1, <1>4, <4>1, WriteIs, LagAppend DEF Copy
    <3>2. Behind(Copy(n), p, Len(lag) - n)
      BY <2>4, ChainedIs
    <3>3. \A h \in Hours : Done(Copy(n), p, h) \in Nat
      BY <1>1, <2>4, CopyType, DoneType
    <3>4. ASSUME NEW h \in Hours
          PROVE  /\ Done(Written, p, h) <= Done(Copy(n), p, h) + (Len(lag') - n)
                 /\ Copy(n).dst["imp"][h] # None => Written.dst["imp"][h] = Copy(n).dst["imp"][h]
      <4>1. /\ Done(master, p, h) <= Done(Copy(n), p, h) + (Len(lag) - n)
            /\ Copy(n).dst["imp"][h] # None => master.dst["imp"][h] = Copy(n).dst["imp"][h]
        BY <3>2 DEF Behind
      <4>2. Done(Written, p, h) <= Done(Copy(n), p, h) + (Len(lag') - n)
        BY <2>2, <2>3, <2>4, <3>3, <4>1
      <4> QED
        BY <2>3, <4>1, <4>2
    <3> QED
      BY <2>1, <3>1, <3>4, BehindNext
  <2>5. CASE n = Len(lag')
    <3>1. Copy(n)' = Written
      BY <1>1, <1>4, <2>2, <2>5, LagAppend DEF Copy
    <3>2. \A h \in Hours : Done(Written, p, h) <= Done(Written, p, h) + (Len(lag') - n)
      BY <2>2, <2>3, <2>5
    <3> QED
      BY <2>1, <3>1, <3>2, BehindNext
  <2> QED
    BY <2>2, <2>4, <2>5
<1>5. CASE Tick \/ Bid \/ BidUnread \/ Impression \/ Click \/ Stray \/ Swap \/ Read \/ UNCHANGED vars
  BY <1>2, <1>5 DEF Tick, Bid, BidUnread, Impression, Click, Stray, Swap, Read, vars
<1> QED
  BY <1>1, <1>3, <1>4, <1>5, Undisturbing

\* The parts of RoomLeft.
RoomIn(p, h) == Done(master, p, h) + out + Uncounted("imp") < Limit(p, h) + MaxOut + strays + unread
RoomFor(p, h) == Done(master, p, h) + One(Held(p, h)) < Limit(p, h) + MaxOut + strays + unread

LEMMA RoomIs ==
    ASSUME NEW p
    PROVE  /\ RoomLeft(p) <=> /\ \A h \in Hours : h >= Hour(now) => RoomIn(p, h)
                              /\ \A h \in Hours : RoomFor(p, h)
           /\ RoomLeft(p)' <=> /\ \A h \in Hours : h >= Hour(now') => RoomIn(p, h)'
                               /\ \A h \in Hours : RoomFor(p, h)'
BY DEF RoomLeft, RoomIn, RoomFor, One, Hour

LEMMA RoomNext ==
    ASSUME NEW p, NEW h
    PROVE  /\ RoomIn(p, h)' <=>
                 Done(master', p, h) + out' + Uncounted("imp")' < Limit(p, h)' + MaxOut + strays' + unread'
           /\ RoomFor(p, h)' <=>
                 Done(master', p, h) + One(Held(p, h)') < Limit(p, h)' + MaxOut + strays' + unread'
BY DEF RoomIn, RoomFor, One, Done, Count

LEMMA RoomType ==
    ASSUME TypeInv, NEW p, Plain(p), NEW h \in Hours
    PROVE  /\ Done(master, p, h) \in Nat /\ Limit(p, h) \in Nat /\ Limit(p, h) >= 1
           /\ out \in Nat /\ strays \in Nat /\ unread \in Nat /\ MaxOut \in Nat
           /\ Uncounted("imp") \in Nat
           /\ h \in Nat /\ Hour(now) \in Hours /\ Hour(now) \in Nat
<1>1. master \in Record /\ out \in Nat /\ strays \in Nat /\ unread \in Nat /\ now \in SlotsOfDay
  BY TypeParts DEF TypeInv, TypeRedis, TypeRest
<1>2. Uncounted("imp") \in Nat
  BY UncountedType DEF Kinds
<1> QED
  BY <1>1, <1>2, DoneType, LimitType, HourType, PacingAssumption DEF Hours

LEMMA HeldIs ==
    ASSUME NEW p, NEW h
    PROVE  /\ Held(p, h) \in BOOLEAN
           /\ Held(p, h)' <=> copy' # <<>> /\ Head(batch').kind = "imp"
                              /\ (p.day \/ Hour(copy'[2]) = h)
BY DEF Held, Hour

\* As long as the group is offered, its copy at the bidder is within the limit.
LEMMA OfferedBelow ==
    ASSUME CountInv, NEW p, Plain(p), Chained(p), ~p.day => HoursSound,
           ~Finished(slave, p, now), NEW h \in Hours, h >= Hour(now)
    PROVE  Done(slave, p, h) < Limit(p, h)
<1>1. /\ TypeInv /\ RecordSound(slave) /\ slave \in Records
      /\ slave \in Record /\ master \in Record
  BY RecordsHave, RecordsType DEF CountInv, SoundInv
<1>2. Limit(p, h) \in Nat /\ Limit(p, h) >= 1 /\ "imp" \in Kinds
  BY <1>1, LimitType DEF Kinds
<1>3. Done(slave, p, h) \in Nat
  BY <1>1, DoneType
<1>4. CASE Done(slave, p, h) = 0
  BY <1>2, <1>4
<1>5. CASE ~slave.live
  <2>1. slave = Blank
    BY <1>1, <1>5 DEF RecordSound
  <2>2. Done(slave, p, h) = 0
    BY <1>2, <2>1, BlankFields DEF Done, Plain, Count
  <2> QED
    BY <1>4, <2>2
<1>6. ASSUME slave.live, p.day PROVE Done(slave, p, h) < Limit(p, h)
  <2>1. Goal(slave, p, Hour(now)) = p.frequency[0]
    BY <1>6 DEF Goal
  <2>2. Done(slave, p, Hour(now)) = Done(slave, p, h)
    BY <1>6 DEF Done
  <2>3. ~(Done(slave, p, h) >= p.frequency[0])
    BY <1>6, <2>1, <2>2 DEF Finished, Plain
  <2>4. p.frequency[0] \in Nat /\ Limit(p, h) >= p.frequency[0]
    BY <1>1, <1>6, LimitType
  <2> QED
    BY <1>2, <1>3, <2>3, <2>4
<1>7. ASSUME slave.live, ~p.day, Done(slave, p, h) # 0 PROVE Done(slave, p, h) < Limit(p, h)
  <2>1. Done(slave, p, h) = Count(slave.sum["imp"][h])
    BY <1>7 DEF Done, Plain
  <2>2. slave.dst["imp"][h] # None /\ ~(h > Hour(now))
    BY <1>1, <1>7, <2>1 DEF HoursSound
  <2>3. h = Hour(now)
    BY <1>1, <2>2, RoomType
  <2>4. Goal(slave, p, h) = slave.dst["imp"][h]
    BY <1>7, <2>2 DEF Goal, Plain
  <2>5. ~(Done(slave, p, h) >= slave.dst["imp"][h])
    BY <1>7, <2>3, <2>4 DEF Finished, Plain
  <2>6. master.dst["imp"][h] = slave.dst["imp"][h]
    <3>1. 0 \in 0..Len(lag) /\ Copy(0) = slave
      <4>1. lag \in Seq(Record)
        BY <1>1, TypeParts DEF TypeInv, TypeRedis
      <4> QED
        BY <4>1 DEF Copy
    <3> QED
      BY <2>2, <3>1 DEF Chained
  <2>7. slave.dst["imp"][h] \in Nat
    BY <1>1, <1>2, <2>2, RecordFields DEF Labels
  <2>8. Limit(p, h) >= slave.dst["imp"][h]
    BY <1>1, <1>7, <2>2, <2>6, LimitType DEF Count
  <2> QED
    BY <1>2, <1>3, <2>5, <2>7, <2>8
<1> QED
  BY <1>4, <1>5, <1>6, <1>7

\* A bid needs room for every bid before it that the bidder does not know of.
LEMMA BidRoom ==
    ASSUME CountInv, Undisturbed, Bid, NEW p, Plain(p), Plans[ver["bidder"]] = p,
           Chained(p), ~p.day => HoursSound, NEW h \in Hours, h >= Hour(now)
    PROVE  RoomIn(p, h)'
<1>1. TypeInv /\ master \in Record /\ slave \in Record /\ lag \in Seq(Record) /\ Len(lag) \in Nat
  <2>1. TypeInv
    BY DEF CountInv, SoundInv
  <2> QED
    BY <2>1, TypeParts DEF TypeInv, TypeRedis
<1>2. Done(slave, p, h) < Limit(p, h)
  BY OfferedBelow DEF Bid
<1>3. Done(slave, p, h) \in Nat
  BY <1>1, DoneType
<1>4. Done(master, p, h) <= Done(slave, p, h) + Len(lag)
  <2>1. 0 \in 0..Len(lag) /\ Copy(0) = slave /\ Len(lag) - 0 = Len(lag)
    BY <1>1 DEF Copy
  <2> QED
    BY <2>1 DEF Chained
<1>5. out + Uncounted("imp") + Len(lag) < MaxOut
  <2>1. InFlight < MaxOut /\ InFlight = out + Waiting(queue, "imp") + Waiting(batch, "imp") + Len(lag)
    BY DEF Bid, InFlight
  <2>2. Waiting(queue, "imp") \in Nat /\ Waiting(batch, "imp") \in Nat
    BY <1>1, UncountedType DEF Kinds
  <2> QED
    BY <1>1, <2>1, <2>2, RoomType DEF Uncounted
<1>6. Done(master, p, h) + (out + 1) + Uncounted("imp") < Limit(p, h) + MaxOut + strays + unread
  <2>1. /\ Done(master, p, h) \in Nat /\ Limit(p, h) \in Nat /\ MaxOut \in Nat
        /\ out \in Nat /\ strays \in Nat /\ unread \in Nat /\ Uncounted("imp") \in Nat
    BY <1>1, RoomType
  <2> QED
    BY <1>1, <1>2, <1>3, <1>4, <1>5, <2>1
<1>7. /\ master' = master /\ out' = out + 1 /\ strays' = strays /\ unread' = unread
      /\ Uncounted("imp")' = Uncounted("imp") /\ Limit(p, h)' = Limit(p, h)
  <2>1. UNCHANGED <<master, queue, batch, strays, unread>> /\ out' = out + 1
    BY DEF Bid, redisVars, workerVars
  <2> QED
    BY <2>1, UncountedNext DEF Uncounted, Limit, Count
<1> QED
  BY <1>6, <1>7, RoomNext

LEMMA NextRoomIn ==
    ASSUME CountInv, [Next]_vars, Undisturbed', NEW p, Plain(p), SamePlan(p), Chained(p),
           ~p.day => HoursSound, RoomLeft(p), NEW h \in Hours, h >= Hour(now')
    PROVE  RoomIn(p, h)'
<1>1. TypeInv /\ TypeInv' /\ Undisturbed
  BY Undisturbing, NextType DEF CountInv, SoundInv
<1>2. h >= Hour(now)
  <2>1. now \in SlotsOfDay /\ now' \in SlotsOfDay
    BY <1>1, TypeParts, TypePartsNext DEF TypeInv, TypeRest
  <2>2. now' = now \/ now' = now + 1
    BY DEF Next, Tick, Reload, Replicate, Bid, BidUnread, Impression, Click, Stray, Swap, Skip, Read,
           Write, Drop, vars, envVars
  <2>3. Hour(now) <= Hour(now')
    BY <2>1, <2>2, HourMonotone DEF SlotsOfDay
  <2> QED
    BY <2>1, <2>3, HourType, PacingAssumption DEF Hours
<1>3. RoomIn(p, h)
  BY <1>2, RoomIs
<1>4. /\ Done(master, p, h) \in Nat /\ Limit(p, h) \in Nat /\ MaxOut \in Nat
      /\ out \in Nat /\ strays \in Nat /\ unread \in Nat /\ Uncounted("imp") \in Nat /\ "imp" \in Kinds
  BY <1>1, RoomType DEF Kinds
<1>5. CASE UNCHANGED <<master, out, queue, batch, strays, unread>>
  <2>1. Uncounted("imp")' = Uncounted("imp") /\ Limit(p, h)' = Limit(p, h)
    BY <1>5, UncountedNext DEF Uncounted, Limit, Count
  <2> QED
    BY <1>3, <1>5, <2>1, RoomNext DEF RoomIn
<1>6. CASE Bid
  BY <1>1, <1>2, <1>6, BidRoom, Undisturbing DEF Plain
<1>7. CASE Impression \/ Click \/ Stray
  <2>1. /\ master' = master /\ batch' = batch
        /\ Limit(p, h)' = Limit(p, h)
    BY <1>7 DEF Impression, Click, Stray, redisVars, Limit, Count
  <2>2. Waiting(queue, "imp") \in Nat /\ Waiting(batch, "imp") \in Nat
    BY <1>1, UncountedType DEF Kinds
  <2>3. ASSUME NEW k \in Kinds, Push(k)
        PROVE  Uncounted("imp")' = Uncounted("imp") + One(k = "imp")
    <3>1. Waiting(queue', "imp") = Waiting(queue, "imp") + One(k = "imp")
      BY <1>1, <1>4, <2>3, PushWaits
    <3>2. One(k = "imp") \in {0, 1}
      BY OneType
    <3> QED
      BY <2>1, <2>2, <3>1, <3>2, UncountedNext DEF Uncounted
  <2>4. CASE Impression
    <3>1. out' = out - 1 /\ strays' = strays /\ unread' = unread /\ Uncounted("imp")' = Uncounted("imp") + 1
      BY <1>4, <2>3, <2>4 DEF Impression, One
    <3> QED
      BY <1>3, <1>4, <2>1, <3>1, RoomNext DEF RoomIn
  <2>5. CASE Click
    <3>1. out' = out /\ strays' = strays /\ unread' = unread /\ Uncounted("imp")' = Uncounted("imp") + 0
      BY <2>3, <2>5 DEF Click, One, Kinds
    <3> QED
      BY <1>3, <1>4, <2>1, <3>1, RoomNext DEF RoomIn
  <2>6. CASE Stray
    <3>1. out' = out /\ strays' = strays + 1 /\ unread' = unread /\ Uncounted("imp")' = Uncounted("imp") + 1
      BY <1>4, <2>3, <2>6 DEF Stray, One
    <3> QED
      BY <1>3, <1>4, <2>1, <3>1, RoomNext DEF RoomIn
  <2> QED
    BY <1>7, <2>4, <2>5, <2>6
<1>8. CASE Swap
  <2>1. /\ master' = master /\ out' = out /\ strays' = strays /\ unread' = unread
        /\ queue' = <<>> /\ batch' = queue /\ batch = <<>>
        /\ Limit(p, h)' = Limit(p, h)
    BY <1>8 DEF Swap, redisVars, bidVars, Limit, Count
  <2>2. Waiting(queue, "imp") \in Nat
    BY <1>1, UncountedType DEF Kinds
  <2>3. Uncounted("imp")' = Uncounted("imp")
    BY <2>1, <2>2, UncountedNext, WaitingNone DEF Uncounted
  <2> QED
    BY <1>3, <2>1, <2>3, RoomNext DEF RoomIn
<1>9. CASE Write
  <2> DEFINE k == Head(batch).kind
             g == Hour(copy[2])
  <2>1. /\ master \in Record /\ Written \in Record /\ master' = Written
        /\ k \in Kinds /\ g \in Hours /\ OneMore(master, Written, p, k, g)
    BY <1>1, <1>9, PlainWrite
  <2>2. out' = out /\ strays' = strays /\ unread' = unread
    BY <1>1, <1>9, WriteIs DEF bidVars
  <2>3. Uncounted("imp") = Uncounted("imp")' + One(k = "imp") /\ Uncounted("imp")' \in Nat
    BY <1>1, <1>4, <1>9, WriteCounts
  <2> HIDE DEF k, g
  <2>4. Done(Written, p, h) = Done(master, p, h) + One(k = "imp" /\ (p.day \/ g = h))
    BY <2>1, DoneOneMore
  <2>5. /\ One(k = "imp") \in {0, 1} /\ One(k = "imp" /\ (p.day \/ g = h)) \in {0, 1}
        /\ One(k = "imp" /\ (p.day \/ g = h)) <= One(k = "imp")
    BY DEF One
  <2>6. Limit(p, h)' \in Nat /\ Limit(p, h)' >= Limit(p, h)
    <3>1. master.dst["imp"][h] # None => master'.dst["imp"][h] = master.dst["imp"][h]
      BY <1>4, <2>1 DEF OneMore
    <3> QED
      BY <2>1, <3>1, LimitNext
  <2>7. Done(Written, p, h) + Uncounted("imp")' <= Done(master, p, h) + Uncounted("imp")
    BY <1>4, <2>3, <2>4, <2>5
  <2>8. Done(Written, p, h) \in Nat
    BY <2>1, DoneType
  <2>9. Done(Written, p, h) + out + Uncounted("imp")' < Limit(p, h)' + MaxOut + strays + unread
    BY <1>3, <1>4, <2>3, <2>6, <2>7, <2>8 DEF RoomIn
  <2> QED
    BY <2>1, <2>2, <2>9, RoomNext
<1>10. CASE Tick \/ Replicate \/ Read \/ UNCHANGED vars
  BY <1>5, <1>10 DEF Tick, Replicate, Read, vars, redisVars, workerVars, bidVars
<1>11. CASE BidUnread
  <2>1. /\ UNCHANGED <<master, queue, batch, strays>>
        /\ out' = out + 1 /\ unread' = unread + 1
    BY <1>11 DEF BidUnread, redisVars, workerVars
  <2>2. Uncounted("imp")' = Uncounted("imp") /\ Limit(p, h)' = Limit(p, h)
    BY <2>1, UncountedNext DEF Uncounted, Limit, Count
  <2>3. Done(master, p, h) + (out + 1) + Uncounted("imp")
           < Limit(p, h) + MaxOut + strays + (unread + 1)
    BY <1>3, <1>4 DEF RoomIn
  <2> QED
    BY <2>1, <2>2, <2>3, RoomNext
<1> QED
  BY <1>1, <1>6, <1>7, <1>8, <1>9, <1>10, <1>11, Undisturbing

LEMMA NextRoomFor ==
    ASSUME CountInv, [Next]_vars, Undisturbed', NEW p, Plain(p), SamePlan(p),
           RoomLeft(p), NEW h \in Hours
    PROVE  RoomFor(p, h)'
<1>1. TypeInv /\ Undisturbed
  BY Undisturbing DEF CountInv, SoundInv
<1>2. RoomFor(p, h) /\ One(Held(p, h)) \in {0, 1}
  BY RoomIs, HeldIs, OneType
<1>3. /\ Done(master, p, h) \in Nat /\ Limit(p, h) \in Nat /\ MaxOut \in Nat
      /\ out \in Nat /\ strays \in Nat /\ unread \in Nat /\ Uncounted("imp") \in Nat /\ "imp" \in Kinds
      /\ h \in Nat /\ Hour(now) \in Hours /\ Hour(now) \in Nat
  BY <1>1, RoomType DEF Kinds
<1>4. CASE UNCHANGED <<master, copy>> /\ (batch' = batch \/ copy = <<>>)
           /\ (strays' = strays \/ strays' = strays + 1)
           /\ (unread' = unread \/ unread' = unread + 1)
  <2>1. Held(p, h)' <=> Held(p, h)
    BY <1>4, HeldIs DEF Held
  <2>2. Limit(p, h)' = Limit(p, h)
    BY <1>4 DEF Limit, Count
  <2>3. One(Held(p, h)') = One(Held(p, h))
    BY <2>1 DEF One
  <2> QED
    BY <1>2, <1>3, <1>4, <2>2, <2>3, RoomNext DEF RoomFor
<1>5. CASE Swap
  <2>1. copy = <<>>
    BY <1>1, <1>5 DEF Swap, TypeInv, WorkerSound
  <2> QED
    BY <1>4, <1>5, <2>1 DEF Swap, redisVars, bidVars
<1>6. CASE Read
  <2> DEFINE i == IF p.day THEN Hour(now) ELSE h
  <2>1. /\ copy' = <<slave, now>> /\ batch' = batch /\ batch # <<>>
        /\ master' = master /\ strays' = strays /\ unread' = unread
    BY <1>6 DEF Read, redisVars, bidVars
  <2>2. Limit(p, h)' = Limit(p, h)
    BY <2>1 DEF Limit, Count
  <2>3. CASE Held(p, h)'
    <3>1. Head(batch).kind = "imp" /\ (p.day \/ Hour(now) = h)
      BY <2>1, <2>3, HeldIs
    <3>2. RoomIn(p, Hour(now))
      BY <1>3, RoomIs
    <3>3. RoomIn(p, h)
      BY <3>1, <3>2 DEF RoomIn, Done, Limit, Plain
    <3>4. Uncounted("imp") >= 1
      <4>1. Waiting(batch, "imp") = Waiting(Tail(batch), "imp") + One(Head(batch).kind = "imp")
        BY <1>1, <1>3, <2>1, TailWaits
      <4>2. Waiting(Tail(batch), "imp") \in Nat
        <5>1. Tail(batch) \in Seq(Item)
          BY <1>1, <2>1, BatchType
        <5> QED
          BY <5>1, WaitingType
      <4>3. Waiting(queue, "imp") \in Nat
        BY <1>1, <1>3, UncountedType
      <4> QED
        BY <3>1, <4>1, <4>2, <4>3 DEF Uncounted, One
    <3>5. Done(master, p, h) + 1 < Limit(p, h) + MaxOut + strays + unread
      BY <1>3, <3>3, <3>4 DEF RoomIn
    <3>6. One(Held(p, h)') = 1
      BY <2>3 DEF One
    <3> QED
      BY <2>1, <2>2, <3>5, <3>6, RoomNext
  <2>4. CASE ~Held(p, h)'
    <3>1. One(Held(p, h)') = 0
      BY <2>4 DEF One
    <3>2. Done(master, p, h) + 0 < Limit(p, h) + MaxOut + strays + unread
      BY <1>2, <1>3 DEF RoomFor
    <3> QED
      BY <2>1, <2>2, <3>1, <3>2, RoomNext
  <2> QED
    BY <2>3, <2>4
<1>7. CASE Write
  <2> DEFINE k == Head(batch).kind
             g == Hour(copy[2])
  <2>1. /\ master \in Record /\ Written \in Record /\ master' = Written
        /\ k \in Kinds /\ g \in Hours /\ OneMore(master, Written, p, k, g)
    BY <1>1, <1>7, PlainWrite
  <2>2. copy # <<>> /\ copy' = <<>> /\ strays' = strays /\ unread' = unread
    BY <1>1, <1>7, WriteIs DEF bidVars
  <2>3. One(Held(p, h)) = One(k = "imp" /\ (p.day \/ g = h))
    BY <2>2 DEF Held, One
  <2>4. One(Held(p, h)') = 0
    BY <2>2, HeldIs DEF One
  <2> HIDE DEF k, g
  <2>5. Done(Written, p, h) = Done(master, p, h) + One(Held(p, h))
    BY <2>1, <2>3, DoneOneMore
  <2>6. Limit(p, h)' \in Nat /\ Limit(p, h)' >= Limit(p, h)
    <3>1. master.dst["imp"][h] # None => master'.dst["imp"][h] = master.dst["imp"][h]
      BY <1>3, <2>1 DEF OneMore
    <3> QED
      BY <2>1, <3>1, LimitNext
  <2>7. Done(Written, p, h) + 0 < Limit(p, h)' + MaxOut + strays + unread
    BY <1>2, <1>3, <2>5, <2>6 DEF RoomFor
  <2> QED
    BY <2>1, <2>2, <2>4, <2>7, RoomNext
<1>8. CASE Tick \/ Replicate \/ Bid \/ BidUnread \/ Impression \/ Click \/ Stray \/ UNCHANGED vars
  BY <1>4, <1>8 DEF Tick, Replicate, Bid, BidUnread, Impression, Click, Stray, vars,
                    redisVars, workerVars, bidVars
<1> QED
  BY <1>1, <1>5, <1>6, <1>7, <1>8, Undisturbing

BoundInv == CountInv /\ Bounded

LEMMA NextBound == BoundInv /\ [Next]_vars => BoundInv'
<1> SUFFICES ASSUME CountInv, Bounded, [Next]_vars PROVE BoundInv'
  BY DEF BoundInv
<1>1. CountInv'
  BY NextCount
<1> DEFINE p == Plans[1]
<1>2. ASSUME Undisturbed'
      PROVE  /\ SamePlan(p)'
             /\ p.type = "imp" => Chained(p)' /\ (~p.day => HoursSound') /\ RoomLeft(p)'
  <2>1. /\ Undisturbed /\ SamePlan(p) /\ p \in Plan /\ p = Plans[1]
        /\ p.type = "imp" => Chained(p) /\ (~p.day => HoursSound) /\ RoomLeft(p)
    BY <1>2, Undisturbing, PlainPlan DEF Bounded, CountInv, SoundInv
  <2> HIDE DEF p
  <2>2. CASE p.type = "imp"
    <3>1. Plain(p)
      BY <2>1, <2>2 DEF Plain, p
    <3>2. RoomLeft(p)'
      BY <1>2, <2>1, <2>2, <3>1, NextRoomIn, NextRoomFor, RoomIs
    <3> QED
      BY <1>2, <2>1, <2>2, <3>1, <3>2, NextSame, NextChained, NextHours
  <2>3. CASE p.type # "imp"
    BY <1>2, <2>1, <2>3, NextSame
  <2> QED
    BY <2>2, <2>3
<1>3. Bounded'
  BY <1>2 DEF Bounded
<1> QED
  BY <1>1, <1>3 DEF BoundInv

LEMMA InitBound == Init => BoundInv
<1> SUFFICES ASSUME Init PROVE BoundInv
  OBVIOUS
<1> DEFINE p == Plans[1]
<1>1. CountInv /\ TypeInv /\ master \in Record
  BY InitCount, TypeParts DEF CountInv, SoundInv, TypeInv, TypeRedis
<1>2. SamePlan(p)
  BY DEF Init, SamePlan
<1>3. ASSUME p.type = "imp" PROVE Chained(p) /\ HoursSound /\ RoomLeft(p)
  <2>1. Plain(p)
    BY <1>3, PlainPlan DEF Plain
  <2>2. master = Blank /\ slave = Blank /\ lag = <<>> /\ copy = <<>>
      /\ out = 0 /\ strays = 0 /\ unread = 0
    BY DEF Init
  <2>3. \A h \in Hours : Count(Blank.sum["imp"][h]) = 0 /\ Blank.total["imp"] = 0
    BY BlankFields DEF Count, Kinds
  <2> HIDE DEF p
  <2>4. \A h \in Hours : Done(master, p, h) = 0
    BY <2>1, <2>2, <2>3 DEF Done, Plain
  <2>5. Chained(p)
    <3>1. \A n \in 0..Len(lag) : n = 0 /\ Copy(n) = master /\ Len(lag) - n = 0
      BY <2>2 DEF Copy
    <3> QED
      BY <2>4, <3>1 DEF Chained
  <2>6. HoursSound
    BY <2>2, <2>3 DEF HoursSound, Records
  <2>7. Uncounted("imp") = 0
    BY WaitingNone DEF Init, Uncounted
  <2>8. \A h \in Hours : Limit(p, h) \in Nat /\ Limit(p, h) >= 1 /\ MaxOut \in Nat
    BY <1>1, <2>1, RoomType
  <2>9. \A h \in Hours : One(Held(p, h)) = 0
    BY <2>2 DEF Held, One
  <2>10. \A h \in Hours : RoomIn(p, h) /\ RoomFor(p, h)
    BY <2>2, <2>4, <2>7, <2>8, <2>9 DEF RoomIn, RoomFor
  <2> QED
    BY <2>5, <2>6, <2>10, RoomIs
<1> QED
  BY <1>1, <1>2, <1>3 DEF BoundInv, Bounded

LEMMA BoundsHold == Spec => []BoundInv
BY InitBound, NextBound, PTL DEF Spec

\* The room left in an hour, as the two bounds state it.
LEMMA RoomBounds ==
    ASSUME BoundInv, Undisturbed, NEW p, Plain(p), NEW h \in Hours
    PROVE  Done(master, p, h) < Limit(p, h) + MaxOut + strays + unread
<1>1. TypeInv /\ RoomFor(p, h)
  BY RoomIs DEF BoundInv, Bounded, CountInv, SoundInv, Plain
<1>2. One(Held(p, h)) \in {0, 1}
  BY HeldIs, OneType
<1> QED
  BY <1>1, <1>2, RoomType DEF RoomFor

\* For any plan, any delays and any number of hours: a group limited in its
\* impressions per hour is shown no more often than its target, and once more for
\* each bid on its way and each notice no bid stands behind.
THEOREM OvershootIsBounded == Spec => []OvershootBounded
<1>1. BoundInv => OvershootBounded
  <2> DEFINE p == Plans[1]
  <2> SUFFICES ASSUME BoundInv, Undisturbed, Hourly(p), p.type = "imp", NEW h \in Hours
               PROVE  Count(master.sum["imp"][h])
                        < Max({1, Count(master.dst["imp"][h])}) + MaxOut + strays + unread
    BY DEF OvershootBounded
  <2>1. Plain(p) /\ ~p.day
    BY PlainPlan DEF Plain, Hourly
  <2> HIDE DEF p
  <2>2. Done(master, p, h) = Count(master.sum["imp"][h])
    BY <2>1 DEF Done, Plain
  <2>3. Limit(p, h) = Max({1, Count(master.dst["imp"][h])})
    BY <2>1 DEF Limit
  <2> QED
    BY <2>1, <2>2, <2>3, RoomBounds
<1> QED
  BY <1>1, BoundsHold, PTL

\* The same for a group limited in its impressions per day.
THEOREM DayOvershootIsBounded == Spec => []DayOvershootBounded
<1>1. BoundInv => DayOvershootBounded
  <2> DEFINE p == Plans[1]
  <2> SUFFICES ASSUME BoundInv, Undisturbed, p.day, p.type = "imp"
               PROVE  master.total["imp"] < Max({1, p.frequency[0]}) + MaxOut + strays + unread
    BY DEF DayOvershootBounded
  <2>1. Plain(p) /\ 0 \in Hours
    BY PlainPlan, FirstSlot DEF Plain
  <2> HIDE DEF p
  <2>2. Done(master, p, 0) = master.total["imp"]
    BY <2>1 DEF Done, Plain
  <2>3. Limit(p, 0) = Max({1, p.frequency[0]})
    BY <2>1 DEF Limit
  <2> QED
    BY <2>1, <2>2, <2>3, RoomBounds
<1> QED
  BY <1>1, BoundsHold, PTL
-----------------------------------------------------------------------------
(* What an hour leaves over is offered again                               *)

LEMMA EarlierHours ==
    ASSUME NEW r, NEW p, NEW h \in Hours
    PROVE  /\ h \in Nat /\ PlannedBefore(r, p, h) \subseteq Hours
           /\ IsFiniteSet(PlannedBefore(r, p, h))
           /\ \A i \in PlannedBefore(r, p, h) : i \in Nat /\ 1 <= i /\ i < h
<1>1. h \in Nat /\ \A i \in 1..h-1 : i \in Hours /\ i \in Nat /\ 1 <= i /\ i < h
  BY PacingAssumption DEF Hours
<1>2. IsFiniteSet(1..h-1)
  BY <1>1, FS_Interval
<1>3. PlannedBefore(r, p, h) \subseteq 1..h-1
  BY DEF PlannedBefore
<1>4. IsFiniteSet(PlannedBefore(r, p, h))
  BY <1>2, <1>3, FS_Subset
<1> QED
  BY <1>1, <1>3, <1>4

LEMMA LeftType ==
    ASSUME NEW r \in Record, NEW p \in Plan, p.type \in Kinds, NEW i \in Hours
    PROVE  /\ Left(r, p)[i] = p.frequency[i] - Count(r.sum[p.type][i])
           /\ Left(r, p)[i] \in Int /\ p.frequency[i] \in Nat
<1>1. p.frequency[i] \in Nat /\ Count(r.sum[p.type][i]) \in Nat
  BY RecordFields, CountType DEF Plan
<1> QED
  BY <1>1 DEF Left

\* What the last of the earlier hours hands on is what all of them left.
LEMMA CarryRolls ==
    ASSUME NEW r \in Record, NEW p \in Plan, p.type \in Kinds, NEW h \in Hours,
           \A i \in PlannedBefore(r, p, h) : RollsOver(r, p, i)
    PROVE  /\ SumFunctionOnSet(Left(r, p), PlannedBefore(r, p, h)) \in Int
           /\ Carry(r, p.type, h) >= SumFunctionOnSet(Left(r, p), PlannedBefore(r, p, h))
<1> DEFINE E == PlannedBefore(r, p, h)
           f == Left(r, p)
           t == p.type
<1>1. /\ h \in Nat /\ E \subseteq Hours /\ IsFiniteSet(E)
      /\ \A i \in E : i \in Nat /\ 1 <= i /\ i < h /\ f[i] \in Int
  BY EarlierHours, LeftType
<1>2. SumFunctionOnSet(f, E) \in Int
  <2> HIDE DEF E, f
  <2> QED
    BY <1>1, SumInt
<1>3. E = {i \in 1..h-1 : Count(r.dst[t][i]) # 0}
  <2>1. \A i \in 1..h-1 : i \in Hours
    BY <1>1, PacingAssumption DEF Hours
  <2>2. \A i \in 1..h-1 : Count(r.dst[t][i]) \in Nat
    BY <2>1, RecordFields, CountType
  <2>3. \A i \in 1..h-1 : Count(r.dst[t][i]) > 0 <=> Count(r.dst[t][i]) # 0
    BY <2>2
  <2> QED
    BY <2>3 DEF PlannedBefore
<1>4. CASE E = {}
  <2>1. Carry(r, t, h) = 0
    BY <1>3, <1>4 DEF Carry
  <2>2. SumFunctionOnSet(f, E) = 0
    BY <1>4, SumNone
  <2> QED
    BY <2>1, <2>2
<1>5. CASE E # {}
  <2> DEFINE i == Max(E)
             D == PlannedBefore(r, p, i)
  <2>1. i \in E /\ \A j \in E : i >= j
    <3>1. E \in SUBSET Nat
      BY <1>1
    <3> HIDE DEF E
    <3> QED
      BY <1>1, <1>5, <3>1, MaxOfFinite
  <2>2. Carry(r, t, h) = r.dst[t][i] - Count(r.sum[t][i])
    BY <1>3, <1>5 DEF Carry
  <2>3. i \in Hours /\ Count(r.dst[t][i]) > 0 /\ i \in Nat /\ 1 <= i /\ i < h
    BY <1>1, <2>1 DEF PlannedBefore
  <2>4. RollsOver(r, p, i)
    BY <2>1
  <2> HIDE DEF i
  <2>5. E = D \cup {i}
    <3>1. \A j \in E : j = i \/ j \in D
      BY <1>1, <2>1, <2>3 DEF PlannedBefore
    <3>2. \A j \in D : j \in E
      BY <1>1, <2>3 DEF PlannedBefore
    <3> QED
      BY <2>1, <3>1, <3>2
  <2>6. /\ i \notin D /\ IsFiniteSet(D) /\ D \subseteq Hours
    BY <2>3, EarlierHours
  <2>7. f[i] = p.frequency[i] - Count(r.sum[t][i]) /\ f[i] \in Int /\ p.frequency[i] \in Nat
    BY <2>3, LeftType
  <2>8. \A j \in D : f[j] \in Int
    BY <2>6, LeftType
  <2>9. SumFunctionOnSet(f, E) = SumFunctionOnSet(f, D) + f[i] /\ SumFunctionOnSet(f, D) \in Int
    <3> HIDE DEF D, E, f
    <3>1. SumFunctionOnSet(f, D \cup {i}) = SumFunctionOnSet(f, D) + f[i] /\ SumFunctionOnSet(f, D) \in Int
      BY <2>6, <2>7, <2>8, SumAdd
    <3> QED
      BY <2>5, <3>1
  <2>10. r.dst[t][i] >= p.frequency[i] + SumFunctionOnSet(f, D)
    BY <2>3, <2>4 DEF RollsOver
  <2>11. r.dst[t][i] \in Nat /\ Count(r.sum[t][i]) \in Nat
    <3>1. r.dst[t][i] \in Labels /\ r.sum[t][i] \in Labels
      BY <2>3, RecordFields
    <3> QED
      BY <2>3, <3>1, CountType DEF Labels, Count
  <2>12. Carry(r, t, h) >= SumFunctionOnSet(f, E)
    <3> DEFINE a == r.dst[t][i]
               b == Count(r.sum[t][i])
               y == p.frequency[i]
               z == SumFunctionOnSet(f, D)
    <3>1. a \in Int /\ b \in Int /\ y \in Int /\ z \in Int /\ a >= y + z
      BY <2>7, <2>9, <2>10, <2>11
    <3>2. Carry(r, t, h) = a - b /\ SumFunctionOnSet(f, E) = z + (y - b)
      BY <2>2, <2>7, <2>9
    <3> HIDE DEF a, b, y, z, E, f, t
    <3> QED
      BY <3>1, <3>2
  <2> QED
    BY <1>2, <2>12
<1> QED
  BY <1>2, <1>4, <1>5

\* The target a write sets in an hour that has none.
LEMMA CountedTarget ==
    ASSUME NEW r \in Record, r.live, NEW p \in Plan, p.type \in Kinds, ~p.day,
           NEW k \in Kinds, NEW n \in SlotsOfDay, r.dst[p.type][Hour(n)] = None
    PROVE  Counted(r, p, k, n).dst[p.type][Hour(n)] = Target(r, p, Hour(n))
<1> DEFINE c == Counted(r, p, k, n)
           h == Hour(n)
           m == r.total[k] + 1
           t == [r EXCEPT !.total[k] = m]
           d == Planned(t, p, h)
<1>1. c = CountHour(d, p, k, n)
  BY DEF Counted
<1>2. m \in Nat /\ h \in Hours
  BY RecordFields, HourType
<1> HIDE DEF m, c, h
<1>3. t \in Record /\ t.dst = r.dst /\ t.sum = r.sum
  BY <1>2 DEF Record
<1>4. Target(t, p, h) = Target(r, p, h)
  BY <1>3 DEF Target, Carry
<1>5. t.dst[p.type][h] = None
  BY <1>3 DEF h
<1> DEFINE x == Target(t, p, h)
<1>6. d = [t EXCEPT !.dst[p.type][h] = x]
  BY <1>5 DEF Planned
<1> HIDE DEF t, x
<1>7. d.dst[p.type][h] = x /\ d \in Record
  <2>1. d.dst[p.type][h] = x
    BY <1>2, <1>3, <1>6 DEF Record
  <2> QED
    BY <1>2, <1>3, <2>1, PlannedType
<1> HIDE DEF d
<1>8. c.dst = d.dst
  BY <1>1, <1>7, CountHourCounts DEF HourCounted
<1> QED
  BY <1>4, <1>7, <1>8 DEF x, c, h

\* Only earlier hours matter to an hour's claim.
LEMMA SameBefore ==
    ASSUME NEW r \in Record, NEW c \in Record, NEW p \in Plan, p.type \in Kinds, NEW h \in Hours,
           \A i \in Hours : i < h => /\ c.dst[p.type][i] = r.dst[p.type][i]
                                     /\ Count(c.sum[p.type][i]) = Count(r.sum[p.type][i])
    PROVE  /\ PlannedBefore(c, p, h) = PlannedBefore(r, p, h)
           /\ SumFunctionOnSet(Left(c, p), PlannedBefore(c, p, h))
                 = SumFunctionOnSet(Left(r, p), PlannedBefore(r, p, h))
<1>1. h \in Nat /\ \A i \in 1..h-1 : i \in Hours /\ i < h
  BY PacingAssumption DEF Hours
<1>2. PlannedBefore(c, p, h) = PlannedBefore(r, p, h)
  BY <1>1 DEF PlannedBefore
<1>3. \A i \in PlannedBefore(r, p, h) : Left(c, p)[i] = Left(r, p)[i]
  BY EarlierHours DEF Left
<1>4. SumFunctionOnSet(Left(c, p), PlannedBefore(r, p, h))
         = SumFunctionOnSet(Left(r, p), PlannedBefore(r, p, h))
  BY <1>3, EarlierHours, SumSame
<1> QED
  BY <1>2, <1>4

LEMMA CountedRolls ==
    ASSUME NEW r \in Record, RecordSound(r), NEW p \in Plan, p.type \in Kinds, ~p.day,
           NEW k \in Kinds, NEW n \in SlotsOfDay,
           \A h \in Hours \ {0} : RollsOver(r, p, h),
           \A h \in Hours : r.dst[p.type][h] # None => h <= Hour(n),
           NEW h \in Hours \ {0}
    PROVE  RollsOver(Counted(r, p, k, n), p, h)
<1> DEFINE c == Counted(r, p, k, n)
           g == Hour(n)
           t == p.type
<1>1. /\ c \in Record /\ OneMore(r, c, p, k, g) /\ g \in Hours /\ h \in Hours
      /\ Hours \subseteq Nat /\ h # 0
  BY CountedType, CountedCounts, HourType DEF Hours
<1>2. CASE ~r.live
  <2>1. r = Blank /\ c = Created(p, k, n)
    BY <1>2 DEF RecordSound, Counted
  <2>2. \A i \in Hours : c.dst[t][i] = IF i = g THEN p.frequency[g] ELSE None
    <3>1. \A j \in Kinds, i \in Hours :
             Created(p, k, n).dst[j][i] = IF j = t /\ i = g THEN p.frequency[g] ELSE None
      BY <1>1 DEF Created, Blank
    <3> QED
      BY <2>1, <3>1
  <2> HIDE DEF c, g
  <2>3. SUFFICES ASSUME Count(c.dst[t][h]) > 0
                 PROVE  c.dst[t][h] >= p.frequency[h] + SumFunctionOnSet(Left(c, p), PlannedBefore(c, p, h))
    BY DEF RollsOver, c
  <2>4. h = g /\ c.dst[t][h] = p.frequency[h]
    BY <1>1, <2>2, <2>3 DEF Count
  <2>5. PlannedBefore(c, p, h) = {}
    <3>1. \A i \in PlannedBefore(c, p, h) : i \in Hours /\ i # g /\ Count(c.dst[t][i]) > 0
      <4>1. \A i \in PlannedBefore(c, p, h) : i \in Hours /\ i \in Nat /\ i < h
        BY <1>1, EarlierHours
      <4>2. \A i \in PlannedBefore(c, p, h) : Count(c.dst[t][i]) > 0
        BY DEF PlannedBefore
      <4> QED
        BY <1>1, <2>4, <4>1, <4>2
    <3>2. \A i \in PlannedBefore(c, p, h) : FALSE
      BY <2>2, <3>1 DEF Count
    <3> QED
      BY <3>2
  <2>6. p.frequency[h] \in Nat
    BY <1>1 DEF Plan
  <2>7. SumFunctionOnSet(Left(c, p), PlannedBefore(c, p, h)) = 0
    BY <2>5, SumNone
  <2> QED
    BY <2>4, <2>6, <2>7
<1>3. CASE r.live
  <2>1. r.dst[t][g] = None => c.dst[t][g] = Target(r, p, g)
    BY <1>3, CountedTarget
  <2>2. \A i \in Hours : /\ i # g => c.dst[t][i] = r.dst[t][i]
                         /\ i # g => Count(c.sum[t][i]) = Count(r.sum[t][i]) + 0
                         /\ r.dst[t][i] # None => c.dst[t][i] = r.dst[t][i] /\ i <= g
                         /\ Count(r.sum[t][i]) \in Nat
    BY <1>1, RecordFields, CountType DEF OneMore, One
  <2> HIDE DEF c, g
  <2>3. SUFFICES ASSUME Count(c.dst[t][h]) > 0
                 PROVE  c.dst[t][h] >= p.frequency[h] + SumFunctionOnSet(Left(c, p), PlannedBefore(c, p, h))
    BY DEF RollsOver, c
  <2>4. h <= g
    <3>1. c.dst[t][h] # None
      BY <2>3 DEF Count
    <3> QED
      BY <1>1, <2>2, <3>1
  <2>5. \A i \in Hours : i < h => /\ c.dst[t][i] = r.dst[t][i]
                                  /\ Count(c.sum[t][i]) = Count(r.sum[t][i])
    BY <1>1, <2>2, <2>4
  <2>6. /\ PlannedBefore(c, p, h) = PlannedBefore(r, p, h)
        /\ SumFunctionOnSet(Left(c, p), PlannedBefore(c, p, h))
              = SumFunctionOnSet(Left(r, p), PlannedBefore(r, p, h))
    BY <1>1, <2>5, SameBefore
  <2>7. CASE r.dst[t][h] # None
    <3>1. c.dst[t][h] = r.dst[t][h]
      BY <1>1, <2>2, <2>7
    <3> QED
      BY <2>3, <2>6, <3>1 DEF RollsOver
  <2>8. CASE r.dst[t][h] = None
    <3>1. h = g /\ c.dst[t][h] = Target(r, p, h)
      <4>1. c.dst[t][h] # None
        BY <2>3 DEF Count
      <4>2. h = g
        BY <1>1, <2>2, <2>8, <4>1
      <4> QED
        BY <2>1, <2>8, <4>2
    <3> DEFINE x == p.frequency[h] + Carry(r, t, h)
               z == SumFunctionOnSet(Left(r, p), PlannedBefore(r, p, h))
    <3>2. z \in Int /\ Carry(r, t, h) >= z
      <4>1. \A i \in PlannedBefore(r, p, h) : RollsOver(r, p, i)
        <5> TAKE i \in PlannedBefore(r, p, h)
        <5>1. i \in Hours \ {0}
          BY <1>1, EarlierHours
        <5> QED
          BY <5>1
      <4> QED
        BY <1>1, <4>1, CarryRolls
    <3>3. p.frequency[h] \in Nat /\ Carry(r, t, h) \in Int /\ x \in Int
      BY <1>1, CarryType DEF Plan
    <3>4. p.frequency[h] # 0
      <4>1. Count(c.dst[t][h]) # 0
        BY <2>3
      <4> QED
        BY <3>1, <4>1 DEF Target, Count
    <3>5. c.dst[t][h] = Max({1, x})
      BY <3>1, <3>4 DEF Target
    <3>6. x >= p.frequency[h] + z
      BY <3>2, <3>3
    <3> HIDE DEF x, z
    <3>7. Max({1, x}) >= x /\ Max({1, x}) \in {1, x}
      <4>1. x \in Int /\ 1 \in Int
        BY <3>3
      <4> QED
        BY <4>1, MaxOfTwo
    <3>8. c.dst[t][h] >= p.frequency[h] + z
      <4> DEFINE y == c.dst[t][h]
                 w == p.frequency[h]
      <4>1. y \in Int /\ w \in Int /\ z \in Int /\ x \in Int /\ y >= x /\ x >= w + z
        BY <3>2, <3>3, <3>5, <3>6, <3>7
      <4> HIDE DEF y, w
      <4>2. y >= w + z
        BY <4>1
      <4> QED
        BY <4>2 DEF y, w
    <3> QED
      BY <2>6, <3>8 DEF z
  <2> QED
    BY <2>7, <2>8
<1> QED
  BY <1>2, <1>3

RollInv == BoundInv /\ Rolled

LEMMA InitRolls == Init => RollInv
<1> SUFFICES ASSUME Init PROVE RollInv
  OBVIOUS
<1>1. BoundInv
  BY InitBound
<1>2. master = Blank
  BY DEF Init
<1>3. ASSUME NEW p, p = Plans[1], Hourly(p)
      PROVE  TargetsInOrder(p) /\ \A h \in Hours \ {0} : RollsOver(master, p, h)
  <2>1. p.type \in Kinds
    BY <1>3, PlainPlan DEF Hourly, Plan
  <2>2. \A h \in Hours : master.dst[p.type][h] = None
    BY <1>2, <2>1, BlankFields
  <2> QED
    BY <2>2 DEF TargetsInOrder, RollsOver, Count
<1> QED
  BY <1>1, <1>3 DEF RollInv, Rolled

LEMMA NextRolls ==
    ASSUME RollInv, [Next]_vars, Undisturbed', NEW p, p = Plans[1], Hourly(p)
    PROVE  TargetsInOrder(p)' /\ \A h \in Hours \ {0} : RollsOver(master', p, h)
<1>1. CountInv /\ SoundInv /\ TypeInv /\ TypeInv' /\ Undisturbed /\ Bounded /\ Rolled
  BY Undisturbing, NextType DEF RollInv, BoundInv, CountInv, SoundInv
<1>2. /\ SamePlan(p) /\ TargetsInOrder(p) /\ \A h \in Hours \ {0} : RollsOver(master, p, h)
      /\ p \in Plan /\ p.type \in Kinds /\ ~p.day
  BY <1>1, PlainPlan DEF Bounded, Rolled, Hourly, Plan
<1>3. now \in SlotsOfDay /\ now' \in SlotsOfDay
  BY <1>1, TypeParts, TypePartsNext DEF TypeInv, TypeRest
<1>4. CASE Write
  <2>1. /\ master \in Record /\ Written \in Record /\ master' = Written
        /\ copy # <<>> /\ copy[1] = master /\ copy[1] \in Records
        /\ copy[2] \in SlotsOfDay /\ copy[2] <= now /\ Hour(copy[2]) \in Hours
        /\ Head(batch).kind \in Kinds
        /\ OneMore(master, Written, p, Head(batch).kind, Hour(copy[2]))
    BY <1>1, <1>2, <1>4, PlainWrite
  <2>2. Head(batch).plan = p
    <3>1. batch # <<>> /\ batch \in Seq(Item)
      BY <1>1, <2>1, HeldType, TypeParts DEF TypeInv, TypeWorker
    <3>2. Head(batch) = batch[1] /\ 1 \in 1..Len(batch)
      BY <3>1, EmptySeq, LenProperties
    <3> QED
      BY <1>2, <3>2 DEF SamePlan
  <2>3. copy' = <<>> /\ now' = now
    BY <1>4 DEF Write, envVars
  <2> DEFINE n == copy[2]
  <2>4. \A h \in Hours : master.dst[p.type][h] # None => h <= Hour(n)
    BY <1>2, <2>1 DEF TargetsInOrder
  <2>5. Hour(n) <= Hour(now) /\ Hour(now) \in Nat /\ Hour(n) \in Nat
    BY <1>3, <2>1, HourMonotone, HourType DEF Hours
  <2>6. TargetsInOrder(p)'
    <3>1. \A h \in Hours : h \in Nat /\ (Written.dst[p.type][h] # None => h <= Hour(n))
      <4> TAKE h \in Hours
      <4>1. h \in Nat
        BY DEF Hours
      <4>2. Written.dst[p.type][h] = master.dst[p.type][h] \/ h = Hour(n)
        BY <1>2, <2>1 DEF OneMore
      <4> QED
        BY <2>4, <2>5, <4>1, <4>2
    <3>2. \A h \in Hours : master'.dst[p.type][h] # None => h <= Hour(now')
      <4> HIDE DEF n
      <4> QED
        BY <2>1, <2>3, <2>5, <3>1
    <3> QED
      BY <2>3, <3>2 DEF TargetsInOrder
  <2>7. RecordSound(master)
    BY <1>1, RecordsHave DEF SoundInv
  <2>8. Written = Counted(master, p, Head(batch).kind, n)
    BY <2>1, <2>2 DEF Written
  <2>9. \A h \in Hours \ {0} : RollsOver(Written, p, h)
    <3> HIDE DEF n
    <3>1. n \in SlotsOfDay
      BY <2>1 DEF n
    <3> QED
      BY <1>2, <2>1, <2>4, <2>7, <2>8, <3>1, CountedRolls
  <2> QED
    BY <2>1, <2>6, <2>9
<1>5. CASE ~Write
  <2>1. master' = master
    BY <1>1, <1>5, NextSplit, ApartKeeps DEF redisVars, Replicate, Skip, Drop, Read
  <2> DEFINE w == IF copy = <<>> THEN now ELSE copy[2]
             v == IF copy' = <<>> THEN now' ELSE copy'[2]
  <2>2. w \in SlotsOfDay /\ v \in SlotsOfDay /\ w <= v
    <3>1. copy # <<>> => copy[2] \in SlotsOfDay /\ copy[2] <= now
      BY <1>1, HeldType DEF TypeInv, WorkerSound
    <3>2. CASE Read
      <4>1. copy = <<>> /\ copy' = <<slave, now>> /\ now' = now
        BY <3>2 DEF Read, envVars
      <4>2. copy' # <<>> /\ copy'[2] = now
        BY <4>1
      <4> QED
        BY <1>3, <4>1, <4>2 DEF SlotsOfDay
    <3>3. CASE ~Read
      <4>1. copy' = copy
        BY <1>1, <1>5, <3>3, Undisturbing DEF Tick, Replicate, Bid, BidUnread, Impression, Click, Stray, Swap,
                 vars, workerVars
      <4>2. now' = now \/ now' = now + 1
        BY DEF Next, Tick, Reload, Replicate, Bid, BidUnread, Impression, Click, Stray, Swap, Skip, Read,
               Write, Drop, vars, envVars
      <4> QED
        BY <1>3, <3>1, <4>1, <4>2 DEF SlotsOfDay
    <3> QED
      BY <3>2, <3>3
  <2>3. Hour(w) <= Hour(v) /\ Hour(w) \in Nat /\ Hour(v) \in Nat
    <3> HIDE DEF w, v
    <3> QED
      BY <2>2, HourMonotone, HourType DEF Hours
  <2>4. \A h \in Hours : h \in Nat /\ (master.dst[p.type][h] # None => h <= Hour(w))
    BY <1>2 DEF TargetsInOrder, Hours
  <2>5. \A h \in Hours : master'.dst[p.type][h] # None => h <= Hour(v)
    <3> HIDE DEF w, v
    <3> QED
      BY <2>1, <2>3, <2>4
  <2>6. TargetsInOrder(p)'
    BY <2>5 DEF TargetsInOrder
  <2> QED
    BY <1>2, <2>1, <2>6
<1> QED
  BY <1>4, <1>5

LEMMA RollsHold == Spec => []RollInv
<1>1. RollInv /\ [Next]_vars => RollInv'
  <2> SUFFICES ASSUME RollInv, [Next]_vars PROVE RollInv'
    OBVIOUS
  <2>1. BoundInv'
    BY NextBound DEF RollInv
  <2>2. Rolled'
    BY NextRolls DEF Rolled
  <2> QED
    BY <2>1, <2>2 DEF RollInv
<1> QED
  BY <1>1, InitRolls, PTL DEF Spec

\* The target of an hour is never below the limits so far less what was
\* delivered so far: no hour's rest is lost on the way through the hours that
\* overran or stood still.
THEOREM RestIsOfferedAgain == Spec => []LeftoverRolls
<1>1. RollInv => LeftoverRolls
  BY DEF RollInv, Rolled, LeftoverRolls
<1> QED
  BY <1>1, RollsHold, PTL
=============================================================================
