-------------------------- MODULE UserCappingProofs --------------------------
(* Theorems about UserCapping, for all groups, creatives, limits and clocks. *)
EXTENDS UserCapping, SumProofs

-----------------------------------------------------------------------------
(* The operators of the model keep their types. *)

LEMMA FruType ==
    ASSUME TypeOK, NEW w \in {"tracker", "bidder"}, NEW m \in Mapids
    PROVE  FruOf(w, m) \in Fru
<1>1. Settings[ver[w]] \in [Groups -> Fru]
  BY CappingAssumption DEF TypeOK
<1> QED
  BY <1>1, CappingAssumption DEF FruOf

LEMMA KeyType ==
    ASSUME NEW m \in Mapids, NEW fru
    PROVE  /\ GroupOf[m] \in Keys /\ m \in Keys
           /\ Key(fru, m) \in {m, GroupOf[m]} /\ Key(fru, m) \in Keys
BY CappingAssumption DEF Key, Keys

LEMMA FreshType ==
    ASSUME TypeOK, NEW p
    PROVE  Fresh(p) \in Entry
BY DEF TypeOK, Fresh, getStartTime, Entry

LEMMA CountedType ==
    ASSUME TypeOK, NEW c \in Counts, NEW fru \in Fru, NEW m \in Mapids
    PROVE  Counted(c, fru, m) \in Counts
<1> DEFINE k == Key(fru, m)
<1>1. k \in Keys
  BY KeyType
<1>2. ASSUME c[k] # None
      PROVE  CountEntry(c[k], fru, m) \in Entry
  <2>1. c[k] \in Entry
    BY <1>1, <1>2 DEF Counts
  <2>2. [c[k] EXCEPT !.imp = @ + 1] \in Entry
    BY <2>1 DEF Entry
  <2> QED
    BY <2>2, FreshType DEF CountEntry
<1> QED
  BY <1>1, <1>2, FreshType DEF Counted, Counts

LEMMA NothingType == Nothing \in Counts
BY DEF Nothing, Counts

LEMMA ContentType ==
    ASSUME NEW r \in Record
    PROVE  Content(r) \in Counts
BY NothingType DEF Content, Record

LEMMA SeenType ==
    ASSUME NEW n \in [Keys -> Nat], NEW m \in Mapids
    PROVE  Seen(n, m) \in [Keys -> Nat]
BY KeyType DEF Seen

\* What CountIn leaves behind, whatever counts it started from.
LEMMA CountInType ==
    ASSUME TypeOK, NEW c \in Counts, batch # <<>>, CountIn(c)
    PROVE  /\ Head(batch) \in Item
           /\ batch' \in Seq(Item)
           /\ copy' = <<>> \/ (copy' \in Nat \X Counts /\ batch' # <<>>)
           /\ hourly' \in [Keys -> Nat] /\ daily' \in [Keys -> Nat]
<1> DEFINE m == Head(batch).mapid
           fru == Head(batch).fru
<1>1. Head(batch) \in Item /\ Tail(batch) \in Seq(Item) /\ batch \in Seq(Item)
  BY DEF TypeOK
<1>2. m \in Mapids /\ fru \in Fru
  BY <1>1 DEF Item
<1>3. Counted(c, fru, m) \in Counts
  BY <1>2, CountedType
<1>4. hourly' \in [Keys -> Nat] /\ daily' \in [Keys -> Nat]
  <2>1. hourly' = Seen(hourly, m) /\ daily' = Seen(daily, m)
    BY DEF CountIn
  <2>2. hourly \in [Keys -> Nat] /\ daily \in [Keys -> Nat]
    BY DEF TypeOK
  <2> QED
    BY <1>2, <2>1, <2>2, SeenType
<1>5. \/ batch' = Tail(batch) /\ copy' = <<>>
      \/ batch' = batch /\ copy' = <<day, Counted(c, fru, m)>>
  BY DEF CountIn
<1>6. day \in Nat
  BY DEF TypeOK
<1> HIDE DEF m, fru
<1>7. <<day, Counted(c, fru, m)>> \in Nat \X Counts
  BY <1>3, <1>6
<1> QED
  BY <1>1, <1>4, <1>5, <1>7

LEMMA PushType ==
    ASSUME TypeOK, NEW m \in Mapids, Push(m)
    PROVE  queue' \in Seq(Item)
<1>1. [mapid |-> m, fru |-> FruOf("tracker", m)] \in Item
  BY FruType DEF Item
<1> QED
  BY <1>1 DEF Push, TypeOK

-----------------------------------------------------------------------------
(* Type correctness *)

LEMMA InitType == Init => TypeOK
<1> SUFFICES ASSUME Init PROVE TypeOK
  OBVIOUS
<1>1. 1 \in 1..Len(Settings)
  BY CappingAssumption
<1>2. master \in Record /\ slave \in Record
  BY NothingType DEF Init, Record
<1>3. /\ day \in Nat /\ sec \in Nat /\ hour \in Nat
      /\ hour <= sec /\ sec < hour + PERHOUR /\ sec < DAYSECOND
  BY CappingAssumption DEF Init
<1>4. ver \in [{"tracker", "bidder"} -> 1..Len(Settings)]
  BY <1>1 DEF Init
<1>5. /\ out \in [Mapids -> Nat] /\ hourly \in [Keys -> Nat] /\ daily \in [Keys -> Nat]
  BY DEF Init
<1>6. /\ lag \in Seq(Record) /\ queue \in Seq(Item) /\ batch \in Seq(Item)
  BY DEF Init
<1> QED
  BY <1>2, <1>3, <1>4, <1>5, <1>6 DEF Init, TypeOK

LEMMA TickType == TypeOK /\ Tick => TypeOK'
<1> SUFFICES ASSUME TypeOK, Tick PROVE TypeOK'
  OBVIOUS
<1>1. Zero \in [Keys -> Nat]
  BY DEF Zero
<1>2. /\ day' \in Nat /\ sec' \in Nat /\ hour' \in Nat
      /\ hour' <= sec' /\ sec' < hour' + PERHOUR /\ sec' < DAYSECOND
      /\ hourly' \in [Keys -> Nat] /\ daily' \in [Keys -> Nat]
  <2>1. /\ day \in Nat /\ sec \in Nat /\ hour \in Nat /\ hour <= sec /\ sec < hour + PERHOUR
        /\ sec < DAYSECOND /\ PERHOUR \in Nat \ {0} /\ DAYSECOND \in Nat
    BY CappingAssumption DEF TypeOK
  <2>2. hourly \in [Keys -> Nat] /\ daily \in [Keys -> Nat]
    BY DEF TypeOK
  <2>3. /\ day' \in Nat /\ sec' \in Nat /\ hour' \in Nat
        /\ hour' <= sec' /\ sec' < hour' + PERHOUR /\ sec' < DAYSECOND
    BY <2>1 DEF Tick
  <2>4. hourly' \in {hourly, Zero} /\ daily' \in {daily, Zero}
    BY DEF Tick
  <2> QED
    BY <1>1, <2>2, <2>3, <2>4
<1>3. UNCHANGED <<ver, master, lag, slave, queue, batch, copy, bids, out, strays, straddled, disturbed>>
  BY DEF Tick, redisVars, bidVars
<1> QED
  BY <1>2, <1>3 DEF TypeOK

LEMMA NextType == TypeOK /\ [Next]_vars => TypeOK'
<1> SUFFICES ASSUME TypeOK, [Next]_vars PROVE TypeOK'
  OBVIOUS
<1> USE DEF clock, redisVars, bidVars, history
<1>1. CASE Tick
  BY <1>1, TickType
<1>2. CASE Replicate
  <2>1. Head(lag) \in Record /\ Tail(lag) \in Seq(Record)
    BY <1>2 DEF TypeOK, Replicate
  <2> QED
    BY <1>2, <2>1 DEF TypeOK, Replicate
<1>3. ASSUME NEW w \in {"tracker", "bidder"}, Reload(w) PROVE TypeOK'
  <2>1. ver' \in [{"tracker", "bidder"} -> 1..Len(Settings)]
    BY <1>3, CappingAssumption DEF TypeOK, Reload
  <2> QED
    BY <1>3, <2>1 DEF TypeOK, Reload
<1>4. ASSUME NEW m \in Mapids, Bid(m) PROVE TypeOK'
  BY <1>4 DEF TypeOK, Bid
<1>5. ASSUME NEW m \in Mapids, BidUnread(m) PROVE TypeOK'
  BY <1>5 DEF TypeOK, BidUnread
<1>6. ASSUME NEW m \in Mapids, Impression(m) PROVE TypeOK'
  <2>1. queue' \in Seq(Item)
    BY <1>6, PushType DEF Impression
  <2> QED
    BY <1>6, <2>1 DEF TypeOK, Impression
<1>7. ASSUME NEW m \in Mapids, Stray(m) PROVE TypeOK'
  <2>1. queue' \in Seq(Item)
    BY <1>7, PushType DEF Stray
  <2> QED
    BY <1>7, <2>1 DEF TypeOK, Stray
<1>8. CASE Swap
  BY <1>8 DEF TypeOK, Swap
<1>9. CASE Read
  <2>1. Content(slave) \in Counts
    BY ContentType DEF TypeOK
  <2> QED
    BY <1>9, <2>1, CountInType DEF TypeOK, Read
<1>10. CASE ReadError
  BY <1>10, NothingType, CountInType DEF TypeOK, ReadError
<1>11. CASE Write
  <2>1. copy[2] \in Counts
    BY <1>11 DEF TypeOK, Write
  <2>2. master' \in Record
    BY <1>11, <2>1 DEF TypeOK, Write, Record
  <2>3. batch' \in Seq(Item)
    BY <1>11 DEF TypeOK, Write
  <2>4. lag' \in Seq(Record)
    BY <1>11, <2>2 DEF TypeOK, Write
  <2> QED
    BY <1>11, <2>2, <2>3, <2>4 DEF TypeOK, Write
<1>12. CASE Drop
  BY <1>12 DEF TypeOK, Drop
<1>13. CASE UNCHANGED vars
  BY <1>13 DEF TypeOK, vars
<1> QED
  BY <1>1, <1>2, <1>3, <1>4, <1>5, <1>6, <1>7, <1>8, <1>9, <1>10, <1>11, <1>12, <1>13 DEF Next

\* Every variable of UserCapping keeps its type, in read_write_ur and around it.
THEOREM TypeCorrect == Spec => []TypeOK
BY InitType, NextType, PTL DEF Spec

-----------------------------------------------------------------------------
(* No count is more than what was shown *)

\* Counting an impression keeps the counts backed: Seen raises every count the
\* impression can raise.
LEMMA CountedBacked ==
    ASSUME CountsBacked, NEW c \in Counts, NEW fru \in Fru, NEW m \in Mapids,
           Backed(c, daily, hourly, hour)
    PROVE  Backed(Counted(c, fru, m), Seen(daily, m), Seen(hourly, m), hour)
<1> DEFINE k == Key(fru, m)
           D == Seen(daily, m)
           H == Seen(hourly, m)
           C == Counted(c, fru, m)
<1>1. /\ k \in Keys /\ m \in Keys /\ GroupOf[m] \in Keys /\ (k = m \/ k = GroupOf[m])
      /\ hourly \in [Keys -> Nat] /\ daily \in [Keys -> Nat] /\ hour \in Nat
      /\ m # GroupOf[m]
  BY KeyType, CappingAssumption DEF CountsBacked, TypeOK
<1>2. /\ D[k] = daily[k] + 1 /\ H[k] = hourly[k] + 1
      /\ \A j \in Keys : D[j] \in Nat /\ D[j] >= daily[j]
      /\ \A j \in Keys : H[j] \in Nat /\ H[j] >= hourly[j]
  <2>1. /\ D = [daily EXCEPT ![m] = @ + 1, ![GroupOf[m]] = @ + 1]
        /\ H = [hourly EXCEPT ![m] = @ + 1, ![GroupOf[m]] = @ + 1]
    BY DEF Seen
  <2> HIDE DEF k, D, H
  <2>2. D[m] = daily[m] + 1 /\ D[GroupOf[m]] = daily[GroupOf[m]] + 1
    BY <1>1, <2>1
  <2>3. H[m] = hourly[m] + 1 /\ H[GroupOf[m]] = hourly[GroupOf[m]] + 1
    BY <1>1, <2>1
  <2>4. \A j \in Keys \ {m, GroupOf[m]} : D[j] = daily[j] /\ H[j] = hourly[j]
    BY <1>1, <2>1
  <2> QED
    BY <1>1, <2>2, <2>3, <2>4
<1>3. /\ Fresh(fru.period).imp = 1
      /\ \/ Fresh(fru.period).start + PERHOUR <= hour
         \/ Fresh(fru.period).start = hour
  BY CappingAssumption DEF Fresh, getStartTime, CountsBacked, TypeOK
<1>4. ASSUME NEW j \in Keys, j # k
      PROVE  C[j] = c[j]
  BY <1>4 DEF Counted, Counts
<1>5. \/ C[k] = Fresh(fru.period)
      \/ c[k] # None /\ C[k] = [c[k] EXCEPT !.imp = @ + 1]
  BY <1>1 DEF Counted, Counts, CountEntry
<1>6. \A j \in Keys : c[j] # None => c[j] \in Entry
  BY DEF Counts
<1> HIDE DEF k, D, H, C
<1>7. ASSUME NEW j \in Keys, C[j] # None
      PROVE  /\ C[j].imp <= D[j]
             /\ \/ C[j].start + PERHOUR <= hour
                \/ C[j].start = hour /\ C[j].imp <= H[j]
  <2>1. CASE j # k
    <3>1. C[j] = c[j] /\ c[j] \in Entry
      BY <1>4, <1>6, <1>7, <2>1
    <3> QED
      BY <1>1, <1>2, <3>1, <1>7 DEF Backed, Entry
  <2>2. CASE j = k /\ C[k] = Fresh(fru.period)
    BY <1>1, <1>2, <1>3, <2>2
  <2>3. CASE j = k /\ c[k] # None /\ C[k] = [c[k] EXCEPT !.imp = @ + 1]
    <3>1. c[k] \in Entry
      BY <1>1, <1>6, <2>3
    <3>2. C[k].imp = c[k].imp + 1 /\ C[k].start = c[k].start
      BY <3>1, <2>3 DEF Entry
    <3> QED
      BY <1>1, <1>2, <2>3, <3>1, <3>2 DEF Backed, Entry
  <2> QED
    BY <1>5, <2>1, <2>2, <2>3
<1> QED
  BY <1>7 DEF Backed, k, D, H, C

\* Meeting more impressions unbacks no count.
LEMMA SeenKeepsBacked ==
    ASSUME TypeOK, NEW c \in Counts, NEW m \in Mapids,
           Backed(c, daily, hourly, hour)
    PROVE  Backed(c, Seen(daily, m), Seen(hourly, m), hour)
<1>1. hourly \in [Keys -> Nat] /\ daily \in [Keys -> Nat]
  BY DEF TypeOK
<1>2. \A k \in Keys : /\ Seen(daily, m)[k] \in Nat /\ Seen(daily, m)[k] >= daily[k]
                      /\ Seen(hourly, m)[k] \in Nat /\ Seen(hourly, m)[k] >= hourly[k]
  BY <1>1, KeyType DEF Seen
<1>3. \A k \in Keys : c[k] # None => c[k] \in Entry
  BY DEF Counts
<1> QED
  BY <1>1, <1>2, <1>3 DEF Backed, Entry

\* A new hour ends the counts of the last one.
LEMMA HourKeepsBacked ==
    ASSUME TypeOK, NEW c \in Counts, NEW h \in Nat, h = hour + PERHOUR,
           Backed(c, daily, hourly, hour)
    PROVE  Backed(c, daily, Zero, h)
<1>1. hour \in Nat /\ PERHOUR \in Nat
  BY CappingAssumption DEF TypeOK
<1>2. \A k \in Keys : c[k] # None => c[k] \in Entry
  BY DEF Counts
<1> QED
  BY <1>1, <1>2 DEF Backed, Entry

\* Every stored record is one.
LEMMA StoredType == TypeOK => \A r \in Stored : r \in Record
<1>1. TypeOK => /\ master \in Record /\ slave \in Record
                /\ \A i \in 1..Len(lag) : lag[i] \in Record
  BY DEF TypeOK
<1> QED
  BY <1>1 DEF Stored

\* What the worker counts in is backed, and so is what it will write.
LEMMA CountInBacked ==
    ASSUME CountsBacked, NEW c \in Counts, batch # <<>>, CountIn(c),
           UNCHANGED <<clock, redisVars, straddled>>,
           ~straddled => Backed(c, daily, hourly, hour)
    PROVE  ~straddled' => StoredBacked' /\ CopyBacked'
<1> DEFINE m == Head(batch).mapid
           fru == Head(batch).fru
<1> SUFFICES ASSUME ~straddled PROVE StoredBacked' /\ CopyBacked'
  OBVIOUS
<1>1. m \in Mapids /\ fru \in Fru
  BY CountInType DEF CountsBacked, Item
<1>2. /\ hourly' = Seen(hourly, m) /\ daily' = Seen(daily, m)
      /\ copy' = <<>> \/ copy' = <<day, Counted(c, fru, m)>>
      /\ hour' = hour /\ day' = day
  BY DEF CountIn, clock
<1>3. Backed(Counted(c, fru, m), daily', hourly', hour')
  BY <1>1, <1>2, CountedBacked
<1>4. CopyBacked'
  BY <1>2, <1>3 DEF CopyBacked, CountsBacked, TypeOK
<1>5. Stored' = Stored /\ \A r \in Stored : r \in Record
  BY StoredType DEF Stored, redisVars, CountsBacked
<1>6. ASSUME NEW r \in Stored, r.day = day
      PROVE  Backed(r.count, daily', hourly', hour')
  <2>1. Backed(r.count, daily, hourly, hour)
    BY <1>6 DEF CountsBacked, StoredBacked
  <2>2. r.count \in Counts
    BY <1>5 DEF Record
  <2> QED
    BY <1>1, <1>2, <2>1, <2>2, SeenKeepsBacked DEF CountsBacked
<1>7. \A r \in Stored : r.day <= day
  BY DEF CountsBacked, StoredBacked
<1> QED
  BY <1>2, <1>4, <1>5, <1>6, <1>7 DEF StoredBacked

LEMMA TickBacked == CountsBacked /\ Tick => CountsBacked'
<1> SUFFICES ASSUME CountsBacked, Tick PROVE CountsBacked'
  OBVIOUS
<1>1. TypeOK /\ TypeOK'
  BY TickType DEF CountsBacked
<1>2. Stored' = Stored /\ copy' = copy /\ straddled' = straddled
  BY DEF Stored, redisVars, Tick
<1>3. /\ \A r \in Stored : r \in Record
      /\ copy # <<>> => copy \in Nat \X Counts
  <2>1. copy # <<>> => copy \in Nat \X Counts
    BY <1>1 DEF TypeOK
  <2> QED
    BY <1>1, <2>1, StoredType
<1>4. CASE UNCHANGED <<day, hour, hourly, daily>>
  BY <1>1, <1>2, <1>4 DEF CountsBacked, StoredBacked, CopyBacked
<1>5. CASE /\ hour' = hour + PERHOUR /\ hourly' = Zero /\ UNCHANGED <<day, daily>>
  <2>1. \A c \in Counts : Backed(c, daily, hourly, hour) => Backed(c, daily', hourly', hour')
    BY <1>1, <1>5, HourKeepsBacked DEF TypeOK
  <2>2. hour' >= PERHOUR
    BY <1>1, <1>5, CappingAssumption DEF TypeOK
  <2>3. ~straddled => StoredBacked'
    BY <1>2, <1>3, <1>5, <2>1 DEF CountsBacked, StoredBacked, Record
  <2>4. ~straddled => CopyBacked'
    BY <1>2, <1>3, <1>5, <2>1 DEF CountsBacked, CopyBacked
  <2> QED
    BY <1>1, <1>2, <2>2, <2>3, <2>4 DEF CountsBacked
<1>6. CASE day' = day + 1 /\ hour' = 0
  <2>1. \A r \in Stored : r.day \in Nat /\ day \in Nat
    BY <1>1, <1>3 DEF Record, TypeOK
  <2>2. ~straddled => StoredBacked'
    BY <1>2, <1>6, <2>1 DEF CountsBacked, StoredBacked
  <2>3. ~straddled => CopyBacked'
    <3>1. copy # <<>> => copy[1] \in Nat /\ day \in Nat
      BY <1>1, <1>3 DEF TypeOK
    <3> QED
      BY <1>2, <1>6, <3>1 DEF CountsBacked, CopyBacked
  <2> QED
    BY <1>1, <1>2, <1>6, <2>2, <2>3 DEF CountsBacked
<1> QED
  BY <1>4, <1>5, <1>6 DEF Tick

LEMMA WriteBacked == CountsBacked /\ Write => CountsBacked'
<1> SUFFICES ASSUME CountsBacked, Write PROVE CountsBacked'
  OBVIOUS
<1>1. TypeOK /\ TypeOK'
  BY NextType DEF CountsBacked, Next
<1>2. UNCHANGED <<day, hour, hourly, daily, slave>> /\ copy' = <<>>
  BY DEF Write, clock
<1>3. SUFFICES ASSUME ~straddled' PROVE StoredBacked'
  BY <1>1, <1>2 DEF CountsBacked, CopyBacked
<1>4. ~straddled /\ copy # <<>> /\ copy[1] = day
  BY <1>3 DEF Write
<1>5. master'.day = day /\ Backed(master'.count, daily, hourly, hour)
  BY <1>4 DEF CountsBacked, CopyBacked, Write
<1>6. Stored' \subseteq Stored \cup {master'}
  <2>1. lag' = Append(lag, master') /\ lag \in Seq(Record) /\ master' \in Record
    BY <1>1 DEF Write, TypeOK
  <2>2. \A i \in 1..Len(lag') : lag'[i] = master' \/ \E j \in 1..Len(lag) : lag'[i] = lag[j]
    BY <2>1
  <2> QED
    BY <1>2, <2>2 DEF Stored
<1>7. day \in Nat
  BY <1>1 DEF TypeOK
<1> QED
  BY <1>2, <1>4, <1>5, <1>6, <1>7 DEF CountsBacked, StoredBacked

LEMMA NextBacked == CountsBacked /\ [Next]_vars => CountsBacked'
<1> SUFFICES ASSUME CountsBacked, [Next]_vars PROVE CountsBacked'
  OBVIOUS
<1>1. TypeOK /\ TypeOK'
  BY NextType DEF CountsBacked
<1>2. CASE UNCHANGED <<clock, hourly, daily, straddled, copy>> /\ Stored' \subseteq Stored
  <2>1. UNCHANGED <<day, hour>>
    BY <1>2 DEF clock
  <2> QED
    BY <1>1, <1>2, <2>1 DEF CountsBacked, StoredBacked, CopyBacked
<1>3. CASE Tick
  BY <1>3, TickBacked
<1>4. CASE Replicate
  <2>1. lag \in Seq(Record) /\ lag # <<>> /\ slave' = lag[1] /\ lag' = Tail(lag)
    BY <1>1, <1>4 DEF Replicate, TypeOK
  <2>2. /\ 1 \in 1..Len(lag)
        /\ \A i \in 1..Len(lag') : i + 1 \in 1..Len(lag) /\ lag'[i] = lag[i + 1]
    BY <2>1
  <2>3. Stored' \subseteq Stored
    BY <1>4, <2>1, <2>2 DEF Stored, Replicate
  <2> QED
    BY <1>2, <1>4, <2>3 DEF Replicate, history
<1>5. CASE /\ UNCHANGED <<clock, redisVars, copy, history>>
  <2>1. Stored' = Stored
    BY <1>5 DEF Stored, redisVars
  <2> QED
    BY <1>2, <1>5, <2>1 DEF history
<1>6. CASE \E w \in {"tracker", "bidder"} : Reload(w)
  BY <1>5, <1>6 DEF Reload
<1>7. CASE \E m \in Mapids : Bid(m) \/ Impression(m) \/ Stray(m)
  BY <1>5, <1>7 DEF Bid, Impression, Stray
<1>8. CASE \E m \in Mapids : BidUnread(m)
  <2>1. Stored' = Stored
    BY <1>8 DEF Stored, redisVars, BidUnread
  <2> QED
    BY <1>2, <1>8, <2>1 DEF BidUnread
<1>9. CASE Swap
  BY <1>5, <1>9 DEF Swap
<1>10. CASE Read
  <2>1. Content(slave) \in Counts
    BY <1>1, ContentType DEF TypeOK
  <2>2. ~straddled => Backed(Content(slave), daily, hourly, hour)
    BY DEF CountsBacked, StoredBacked, Stored, Content, Nothing, Backed
  <2>3. ~straddled' => StoredBacked' /\ CopyBacked'
    BY <1>10, <2>1, <2>2, CountInBacked DEF Read
  <2> QED
    BY <1>1, <1>10, <2>3 DEF CountsBacked, Read, clock
<1>11. CASE ReadError
  <2>1. Backed(Nothing, daily, hourly, hour)
    BY DEF Nothing, Backed
  <2>2. ~straddled' => StoredBacked' /\ CopyBacked'
    BY <1>11, <2>1, NothingType, CountInBacked DEF ReadError
  <2> QED
    BY <1>1, <1>11, <2>2 DEF CountsBacked, ReadError, clock
<1>12. CASE Write
  BY <1>12, WriteBacked
<1>13. CASE Drop
  <2>1. /\ Stored' = Stored /\ copy' = <<>>
        /\ UNCHANGED <<day, hour, hourly, daily, straddled>>
    BY <1>13 DEF Stored, redisVars, Drop, clock
  <2> QED
    BY <1>1, <2>1 DEF CountsBacked, StoredBacked, CopyBacked
<1>14. CASE UNCHANGED vars
  BY <1>5, <1>14 DEF vars
<1> QED
  BY <1>3, <1>4, <1>6, <1>7, <1>8, <1>9, <1>10, <1>11, <1>12, <1>13, <1>14 DEF Next

LEMMA InitBacked == Init => CountsBacked
<1> SUFFICES ASSUME Init PROVE CountsBacked
  OBVIOUS
<1>1. Stored = {[day |-> 0, count |-> Nothing]}
  BY DEF Init, Stored
<1>2. StoredBacked
  BY <1>1 DEF StoredBacked, Nothing, Backed, Init
<1>3. CopyBacked /\ hour = 0
  BY DEF CopyBacked, Init
<1> QED
  BY <1>2, <1>3, InitType DEF CountsBacked

LEMMA BackedMeansShown == CountsBacked => CappedMeansShown
<1> SUFFICES ASSUME CountsBacked, NEW m \in Mapids, ~straddled,
                    Capped(Content(slave), FruOf("bidder", m), m)
             PROVE  LET fru == FruOf("bidder", m)
                    IN  Met(fru.period, Key(fru, m)) >= Limit(fru, m)
  BY DEF CappedMeansShown
<1> DEFINE fru == FruOf("bidder", m)
           k == Key(fru, m)
           e == Content(slave)[k]
<1>1. TypeOK
  BY DEF CountsBacked
<1>2. fru \in Fru /\ k \in Keys
  BY <1>1, FruType, KeyType
<1>3. Content(slave) \in Counts
  BY <1>1, ContentType DEF TypeOK
<1>4. /\ e # None /\ ~Unlisted(fru, m)
      /\ e.imp >= Limit(fru, m) /\ Elapsed(e.start) < PERIOD_TIME(fru.period)
  BY DEF Capped, Full
<1>5. e \in Entry
  BY <1>2, <1>3, <1>4 DEF Counts
<1>6. Backed(Content(slave), daily, hourly, hour)
  BY DEF CountsBacked, StoredBacked, Stored, Content, Nothing, Backed
<1>7. /\ e.imp <= daily[k]
      /\ \/ e.start + PERHOUR <= hour
         \/ e.start = hour /\ e.imp <= hourly[k]
  BY <1>2, <1>4, <1>6 DEF Backed
<1>8. Limit(fru, m) \in Nat
  BY <1>2, <1>4 DEF Limit, Unlisted, Fru
<1>9. /\ daily[k] \in Nat /\ hourly[k] \in Nat /\ hour \in Nat /\ sec \in Nat
      /\ hour <= sec /\ e.imp \in Nat /\ e.start \in Nat /\ PERHOUR \in Nat
  BY <1>1, <1>2, <1>5, CappingAssumption DEF TypeOK, Entry
<1> HIDE DEF fru, k, e
<1>10. CASE fru.period = "hour"
  <2>1. Elapsed(e.start) = sec - e.start /\ PERIOD_TIME(fru.period) = PERHOUR
    BY <1>7, <1>9, <1>10 DEF Elapsed, PERIOD_TIME
  <2>2. e.imp <= hourly[k]
    BY <1>4, <1>7, <1>9, <2>1
  <2> QED
    BY <1>4, <1>8, <1>9, <1>10, <2>2 DEF Met, fru, k
<1>11. CASE fru.period # "hour"
  BY <1>4, <1>7, <1>8, <1>9, <1>11 DEF Met, fru, k
<1> QED
  BY <1>10, <1>11

\* The bidder holds a creative back only if its limit was really reached in the
\* period: for any groups, limits and clock, and whatever is lost, stale,
\* replicated late or changed in the settings.
THEOREM CappedOnlyIfShown == Spec => []CappedMeansShown
BY InitBacked, NextBacked, BackedMeansShown, PTL DEF Spec
-----------------------------------------------------------------------------
(* The record is exact while nothing disturbs it *)

LEMMA MaxOne ==
    ASSUME NEW a \in Nat
    PROVE  /\ Max({1, a}) \in Nat \ {0} /\ Max({1, a}) >= a
           /\ Max({1, a}) = IF a >= 1 THEN a ELSE 1
<1> DEFINE b == IF a >= 1 THEN a ELSE 1
<1>1. b \in {1, a} /\ \A x \in {1, a} : b >= x
  OBVIOUS
<1>2. \A y \in {1, a} : (\A x \in {1, a} : y >= x) => y = b
  OBVIOUS
<1>3. Max({1, a}) = b
  BY <1>1, <1>2 DEF Max
<1> QED
  BY <1>3

LEMMA MinOfTwo ==
    ASSUME NEW a \in Nat, NEW b \in Nat
    PROVE  Min({a, b}) = IF a <= b THEN a ELSE b
<1> DEFINE c == IF a <= b THEN a ELSE b
<1>1. c \in {a, b} /\ \A x \in {a, b} : c <= x
  OBVIOUS
<1>2. \A y \in {a, b} : (\A x \in {a, b} : y <= x) => y = c
  OBVIOUS
<1> QED
  BY <1>1, <1>2 DEF Min

\* n impressions up to a limit.
UpTo(n, l) == Min({n, Max({1, l})})

LEMMA UpToIs ==
    ASSUME NEW n \in Nat \ {0}, NEW l \in Nat
    PROVE  /\ UpTo(1, l) = 1 /\ UpTo(n, l) \in Nat
           /\ UpTo(n, l) < l => UpTo(n, l) = n /\ UpTo(n + 1, l) = n + 1
           /\ UpTo(n, l) >= l => UpTo(n + 1, l) = UpTo(n, l)
<1> DEFINE x == Max({1, l})
<1>1. x \in Nat /\ x = IF l >= 1 THEN l ELSE 1
  BY MaxOne
<1> HIDE DEF x
<1>2. /\ UpTo(1, l) = (IF 1 <= x THEN 1 ELSE x) /\ UpTo(n, l) = (IF n <= x THEN n ELSE x)
      /\ UpTo(n + 1, l) = (IF n + 1 <= x THEN n + 1 ELSE x)
  <2>1. \A y \in Nat : Min({y, x}) = IF y <= x THEN y ELSE x
    BY <1>1, MinOfTwo
  <2>2. UpTo(1, l) = Min({1, x}) /\ UpTo(n, l) = Min({n, x}) /\ UpTo(n + 1, l) = Min({n + 1, x})
    BY DEF UpTo, x
  <2> QED
    BY <2>1, <2>2
<1> QED
  BY <1>1, <1>2

\* What the time of day says of an entry: of this period or of an hour before.
LEMMA PeriodTimes ==
    ASSUME TypeOK, NEW fru \in Fru
    PROVE  /\ getStartTime(fru.period) = IF fru.period = "hour" THEN hour ELSE 0
           /\ getStartTime(fru.period) \in Nat
           /\ Elapsed(getStartTime(fru.period)) < PERIOD_TIME(fru.period)
           /\ interval(getStartTime(fru.period)) < PERIOD_TIME(fru.period)
           /\ \A s \in Nat : fru.period = "hour" /\ s + PERHOUR <= hour =>
                 Elapsed(s) >= PERIOD_TIME(fru.period) /\ interval(s) >= PERIOD_TIME(fru.period)
<1>1. /\ sec \in Nat /\ hour \in Nat /\ hour <= sec /\ sec < hour + PERHOUR /\ sec < DAYSECOND
      /\ PERHOUR \in Nat
  BY CappingAssumption DEF TypeOK
<1>2. CASE fru.period = "hour"
  <2>1. getStartTime(fru.period) = hour /\ PERIOD_TIME(fru.period) = PERHOUR
    BY <1>2 DEF getStartTime, PERIOD_TIME
  <2>2. \A s \in Nat : s <= sec => Elapsed(s) = sec - s /\ interval(s) = sec - s
    BY <1>1 DEF Elapsed, interval
  <2> QED
    BY <1>1, <1>2, <2>1, <2>2
<1>3. CASE fru.period # "hour"
  <2>1. getStartTime(fru.period) = 0 /\ PERIOD_TIME(fru.period) = DAYSECOND
    BY <1>3 DEF getStartTime, PERIOD_TIME
  <2>2. Elapsed(0) = sec /\ interval(0) = sec
    BY <1>1 DEF Elapsed, interval
  <2> QED
    BY <1>1, <1>3, <2>1, <2>2
<1> QED
  BY <1>2, <1>3

\* Counting one more impression of the creative, or ignoring it, keeps its entry exact.
LEMMA EntryCounted ==
    ASSUME TypeOK, NEW c \in Counts, NEW fru \in Fru, NEW m \in Mapids, NEW n \in Nat,
           ~Unlisted(fru, m), EntryExact(c[Key(fru, m)], fru, m, n, hour)
    PROVE  /\ Ignored(c, fru, m) => EntryExact(c[Key(fru, m)], fru, m, n + 1, hour)
           /\ ~Ignored(c, fru, m) =>
                 EntryExact(Counted(c, fru, m)[Key(fru, m)], fru, m, n + 1, hour)
<1> DEFINE k == Key(fru, m)
           e == c[k]
           l == Limit(fru, m)
           s == getStartTime(fru.period)
<1>1. k \in Keys /\ (k = GroupOf[m] \/ k = m) /\ l \in Nat
  BY KeyType DEF Limit, Unlisted, Fru
<1>2. e # None => e \in Entry /\ e.start \in Nat /\ e.imp \in Nat
  BY <1>1 DEF Counts, Entry
<1>3. e # None => Known(c, GroupOf[m])
  BY <1>1 DEF Known
<1>4. Counted(c, fru, m)[k] = IF e = None THEN Fresh(fru.period) ELSE CountEntry(e, fru, m)
  BY <1>1 DEF Counted, Counts
<1>5. Fresh(fru.period) = [start |-> s, imp |-> 1]
  BY DEF Fresh
<1>6. /\ s = (IF fru.period = "hour" THEN hour ELSE 0) /\ s \in Nat
      /\ Elapsed(s) < PERIOD_TIME(fru.period) /\ interval(s) < PERIOD_TIME(fru.period)
      /\ \A t \in Nat : fru.period = "hour" /\ t + PERHOUR <= hour =>
            Elapsed(t) >= PERIOD_TIME(fru.period) /\ interval(t) >= PERIOD_TIME(fru.period)
  BY PeriodTimes
<1>7. /\ PERIOD_TIME(fru.period) \in Nat /\ \A t \in Nat : Elapsed(t) \in Int /\ interval(t) \in Int
  BY CappingAssumption DEF PERIOD_TIME, Elapsed, interval, TypeOK
<1>8. /\ Ignored(c, fru, m) => e # None /\ Full(e, fru, m)
      /\ e # None /\ Full(e, fru, m) => Ignored(c, fru, m)
  BY <1>3 DEF Ignored
<1>9. \A x, y : EntryExact(x, fru, m, y, hour) <=>
          IF y > 0 THEN x # None /\ x.start = s /\ x.imp = UpTo(y, l)
          ELSE x = None \/ (fru.period = "hour" /\ x.start + PERHOUR <= hour)
  BY <1>6 DEF EntryExact, UpTo
<1>10. \A x \in Entry : x # None
  BY NoneAssumption
<1>13. [start |-> s, imp |-> 1] \in Entry
  BY <1>6 DEF Entry
<1> HIDE DEF k, e, l, s
<1>11. CASE n = 0
  <2>1. e = None \/ (fru.period = "hour" /\ e.start + PERHOUR <= hour)
    BY <1>9, <1>11 DEF e, k
  <2>2. e # None => ~Full(e, fru, m) /\ CountEntry(e, fru, m) = Fresh(fru.period)
    BY <1>2, <1>6, <1>7, <2>1 DEF Full, CountEntry
  <2>3. ~Ignored(c, fru, m) /\ Counted(c, fru, m)[k] = [start |-> s, imp |-> 1]
    BY <1>4, <1>5, <1>8, <2>2
  <2>4. UpTo(1, l) = 1
    BY <1>1, UpToIs
  <2> QED
    BY <1>9, <1>10, <1>11, <1>13, <2>3, <2>4 DEF k
<1>12. CASE n > 0
  <2>1. e # None /\ e.start = s /\ e.imp = UpTo(n, l)
    BY <1>9, <1>12 DEF e, k
  <2>2. Full(e, fru, m) <=> e.imp >= l
    BY <1>6, <2>1 DEF Full, l
  <2>3. CASE e.imp >= l
    <3>1. UpTo(n + 1, l) = UpTo(n, l)
      BY <1>1, <1>12, <2>1, <2>3, UpToIs
    <3> QED
      BY <1>8, <1>9, <1>12, <2>1, <2>2, <2>3, <3>1 DEF e, k
  <2>4. CASE e.imp < l
    <3>1. UpTo(n, l) = n /\ UpTo(n + 1, l) = n + 1
      BY <1>1, <1>12, <2>1, <2>4, UpToIs
    <3>2. ~(e.imp >= l) /\ ~(interval(e.start) >= PERIOD_TIME(fru.period))
      BY <1>1, <1>2, <1>6, <1>7, <2>1, <2>4
    <3>3. CountEntry(e, fru, m) = [e EXCEPT !.imp = @ + 1]
      BY <3>2 DEF CountEntry, l
    <3>4. Counted(c, fru, m)[k] = [e EXCEPT !.imp = @ + 1]
      BY <1>4, <2>1, <3>3
    <3>5. \E x \in Entry : x = [e EXCEPT !.imp = @ + 1] /\ x.start = s /\ x.imp = n + 1
      <4>1. e \in Entry /\ e.imp = n /\ e.start = s
        BY <1>2, <2>1, <3>1
      <4>2. [e EXCEPT !.imp = @ + 1] = [start |-> s, imp |-> n + 1]
        BY <4>1 DEF Entry
      <4>3. [start |-> s, imp |-> n + 1] \in Entry
        BY <1>6 DEF Entry
      <4> QED
        BY <4>2, <4>3
    <3>6. ~Ignored(c, fru, m)
      BY <1>8, <2>2, <3>2
    <3> QED
      <4>1. PICK x \in Entry : x = [e EXCEPT !.imp = @ + 1] /\ x.start = s /\ x.imp = n + 1
        BY <3>5
      <4>2. Counted(c, fru, m)[k] = x /\ x # None
        BY <1>10, <3>4, <4>1
      <4>3. EntryExact(x, fru, m, n + 1, hour)
        <5>1. EntryExact(x, fru, m, n + 1, hour) <=>
                 IF n + 1 > 0 THEN x # None /\ x.start = s /\ x.imp = UpTo(n + 1, l)
                 ELSE x = None \/ (fru.period = "hour" /\ x.start + PERHOUR <= hour)
          BY <1>9
        <5>2. n + 1 > 0 /\ x.imp = UpTo(n + 1, l) /\ x.start = s /\ x # None
          BY <3>1, <4>1, <4>2
        <5> QED
          BY <5>1, <5>2
      <4> QED
        BY <3>6, <4>2, <4>3 DEF k
  <2> QED
    BY <1>1, <1>2, <2>1, <2>3, <2>4
<1> QED
  BY <1>11, <1>12

\* Meeting an impression counts it for the limits it falls under, and no other.
LEMMA SeenCounts ==
    ASSUME NEW n \in [Keys -> Nat], NEW p \in Mapids, NEW k \in Keys
    PROVE  Seen(n, p)[k] = IF k \in {p, GroupOf[p]} THEN n[k] + 1 ELSE n[k]
<1>1. p \in Keys /\ GroupOf[p] \in Keys /\ p # GroupOf[p]
  BY KeyType, CappingAssumption
<1> QED
  BY <1>1 DEF Seen

\* Two creatives share an entry only if their group has one for all of them.
LEMMA SameKey ==
    ASSUME TypeOK, NEW m \in Mapids, NEW p \in Mapids
    PROVE  LET fru == FruOf("bidder", m)
               gru == FruOf("bidder", p)
           IN  /\ Key(fru, m) = Key(gru, p) =>
                     /\ fru = gru /\ Limit(fru, m) = Limit(gru, p)
                     /\ Unlisted(fru, m) <=> Unlisted(gru, p)
               /\ Key(fru, m) # Key(gru, p) => Key(fru, m) \notin {p, GroupOf[p]}
<1> DEFINE fru == FruOf("bidder", m)
           gru == FruOf("bidder", p)
<1>1. /\ GroupOf[m] \in Groups /\ GroupOf[p] \in Groups
      /\ \A g \in Groups, x \in Mapids : g # x
  BY CappingAssumption
<1>2. GroupOf[m] = GroupOf[p] => fru = gru
  BY DEF FruOf
<1>3. /\ Key(fru, m) = IF fru.type = "project" THEN GroupOf[m] ELSE m
      /\ Key(gru, p) = IF gru.type = "project" THEN GroupOf[p] ELSE p
  BY DEF Key
<1>4. fru.type = "project" => ~Unlisted(fru, m) /\ ~Unlisted(fru, p)
                              /\ Limit(fru, m) = Limit(fru, p)
  BY DEF Unlisted, Limit
<1> HIDE DEF fru, gru
<1>5. Key(fru, m) = Key(gru, p) =>
          m = p \/ (fru.type = "project" /\ gru.type = "project" /\ GroupOf[m] = GroupOf[p])
  BY <1>1, <1>3
<1>6. m = p => fru = gru
  BY DEF fru, gru
<1>7. Key(fru, m) \in {p, GroupOf[p]} => Key(fru, m) = Key(gru, p)
  BY <1>1, <1>2, <1>3, <1>6
<1> QED
  BY <1>2, <1>4, <1>5, <1>6, <1>7 DEF fru, gru

\* Counting an impression of a creative keeps all entries exact.
LEMMA CountedExact ==
    ASSUME TypeOK, NEW c \in Counts, Exact(c), NEW p \in Mapids, NEW m \in Mapids, Limited(m)
    PROVE  LET gru == FruOf("bidder", p)
               fru == FruOf("bidder", m)
               k   == Key(fru, m)
               d   == IF Ignored(c, gru, p) THEN c ELSE Counted(c, gru, p)
               n   == IF fru.period = "hour" THEN Seen(hourly, p) ELSE Seen(daily, p)
           IN  EntryExact(d[k], fru, m, n[k], hour)
<1> DEFINE gru == FruOf("bidder", p)
           fru == FruOf("bidder", m)
           k   == Key(fru, m)
           d   == IF Ignored(c, gru, p) THEN c ELSE Counted(c, gru, p)
           N   == IF fru.period = "hour" THEN Seen(hourly, p) ELSE Seen(daily, p)
           n   == Met(fru.period, k)
<1>1. k \in Keys /\ k \in {m, GroupOf[m]} /\ fru \in Fru /\ gru \in Fru
  BY KeyType, FruType
<1>2. hourly \in [Keys -> Nat] /\ daily \in [Keys -> Nat]
  BY DEF TypeOK
<1>3. n \in Nat /\ N[k] = IF k \in {p, GroupOf[p]} THEN n + 1 ELSE n
  <2> HIDE DEF k
  <2> QED
    BY <1>1, <1>2, SeenCounts DEF Met
<1>4. ~Unlisted(fru, m) /\ EntryExact(c[k], fru, m, n, hour)
  BY DEF Exact, Limited
<1>5. CASE Key(gru, p) = k
  <2>1. fru = gru /\ Limit(fru, m) = Limit(fru, p) /\ ~Unlisted(fru, p) /\ Key(fru, p) = k
    BY <1>4, <1>5, SameKey
  <2>2. k \in {p, GroupOf[p]}
    BY <1>5, KeyType
  <2>3. \A e, x : EntryExact(e, fru, m, x, hour) <=> EntryExact(e, fru, p, x, hour)
    BY <2>1 DEF EntryExact
  <2> HIDE DEF k, n, fru, gru
  <2>4. EntryExact(d[k], fru, p, n + 1, hour)
    BY <1>1, <1>3, <1>4, <2>1, <2>3, EntryCounted
  <2> QED
    BY <1>3, <2>2, <2>3, <2>4 DEF k, n, fru, gru
<1>6. CASE Key(gru, p) # k
  <2>1. k \notin {p, GroupOf[p]}
    BY <1>6, SameKey
  <2>2. d[k] = c[k]
    BY <1>1, <1>6 DEF Counted, Counts
  <2> QED
    BY <1>3, <1>4, <2>1, <2>2
<1> QED
  BY <1>5, <1>6

\* The parts of RecordExact.
ExactQueues == SameLimits(queue) /\ SameLimits(batch)
ExactRedis  == master.day <= day /\ master = (IF lag = <<>> THEN slave ELSE lag[Len(lag)])
ExactCounts ==
    /\ copy = <<>> => Exact(Content(master))
    /\ copy # <<>> => copy[1] <= day /\ (copy[1] = day => Exact(copy[2]))

LEMMA ExactParts ==
    /\ RecordExact <=> TypeOK /\ (Undisturbed => ExactQueues /\ ExactRedis /\ ExactCounts)
    /\ RecordExact' <=> TypeOK' /\ (Undisturbed' => ExactQueues' /\ ExactRedis' /\ ExactCounts')
BY DEF RecordExact, ExactQueues, ExactRedis, ExactCounts

\* The parts that a step leaves alone.
LEMMA ExactSame ==
    /\ UNCHANGED <<ver, queue, batch>> /\ ExactQueues => ExactQueues'
    /\ UNCHANGED <<day, redisVars>> /\ ExactRedis => ExactRedis'
    /\ UNCHANGED <<clock, ver, master, copy, hourly, daily>> /\ ExactCounts => ExactCounts'
<1>1. UNCHANGED <<ver, queue, batch>> /\ ExactQueues => ExactQueues'
  BY DEF ExactQueues, SameLimits, FruOf
<1>2. UNCHANGED <<day, redisVars>> /\ ExactRedis => ExactRedis'
  BY DEF ExactRedis, redisVars
<1>3. UNCHANGED <<clock, ver, master, copy, hourly, daily>> /\ ExactCounts => ExactCounts'
  <2> SUFFICES ASSUME UNCHANGED <<clock, ver, master, copy, hourly, daily>>, ExactCounts
               PROVE  ExactCounts'
    OBVIOUS
  <2>1. \A m \in Mapids : FruOf("bidder", m)' = FruOf("bidder", m) /\ (Limited(m)' <=> Limited(m))
    BY DEF FruOf, Limited
  <2>2. /\ Exact(Content(master)) => Exact(Content(master))'
        /\ Exact(copy[2]) => Exact(copy[2])'
    BY <2>1 DEF Exact, Content, Met, clock
  <2> QED
    BY <2>2 DEF ExactCounts, clock
<1> QED
  BY <1>1, <1>2, <1>3

\* The settings are those of the start, and the same in both programs.
LEMMA SameFru ==
    ASSUME Undisturbed, TypeOK, NEW m
    PROVE  FruOf("tracker", m) = FruOf("bidder", m)
BY DEF Undisturbed, TypeOK, FruOf

LEMMA PushExact ==
    ASSUME TypeOK, Undisturbed, SameLimits(queue), NEW m \in Mapids, Push(m), ver' = ver
    PROVE  SameLimits(queue)'
<1>1. queue \in Seq(Item)
  BY DEF TypeOK
<1>2. \/ queue' = queue
      \/ queue' = Append(queue, [mapid |-> m, fru |-> FruOf("bidder", m)])
  BY SameFru DEF Push
<1>3. \A x : FruOf("bidder", x)' = FruOf("bidder", x)
  BY DEF FruOf
<1> QED
  BY <1>1, <1>2, <1>3 DEF SameLimits

LEMMA TickExact ==
    ASSUME TypeOK, Tick, Undisturbed, ExactRedis, ExactCounts
    PROVE  ExactRedis' /\ ExactCounts'
<1>1. TypeOK' /\ UNCHANGED <<ver, master, lag, slave, copy>>
  BY TickType DEF Tick, redisVars
<1>2. /\ day \in Nat /\ hour \in Nat /\ PERHOUR \in Nat \ {0} /\ master \in Record
      /\ copy # <<>> => copy[1] \in Nat /\ copy[2] \in Counts
  BY CappingAssumption DEF TypeOK
<1>3. \A m \in Mapids : /\ FruOf("bidder", m)' = FruOf("bidder", m) /\ (Limited(m)' <=> Limited(m))
                        /\ Key(FruOf("bidder", m), m) \in Keys /\ FruOf("bidder", m) \in Fru
  BY <1>1, KeyType, FruType DEF FruOf, Limited
<1>4. CASE UNCHANGED <<day, hour, hourly, daily>>
  <2>1. /\ Exact(Content(master)) => Exact(Content(master))'
        /\ Exact(copy[2]) => Exact(copy[2])'
    BY <1>1, <1>3, <1>4 DEF Exact, Content, Met
  <2> QED
    BY <1>1, <1>4, <2>1 DEF ExactRedis, ExactCounts
<1>5. CASE hour' = hour + PERHOUR /\ hourly' = Zero /\ UNCHANGED <<day, daily>>
  <2>1. ASSUME NEW m \in Mapids, NEW e, NEW k \in Keys, NEW fru \in Fru,
               e # None => e \in Entry,
               EntryExact(e, fru, m, Met(fru.period, k), hour)
        PROVE  EntryExact(e, fru, m, Met(fru.period, k)', hour')
    <3>1. CASE fru.period = "hour"
      <4>1. Met(fru.period, k)' = 0
        BY <1>5, <3>1 DEF Met, Zero
      <4>2. e = None \/ e.start + PERHOUR <= hour \/ e.start = hour
        BY <2>1, <3>1 DEF EntryExact
      <4>3. e = None \/ e.start + PERHOUR <= hour'
        <5>1. CASE e # None
          <6>1. e.start \in Nat
            BY <2>1, <5>1 DEF Entry
          <6> QED
            BY <1>2, <1>5, <4>2, <5>1, <6>1
        <5> QED
          BY <5>1
      <4> QED
        BY <3>1, <4>1, <4>3 DEF EntryExact
    <3>2. CASE fru.period # "hour"
      <4>1. Met(fru.period, k)' = Met(fru.period, k)
        BY <1>5, <3>2 DEF Met
      <4> QED
        BY <2>1, <3>2, <4>1 DEF EntryExact
    <3> QED
      BY <3>1, <3>2
  <2>2. \A c \in Counts, k \in Keys : c[k] # None => c[k] \in Entry
    BY DEF Counts
  <2>3. Content(master) \in Counts /\ Content(master)' = Content(master)
    BY <1>1, <1>2, <1>5, ContentType DEF Content
  <2>4. Exact(Content(master)) => Exact(Content(master))'
    BY <1>3, <2>1, <2>2, <2>3 DEF Exact
  <2>5. copy # <<>> /\ Exact(copy[2]) => Exact(copy[2])'
    BY <1>1, <1>2, <1>3, <2>1, <2>2 DEF Exact
  <2> QED
    BY <1>1, <1>5, <2>4, <2>5 DEF ExactRedis, ExactCounts
<1>6. CASE day' = day + 1 /\ hourly' = Zero /\ daily' = Zero
  <2>1. master.day \in Nat /\ master.day <= day
    BY <1>2 DEF Record, ExactRedis
  <2>2. Content(master)' = Nothing
    BY <1>1, <1>2, <1>6, <2>1 DEF Content
  <2>3. Exact(Content(master))'
    <3>1. \A m \in Mapids : /\ Nothing[Key(FruOf("bidder", m), m)] = None
                            /\ Met(FruOf("bidder", m).period, Key(FruOf("bidder", m), m))' = 0
      BY <1>1, <1>3, <1>6 DEF Nothing, Met, Zero, FruOf
    <3> QED
      BY <1>3, <2>2, <3>1 DEF Exact, EntryExact
  <2>4. copy # <<>> => copy[1] <= day' /\ copy[1] # day'
    BY <1>2, <1>6 DEF ExactCounts
  <2>5. master.day <= day'
    BY <1>2, <1>6, <2>1
  <2> QED
    BY <1>1, <2>3, <2>4, <2>5 DEF ExactRedis, ExactCounts
<1> QED
  BY <1>4, <1>5, <1>6 DEF Tick

LEMMA ReadExact ==
    ASSUME TypeOK, Read, Undisturbed, Undisturbed', ExactQueues, ExactRedis, ExactCounts
    PROVE  ExactQueues' /\ ExactRedis' /\ ExactCounts'
<1> DEFINE p == Head(batch).mapid
           gru == Head(batch).fru
           c == Content(slave)
<1>1. /\ UNCHANGED <<clock, ver, redisVars, queue>> /\ lag = <<>> /\ batch # <<>> /\ copy = <<>>
      /\ CountIn(c)
  BY DEF Read, Undisturbed
<1>2. slave = master /\ Exact(c) /\ c \in Counts /\ Content(master)' = c
  BY <1>1, ContentType DEF ExactRedis, ExactCounts, TypeOK, redisVars, clock, Content
<1>3. p \in Mapids /\ gru = FruOf("bidder", p)
  <2>1. Head(batch) \in Item /\ Head(batch) = batch[1] /\ 1 \in 1..Len(batch)
    BY <1>1 DEF TypeOK
  <2> QED
    BY <2>1 DEF Item, ExactQueues, SameLimits
<1>4. /\ hourly' = Seen(hourly, p) /\ daily' = Seen(daily, p)
      /\ \/ Ignored(c, gru, p) /\ batch' = Tail(batch) /\ copy' = <<>>
         \/ ~Ignored(c, gru, p) /\ batch' = batch /\ copy' = <<day, Counted(c, gru, p)>>
  BY <1>1 DEF CountIn
<1>5. UNCHANGED <<day, sec, hour>> /\ day \in Nat
  BY <1>1 DEF clock, TypeOK
<1>6. \A m \in Mapids : FruOf("bidder", m)' = FruOf("bidder", m) /\ (Limited(m)' <=> Limited(m))
  BY <1>1 DEF FruOf, Limited
<1>7. ExactQueues'
  <2>1. \A x : FruOf("bidder", x)' = FruOf("bidder", x)
    BY <1>1 DEF FruOf
  <2>2. SameLimits(batch)'
    <3>1. batch \in Seq(Item) /\ SameLimits(batch)
      BY DEF TypeOK, ExactQueues
    <3>2. batch' = batch \/ batch' = Tail(batch)
      BY <1>4
    <3> QED
      BY <1>1, <2>1, <3>1, <3>2 DEF SameLimits
  <2> QED
    BY <1>1, <2>1, <2>2 DEF ExactQueues, SameLimits
<1> HIDE DEF p, gru, c
<1>8. ASSUME NEW m \in Mapids, NEW fru, fru = FruOf("bidder", m), Limited(m)
      PROVE  /\ Ignored(c, gru, p) => EntryExact(c[Key(fru, m)], fru, m, Met(fru.period, Key(fru, m))', hour)
             /\ ~Ignored(c, gru, p) =>
                   EntryExact(Counted(c, gru, p)[Key(fru, m)], fru, m, Met(fru.period, Key(fru, m))', hour)
  <2>1. Met(fru.period, Key(fru, m))' =
            (IF fru.period = "hour" THEN Seen(hourly, p) ELSE Seen(daily, p))[Key(fru, m)]
    BY <1>4 DEF Met
  <2> QED
    BY <1>2, <1>3, <1>8, <2>1, CountedExact
<1>9. CASE Ignored(c, gru, p)
  <2>1. Exact(Content(master))'
    BY <1>2, <1>5, <1>6, <1>8, <1>9 DEF Exact
  <2> QED
    BY <1>1, <1>4, <1>5, <1>7, <1>9, <2>1, ExactSame DEF ExactCounts
<1>10. CASE ~Ignored(c, gru, p)
  <2>1. copy' # <<>> /\ copy'[1] = day /\ copy'[2] = Counted(c, gru, p)
    BY <1>4, <1>10
  <2>2. Exact(copy[2])'
    BY <1>5, <1>6, <1>8, <1>10, <2>1 DEF Exact
  <2> QED
    BY <1>1, <1>5, <1>7, <2>1, <2>2, ExactSame DEF ExactCounts
<1> QED
  BY <1>9, <1>10

LEMMA NextExact == RecordExact /\ [Next]_vars => RecordExact'
<1> SUFFICES ASSUME RecordExact, [Next]_vars, Undisturbed' PROVE ExactQueues' /\ ExactRedis' /\ ExactCounts'
  BY ExactParts, NextType
<1> USE DEF redisVars, bidVars, history
<1>1. CASE \E w \in {"tracker", "bidder"} : Reload(w)
  <2>1. PICK w \in {"tracker", "bidder"} : Reload(w)
    BY <1>1
  <2>2. ver'[w] = ver[w] + 1 /\ ver[w] \in Nat \ {0}
    BY <2>1, ExactParts DEF Reload, TypeOK
  <2>3. ver'[w] = 1
    BY <2>1, ExactParts DEF Undisturbed, Reload, TypeOK
  <2> QED
    BY <2>2, <2>3
<1>2. CASE ver' = ver /\ (disturbed => disturbed') /\ (straddled => straddled')
  <2>1. TypeOK /\ Undisturbed /\ ExactQueues /\ ExactRedis /\ ExactCounts
    BY <1>2, ExactParts DEF Undisturbed
  <2>2. CASE Tick
    <3>1. ExactRedis' /\ ExactCounts'
      BY <2>1, <2>2, TickExact
    <3> QED
      BY <2>1, <2>2, <3>1, ExactSame DEF Tick
  <2>3. CASE Replicate
    <3>1. lag \in Seq(Record) /\ master \in Record
      BY <2>1 DEF TypeOK
    <3>2. /\ UNCHANGED <<day, sec, hour, ver, master, queue, batch, copy, hourly, daily>>
          /\ lag # <<>> /\ slave' = Head(lag) /\ lag' = Tail(lag)
      BY <2>3 DEF Replicate, clock
    <3>3. (IF lag' = <<>> THEN slave' ELSE lag'[Len(lag')]) = lag[Len(lag)]
      <4>1. ASSUME NEW l \in Seq(Record), l # <<>>
            PROVE  (IF Tail(l) = <<>> THEN Head(l) ELSE Tail(l)[Len(Tail(l))]) = l[Len(l)]
        <5>1. /\ Tail(l) \in Seq(Record) /\ Len(Tail(l)) = Len(l) - 1 /\ Len(l) \in Nat
              /\ \A i \in 1..Len(Tail(l)) : Tail(l)[i] = l[i + 1]
              /\ Head(l) = l[1]
          BY <4>1, HeadTailProperties
        <5>2. Tail(l) = <<>> <=> Len(Tail(l)) = 0
          BY <5>1, EmptySeq
        <5>3. CASE Len(l) = 1
          BY <5>1, <5>2, <5>3
        <5>4. CASE Len(l) # 1
          <6>1. Len(l) # 0
            BY <4>1, EmptySeq
          <6>2. Len(l) - 1 \in 1..Len(Tail(l)) /\ (Len(l) - 1) + 1 = Len(l) /\ Len(Tail(l)) # 0
            BY <5>1, <5>4, <6>1
          <6> QED
            BY <5>1, <5>2, <6>2
        <5> QED
          BY <5>3, <5>4
      <4> QED
        BY <3>1, <3>2, <4>1
    <3>4. ExactRedis'
      BY <2>1, <3>2, <3>3 DEF ExactRedis
    <3> QED
      BY <2>1, <3>2, <3>4, ExactSame DEF clock
  <2>4. CASE \E m \in Mapids : Bid(m)
    BY <2>1, <2>4, ExactSame DEF Bid, clock
  <2>5. CASE \E m \in Mapids : Impression(m) \/ Stray(m)
    <3>1. SameLimits(queue)'
      BY <1>2, <2>1, <2>5, PushExact DEF Impression, Stray, ExactQueues
    <3>2. SameLimits(batch)'
      BY <2>1, <2>5 DEF Impression, Stray, ExactQueues, SameLimits, FruOf
    <3> QED
      BY <2>1, <2>5, <3>1, <3>2, ExactSame DEF Impression, Stray, ExactQueues, clock
  <2>6. CASE Swap
    <3>1. ExactQueues'
      BY <2>1, <2>6 DEF Swap, ExactQueues, SameLimits, FruOf
    <3> QED
      BY <2>1, <2>6, <3>1, ExactSame DEF Swap, clock
  <2>7. CASE Read
    BY <2>1, <2>7, ReadExact
  <2>8. CASE Write
    <3>1. /\ UNCHANGED <<day, sec, hour, ver, queue, hourly, daily>> /\ copy # <<>> /\ copy' = <<>>
          /\ master' = [day |-> day, count |-> copy[2]] /\ lag' = Append(lag, master')
          /\ batch' = Tail(batch) /\ copy[1] = day
      BY <2>8 DEF Write, Undisturbed, clock
    <3>2. day \in Nat /\ batch \in Seq(Item) /\ batch # <<>> /\ lag \in Seq(Record)
      BY <2>1, <3>1 DEF TypeOK
    <3>3. ExactQueues'
      <4>1. \A x : FruOf("bidder", x)' = FruOf("bidder", x)
        BY <3>1 DEF FruOf
      <4> QED
        BY <2>1, <3>1, <3>2, <4>1 DEF ExactQueues, SameLimits
    <3>4. ExactRedis'
      BY <3>1, <3>2 DEF ExactRedis
    <3>5. ExactCounts'
      <4>1. Content(master)' = copy[2] /\ Exact(copy[2])
        BY <2>1, <3>1 DEF Content, ExactCounts
      <4>2. \A m \in Mapids : FruOf("bidder", m)' = FruOf("bidder", m) /\ (Limited(m)' <=> Limited(m))
        BY <3>1 DEF FruOf, Limited
      <4>3. Exact(Content(master))'
        BY <3>1, <4>1, <4>2 DEF Exact, Met
      <4> QED
        BY <3>1, <4>3 DEF ExactCounts
    <3> QED
      BY <3>3, <3>4, <3>5
  <2>9. CASE (\E m \in Mapids : BidUnread(m)) \/ ReadError \/ Drop
    BY <2>9 DEF BidUnread, ReadError, Drop, Undisturbed
  <2>10. CASE UNCHANGED vars
    <3>1. /\ clock' = clock /\ UNCHANGED <<ver, queue, batch, copy, hourly, daily>>
          /\ UNCHANGED <<master, lag, slave>>
      BY <2>10 DEF vars
    <3> QED
      BY <2>1, <3>1, ExactSame DEF clock
  <2> QED
    BY <1>1, <2>2, <2>3, <2>4, <2>5, <2>6, <2>7, <2>8, <2>9, <2>10, <1>2 DEF Next
<1>3. ASSUME ~\E w \in {"tracker", "bidder"} : Reload(w)
      PROVE  ver' = ver /\ (disturbed => disturbed') /\ (straddled => straddled')
  <2>1. CASE Tick \/ Replicate \/ Swap
    BY <2>1 DEF Tick, Replicate, Swap
  <2>4. CASE Read \/ ReadError
    <3>1. ver' = ver /\ (straddled => straddled')
      BY <2>4 DEF Read, ReadError
    <3>2. disturbed => disturbed'
      BY <2>4, Zenon DEF Read, ReadError
    <3> QED
      BY <3>1, <3>2
  <2>5. CASE Write \/ Drop
    <3>1. ver' = ver
      BY <2>5 DEF Write, Drop
    <3>2. straddled => straddled'
      <4>1. CASE Write
        BY <4>1, Zenon DEF Write
      <4>2. CASE Drop
        BY <4>2 DEF Drop
      <4> QED
        BY <2>5, <4>1, <4>2
    <3>3. disturbed => disturbed'
      BY <2>5 DEF Write, Drop
    <3> QED
      BY <3>1, <3>2, <3>3
  <2>2. ASSUME NEW m \in Mapids, Bid(m) \/ BidUnread(m) \/ Impression(m) \/ Stray(m)
        PROVE  ver' = ver /\ (disturbed => disturbed') /\ (straddled => straddled')
    BY <2>2 DEF Bid, BidUnread, Impression, Stray
  <2>3. CASE UNCHANGED vars
    BY <2>3 DEF vars
  <2> QED
    BY <1>3, <2>1, <2>2, <2>3, <2>4, <2>5 DEF Next
<1> QED
  BY <1>1, <1>2, <1>3

LEMMA InitExact == Init => RecordExact
<1> SUFFICES ASSUME Init PROVE ExactQueues /\ ExactRedis /\ ExactCounts
  BY ExactParts, InitType
<1>1. ExactQueues /\ ExactRedis
  BY DEF Init, ExactQueues, ExactRedis, SameLimits
<1>2. Exact(Content(master))
  <2>1. Content(master) = Nothing /\ hourly = Zero /\ daily = Zero
    BY DEF Init, Content, Zero
  <2>2. \A m \in Mapids : LET k == Key(FruOf("bidder", m), m)
                          IN  Nothing[k] = None /\ Met(FruOf("bidder", m).period, k) = 0
    BY <2>1, KeyType DEF Nothing, Met, Zero
  <2> QED
    BY <2>1, <2>2 DEF Exact, EntryExact
<1> QED
  BY <1>1, <1>2 DEF ExactCounts, Init

\* While nothing is lost, stale or straddles midnight and the limits stay, the
\* record on the master holds every impression of the period, up to the limit.
THEOREM RecordsAreExact == Spec => []CountsExact
<1>1. RecordExact => CountsExact
  <2> SUFFICES ASSUME RecordExact, NEW m \in Mapids, Undisturbed, Limited(m), copy = <<>>,
                      Met(FruOf("bidder", m).period, Key(FruOf("bidder", m), m)) > 0
               PROVE  LET fru == FruOf("bidder", m)
                          k == Key(fru, m)
                          e == Content(master)[k]
                          n == Met(fru.period, k)
                      IN  e # None /\ e.imp = Min({n, Max({1, Limit(fru, m)})})
    BY DEF CountsExact
  <2> QED
    BY DEF RecordExact, Exact, EntryExact
<1> QED
  BY <1>1, InitExact, NextExact, PTL DEF Spec

-----------------------------------------------------------------------------
(* The limit, as far as bids in flight let it be kept                      *)

\* Items for the creatives of K.
Of(K) == {e \in Item : e.mapid \in K}

LEMMA AmongIs ==
    ASSUME NEW q \in Seq(Item), NEW K
    PROVE  /\ Among(q, K) = NumberIn(q, Of(K))
           /\ Among(q, K) \in Nat /\ Among(q, K) <= Len(q) /\ Len(q) \in Nat
<1>1. DOMAIN q = 1..Len(q) /\ \A n \in 1..Len(q) : q[n] \in Item
  BY ElementOfSeq, LenProperties
<1>2. {n \in DOMAIN q : q[n].mapid \in K} = PlacesIn(q, Of(K))
  BY <1>1 DEF PlacesIn, Of
<1>3. Among(q, K) = NumberIn(q, Of(K))
  BY <1>2 DEF Among, Quantify, NumberIn
<1> QED
  BY <1>3, NumberType, LenProperties

LEMMA AmongNone ==
    ASSUME NEW K
    PROVE  Among(<<>>, K) = 0
<1>1. <<>> \in Seq(Item)
  OBVIOUS
<1> QED
  BY <1>1, AmongIs, NumberNone

LEMMA AmongAppend ==
    ASSUME NEW q \in Seq(Item), NEW e \in Item, NEW K
    PROVE  Among(Append(q, e), K) = Among(q, K) + One(e.mapid \in K)
<1>1. Append(q, e) \in Seq(Item)
  BY AppendProperties
<1>2. e \in Of(K) <=> e.mapid \in K
  BY DEF Of
<1>3. Among(Append(q, e), K) = NumberIn(Append(q, e), Of(K)) /\ Among(q, K) = NumberIn(q, Of(K))
  BY <1>1, AmongIs
<1> QED
  BY <1>2, <1>3, NumberAppend DEF One

LEMMA AmongTail ==
    ASSUME NEW q \in Seq(Item), q # <<>>, NEW K
    PROVE  /\ Among(q, K) = Among(Tail(q), K) + One(Head(q).mapid \in K)
           /\ Among(q, K) + One(Head(q).mapid \notin K) <= Len(q)
<1>1. /\ Head(q) \in Item /\ Tail(q) \in Seq(Item) /\ Len(q) \in Nat /\ Len(Tail(q)) = Len(q) - 1
  BY HeadTailProperties, LenProperties
<1>2. Head(q) \in Of(K) <=> Head(q).mapid \in K
  BY <1>1 DEF Of
<1>3. Among(Tail(q), K) = NumberIn(Tail(q), Of(K)) /\ Among(q, K) = NumberIn(q, Of(K))
  BY <1>1, AmongIs
<1>4. Among(q, K) = Among(Tail(q), K) + One(Head(q).mapid \in K)
  BY <1>2, <1>3, NumberTail DEF One
<1>5. Among(Tail(q), K) \in Nat /\ Among(Tail(q), K) <= Len(q) - 1
  BY <1>1, AmongIs
<1> QED
  BY <1>1, <1>4, <1>5 DEF One

\* What a creative's limit is made of.
LEMMA LimitedType ==
    ASSUME TypeOK, NEW m \in Mapids, Limited(m)
    PROVE  LET fru == FruOf("bidder", m)
           IN  /\ fru \in Fru /\ fru.type # "infinity" /\ ~Unlisted(fru, m)
               /\ Limit(fru, m) \in Nat /\ Max({1, Limit(fru, m)}) \in Nat \ {0}
               /\ Key(fru, m) \in Keys
               /\ Met(fru.period, Key(fru, m)) \in Nat
<1> DEFINE fru == FruOf("bidder", m)
<1>1. fru \in Fru /\ fru.type # "infinity" /\ ~Unlisted(fru, m)
  BY FruType DEF Limited
<1>2. Limit(fru, m) \in Nat
  BY <1>1 DEF Limit, Unlisted, Fru
<1>3. Key(fru, m) \in Keys
  BY KeyType
<1> HIDE DEF fru
<1>4. Met(fru.period, Key(fru, m)) \in Nat
  BY <1>3 DEF Met, TypeOK
<1>5. Max({1, Limit(fru, m)}) \in Nat \ {0}
  BY <1>2, MaxOne
<1> QED
  BY <1>1, <1>2, <1>3, <1>4, <1>5 DEF fru

-----------------------------------------------------------------------------
(* The bidder's record is at most one impression behind                    *)

\* A record that is exact shows every impression there is.
LEMMA ExactView ==
    ASSUME TypeOK, Exact(Content(slave)), NEW m \in Mapids, Limited(m)
    PROVE  ViewBehind(m)
<1> DEFINE n == Met(FruOf("bidder", m).period, Key(FruOf("bidder", m), m))
<1>1. n \in Nat
  BY LimitedType
<1>2. EntryExact(Content(slave)[Key(FruOf("bidder", m), m)], FruOf("bidder", m), m, n, hour)
  BY DEF Exact
<1>3. Unseen \in Nat
  BY DEF Unseen, TypeOK
<1>4. n \in 0..n /\ n <= n + Unseen
  BY <1>1, <1>3
<1> QED
  BY <1>2, <1>4 DEF ViewBehind

\* What the bidder's record lets through.
LEMMA ViewAllows ==
    ASSUME TypeOK, NEW m \in Mapids, Limited(m), ViewBehind(m), NEW j \in Sharing(m),
           Allowed(Content(slave), FruOf("bidder", j), j)
    PROVE  Met(FruOf("bidder", m).period, Key(FruOf("bidder", m), m))
               < Max({1, Limit(FruOf("bidder", m), m)}) + Unseen
<1> DEFINE fru == FruOf("bidder", m)
           k == Key(fru, m)
           n == Met(fru.period, k)
           l == Limit(fru, m)
           M == Max({1, l})
           e == Content(slave)[k]
           s == getStartTime(fru.period)
<1>1. /\ fru \in Fru /\ fru.type # "infinity" /\ ~Unlisted(fru, m)
      /\ l \in Nat /\ M \in Nat \ {0} /\ n \in Nat /\ M >= l
  BY LimitedType, MaxOne
<1>2. j \in Mapids /\ Key(FruOf("bidder", j), j) = k
  BY DEF Sharing
<1>3. /\ FruOf("bidder", j) = fru /\ Limit(fru, j) = l /\ ~Unlisted(fru, j)
      /\ k \in {j, GroupOf[j]} /\ Key(fru, j) = k
  BY <1>1, <1>2, SameKey, KeyType
<1>4. PICK v \in 0..n : EntryExact(e, fru, m, v, hour) /\ (v < M => n <= v + Unseen)
  BY DEF ViewBehind
<1>5. /\ s = (IF fru.period = "hour" THEN hour ELSE 0)
      /\ Elapsed(s) < PERIOD_TIME(fru.period)
  BY <1>1, PeriodTimes
<1> HIDE DEF fru, k, n, l, s
<1>6. v < M
  <2> SUFFICES ASSUME ~(v < M) PROVE FALSE
    OBVIOUS
  <2>1. v \in Nat /\ v > 0 /\ v >= M
    BY <1>1, <1>4
  <2>2. e # None /\ e.start = s /\ e.imp = Min({v, M})
    BY <1>4, <1>5, <2>1 DEF EntryExact, l
  <2>3. Min({v, M}) = M
    BY <1>1, <2>1, MinOfTwo
  <2>4. Full(e, fru, j)
    BY <1>1, <1>3, <1>5, <2>2, <2>3 DEF Full
  <2>5. Known(Content(slave), GroupOf[j])
    BY <1>2, <1>3, <2>2 DEF Known
  <2>6. Allowed(Content(slave), fru, j)
    BY <1>3
  <2> QED
    BY <1>1, <1>3, <2>2, <2>4, <2>5, <2>6 DEF Allowed, Capped
<1>7. Unseen \in Nat
  BY DEF Unseen, TypeOK
<1>8. n < M + Unseen
  BY <1>1, <1>4, <1>6, <1>7
<1> QED
  BY <1>8 DEF fru, k, n, l

\* Steps after which all may still be undisturbed.
LEMMA CalmSteps ==
    ASSUME TypeOK, [Next]_vars, Undisturbed'
    PROVE  /\ Undisturbed /\ ver' = ver
           /\ \/ Tick \/ Replicate \/ Swap \/ Read \/ Write \/ UNCHANGED vars
              \/ \E m \in Mapids : Bid(m) \/ Impression(m) \/ Stray(m)
<1> USE DEF redisVars, bidVars, history
<1>1. ASSUME NEW w \in {"tracker", "bidder"}, Reload(w) PROVE FALSE
  <2>1. ver'[w] = ver[w] + 1 /\ ver[w] \in Nat \ {0}
    BY <1>1 DEF Reload, TypeOK
  <2>2. ver'[w] = 1
    BY <1>1 DEF Undisturbed, Reload, TypeOK
  <2> QED
    BY <2>1, <2>2
<1>2. ~((\E m \in Mapids : BidUnread(m)) \/ ReadError \/ Drop)
  BY DEF BidUnread, ReadError, Drop, Undisturbed
<1>3. \/ Tick \/ Replicate \/ Swap \/ Read \/ Write \/ UNCHANGED vars
      \/ \E m \in Mapids : Bid(m) \/ Impression(m) \/ Stray(m)
  BY <1>1, <1>2 DEF Next
<1>4. ver' = ver /\ (disturbed => disturbed') /\ (straddled => straddled')
  <2>1. CASE Tick \/ Replicate \/ Swap
    BY <2>1 DEF Tick, Replicate, Swap
  <2>2. CASE Read
    <3>1. ver' = ver /\ (straddled => straddled')
      BY <2>2 DEF Read
    <3>2. disturbed => disturbed'
      BY <2>2, Zenon DEF Read
    <3> QED
      BY <3>1, <3>2
  <2>3. CASE Write
    <3>1. ver' = ver /\ (disturbed => disturbed')
      BY <2>3 DEF Write
    <3>2. straddled => straddled'
      BY <2>3, Zenon DEF Write
    <3> QED
      BY <3>1, <3>2
  <2>4. ASSUME NEW m \in Mapids, Bid(m) \/ Impression(m) \/ Stray(m)
        PROVE  ver' = ver /\ (disturbed => disturbed') /\ (straddled => straddled')
    BY <2>4 DEF Bid, Impression, Stray
  <2>5. CASE UNCHANGED vars
    BY <2>5 DEF vars
  <2> QED
    BY <1>3, <2>1, <2>2, <2>3, <2>4, <2>5
<1>5. Undisturbed
  BY <1>4 DEF Undisturbed
<1> QED
  BY <1>3, <1>4, <1>5

\* The limits are those of the step before.
LEMMA SameSettings ==
    ASSUME ver' = ver
    PROVE  /\ \A m : FruOf("bidder", m)' = FruOf("bidder", m)
           /\ \A m : Limited(m)' <=> Limited(m)
           /\ \A m : Sharing(m)' = Sharing(m)
<1>1. \A m : FruOf("bidder", m)' = FruOf("bidder", m)
  BY DEF FruOf
<1> QED
  BY <1>1 DEF Limited, Sharing

\* The parts of ViewBehind that can change, as constants.
Behind(e, fru, m, n, h, u) ==
    \E v \in 0..n : /\ EntryExact(e, fru, m, v, h)
                    /\ v < Max({1, Limit(fru, m)}) => n <= v + u

LEMMA ViewIs ==
    ASSUME ver' = ver, NEW m, NEW fru, fru = FruOf("bidder", m), NEW k, k = Key(fru, m)
    PROVE  /\ ViewBehind(m) <=> Behind(Content(slave)[k], fru, m, Met(fru.period, k), hour, Unseen)
           /\ ViewBehind(m)' <=> Behind(Content(slave)'[k], fru, m, Met(fru.period, k)', hour', Unseen')
<1>1. FruOf("bidder", m)' = fru
  BY SameSettings
<1> QED
  BY <1>1 DEF ViewBehind, Behind

\* An exact entry is not behind.
LEMMA ExactBehind ==
    ASSUME NEW e, NEW fru, NEW m, NEW h, NEW n \in Nat, NEW u \in Nat, NEW x \in Nat,
           EntryExact(e, fru, m, n, h), x \in {n, n + u}
    PROVE  Behind(e, fru, m, x, h, u)
<1>1. n \in 0..x /\ x <= n + u
  OBVIOUS
<1> QED
  BY <1>1 DEF Behind

\* The hour passes, and with it the counts of the hour.
LEMMA BehindLater ==
    ASSUME TypeOK, NEW fru \in Fru, NEW m, NEW e, e # None => e \in Entry,
           NEW n \in Nat, NEW u \in Nat, Behind(e, fru, m, n, hour, u),
           NEW h, h = hour + PERHOUR
    PROVE  Behind(e, fru, m, IF fru.period = "hour" THEN 0 ELSE n, h, u)
<1>1. PICK v \in 0..n : /\ EntryExact(e, fru, m, v, hour)
                        /\ v < Max({1, Limit(fru, m)}) => n <= v + u
  BY DEF Behind
<1>2. hour \in Nat /\ PERHOUR \in Nat
  BY CappingAssumption DEF TypeOK
<1>3. CASE fru.period = "hour"
  <2>1. e = None \/ e.start + PERHOUR <= hour \/ e.start = hour
    BY <1>1, <1>3 DEF EntryExact
  <2>2. e = None \/ e.start + PERHOUR <= h
    <3>1. e # None => e.start \in Nat
      BY DEF Entry
    <3> QED
      BY <1>2, <2>1, <3>1
  <2>3. EntryExact(e, fru, m, 0, h)
    BY <1>3, <2>2 DEF EntryExact
  <2>4. 0 \in 0..0 /\ 0 <= 0 + u
    OBVIOUS
  <2> QED
    BY <1>3, <2>3, <2>4 DEF Behind
<1>4. CASE fru.period # "hour"
  <2>1. EntryExact(e, fru, m, v, h)
    BY <1>1, <1>4 DEF EntryExact
  <2> QED
    BY <1>1, <1>4, <2>1 DEF Behind
<1> QED
  BY <1>3, <1>4

\* What has left the worker is soon with the bidder.
Near == lag = <<>> \/ (copy = <<>> /\ Len(lag) = 1)

LEMMA UnseenType == TypeOK => Unseen \in Nat
BY DEF Unseen, TypeOK

\* Steps that leave the record, the counts and the clock alone.
LEMMA ViewSame ==
    ASSUME ver' = ver, UNCHANGED <<day, hour, slave, hourly, daily>>, Unseen' = Unseen,
           NEW m, ViewBehind(m)
    PROVE  ViewBehind(m)'
<1>1. \A k : Met(FruOf("bidder", m).period, k)' = Met(FruOf("bidder", m).period, k)
  BY SameSettings DEF Met
<1>2. Content(slave)' = Content(slave)
  BY DEF Content
<1> DEFINE fru == FruOf("bidder", m)
           k == Key(fru, m)
<1>3. ASSUME NEW f, f = fru, NEW i, i = Key(f, m)
      PROVE  ViewBehind(m)'
  <2>1. Met(f.period, i)' = Met(f.period, i)
    BY DEF Met
  <2> QED
    BY <1>2, <1>3, <2>1, ViewIs
<1> QED
  BY <1>3

LEMMA TickView ==
    ASSUME TypeOK, Tick, slave.day <= day, NEW m \in Mapids, Limited(m), ViewBehind(m)
    PROVE  ViewBehind(m)'
<1> SUFFICES ASSUME NEW fru \in Fru, fru = FruOf("bidder", m), NEW k \in Keys, k = Key(fru, m)
             PROVE  ViewBehind(m)'
  BY FruType, KeyType
<1>1. UNCHANGED <<ver, master, lag, slave, copy>> /\ Unseen' = Unseen /\ Unseen \in Nat
  BY UnseenType DEF Tick, redisVars, Unseen
<1>2. /\ day \in Nat /\ slave.day \in Nat /\ slave \in Record
      /\ hourly \in [Keys -> Nat] /\ daily \in [Keys -> Nat]
  BY DEF TypeOK, Record
<1>3. CASE UNCHANGED <<day, hour, hourly, daily>>
  BY <1>1, <1>3, ViewSame
<1>4. CASE hour' = hour + PERHOUR /\ hourly' = Zero /\ UNCHANGED <<day, daily>>
  <2>1. Content(slave)' = Content(slave) /\ Content(slave) \in Counts
    BY <1>1, <1>2, <1>4, ContentType DEF Content
  <2>2. Content(slave)[k] # None => Content(slave)[k] \in Entry
    BY <2>1 DEF Counts
  <2>3. Met(fru.period, k)' = (IF fru.period = "hour" THEN 0 ELSE Met(fru.period, k))
    BY <1>4 DEF Met, Zero
  <2>4. Met(fru.period, k) \in Nat
    BY <1>2 DEF Met
  <2>5. Behind(Content(slave)[k], fru, m, Met(fru.period, k), hour, Unseen)
    BY <1>1, ViewIs
  <2>6. Behind(Content(slave)[k], fru, m,
               IF fru.period = "hour" THEN 0 ELSE Met(fru.period, k), hour', Unseen)
    BY <1>1, <1>4, <2>2, <2>4, <2>5, BehindLater
  <2> QED
    BY <1>1, <2>1, <2>3, <2>6, ViewIs
<1>5. CASE day' = day + 1 /\ hourly' = Zero /\ daily' = Zero
  <2>1. Content(slave)' = Nothing
    BY <1>1, <1>2, <1>5 DEF Content
  <2>2. Met(fru.period, k)' = 0 /\ Nothing[k] = None
    BY <1>5 DEF Met, Zero, Nothing
  <2>3. EntryExact(Nothing[k], fru, m, 0, hour')
    BY <2>2 DEF EntryExact
  <2>4. Behind(Nothing[k], fru, m, 0, hour', Unseen)
    BY <1>1, <2>3, ExactBehind
  <2> QED
    BY <1>1, <2>1, <2>2, <2>4, ViewIs
<1> QED
  BY <1>3, <1>4, <1>5 DEF Tick

\* The record is exact once nothing is left to be replicated or written.
LEMMA SettledView ==
    ASSUME TypeOK', ver' = ver, Exact(Content(slave))', NEW m \in Mapids, Limited(m)
    PROVE  ViewBehind(m)'
<1> SUFFICES ASSUME NEW fru, fru = FruOf("bidder", m), NEW k \in Keys, k = Key(fru, m)
             PROVE  ViewBehind(m)'
  BY KeyType
<1>1. FruOf("bidder", m)' = fru /\ Limited(m)'
  BY SameSettings
<1>2. EntryExact(Content(slave)'[k], fru, m, Met(fru.period, k)', hour')
  BY <1>1 DEF Exact
<1>3. Met(fru.period, k)' \in Nat /\ Unseen' \in Nat
  BY DEF Met, TypeOK, Unseen
<1> QED
  BY <1>2, <1>3, ExactBehind, ViewIs

LEMMA ReadView ==
    ASSUME TypeOK, Read, Undisturbed', lag = <<>>, Exact(Content(slave)), copy' # <<>>,
           NEW m \in Mapids, Limited(m)
    PROVE  ViewBehind(m)'
<1> SUFFICES ASSUME NEW fru, fru = FruOf("bidder", m), NEW k \in Keys, k = Key(fru, m)
             PROVE  ViewBehind(m)'
  BY KeyType
<1> DEFINE p == Head(batch).mapid
<1>1. /\ UNCHANGED <<day, hour, ver, slave>> /\ lag' = <<>>
      /\ hourly' = Seen(hourly, p) /\ daily' = Seen(daily, p)
  BY DEF Read, CountIn, clock, redisVars
<1>2. p \in Mapids
  <2>1. Head(batch) \in Item
    BY DEF TypeOK, Read
  <2> QED
    BY <2>1 DEF Item
<1>3. Unseen' = 1
  BY <1>1 DEF Unseen
<1> HIDE DEF p
<1>4. Met(fru.period, k) \in Nat /\ Met(fru.period, k)' \in {Met(fru.period, k), Met(fru.period, k) + 1}
  <2>1. hourly \in [Keys -> Nat] /\ daily \in [Keys -> Nat]
    BY DEF TypeOK
  <2>2. /\ hourly'[k] \in {hourly[k], hourly[k] + 1} /\ daily'[k] \in {daily[k], daily[k] + 1}
        /\ hourly[k] \in Nat /\ daily[k] \in Nat
    BY <1>1, <1>2, <2>1, SeenCounts
  <2> QED
    BY <2>2 DEF Met
<1>5. EntryExact(Content(slave)[k], fru, m, Met(fru.period, k), hour)
  BY DEF Exact
<1>6. Behind(Content(slave)[k], fru, m, Met(fru.period, k)', hour, 1)
  BY <1>4, <1>5, ExactBehind
<1>7. Content(slave)' = Content(slave)
  BY <1>1 DEF Content
<1> QED
  BY <1>1, <1>3, <1>6, <1>7, ViewIs

LEMMA NextView ==
    ASSUME CapBounded, [Next]_vars, Undisturbed'
    PROVE  Near' /\ \A m \in Mapids : Limited(m)' => ViewBehind(m)'
<1>1. /\ TypeOK /\ TypeOK' /\ Undisturbed /\ ver' = ver /\ RecordExact /\ RecordExact'
      /\ Near /\ \A m \in Mapids : Limited(m) => ViewBehind(m)
  BY NextType, NextExact, CalmSteps DEF CapBounded, RecordExact, Near
<1>2. /\ master.day <= day /\ master = (IF lag = <<>> THEN slave ELSE lag[Len(lag)])
      /\ copy = <<>> => Exact(Content(master))
      /\ master' = (IF lag' = <<>> THEN slave' ELSE lag'[Len(lag')])
      /\ copy' = <<>> => Exact(Content(master))'
  <2>1. ExactRedis /\ ExactCounts /\ ExactRedis' /\ ExactCounts'
    BY <1>1, ExactParts
  <2> QED
    BY <2>1 DEF ExactRedis, ExactCounts
<1>3. \A m : Limited(m)' <=> Limited(m)
  BY <1>1, SameSettings
<1> SUFFICES Near' /\ \A m \in Mapids : Limited(m) => ViewBehind(m)'
  BY <1>3
<1>4. CASE lag' = <<>> /\ copy' = <<>>
  <2>1. Exact(Content(slave))'
    BY <1>2, <1>4 DEF Exact, Content
  <2> QED
    BY <1>1, <1>4, <2>1, SettledView DEF Near
<1>5. CASE UNCHANGED <<day, hour, slave, lag, copy, hourly, daily>>
  <2>1. Unseen' = Unseen /\ Near'
    BY <1>1, <1>5 DEF Unseen, Near
  <2> QED
    BY <1>1, <1>5, <2>1, ViewSame
<1>6. CASE Tick
  <2>1. slave.day <= day
    <3>1. StoredBacked
      BY <1>1 DEF CapBounded, CountsBacked, Undisturbed
    <3> QED
      BY <3>1 DEF StoredBacked, Stored
  <2>2. Near'
    BY <1>1, <1>6 DEF Tick, Near, redisVars
  <2> QED
    BY <1>1, <1>6, <2>1, <2>2, TickView
<1>7. CASE Replicate
  <2>1. copy' = <<>> /\ lag' = Tail(lag) /\ Len(lag) = 1 /\ lag \in Seq(Record)
    BY <1>1, <1>7 DEF Replicate, Near, TypeOK
  <2>2. lag' = <<>>
    BY <2>1
  <2> QED
    BY <1>4, <2>1, <2>2
<1>8. CASE Swap
  BY <1>5, <1>8 DEF Swap, clock, redisVars, history
<1>9. CASE Read
  <2>1. lag = <<>> /\ lag' = <<>> /\ copy = <<>>
    BY <1>9 DEF Read, Undisturbed, redisVars
  <2>2. Exact(Content(slave))
    BY <1>2, <2>1
  <2> QED
    BY <1>1, <1>4, <1>9, <2>1, <2>2, ReadView DEF Near
<1>10. CASE Write
  <2>1. /\ UNCHANGED <<day, hour, slave, hourly, daily>> /\ copy # <<>> /\ copy' = <<>>
        /\ lag' = Append(lag, master') /\ lag = <<>>
    BY <1>1, <1>10 DEF Write, clock, Near
  <2>2. Len(lag') = 1 /\ Len(lag) = 0
    BY <2>1
  <2>3. Unseen' = Unseen /\ Near'
    BY <2>1, <2>2 DEF Unseen, Near
  <2> QED
    BY <1>1, <2>1, <2>3, ViewSame
<1>11. CASE \E m \in Mapids : Bid(m) \/ Impression(m) \/ Stray(m)
  BY <1>5, <1>11 DEF Bid, Impression, Stray, clock, redisVars, history
<1>12. CASE UNCHANGED vars
  BY <1>5, <1>12 DEF vars, clock, redisVars, history
<1> QED
  BY <1>1, <1>6, <1>7, <1>8, <1>9, <1>10, <1>11, <1>12, CalmSteps

-----------------------------------------------------------------------------
(* What may still be met stays below its bound                             *)

\* The left side of RoomLeft.
Taken(n, o, q, b, K) == n + SumFunctionOnSet(o, K) + Among(q, K) + Among(b, K)

LEMMA RoomIs ==
    ASSUME ver' = ver, NEW m, NEW fru, fru = FruOf("bidder", m), NEW k, k = Key(fru, m),
           NEW K, K = Sharing(m)
    PROVE  /\ RoomLeft(m) <=>
                  Taken(Met(fru.period, k), out, queue, batch, K)
                      < Max({1, Limit(fru, m)}) + MaxOut + strays + One(Held(K))
           /\ RoomLeft(m)' <=>
                  Taken(Met(fru.period, k)', out', queue', batch', K)
                      < Max({1, Limit(fru, m)}) + MaxOut + strays' + One(Held(K)')
<1>1. FruOf("bidder", m)' = fru /\ Sharing(m)' = K
  BY SameSettings
<1> QED
  BY <1>1 DEF RoomLeft, Taken, One

LEMMA TakenType ==
    ASSUME NEW o \in [Mapids -> Nat], NEW q \in Seq(Item), NEW b \in Seq(Item),
           NEW K \in SUBSET Mapids
    PROVE  /\ SumFunctionOnSet(o, K) \in Nat /\ SumFunctionOnSet(o, Mapids) \in Nat
           /\ SumFunctionOnSet(o, K) <= SumFunctionOnSet(o, Mapids)
           /\ Among(q, K) \in Nat /\ Among(q, K) <= Len(q) /\ Len(q) \in Nat
           /\ Among(b, K) \in Nat /\ Among(b, K) <= Len(b) /\ Len(b) \in Nat
           /\ IsFiniteSet(K)
<1>1. IsFiniteSet(Mapids) /\ \A x \in Mapids : o[x] \in Nat
  BY CappingAssumption
<1> QED
  BY <1>1, AmongIs, SumPart, FS_Subset

\* A change of what is out for one creative.
LEMMA OutChanged ==
    ASSUME NEW o \in [Mapids -> Nat], NEW j \in Mapids, NEW K \in SUBSET Mapids,
           NEW w \in [Mapids -> Nat], \A y \in Mapids \ {j} : w[y] = o[y]
    PROVE  /\ j \in K => SumFunctionOnSet(w, K) = SumFunctionOnSet(o, K) - o[j] + w[j]
           /\ j \notin K => SumFunctionOnSet(w, K) = SumFunctionOnSet(o, K)
<1>1. IsFiniteSet(K)
  BY CappingAssumption, FS_Subset
<1>2. /\ w[j] \in Int /\ \A y \in K \ {j} : w[y] = o[y]
      /\ \A y \in K : o[y] \in Int
  OBVIOUS
<1>3. ASSUME j \in K
      PROVE  SumFunctionOnSet(w, K) = SumFunctionOnSet(o, K) - o[j] + w[j]
  BY <1>1, <1>2, <1>3, SumChange
<1>4. ASSUME j \notin K
      PROVE  SumFunctionOnSet(w, K) = SumFunctionOnSet(o, K)
  <2>1. \A y \in K : w[y] = o[y]
    BY <1>2, <1>4
  <2> QED
    BY <1>1, <2>1, SumSame
<1> QED
  BY <1>3, <1>4

\* The notice of a creative adds at most one item for it.
LEMMA PushAmong ==
    ASSUME TypeOK, NEW j \in Mapids, Push(j), NEW K
    PROVE  Among(queue', K) <= Among(queue, K) + One(j \in K)
<1>1. queue \in Seq(Item) /\ Among(queue, K) \in Nat
  BY AmongIs DEF TypeOK
<1>2. One(j \in K) \in Nat
  BY DEF One
<1>3. CASE queue' = queue
  BY <1>1, <1>2, <1>3
<1>4. CASE queue' = Append(queue, [mapid |-> j, fru |-> FruOf("tracker", j)])
  <2>1. [mapid |-> j, fru |-> FruOf("tracker", j)] \in Item
    BY FruType DEF Item
  <2>2. Among(queue', K) = Among(queue, K) + One(j \in K)
    BY <1>1, <1>4, <2>1, AmongAppend
  <2> QED
    BY <1>1, <1>2, <2>2
<1> QED
  BY <1>3, <1>4 DEF Push

LEMMA BidRoom ==
    ASSUME TypeOK, NEW j \in Mapids, Bid(j), NEW m \in Mapids, Limited(m), ViewBehind(m),
           RoomLeft(m)
    PROVE  RoomLeft(m)'
<1> SUFFICES ASSUME NEW fru \in Fru, fru = FruOf("bidder", m), NEW k \in Keys, k = Key(fru, m),
                    NEW K \in SUBSET Mapids, K = Sharing(m)
             PROVE  RoomLeft(m)'
  BY FruType, KeyType DEF Sharing
<1> DEFINE n == Met(fru.period, k)
           M == Max({1, Limit(fru, m)})
           S == SumFunctionOnSet(out, K)
           T == SumFunctionOnSet(out, Mapids)
           q == Among(queue, K)
           b == Among(batch, K)
           H == One(Held(K))
<1>1. /\ UNCHANGED <<ver, queue, batch, copy, strays, hourly, daily>>
      /\ out' = [out EXCEPT ![j] = @ + 1]
      /\ T + Len(queue) + Len(batch) + Len(lag) < MaxOut
      /\ Allowed(Content(slave), FruOf("bidder", j), j)
  BY DEF Bid, history, InFlight
<1>2. /\ n \in Nat /\ M \in Nat /\ MaxOut \in Nat /\ strays \in Nat
      /\ S \in Nat /\ T \in Nat /\ S <= T /\ q \in Nat /\ b \in Nat
      /\ q <= Len(queue) /\ b <= Len(batch)
      /\ Len(queue) \in Nat /\ Len(batch) \in Nat /\ Len(lag) \in Nat
  <2>1. n \in Nat /\ M \in Nat
    BY LimitedType
  <2>2. /\ out \in [Mapids -> Nat] /\ queue \in Seq(Item) /\ batch \in Seq(Item)
        /\ strays \in Nat /\ MaxOut \in Nat /\ lag \in Seq(Record)
    BY CappingAssumption DEF TypeOK
  <2>3. Len(lag) \in Nat
    BY <2>2, LenProperties
  <2> HIDE DEF n, M
  <2> QED
    BY <2>1, <2>2, <2>3, TakenType
<1>3. n' = n /\ Held(K)' = Held(K)
  BY <1>1 DEF Met, Held
<1>4. SumFunctionOnSet(out', K) = IF j \in K THEN S + 1 ELSE S
  <2>1. out[j] \in Nat /\ out[j] + 1 \in Nat /\ out \in [Mapids -> Nat]
    BY DEF TypeOK
  <2>2. /\ j \in K => SumFunctionOnSet(out', K) = S - out[j] + (out[j] + 1)
        /\ j \notin K => SumFunctionOnSet(out', K) = S
    <3>1. /\ out' \in [Mapids -> Nat] /\ out'[j] = out[j] + 1
          /\ \A y \in Mapids \ {j} : out'[y] = out[y]
      BY <1>1, <2>1
    <3>2. /\ j \in K => SumFunctionOnSet(out', K) = S - out[j] + out'[j]
          /\ j \notin K => SumFunctionOnSet(out', K) = S
      BY <2>1, <3>1, OutChanged
    <3> HIDE DEF S
    <3> QED
      BY <3>1, <3>2
  <2> HIDE DEF S
  <2> QED
    BY <1>2, <2>1, <2>2
<1>5. CASE j \notin K
  <2>1. Taken(n', out', queue', batch', K) = Taken(n, out, queue, batch, K)
    BY <1>1, <1>3, <1>4, <1>5 DEF Taken
  <2> QED
    BY <1>1, <1>3, <2>1, RoomIs
<1>6. CASE j \in K
  <2>1. n < M + Unseen
    BY <1>1, <1>6, ViewAllows
  <2>2. Unseen = Len(lag) + IF copy = <<>> THEN 0 ELSE 1
    BY DEF Unseen
  <2>3. copy = <<>> => H = 0
    BY DEF Held, One
  <2>4. copy # <<>> => H = 1 \/ (H = 0 /\ b + 1 <= Len(batch))
    <3>1. SUFFICES ASSUME copy # <<>> PROVE H = 1 \/ (H = 0 /\ b + 1 <= Len(batch))
      OBVIOUS
    <3>2. batch \in Seq(Item) /\ batch # <<>>
      BY <3>1 DEF TypeOK
    <3>3. b + One(Head(batch).mapid \notin K) <= Len(batch)
      BY <3>2, AmongTail
    <3> QED
      BY <3>1, <3>3 DEF Held, One
  <2>5. Taken(n', out', queue', batch', K) = n + (S + 1) + q + b
    BY <1>1, <1>3, <1>4, <1>6 DEF Taken
  <2> HIDE DEF n, M, S, T, q, b, H
  <2>6. n + (S + 1) + q + b < M + MaxOut + strays + H
    BY <1>1, <1>2, <2>1, <2>2, <2>3, <2>4
  <2> QED
    BY <1>1, <1>3, <2>5, <2>6, RoomIs DEF n, M, H
<1> QED
  BY <1>5, <1>6

LEMMA NoticeRoom ==
    ASSUME TypeOK, NEW j \in Mapids, Impression(j) \/ Stray(j), NEW m \in Mapids, Limited(m),
           RoomLeft(m)
    PROVE  RoomLeft(m)'
<1> SUFFICES ASSUME NEW fru \in Fru, fru = FruOf("bidder", m), NEW k \in Keys, k = Key(fru, m),
                    NEW K \in SUBSET Mapids, K = Sharing(m)
             PROVE  RoomLeft(m)'
  BY FruType, KeyType DEF Sharing
<1> DEFINE n == Met(fru.period, k)
           M == Max({1, Limit(fru, m)})
           S == SumFunctionOnSet(out, K)
           q == Among(queue, K)
           b == Among(batch, K)
           H == One(Held(K))
           R == SumFunctionOnSet(out', K)
           p == Among(queue', K)
           d == One(j \in K)
<1>1. UNCHANGED <<ver, batch, copy, hourly, daily>> /\ Push(j)
  BY DEF Impression, Stray, history
<1>2. /\ n \in Nat /\ M \in Nat /\ MaxOut \in Nat /\ strays \in Nat
      /\ S \in Nat /\ q \in Nat /\ b \in Nat /\ H \in Nat /\ d \in {0, 1}
  BY LimitedType, TakenType, CappingAssumption DEF TypeOK, One
<1>3. n' = n /\ Held(K)' = Held(K)
  BY <1>1 DEF Met, Held
<1>4. p \in Nat /\ p <= q + d
  <2>1. queue' \in Seq(Item)
    BY <1>1, PushType
  <2> QED
    BY <1>1, <2>1, PushAmong, AmongIs
<1>5. \/ strays' = strays + 1 /\ R = S
      \/ strays' = strays /\ R = S - d
  <2>1. CASE Stray(j)
    BY <2>1 DEF Stray
  <2>2. CASE Impression(j)
    <3>1. /\ out[j] \in Nat /\ out[j] - 1 \in Nat /\ out \in [Mapids -> Nat]
          /\ out' = [out EXCEPT ![j] = @ - 1] /\ strays' = strays
      BY <2>2 DEF TypeOK, Impression
    <3>4. /\ out \in [Mapids -> Nat] /\ out' \in [Mapids -> Nat] /\ out'[j] = out[j] - 1
          /\ \A y \in Mapids \ {j} : out'[y] = out[y]
      BY <3>1
    <3>2. /\ j \in K => R = S - out[j] + out'[j]
          /\ j \notin K => R = S
      BY <3>4, OutChanged
    <3> HIDE DEF S, R
    <3>3. R = IF j \in K THEN S - 1 ELSE S
      BY <1>2, <3>1, <3>2, <3>4
    <3> QED
      BY <1>2, <3>1, <3>3 DEF One
  <2> QED
    BY <2>1, <2>2
<1>6. Taken(n, out, queue, batch, K) = n + S + q + b
  BY DEF Taken
<1>7. Taken(n', out', queue', batch', K) = n + R + p + b
  BY <1>1, <1>3 DEF Taken
<1>8. Taken(n, out, queue, batch, K) < M + MaxOut + strays + H
  BY <1>1, RoomIs
<1> HIDE DEF n, M, S, q, b, H, R, p, d
<1>9. n + R + p + b < M + MaxOut + strays' + H
  BY <1>2, <1>4, <1>5, <1>6, <1>8
<1> QED
  BY <1>1, <1>3, <1>7, <1>9, RoomIs DEF n, M, H

LEMMA ReadRoom ==
    ASSUME TypeOK, Read, SameLimits(batch), NEW m \in Mapids, Limited(m), RoomLeft(m)
    PROVE  RoomLeft(m)'
<1> SUFFICES ASSUME NEW fru \in Fru, fru = FruOf("bidder", m), NEW k \in Keys, k = Key(fru, m),
                    NEW K \in SUBSET Mapids, K = Sharing(m)
             PROVE  RoomLeft(m)'
  BY FruType, KeyType DEF Sharing
<1> DEFINE p == Head(batch).mapid
           n == Met(fru.period, k)
           M == Max({1, Limit(fru, m)})
           S == SumFunctionOnSet(out, K)
           q == Among(queue, K)
           b == Among(batch, K)
           d == One(p \in K)
<1>1. /\ UNCHANGED <<ver, queue, out, strays>> /\ copy = <<>> /\ batch # <<>>
      /\ hourly' = Seen(hourly, p) /\ daily' = Seen(daily, p)
      /\ \/ batch' = Tail(batch) /\ copy' = <<>>
         \/ batch' = batch /\ copy' # <<>>
  <2>1. \A x : <<day, x>> # <<>>
    OBVIOUS
  <2>2. /\ UNCHANGED <<ver, queue, out, strays>> /\ copy = <<>> /\ batch # <<>>
        /\ CountIn(Content(slave))
    BY DEF Read, bidVars
  <2> QED
    BY <2>1, <2>2 DEF CountIn
<1>2. /\ n \in Nat /\ M \in Nat /\ MaxOut \in Nat /\ strays \in Nat
      /\ S \in Nat /\ q \in Nat /\ b \in Nat /\ d \in {0, 1}
  BY LimitedType, TakenType, CappingAssumption DEF TypeOK, One
<1>3. p \in Mapids /\ batch \in Seq(Item)
  <2>1. Head(batch) \in Item /\ batch \in Seq(Item)
    BY <1>1 DEF TypeOK
  <2> QED
    BY <2>1 DEF Item
<1>4. n' = n + d
  <2>1. hourly \in [Keys -> Nat] /\ daily \in [Keys -> Nat]
    BY DEF TypeOK
  <2>2. p \in K <=> k \in {p, GroupOf[p]}
    <3>1. p \in K <=> Key(FruOf("bidder", p), p) = k
      BY <1>3 DEF Sharing
    <3>2. Key(FruOf("bidder", p), p) # k => k \notin {p, GroupOf[p]}
      BY <1>3, SameKey
    <3>3. Key(FruOf("bidder", p), p) \in {p, GroupOf[p]}
      BY <1>3, KeyType
    <3> QED
      BY <3>1, <3>2, <3>3
  <2>3. /\ hourly'[k] = hourly[k] + d /\ daily'[k] = daily[k] + d
    <3>1. /\ hourly'[k] = IF k \in {p, GroupOf[p]} THEN hourly[k] + 1 ELSE hourly[k]
          /\ daily'[k] = IF k \in {p, GroupOf[p]} THEN daily[k] + 1 ELSE daily[k]
      BY <1>1, <1>3, <2>1, SeenCounts
    <3>2. hourly[k] \in Nat /\ daily[k] \in Nat
      BY <2>1
    <3> HIDE DEF p
    <3> QED
      BY <2>2, <3>1, <3>2 DEF One
  <2> QED
    BY <2>3 DEF Met
<1>5. One(Held(K)) = 0
  BY <1>1 DEF Held, One
<1>6. Among(batch', K) + d = b + One(Held(K)')
  <2>1. CASE batch' = Tail(batch) /\ copy' = <<>>
    <3>1. One(Held(K)') = 0
      BY <2>1 DEF Held, One
    <3>2. b = Among(batch', K) + d
      BY <1>1, <1>3, <2>1, AmongTail
    <3> QED
      BY <1>2, <3>1, <3>2
  <2>2. CASE batch' = batch /\ copy' # <<>>
    BY <1>2, <2>2 DEF Held, One
  <2> QED
    BY <1>1, <2>1, <2>2
<1>7. /\ Taken(n, out, queue, batch, K) = n + S + q + b
      /\ Taken(n', out', queue', batch', K) = (n + d) + S + q + Among(batch', K)
  BY <1>1, <1>4 DEF Taken
<1>8. Taken(n, out, queue, batch, K) < M + MaxOut + strays + 0
  BY <1>1, <1>5, RoomIs
<1>9. Among(batch', K) \in Nat /\ One(Held(K)') \in Nat
  <2>1. batch' \in Seq(Item)
    BY <1>1, <1>3
  <2> QED
    BY <2>1, AmongIs DEF One
<1> HIDE DEF n, M, S, q, b, d
<1>10. (n + d) + S + q + Among(batch', K) < M + MaxOut + strays + One(Held(K)')
  BY <1>2, <1>6, <1>7, <1>8, <1>9
<1> QED
  BY <1>1, <1>7, <1>10, RoomIs DEF n, M

LEMMA WriteRoom ==
    ASSUME TypeOK, Write, NEW m \in Mapids, Limited(m), RoomLeft(m)
    PROVE  RoomLeft(m)'
<1> SUFFICES ASSUME NEW fru \in Fru, fru = FruOf("bidder", m), NEW k \in Keys, k = Key(fru, m),
                    NEW K \in SUBSET Mapids, K = Sharing(m)
             PROVE  RoomLeft(m)'
  BY FruType, KeyType DEF Sharing
<1> DEFINE n == Met(fru.period, k)
           M == Max({1, Limit(fru, m)})
           S == SumFunctionOnSet(out, K)
           q == Among(queue, K)
           b == Among(batch, K)
           H == One(Held(K))
<1>1. /\ UNCHANGED <<ver, queue, out, strays, hourly, daily>> /\ copy # <<>> /\ copy' = <<>>
      /\ batch' = Tail(batch) /\ batch # <<>> /\ batch \in Seq(Item)
  BY DEF Write, bidVars, TypeOK
<1>2. /\ n \in Nat /\ M \in Nat /\ MaxOut \in Nat /\ strays \in Nat
      /\ S \in Nat /\ q \in Nat /\ b \in Nat /\ H \in Nat
  BY LimitedType, TakenType, CappingAssumption DEF TypeOK, One
<1>3. n' = n
  BY <1>1 DEF Met
<1>4. b = Among(batch', K) + H
  BY <1>1, AmongTail DEF Held
<1>5. One(Held(K)') = 0
  BY <1>1 DEF Held, One
<1>6. Among(batch', K) \in Nat
  <2>1. batch' \in Seq(Item)
    BY <1>1
  <2> QED
    BY <2>1, AmongIs
<1>7. /\ Taken(n, out, queue, batch, K) = n + S + q + b
      /\ Taken(n', out', queue', batch', K) = n + S + q + Among(batch', K)
  BY <1>1, <1>3 DEF Taken
<1>8. Taken(n, out, queue, batch, K) < M + MaxOut + strays + H
  BY <1>1, RoomIs
<1> HIDE DEF n, M, S, q, b, H
<1>9. n + S + q + Among(batch', K) < M + MaxOut + strays + 0
  BY <1>2, <1>4, <1>6, <1>7, <1>8
<1> QED
  BY <1>1, <1>3, <1>5, <1>7, <1>9, RoomIs DEF n, M

LEMMA NextRoom ==
    ASSUME CapBounded, [Next]_vars, Undisturbed', NEW m \in Mapids, Limited(m)
    PROVE  RoomLeft(m)'
<1> SUFFICES ASSUME NEW fru \in Fru, fru = FruOf("bidder", m), NEW k \in Keys, k = Key(fru, m),
                    NEW K \in SUBSET Mapids, K = Sharing(m)
             PROVE  RoomLeft(m)'
  BY FruType, KeyType DEF Sharing, CapBounded, RecordExact
<1>1. /\ TypeOK /\ Undisturbed /\ ver' = ver /\ SameLimits(batch)
      /\ ViewBehind(m) /\ RoomLeft(m)
  BY CalmSteps DEF CapBounded, RecordExact
<1>2. CASE Tick
  <2>1. UNCHANGED <<out, queue, batch, copy, strays>>
    BY <1>2 DEF Tick, bidVars
  <2>2. Held(K)' = Held(K)
    BY <2>1 DEF Held
  <2> DEFINE n == Met(fru.period, k)
             M == Max({1, Limit(fru, m)})
             S == SumFunctionOnSet(out, K)
             q == Among(queue, K)
             b == Among(batch, K)
             H == One(Held(K))
  <2>3. n \in Nat /\ n' \in {0, n}
    BY <1>1, <1>2 DEF Tick, Met, Zero, TypeOK
  <2>4. /\ M \in Nat /\ MaxOut \in Nat /\ strays \in Nat
        /\ S \in Nat /\ q \in Nat /\ b \in Nat /\ H \in Nat
    BY <1>1, LimitedType, TakenType, CappingAssumption DEF TypeOK, One
  <2>5. /\ Taken(n, out, queue, batch, K) = n + S + q + b
        /\ Taken(n', out', queue', batch', K) = n' + S + q + b
    BY <2>1 DEF Taken
  <2>6. Taken(n, out, queue, batch, K) < M + MaxOut + strays + H
    BY <1>1, RoomIs
  <2> HIDE DEF M, S, q, b, H
  <2>7. ASSUME NEW x \in Nat, NEW y \in {0, x}, x + S + q + b < M + MaxOut + strays + H
        PROVE  y + S + q + b < M + MaxOut + strays + H
    BY <2>4, <2>7
  <2>8. n' + S + q + b < M + MaxOut + strays + H
    BY <2>3, <2>5, <2>6, <2>7
  <2> QED
    BY <1>1, <2>1, <2>2, <2>5, <2>8, RoomIs DEF M, H
<1>3. CASE Swap
  <2>1. /\ batch = <<>> /\ copy = <<>> /\ copy' = <<>> /\ batch' = queue /\ queue' = <<>>
        /\ UNCHANGED <<out, strays, hourly, daily>>
    BY <1>1, <1>3 DEF Swap, bidVars, history, TypeOK
  <2>2. One(Held(K)) = 0 /\ One(Held(K)') = 0 /\ Met(fru.period, k)' = Met(fru.period, k)
    BY <2>1 DEF Held, One, Met
  <2>3. Taken(Met(fru.period, k)', out', queue', batch', K)
            = Taken(Met(fru.period, k), out, queue, batch, K)
    <3>1. Among(queue, K) \in Nat /\ SumFunctionOnSet(out, K) \in Nat /\ Met(fru.period, k) \in Nat
      BY <1>1, TakenType DEF TypeOK, Met
    <3>2. Among(<<>>, K) = 0
      BY AmongNone
    <3> QED
      BY <2>1, <2>2, <3>1, <3>2 DEF Taken
  <2> QED
    BY <1>1, <2>1, <2>2, <2>3, RoomIs
<1>4. CASE UNCHANGED <<out, queue, batch, copy, strays, hourly, daily>>
  <2>1. Held(K)' = Held(K) /\ Met(fru.period, k)' = Met(fru.period, k)
    BY <1>4 DEF Held, Met
  <2>2. Taken(Met(fru.period, k)', out', queue', batch', K)
            = Taken(Met(fru.period, k), out, queue, batch, K)
    BY <1>4, <2>1
  <2> QED
    BY <1>1, <1>4, <2>1, <2>2, RoomIs
<1>5. CASE Replicate
  BY <1>4, <1>5 DEF Replicate, bidVars, history
<1>6. CASE UNCHANGED vars
  BY <1>4, <1>6 DEF vars, bidVars, history
<1>7. CASE Read
  BY <1>1, <1>7, ReadRoom
<1>8. CASE Write
  BY <1>1, <1>8, WriteRoom
<1>9. ASSUME NEW j \in Mapids, Bid(j)
      PROVE  RoomLeft(m)'
  BY <1>1, <1>9, BidRoom
<1>10. ASSUME NEW j \in Mapids, Impression(j) \/ Stray(j)
       PROVE  RoomLeft(m)'
  BY <1>1, <1>10, NoticeRoom
<1> QED
  BY <1>1, <1>2, <1>3, <1>5, <1>6, <1>7, <1>8, <1>9, <1>10, CalmSteps

LEMMA NextBounded == CapBounded /\ [Next]_vars => CapBounded'
<1> SUFFICES ASSUME CapBounded, [Next]_vars PROVE CapBounded'
  OBVIOUS
<1>1. CountsBacked' /\ RecordExact'
  BY NextBacked, NextExact DEF CapBounded
<1>2. ASSUME Undisturbed'
      PROVE  Near' /\ \A m \in Mapids : Limited(m)' => ViewBehind(m)' /\ RoomLeft(m)'
  <2>1. ver' = ver
    BY <1>2, CalmSteps DEF CapBounded, RecordExact
  <2>2. \A m \in Mapids : Limited(m)' => Limited(m)
    BY <2>1, SameSettings
  <2>3. \A m \in Mapids : Limited(m) => RoomLeft(m)'
    BY <1>2, NextRoom
  <2> QED
    BY <1>2, <2>2, <2>3, NextView
<1> QED
  BY <1>1, <1>2 DEF CapBounded, Near

LEMMA InitBounded == Init => CapBounded
<1> SUFFICES ASSUME Init PROVE CapBounded
  OBVIOUS
<1>1. CountsBacked /\ RecordExact /\ TypeOK
  BY InitBacked, InitExact, InitType
<1>2. /\ lag = <<>> /\ copy = <<>> /\ queue = <<>> /\ batch = <<>> /\ strays = 0
      /\ master = slave /\ hourly = Zero /\ daily = Zero
      /\ \A j \in Mapids : out[j] = 0
  BY DEF Init, Zero
<1>3. ASSUME Undisturbed, NEW m \in Mapids, Limited(m)
      PROVE  ViewBehind(m) /\ RoomLeft(m)
  <2>1. ViewBehind(m)
    <3>1. Exact(Content(slave))
      BY <1>1, <1>2, <1>3 DEF RecordExact
    <3> QED
      BY <1>1, <1>3, <3>1, ExactView
  <2>2. RoomLeft(m)
    <3> DEFINE fru == FruOf("bidder", m)
               k == Key(fru, m)
               K == Sharing(m)
    <3>1. k \in Keys
      BY KeyType
    <3>2. Met(fru.period, k) = 0
      BY <1>2, <3>1 DEF Met, Zero
    <3>3. SumFunctionOnSet(out, K) = 0
      <4>1. K \subseteq Mapids
        BY DEF Sharing
      <4>2. IsFiniteSet(K) /\ \A j \in K : out[j] = 0
        BY <1>2, <4>1, CappingAssumption, FS_Subset
      <4> HIDE DEF K
      <4> QED
        BY <4>2, SumZero
    <3>4. Among(queue, K) = 0 /\ Among(batch, K) = 0
      BY <1>2, AmongNone
    <3>5. Max({1, Limit(fru, m)}) \in Nat \ {0} /\ MaxOut \in Nat
      BY <1>1, <1>3, LimitedType, CappingAssumption
    <3> HIDE DEF fru, k, K
    <3>6. ASSUME NEW M \in Nat \ {0}
          PROVE  0 + 0 + 0 + 0 < M + MaxOut + 0 + 0
      BY <3>5
    <3>7. ~Held(K)
      BY <1>2 DEF Held
    <3>8. Met(fru.period, k) + SumFunctionOnSet(out, K) + Among(queue, K) + Among(batch, K)
              < Max({1, Limit(fru, m)}) + MaxOut + strays + (IF Held(K) THEN 1 ELSE 0)
      BY <1>2, <3>2, <3>3, <3>4, <3>5, <3>6, <3>7
    <3> QED
      BY <3>8 DEF RoomLeft, fru, k, K
  <2> QED
    BY <2>1, <2>2
<1> QED
  BY <1>1, <1>2, <1>3 DEF CapBounded

LEMMA BoundedMeansRespected == CapBounded => CapRespected
<1> SUFFICES ASSUME CapBounded, NEW m \in Mapids, Undisturbed, Limited(m),
                    NEW fru, fru = FruOf("bidder", m)
             PROVE  Met(fru.period, Key(fru, m)) < Max({1, Limit(fru, m)}) + MaxOut + strays
  BY DEF CapRespected
<1> DEFINE n == Met(fru.period, Key(fru, m))
           M == Max({1, Limit(fru, m)})
           K == Sharing(m)
           S == SumFunctionOnSet(out, K)
           q == Among(queue, K)
           b == Among(batch, K)
<1>1. TypeOK /\ RoomLeft(m)
  BY DEF CapBounded, RecordExact
<1>2. n + S + q + b < M + MaxOut + strays + (IF Held(K) THEN 1 ELSE 0)
  BY <1>1 DEF RoomLeft
<1>3. n \in Nat /\ M \in Nat
  BY <1>1, LimitedType
<1>4. S \in Nat /\ q \in Nat /\ b \in Nat /\ strays \in Nat /\ MaxOut \in Nat
  <2>1. K \in SUBSET Mapids
    BY DEF Sharing
  <2>2. /\ out \in [Mapids -> Nat] /\ queue \in Seq(Item) /\ batch \in Seq(Item)
        /\ strays \in Nat /\ MaxOut \in Nat
    BY <1>1, CappingAssumption DEF TypeOK
  <2> HIDE DEF K
  <2> QED
    BY <2>1, <2>2, TakenType
<1>5. Held(K) => b >= 1
  <2> SUFFICES ASSUME Held(K) PROVE b >= 1
    OBVIOUS
  <2>1. batch \in Seq(Item) /\ batch # <<>> /\ Head(batch).mapid \in K
    BY <1>1 DEF Held, TypeOK
  <2>2. b = Among(Tail(batch), K) + 1
    BY <2>1, AmongTail DEF One
  <2>3. Among(Tail(batch), K) \in Nat
    <3>1. Tail(batch) \in Seq(Item)
      BY <2>1
    <3> QED
      BY <3>1, AmongIs
  <2> HIDE DEF b
  <2> QED
    BY <2>2, <2>3
<1> HIDE DEF n, M, K, S, q, b
<1>6. n < M + MaxOut + strays
  BY <1>2, <1>3, <1>4, <1>5
<1> QED
  BY <1>6 DEF n, M

\* A device is shown a creative at most as often as its limit says, and once
\* more for every bid but the last that the bidder's record does not show yet
\* and for every notice without a bid: filter_creative and
\* UserRestrictionCount together keep the limit, for any groups, limits,
\* clock and bounds.
THEOREM CapIsRespected == Spec => []CapRespected
BY InitBounded, NextBounded, BoundedMeansRespected, PTL DEF Spec
-----------------------------------------------------------------------------
(* A creative held back stays held back                                    *)

\* A count of this period that has reached its limit holds the creative back in
\* the next state too, while the period lasts.
LEMMA FullStays ==
    ASSUME TypeOK', NEW fru \in Fru, fru.period = "hour" => hour' = hour,
           NEW m \in Mapids, ~Unlisted(fru, m),
           NEW c, c[Key(fru, m)] # None,
           c[Key(fru, m)].start = (IF fru.period = "hour" THEN hour ELSE 0),
           c[Key(fru, m)].imp >= Limit(fru, m)
    PROVE  Capped(c, fru, m)'
<1> DEFINE e == c[Key(fru, m)]
<1>1. /\ sec' \in Nat /\ hour' \in Nat /\ hour' <= sec' /\ sec' < hour' + PERHOUR
      /\ sec' < DAYSECOND /\ PERHOUR \in Nat /\ DAYSECOND \in Nat
  BY CappingAssumption DEF TypeOK
<1>2. Elapsed(e.start)' = IF sec' >= e.start THEN sec' - e.start ELSE sec' - e.start + UINT32
  BY DEF Elapsed
<1>3. Elapsed(e.start)' < PERIOD_TIME(fru.period)
  <2>1. CASE fru.period = "hour"
    BY <1>1, <1>2, <2>1 DEF PERIOD_TIME
  <2>2. CASE fru.period # "hour"
    BY <1>1, <1>2, <2>2 DEF PERIOD_TIME
  <2> QED
    BY <2>1, <2>2
<1>4. Known(c, GroupOf[m])
  BY KeyType DEF Known
<1>5. Full(e, fru, m)'
  BY <1>3 DEF Full
<1> QED
  BY <1>4, <1>5 DEF Capped

\* What the bidder's record says of a creative it holds back.
LEMMA CappedIs ==
    ASSUME TypeOK, NEW m \in Mapids, Limited(m), ViewBehind(m),
           NEW fru, fru = FruOf("bidder", m), NEW k, k = Key(fru, m),
           NEW e, e = Content(slave)[k], NEW l, l = Limit(fru, m),
           Capped(Content(slave), fru, m)
    PROVE  /\ e # None /\ e.imp >= l
           /\ e.start = (IF fru.period = "hour" THEN hour ELSE 0)
           /\ Met(fru.period, k) \in Nat \ {0}
           /\ Min({Met(fru.period, k), Max({1, l})}) >= l
<1> DEFINE M == Max({1, l})
           n == Met(fru.period, k)
<1>1. /\ fru \in Fru /\ l \in Nat /\ M \in Nat \ {0} /\ n \in Nat /\ M >= l /\ k \in Keys
  BY LimitedType, MaxOne
<1>2. e # None /\ e.imp >= l /\ Elapsed(e.start) < PERIOD_TIME(fru.period) /\ e \in Entry
  <2>1. Content(slave) \in Counts
    BY ContentType DEF TypeOK
  <2> QED
    BY <1>1, <2>1 DEF Capped, Full, Counts
<1>3. PICK v \in 0..n : EntryExact(e, fru, m, v, hour)
  BY DEF ViewBehind
<1>4. e.start \in Nat
  BY <1>2 DEF Entry
<1> HIDE DEF M, n
<1>5. v > 0
  <2> SUFFICES ASSUME ~(v > 0) PROVE FALSE
    OBVIOUS
  <2>1. fru.period = "hour" /\ e.start + PERHOUR <= hour
    BY <1>2, <1>3 DEF EntryExact
  <2>2. Elapsed(e.start) >= PERIOD_TIME(fru.period)
    BY <1>1, <1>4, <2>1, PeriodTimes
  <2>3. Elapsed(e.start) \in Int /\ PERIOD_TIME(fru.period) \in Int
    BY <1>4, CappingAssumption DEF Elapsed, PERIOD_TIME, TypeOK
  <2> QED
    BY <1>2, <2>2, <2>3
<1>6. /\ e.start = (IF fru.period = "hour" THEN hour ELSE 0)
      /\ e.imp = Min({v, M})
  BY <1>3, <1>5 DEF EntryExact, M
<1>7. v \in Nat /\ v <= n /\ n \in Nat \ {0}
  BY <1>1, <1>3, <1>5
<1>8. Min({v, M}) = (IF v <= M THEN v ELSE M) /\ Min({n, M}) = (IF n <= M THEN n ELSE M)
  BY <1>1, <1>7, MinOfTwo
<1>9. Min({n, M}) >= l
  BY <1>1, <1>2, <1>6, <1>7, <1>8
<1> QED
  BY <1>2, <1>6, <1>7, <1>9 DEF M, n

\* The bidder's gate on a creative stays closed for the period: what is replicated
\* next is the exact record of no fewer impressions, and a full entry is ignored,
\* not counted anew.
THEOREM CapStays == Spec => CappedStays
<1> DEFINE Stays ==
        \A m \in Mapids :
          LET fru == FruOf("bidder", m)
          IN  /\ Undisturbed' /\ day' = day /\ (fru.period = "hour" => hour' = hour)
              /\ fru.type # "infinity" /\ Capped(Content(slave), fru, m)
              => Capped(Content(slave), fru, m)'
<1>1. CapBounded /\ [Next]_vars => [Stays]_vars
  <2> SUFFICES ASSUME CapBounded, [Next]_vars, Undisturbed', day' = day,
                      NEW m \in Mapids, NEW fru, fru = FruOf("bidder", m),
                      fru.period = "hour" => hour' = hour,
                      fru.type # "infinity", Capped(Content(slave), fru, m)
               PROVE  Capped(Content(slave), FruOf("bidder", m), m)'
    OBVIOUS
  <2>1. /\ TypeOK /\ TypeOK' /\ Undisturbed /\ ver' = ver /\ RecordExact /\ RecordExact' /\ Near
    BY NextType, NextExact, CalmSteps DEF CapBounded, RecordExact, Near
  <2>2. Limited(m) /\ ViewBehind(m) /\ ~Unlisted(fru, m)
    <3>1. Limited(m) /\ ~Unlisted(fru, m)
      BY DEF Capped, Limited
    <3> QED
      BY <2>1, <3>1 DEF CapBounded
  <2>3. FruOf("bidder", m)' = fru /\ fru \in Fru
    BY <2>1, <2>2, SameSettings, LimitedType
  <2> SUFFICES ASSUME NEW c, c = Content(slave)' PROVE Capped(c, fru, m)'
    BY <2>3
  <2> DEFINE k == Key(fru, m)
             e == Content(slave)[k]
             l == Limit(fru, m)
             n == Met(fru.period, k)
  <2>4. /\ e # None /\ e.imp >= l /\ e.start = (IF fru.period = "hour" THEN hour ELSE 0)
        /\ n \in Nat \ {0} /\ Min({n, Max({1, l})}) >= l
    BY <2>1, <2>2, CappedIs
  <2>5. CASE slave' = slave
    <3>1. c = Content(slave)
      BY <2>5 DEF Content
    <3> QED
      BY <2>1, <2>2, <2>3, <2>4, <3>1, FullStays
  <2>6. CASE Replicate
    <3>1. copy' = <<>> /\ lag' = <<>> /\ UNCHANGED <<hour, hourly, daily>>
      <4>1. copy' = <<>> /\ lag' = Tail(lag) /\ Len(lag) = 1 /\ lag \in Seq(Record)
        BY <2>1, <2>6 DEF Replicate, Near, TypeOK
      <4>2. lag' = <<>>
        BY <4>1
      <4> QED
        BY <2>6, <4>1, <4>2 DEF Replicate, clock, history
    <3>2. Exact(Content(slave))'
      <4>1. ExactRedis' /\ ExactCounts'
        BY <2>1, ExactParts
      <4> QED
        BY <3>1, <4>1 DEF ExactRedis, ExactCounts, Exact, Content
    <3>3. EntryExact(c[k], fru, m, n, hour)
      <4>1. Limited(m)'
        BY <2>1, <2>2, SameSettings
      <4>2. Met(fru.period, k)' = n /\ hour' = hour
        BY <3>1 DEF Met
      <4> QED
        BY <2>3, <3>2, <4>1, <4>2 DEF Exact
    <3>4. /\ c[k] # None /\ c[k].start = (IF fru.period = "hour" THEN hour ELSE 0)
          /\ c[k].imp >= l
      BY <2>4, <3>3 DEF EntryExact
    <3> QED
      BY <2>1, <2>2, <2>3, <3>4, FullStays
  <2>7. slave' = slave \/ Replicate
    BY <2>1, CalmSteps DEF Tick, Swap, Read, Write, Bid, Impression, Stray, vars, redisVars
  <2> QED
    BY <2>5, <2>6, <2>7
<1> QED
  BY <1>1, InitBounded, NextBounded, PTL DEF Spec, CappedStays
=============================================================================
