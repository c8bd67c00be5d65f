-------------------------- MODULE CacheBufferProofs --------------------------
(* Theorems about CacheBuffer, for any groups, readers, lifetime, length of
   the day, faults and bounds.                                             *)
EXTENDS CacheBuffer, TLAPS

-----------------------------------------------------------------------------
(* Seconds of the day *)

LEMMA DayType ==
    /\ DAYSECOND \in Nat \ {0} /\ LIFEGROUP \in Nat /\ LIFEGROUP < DAYSECOND
    /\ UINT32 \in Nat /\ UINT32 >= DAYSECOND + LIFEGROUP
    /\ \A n \in Nat : n % DAYSECOND \in 0..DAYSECOND-1
BY CacheAssumption

\* Within a day the age of an entry is the time since it was loaded.
LEMMA AgeInDay ==
    ASSUME NEW m \in Nat, NEW n \in Nat, m <= n, m \div DAYSECOND = n \div DAYSECOND
    PROVE  ((n % DAYSECOND) - (m % DAYSECOND)) % UINT32 = n - m
<1> DEFINE d == DAYSECOND
           q == n \div DAYSECOND
<1>1. d \in Nat \ {0} /\ UINT32 \in Nat /\ UINT32 >= d
  BY DayType
<1>2. n = d * q + (n % d) /\ m = d * q + (m % d) /\ q \in Nat
  BY <1>1
<1>3. n % d \in 0..d-1 /\ m % d \in 0..d-1
  BY DayType
<1>4. (n % d) - (m % d) = n - m
  <2> DEFINE x == d * q
  <2>1. x \in Nat
    BY <1>1, <1>2
  <2> HIDE DEF q, d
  <2> QED
    BY <1>2, <1>3, <2>1
<1>5. n - m \in 0..UINT32-1
  BY <1>1, <1>3, <1>4
<1>6. (n - m) % UINT32 = n - m
  <2> DEFINE y == n - m
             u == UINT32
  <2>1. y \in 0..u-1 /\ u \in Nat \ {0}
    BY <1>1, <1>5
  <2> HIDE DEF y, u
  <2>2. y % u = y
    BY <2>1
  <2> QED
    BY <2>2 DEF y, u
<1> QED
  BY <1>4, <1>6

\* A day that is over stays over.
LEMMA DayOver ==
    ASSUME NEW l \in Nat, NEW n \in Nat, l <= n, l \div DAYSECOND # n \div DAYSECOND
    PROVE  (n + 1) \div DAYSECOND # l \div DAYSECOND
<1> DEFINE d == DAYSECOND
           q == n \div d
           p == l \div d
           r == (n + 1) \div d
<1>1. d \in Nat \ {0}
  BY DayType
<1>2. /\ q \in Nat /\ p \in Nat /\ r \in Nat
      /\ d * q <= n /\ n < d * q + d
      /\ d * p <= l /\ l < d * p + d
      /\ d * r <= n + 1 /\ n + 1 < d * r + d
  BY <1>1
<1>3. p < q
  <2> SUFFICES ASSUME p >= q + 1 PROVE FALSE
    BY <1>2
  <2> HIDE DEF p, q, d
  <2>1. d * p >= d * (q + 1) /\ d * (q + 1) = d * q + d
    BY <1>1, <1>2
  <2> QED
    BY <1>1, <1>2, <2>1
<1>4. r # p
  <2> SUFFICES ASSUME r = p PROVE FALSE
    OBVIOUS
  <2> HIDE DEF p, q, d, r
  <2>1. d * q >= d * (p + 1) /\ d * (p + 1) = d * p + d
    BY <1>1, <1>2, <1>3
  <2> QED
    BY <1>1, <1>2, <2>1
<1> QED
  BY <1>4

-----------------------------------------------------------------------------
(* Type correctness *)

LEMMA NextIs ==
    ASSUME ext \in {0, 1}
    PROVE  next \in {0, 1} /\ next # ext /\ {0, 1} = {ext, next} /\ 1 - next = ext
BY DEF next

LEMMA NowType == TypeOK => now \in Nat /\ Time_now \in Entry /\ 0 \in Entry
<1> SUFFICES ASSUME TypeOK PROVE now \in Nat /\ Time_now \in Entry /\ 0 \in Entry
  OBVIOUS
<1>1. now \in Nat
  BY CacheAssumption DEF TypeOK, Time
<1> QED
  BY <1>1, DayType DEF Time_now, Entry

LEMMA InitType == Init => TypeOK
<1> SUFFICES ASSUME Init PROVE TypeOK
  OBVIOUS
<1>1. 0 \in Time /\ 0 \in 0..MaxNews /\ 0 \in Entry
  BY CacheAssumption, DayType DEF Time, Entry
<1>2. addr \in [{0, 1} -> [Groups -> Entry]] /\ cache \in [Groups -> Entry]
  BY <1>1 DEF Init, Entry, Empty
<1>3. loaded \in [Groups -> History]
  BY <1>1 DEF Init, History
<1>4. begun \in [{0, 1} -> Time] /\ merged \in [{0, 1} -> History]
  BY <1>1 DEF Init, History
<1> QED
  BY <1>1, <1>2, <1>3, <1>4 DEF Init, TypeOK

LEMMA NextType == TypeOK /\ [Next]_vars => TypeOK'
<1> SUFFICES ASSUME TypeOK, [Next]_vars PROVE TypeOK'
  OBVIOUS
<1>1. ext \in {0, 1} /\ next \in {0, 1} /\ now \in Time /\ Time_now \in Entry
  BY NextIs, NowType DEF TypeOK
<1>2. CASE Tick
  <2>1. now' \in Time
    BY <1>1, <1>2, CacheAssumption DEF Tick, Time
  <2> QED
    BY <1>2, <2>1 DEF Tick, TypeOK, thread, users, history
<1>3. CASE News
  <2>1. news' \in 0..MaxNews
    BY <1>3, CacheAssumption DEF News, TypeOK
  <2> QED
    BY <1>3, <2>1 DEF News, TypeOK, thread, users, history
<1>4. CASE Clear
  <2>1. Empty \in [Groups -> Entry]
    BY DEF Empty, Entry
  <2> QED
    BY <1>1, <1>4, <2>1 DEF Clear, TypeOK, world, users
<1>5. CASE NoConnection
  BY <1>5 DEF NoConnection, TypeOK, world, users, history
<1>6. ASSUME NEW g \in Groups, Load(g) PROVE TypeOK'
  <2>1. now \in History
    BY <1>1 DEF History
  <2>2. addr' \in [{0, 1} -> [Groups -> Entry]] /\ loaded' \in [Groups -> History]
    <3> HIDE DEF Entry, next
    <3> QED
      BY <1>1, <1>6, <2>1 DEF Load, TypeOK
  <2> QED
    BY <1>6, <2>2 DEF Load, TypeOK, world, users
<1>7. ASSUME NEW g \in Groups, LoadNothing(g) PROVE TypeOK'
  BY <1>7 DEF LoadNothing, TypeOK, world, users, history
<1>8. CASE Complete
  <2> DEFINE b == [g \in Groups |->
                      IF addr[next][g] = None /\ cache[g] # None /\ Age(cache[g]) < LIFEGROUP
                      THEN cache[g] ELSE addr[next][g]]
  <2>1. b \in [Groups -> Entry]
    BY <1>1 DEF TypeOK
  <2>2. addr' = [addr EXCEPT ![next] = b] /\ cache' = addr'[next]
    BY <1>8 DEF Complete, Merge
  <2> HIDE DEF b
  <2>3. addr' \in [{0, 1} -> [Groups -> Entry]]
    BY <2>1, <2>2 DEF TypeOK
  <2>4. cache' \in [Groups -> Entry]
    BY <1>1, <2>2, <2>3
  <2>5. merged' \in [{0, 1} -> History]
    BY <1>1, <1>8 DEF Complete, TypeOK, History
  <2> QED
    BY <1>8, <2>3, <2>4, <2>5 DEF Complete, TypeOK, world, users
<1>9. CASE Publish
  BY <1>1, <1>9 DEF Publish, TypeOK, world, users, history
<1>10. CASE Wake
  BY <1>10 DEF Wake, TypeOK, world, users, history
<1>11. ASSUME NEW r \in Readers, Acquire(r) PROVE TypeOK'
  BY <1>1, <1>11 DEF Acquire, TypeOK, world, thread, history
<1>12. ASSUME NEW r \in Readers, Release(r) PROVE TypeOK'
  BY <1>12 DEF Release, TypeOK, world, thread, history
<1>13. CASE UNCHANGED vars
  BY <1>13 DEF vars, TypeOK, world, thread, users, history
<1> QED
  BY <1>2, <1>3, <1>4, <1>5, <1>6, <1>7, <1>8, <1>9, <1>10, <1>11, <1>12, <1>13 DEF Next

\* Every variable keeps its type; an entry is a second of the day.
THEOREM TypeCorrect == Spec => []TypeOK
BY InitType, NextType, PTL DEF Spec
-----------------------------------------------------------------------------
(* What the steps change of what the properties look at                    *)

\* News, a reader's steps, Wake, and a group that cannot be loaded.
Idle ==
    /\ UNCHANGED <<now, addr, cache, ext, g_context, begun, merged, loaded>>
    /\ pc' = pc \/ (pc = "sleep" /\ pc' = "wake")

LEMMA NextSplit ==
    ASSUME [Next]_vars
    PROVE  \/ Idle \/ Tick \/ Clear \/ NoConnection \/ Complete \/ Publish
           \/ \E g \in Groups : Load(g)
<1>1. CASE News
  BY <1>1 DEF News, Idle, thread, history
<1>2. CASE Wake
  BY <1>2 DEF Wake, Idle, world, history
<1>3. CASE \E g \in Groups : LoadNothing(g)
  BY <1>3 DEF LoadNothing, Idle, world, history
<1>4. CASE \E r \in Readers : Acquire(r) \/ Release(r)
  BY <1>4 DEF Acquire, Release, Idle, world, thread, history
<1>5. CASE UNCHANGED vars
  BY <1>5 DEF vars, Idle, world, thread, history
<1> QED
  BY <1>1, <1>2, <1>3, <1>4, <1>5 DEF Next

LEMMA LoadIs ==
    ASSUME TypeOK, NEW g \in Groups, Load(g)
    PROVE  /\ pc = "load" /\ pc' = "load"
           /\ UNCHANGED <<now, cache, ext, g_context, begun, merged>>
           /\ addr'[ext] = addr[ext]
           /\ \A f \in Groups : addr'[next][f] = IF f = g THEN Time_now ELSE addr[next][f]
           /\ \A f \in Groups : loaded'[f] = IF f = g THEN now ELSE loaded[f]
BY NextIs DEF Load, TypeOK, world

LEMMA ClearIs ==
    ASSUME TypeOK, Clear
    PROVE  /\ pc = "wake" /\ pc' = "load"
           /\ UNCHANGED <<now, cache, ext, merged, loaded>>
           /\ addr'[ext] = addr[ext] /\ \A g \in Groups : addr'[next][g] = None
           /\ begun'[ext] = begun[ext] /\ begun'[next] = now
BY NextIs DEF Clear, TypeOK, world, Empty

Kept(g) == addr[next][g] = None /\ cache[g] # None /\ Age(cache[g]) < LIFEGROUP

LEMMA CompleteIs ==
    ASSUME TypeOK, Complete
    PROVE  /\ pc = "load" /\ pc' = "publish"
           /\ UNCHANGED <<now, ext, begun, loaded>>
           /\ g_context' => g_context
           /\ addr'[ext] = addr[ext] /\ merged'[ext] = merged[ext] /\ merged'[next] = now
           /\ \A g \in Groups : addr'[next][g] = IF Kept(g) THEN cache[g] ELSE addr[next][g]
           /\ \A g \in Groups : cache'[g] = addr'[next][g]
<1>1. ext \in {0, 1} /\ next \in {0, 1} /\ next # ext
  BY NextIs DEF TypeOK
<1>2. /\ pc = "load" /\ pc' = "publish"
      /\ UNCHANGED <<now, ext, begun, loaded>>
      /\ g_context' => g_context
      /\ merged' = [merged EXCEPT ![next] = now]
      /\ addr' = [addr EXCEPT ![next] =
                    [g \in Groups |-> IF @[g] = None /\ cache[g] # None /\ Age(cache[g]) < LIFEGROUP
                                      THEN cache[g] ELSE @[g]]]
      /\ cache' = addr'[next]
  BY DEF Complete, Merge, world
<1> QED
  BY <1>1, <1>2 DEF TypeOK, Kept

-----------------------------------------------------------------------------
(* The past *)

LEMMA HistoryType ==
    ASSUME TypeOK
    PROVE  /\ \A i \in {0, 1} : begun[i] \in Nat /\ merged[i] \in Nat \cup {None}
           /\ \A g \in Groups : loaded[g] \in Nat \cup {None}
           /\ None \notin Nat
BY CacheAssumption DEF TypeOK, History, Time

LEMMA NextPast == TypeOK /\ Past /\ [Next]_vars => Past'
<1> SUFFICES ASSUME TypeOK, Past, [Next]_vars PROVE Past'
  OBVIOUS
<1>1. now \in Nat /\ {0, 1} = {ext, next}
  BY NowType, NextIs DEF TypeOK
<1>2. CASE Idle
  BY <1>2 DEF Idle, Past
<1>3. CASE Tick
  <2>1. now' = now + 1 /\ UNCHANGED <<begun, merged, loaded>>
    BY <1>3 DEF Tick, history
  <2> QED
    BY <1>1, <2>1, HistoryType DEF Past
<1>4. CASE Clear
  BY <1>1, <1>4, ClearIs DEF Past
<1>5. CASE NoConnection \/ Publish
  BY <1>5 DEF NoConnection, Publish, world, history, Past
<1>6. ASSUME NEW g \in Groups, Load(g) PROVE Past'
  BY <1>1, <1>6, LoadIs DEF Past
<1>7. CASE Complete
  BY <1>1, <1>7, CompleteIs DEF Past
<1> QED
  BY <1>2, <1>3, <1>4, <1>5, <1>6, <1>7, NextSplit

-----------------------------------------------------------------------------
(* The newest buffer is the one readers are given                          *)

LEMMA NextNewest ==
    TypeOK /\ Past /\ NewestNext /\ NewestPublished /\ [Next]_vars
        => NewestNext' /\ NewestPublished'
<1> SUFFICES ASSUME TypeOK, Past, NewestNext, NewestPublished, [Next]_vars
             PROVE  NewestNext' /\ NewestPublished'
  OBVIOUS
<1>1. now \in Nat /\ ext \in {0, 1} /\ next \in {0, 1} /\ 1 - next = ext /\ None \notin Nat
  BY NowType, NextIs, HistoryType DEF TypeOK
<1>2. CASE Idle
  BY <1>2 DEF Idle, NewestNext, NewestPublished, next
<1>3. CASE Tick
  BY <1>3 DEF Tick, thread, history, NewestNext, NewestPublished, next
<1>4. CASE Clear
  BY <1>4, ClearIs DEF NewestNext, NewestPublished
<1>5. CASE NoConnection
  BY <1>5 DEF NoConnection, NewestNext, NewestPublished
<1>6. CASE \E g \in Groups : Load(g)
  BY <1>6, LoadIs DEF NewestNext, NewestPublished
<1>7. CASE Complete
  <2>1. next' = next
    BY <1>7, CompleteIs DEF next
  <2>2. merged'[next] = now /\ merged'[ext] = merged[ext] /\ ext' = ext /\ pc' = "publish"
    BY <1>7, CompleteIs
  <2>3. merged[ext] = None \/ now >= merged[ext]
    BY <1>1 DEF Past
  <2> QED
    BY <1>1, <2>1, <2>2, <2>3 DEF NewestNext, NewestPublished
<1>8. CASE Publish
  <2>1. pc = "publish" /\ pc' = "sleep" /\ ext' = next /\ UNCHANGED <<merged, g_context>>
    BY <1>8 DEF Publish, history
  <2>2. next' = ext
    BY <1>1, <2>1 DEF next
  <2> QED
    BY <2>1, <2>2 DEF NewestNext, NewestPublished
<1> QED
  BY <1>2, <1>3, <1>4, <1>5, <1>6, <1>7, <1>8, NextSplit

-----------------------------------------------------------------------------
(* What the buffers and the private copy hold                              *)

LEMMA NextFilled == TypeOK /\ Filled /\ CopySound /\ [Next]_vars => Filled'
<1> SUFFICES ASSUME TypeOK, Filled, CopySound, [Next]_vars PROVE Filled'
  OBVIOUS
<1>1. /\ now \in Nat /\ None \notin Nat
      /\ ext \in {0, 1} /\ next \in {0, 1} /\ next # ext /\ {0, 1} = {ext, next}
  BY NowType, NextIs, HistoryType DEF TypeOK
<1>2. CASE Idle
  BY <1>2 DEF Idle, Filled, Whole, next
<1>3. CASE Tick
  BY <1>3 DEF Tick, thread, history, Filled, Whole, next
<1>4. CASE Clear
  <2>1. next' = next
    BY <1>4, ClearIs DEF next
  <2> QED
    BY <1>1, <1>4, <2>1, ClearIs DEF Filled, Whole
<1>5. CASE NoConnection
  BY <1>5 DEF NoConnection, world, history, Filled, Whole, next
<1>6. ASSUME NEW g \in Groups, Load(g) PROVE Filled'
  <2>1. next' = next
    BY <1>6, LoadIs DEF next
  <2> QED
    BY <1>1, <1>6, <2>1, LoadIs DEF Filled, Whole
<1>7. CASE Complete
  <2>1. next' = next
    BY <1>7, CompleteIs DEF next
  <2>2. \A g \in Groups : Kept(g) => loaded[g] # None
    BY <1>7, CompleteIs DEF Kept, CopySound
  <2> QED
    BY <1>1, <1>7, <2>1, <2>2, CompleteIs DEF Filled, Whole
<1>8. CASE Publish
  BY <1>8 DEF Publish, world, history, Filled, Whole, next
<1> QED
  BY <1>2, <1>3, <1>4, <1>5, <1>6, <1>7, <1>8, NextSplit

LEMMA NextFillSound == TypeOK /\ Past /\ FillSound /\ [Next]_vars => FillSound'
<1> SUFFICES ASSUME TypeOK, Past, FillSound, [Next]_vars PROVE FillSound'
  OBVIOUS
<1>1. now \in Nat /\ next \in {0, 1}
  BY NowType, NextIs DEF TypeOK
<1>2. CASE Idle
  BY <1>2 DEF Idle, FillSound, next
<1>3. CASE Tick
  BY <1>3 DEF Tick, thread, history, FillSound, next
<1>4. CASE Clear
  <2>1. next' = next
    BY <1>4, ClearIs DEF next
  <2> QED
    BY <1>4, <2>1, ClearIs DEF FillSound
<1>5. CASE NoConnection \/ Complete \/ Publish
  BY <1>5 DEF NoConnection, Complete, Publish, FillSound
<1>6. ASSUME NEW g \in Groups, Load(g) PROVE FillSound'
  <2>1. next' = next
    BY <1>6, LoadIs DEF next
  <2>2. now >= begun[next]
    BY <1>1, HistoryType DEF Past
  <2> QED
    BY <1>6, <2>1, <2>2, LoadIs DEF FillSound, Time_now
<1> QED
  BY <1>2, <1>3, <1>4, <1>5, <1>6, NextSplit

LEMMA ExpiredStays ==
    ASSUME TypeOK, Past, Tick, NEW g \in Groups, loaded[g] # None, Expired(g)
    PROVE  Expired(g)'
<1>1. /\ now \in Nat /\ loaded[g] \in Nat /\ loaded[g] <= now
      /\ now' = now + 1 /\ loaded' = loaded /\ LIFEGROUP \in Nat
  BY NowType, HistoryType, DayType DEF Past, Tick, history
<1>2. CASE now - loaded[g] >= LIFEGROUP
  BY <1>1, <1>2 DEF Expired
<1>3. CASE now \div DAYSECOND # loaded[g] \div DAYSECOND
  BY <1>1, <1>3, DayOver DEF Expired
<1> QED
  BY <1>2, <1>3 DEF Expired

\* An entry of the private copy, of this day, is as old as its last loading.
LEMMA CopyAge ==
    ASSUME TypeOK, Past, CopySound, pc = "load", NEW g \in Groups,
           addr[next][g] = None, cache[g] # None
    PROVE  /\ loaded[g] # None /\ loaded[g] \in Nat /\ cache[g] = loaded[g] % DAYSECOND
           /\ loaded[g] <= now
           /\ now \div DAYSECOND = loaded[g] \div DAYSECOND => Age(cache[g]) = now - loaded[g]
<1>1. loaded[g] # None /\ cache[g] = loaded[g] % DAYSECOND
  BY DEF CopySound
<1>2. loaded[g] \in Nat /\ loaded[g] <= now /\ now \in Nat
  BY <1>1, NowType, HistoryType DEF Past
<1> QED
  BY <1>1, <1>2, AgeInDay DEF Age, Time_now

LEMMA NextCopySound ==
    TypeOK /\ Past /\ Filled /\ FillSound /\ CopySound /\ [Next]_vars => CopySound'
<1> SUFFICES ASSUME TypeOK, Past, Filled, FillSound, CopySound, [Next]_vars PROVE CopySound'
  OBVIOUS
<1>1. now \in Nat /\ next \in {0, 1} /\ LIFEGROUP \in Nat
  BY NowType, NextIs, DayType DEF TypeOK
<1>2. CASE Idle
  BY <1>2 DEF Idle, CopySound, Expired, next
<1>3. CASE Tick
  <2>1. UNCHANGED <<pc, addr, ext, cache, loaded>>
    BY <1>3 DEF Tick, thread, history
  <2>2. ASSUME NEW g \in Groups, pc # "load" \/ addr[next][g] = None
        PROVE  /\ cache[g] # None => loaded[g] # None /\ cache[g] = loaded[g] % DAYSECOND
               /\ cache[g] = None /\ loaded[g] # None => Expired(g)'
    BY <1>3, <2>2, ExpiredStays DEF CopySound
  <2> QED
    BY <2>1, <2>2 DEF CopySound, next
<1>4. CASE Clear
  BY <1>4, ClearIs DEF CopySound, Expired
<1>5. CASE NoConnection \/ Publish
  BY <1>5 DEF NoConnection, Publish, world, history, CopySound, Expired
<1>6. ASSUME NEW g \in Groups, Load(g) PROVE CopySound'
  <2>1. next' = next
    BY <1>6, LoadIs DEF next
  <2>2. Time_now # None
    BY NowType, HistoryType, DayType DEF Time_now
  <2> QED
    BY <1>6, <2>1, <2>2, LoadIs DEF CopySound, Expired
<1>7. CASE Complete
  <2>1. ASSUME NEW g \in Groups
        PROVE  /\ cache'[g] # None => loaded[g] # None /\ cache'[g] = loaded[g] % DAYSECOND
               /\ cache'[g] = None /\ loaded[g] # None => Expired(g)
    <3>1. pc = "load" /\ cache'[g] = IF Kept(g) THEN cache[g] ELSE addr[next][g]
      BY <1>7, CompleteIs
    <3>2. CASE addr[next][g] # None
      BY <1>1, <3>1, <3>2 DEF Kept, FillSound, Filled
    <3>3. CASE addr[next][g] = None /\ cache[g] = None
      BY <3>1, <3>3 DEF Kept, CopySound
    <3>4. CASE addr[next][g] = None /\ cache[g] # None
      <4>1. /\ loaded[g] # None /\ loaded[g] \in Nat /\ cache[g] = loaded[g] % DAYSECOND
            /\ now \div DAYSECOND = loaded[g] \div DAYSECOND => Age(cache[g]) = now - loaded[g]
        BY <3>1, <3>4, CopyAge
      <4>2. CASE Kept(g)
        BY <3>1, <3>4, <4>1, <4>2
      <4>3. CASE ~Kept(g)
        <5>1. cache'[g] = None /\ ~(Age(cache[g]) < LIFEGROUP)
          BY <3>1, <3>4, <4>3 DEF Kept
        <5>2. Expired(g)
          BY <1>1, <4>1, <5>1 DEF Expired
        <5> QED
          BY <5>1, <5>2
      <4> QED
        BY <4>2, <4>3
    <3> QED
      BY <3>2, <3>3, <3>4
  <2> QED
    BY <1>7, <2>1, CompleteIs DEF CopySound, Expired
<1> QED
  BY <1>2, <1>3, <1>4, <1>5, <1>6, <1>7, NextSplit

-----------------------------------------------------------------------------
(* Which groups a buffer holds                                             *)

Sound == TypeOK /\ Past /\ Filled /\ FillSound /\ CopySound

LEMMA NextRecent == Sound /\ RecentGroupsKept /\ [Next]_vars => RecentGroupsKept'
<1> SUFFICES ASSUME Sound, RecentGroupsKept, [Next]_vars PROVE RecentGroupsKept'
  OBVIOUS
<1>1. /\ TypeOK /\ Past /\ CopySound /\ now \in Nat /\ LIFEGROUP \in Nat
      /\ ext \in {0, 1} /\ next \in {0, 1} /\ next # ext /\ {0, 1} = {ext, next}
  BY NowType, NextIs, DayType DEF Sound, TypeOK
<1>2. CASE Idle
  BY <1>2 DEF Idle, RecentGroupsKept, Whole, Recent, SameDay, next
<1>3. CASE Tick
  BY <1>3 DEF Tick, thread, history, RecentGroupsKept, Whole, Recent, SameDay, next
<1>4. CASE Clear
  <2>1. next' = next
    BY <1>1, <1>4, ClearIs DEF next
  <2> QED
    BY <1>1, <1>4, <2>1, ClearIs DEF RecentGroupsKept, Whole, Recent, SameDay
<1>5. CASE NoConnection \/ Publish
  BY <1>5 DEF NoConnection, Publish, world, history, RecentGroupsKept, Whole, Recent, SameDay, next
<1>6. ASSUME NEW g \in Groups, Load(g) PROVE RecentGroupsKept'
  <2>1. next' = next
    BY <1>1, <1>6, LoadIs DEF next
  <2>2. merged[ext] # None => merged[ext] \in Nat /\ ~(now < merged[ext])
    BY <1>1, HistoryType DEF Past
  <2> QED
    BY <1>1, <1>6, <2>1, <2>2, LoadIs DEF RecentGroupsKept, Whole, Recent, SameDay
<1>7. CASE Complete
  <2>1. next' = next
    BY <1>1, <1>7, CompleteIs DEF next
  <2>2. ASSUME NEW g \in Groups, loaded[g] # None, now - loaded[g] < LIFEGROUP,
               loaded[g] \div DAYSECOND = now \div DAYSECOND
        PROVE  addr'[next][g] # None
    <3>1. pc = "load" /\ addr'[next][g] = IF Kept(g) THEN cache[g] ELSE addr[next][g]
      BY <1>1, <1>7, CompleteIs
    <3>2. CASE addr[next][g] # None
      BY <3>1, <3>2 DEF Kept
    <3>3. CASE addr[next][g] = None
      <4>1. loaded[g] \in Nat
        BY <1>1, <2>2, HistoryType
      <4>2. ~Expired(g)
        BY <1>1, <2>2, <4>1 DEF Expired
      <4>3. cache[g] # None
        BY <1>1, <2>2, <3>3, <4>2 DEF CopySound
      <4>4. Age(cache[g]) = now - loaded[g]
        BY <1>1, <2>2, <3>1, <3>3, <4>3, CopyAge
      <4> QED
        BY <2>2, <3>1, <3>3, <4>3, <4>4 DEF Kept
    <3> QED
      BY <3>2, <3>3
  <2> QED
    BY <1>1, <1>7, <2>1, <2>2, CompleteIs DEF RecentGroupsKept, Whole, Recent, SameDay
<1> QED
  BY <1>2, <1>3, <1>4, <1>5, <1>6, <1>7, NextSplit

LEMMA NextOld == Sound /\ OldGroupsGone /\ [Next]_vars => OldGroupsGone'
<1> SUFFICES ASSUME Sound, OldGroupsGone, [Next]_vars PROVE OldGroupsGone'
  OBVIOUS
<1>1. /\ TypeOK /\ Past /\ CopySound /\ FillSound /\ now \in Nat
      /\ ext \in {0, 1} /\ next \in {0, 1} /\ next # ext /\ {0, 1} = {ext, next}
  BY NowType, NextIs, DayType DEF Sound, TypeOK
<1>2. CASE Idle
  BY <1>2 DEF Idle, OldGroupsGone, Whole, SameDay, next
<1>3. CASE Tick
  BY <1>3 DEF Tick, thread, history, OldGroupsGone, Whole, SameDay, next
<1>4. CASE Clear
  <2>1. next' = next
    BY <1>1, <1>4, ClearIs DEF next
  <2> QED
    BY <1>1, <1>4, <2>1, ClearIs DEF OldGroupsGone, Whole, SameDay
<1>5. CASE NoConnection \/ Publish
  BY <1>5 DEF NoConnection, Publish, world, history, OldGroupsGone, Whole, SameDay, next
<1>6. ASSUME NEW g \in Groups, Load(g) PROVE OldGroupsGone'
  <2>1. next' = next
    BY <1>1, <1>6, LoadIs DEF next
  <2>2. now >= begun[ext]
    BY <1>1, HistoryType DEF Past
  <2> QED
    BY <1>1, <1>6, <2>1, <2>2, LoadIs DEF OldGroupsGone, Whole, SameDay
<1>7. CASE Complete
  <2>1. next' = next
    BY <1>1, <1>7, CompleteIs DEF next
  <2>2. ASSUME NEW g \in Groups, addr'[next][g] # None,
               loaded[g] \div DAYSECOND = now \div DAYSECOND
        PROVE  now - loaded[g] < LIFEGROUP \/ loaded[g] >= begun[next]
    <3>1. pc = "load" /\ addr'[next][g] = IF Kept(g) THEN cache[g] ELSE addr[next][g]
      BY <1>1, <1>7, CompleteIs
    <3>2. CASE addr[next][g] # None
      BY <1>1, <3>1, <3>2 DEF FillSound
    <3>3. CASE addr[next][g] = None
      <4>1. Kept(g)
        BY <2>2, <3>1, <3>3
      <4>2. Age(cache[g]) = now - loaded[g]
        BY <1>1, <2>2, <3>1, <3>3, <4>1, CopyAge DEF Kept
      <4> QED
        BY <4>1, <4>2 DEF Kept
    <3> QED
      BY <3>2, <3>3
  <2> QED
    BY <1>1, <1>7, <2>1, <2>2, CompleteIs DEF OldGroupsGone, Whole, SameDay
<1> QED
  BY <1>2, <1>3, <1>4, <1>5, <1>6, <1>7, NextSplit

-----------------------------------------------------------------------------
(* The inductive invariant                                                 *)

CacheInv == Sound /\ NewestNext /\ NewestPublished /\ RecentGroupsKept /\ OldGroupsGone

LEMMA InitCache == Init => CacheInv
<1> SUFFICES ASSUME Init PROVE CacheInv
  OBVIOUS
<1>1. TypeOK /\ None \notin Nat /\ DAYSECOND \in Nat \ {0} /\ LIFEGROUP \in Nat
  BY InitType, HistoryType, DayType
<1>2. /\ now = 0 /\ ext = 0 /\ next = 1 /\ pc = "wake" /\ loaded = addr[0] /\ cache = addr[0]
      /\ \A g \in Groups : addr[0][g] \in {0, None} /\ addr[1][g] = None
      /\ begun[0] = 0 /\ begun[1] = 0 /\ merged[0] = 0 /\ merged[1] = None
  BY DEF Init, next, Empty
<1>3. Past
  BY <1>1, <1>2 DEF Past
<1>4. Filled
  BY <1>1, <1>2 DEF Filled
<1>5. FillSound
  BY <1>2 DEF FillSound
<1>6. CopySound
  <2>1. 0 % DAYSECOND = 0
    BY <1>1
  <2> QED
    BY <1>1, <1>2, <2>1 DEF CopySound
<1>7. NewestNext /\ NewestPublished
  BY <1>2 DEF NewestNext, NewestPublished
<1>8. RecentGroupsKept
  BY <1>1, <1>2 DEF RecentGroupsKept, Recent
<1>9. OldGroupsGone
  BY <1>1, <1>2 DEF OldGroupsGone
<1> QED
  BY <1>1, <1>3, <1>4, <1>5, <1>6, <1>7, <1>8, <1>9 DEF CacheInv, Sound

LEMMA NextCache == CacheInv /\ [Next]_vars => CacheInv'
BY NextType, NextPast, NextFilled, NextFillSound, NextCopySound, NextNewest, NextRecent, NextOld
   DEF CacheInv, Sound

LEMMA CacheHolds == Spec => []CacheInv
BY InitCache, NextCache, PTL DEF Spec

\* While the connection holds, no reader is sent back to an older buffer.
THEOREM NewestIsPublished == Spec => []NewestPublished
<1>1. CacheInv => NewestPublished
  BY DEF CacheInv
<1> QED
  BY <1>1, CacheHolds, PTL

\* For any lifetime and length of the day: a group that was loaded less than the
\* lifetime before, on the same day, is in every whole buffer, over any number of
\* fillings, of lists without it and of connections lost half way.
THEOREM RecentAreKept == Spec => []RecentGroupsKept
<1>1. CacheInv => RecentGroupsKept
  BY DEF CacheInv
<1> QED
  BY <1>1, CacheHolds, PTL

\* And a group that redis does not list any more leaves the buffers when its
\* lifetime is over: copying it from buffer to buffer never renews it.
THEOREM OldAreGone == Spec => []OldGroupsGone
<1>1. CacheInv => OldGroupsGone
  BY DEF CacheInv
<1> QED
  BY <1>1, CacheHolds, PTL
=============================================================================
