---------------------------- MODULE UserCapping ----------------------------
(***************************************************************************)
(* User frequency capping: how often one device is shown the creatives of  *)
(* the groups that limit it.                                               *)
(*                                                                         *)
(* An impression notice that is not judged repeated is pushed on           *)
(* v_user_frequency with the limits of its group (check_frequency_capping).*)
(* read_write_ur swaps the vector out and, for each item, reads the record *)
(* of the device from a redis SLAVE, counts the impression in it and, as   *)
(* a whole, writes it to the MASTER with the rest of the day as its time   *)
(* to live (UserRestrictionCount).  The bidder reads the record from its   *)
(* slave before it bids (filter_creative, src/common/bid_filter.cpp).      *)
(*                                                                         *)
(* The record is dsp_user_frequency_<deviceid>.  Records of two devices    *)
(* have nothing in common, so there is one device.  A limit by group is    *)
(* kept under the groupid, a limit by creative under its mapid.            *)
(***************************************************************************)
EXTENDS Integers, Sequences, FiniteSetsExt

CONSTANTS Groups, Mapids,
          GroupOf,       \* the group of each creative
          Settings,      \* the successive limits of the groups, as a sequence
          PERHOUR, DAYSECOND,
          UINT32,        \* bound: stands for 2^32
          MaxDay,        \* bound: the clock stops at the end of this day
          MaxBids,       \* bound: bids for the device, and notices that no bid stands behind
          MaxOut,        \* bound: bids the bidder's slave does not reflect yet
          MaxStrays,     \* bound: such notices
          Faults,        \* subset of {"redisDown", "errorReply"}
          None           \* no such label; no limit

Keys == Groups \cup Mapids
Periods == {"hour", "day"}            \* RESTRICTION_PERIOD_*: all but the hour act as the day

\* FREQUENCY_RESTRICTION_USER.  first: the limit of capping.begin(), which is
\* the only one of a limit by group or of one limit for all creatives.
Fru == [type : {"infinity", "project", "creative_1", "creative_2"},
        period : Periods, first : Nat, capping : [Mapids -> Nat \cup {None}]]

ASSUME CappingAssumption ==
    /\ Groups \cap Mapids = {} /\ GroupOf \in [Mapids -> Groups] /\ IsFiniteSet(Mapids)
    /\ Settings \in Seq([Groups -> Fru]) /\ Settings # <<>>
    /\ PERHOUR \in Nat \ {0} /\ DAYSECOND \in Nat /\ PERHOUR <= DAYSECOND
    /\ UINT32 \in Nat /\ UINT32 >= 2 * DAYSECOND
    /\ MaxDay \in Nat /\ MaxBids \in Nat /\ MaxOut \in Nat /\ MaxStrays \in Nat
    /\ Faults \subseteq {"redisDown", "errorReply"}
    /\ None \notin Nat

VARIABLES
    day,       \* the date
    sec,       \* getCurrentTimeSecond: the second of the day
    hour,      \* the second at which the current hour began
    ver,       \* the limits each program's cache holds, as an index of Settings
    master,    \* the device's record on the redis master
    lag,       \* records the master has not replicated yet
    slave,     \* the record on the slave
    queue,     \* v_user_frequency
    batch,     \* v_user_frequency_temp
    copy,      \* ur: the counts to be written, and the day they were read on
    bids,      \* bids made
    out,       \* bids for each creative that have not been shown, yet or ever
    strays,    \* history: impression notices that no bid stands behind
    hourly,    \* history: impressions the worker read the record for in this hour
    daily,     \* history: the same in this day
    straddled, \* history: some record was read on one day and written on another
    disturbed  \* history: a count was lost, or read from a stale or broken record

clock     == <<day, sec, hour>>
redisVars == <<master, lag, slave>>
bidVars   == <<bids, out, strays>>
history   == <<hourly, daily, straddled, disturbed>>
vars == <<clock, ver, redisVars, queue, batch, copy, bidVars, history>>

Entry  == [start : Nat, imp : Nat]    \* USER_CREATIVE_FREQUENCY_COUNT
Counts == [Keys -> Entry \cup {None}] \* USER_FREQUENCY_COUNT
Record == [day : Nat, count : Counts] \* expires at the end of its day
Item   == [mapid : Mapids, fru : Fru] \* USER_INFO
Nothing == [k \in Keys |-> None]

ASSUME NoneAssumption == None \notin Entry

\* What a read of the record returns: an expired key is no content.
Content(r) == IF r.day = day THEN r.count ELSE Nothing

\* The group has an entry of its own.
Known(c, g) == \E k \in {g} \cup {m \in Mapids : GroupOf[m] = g} : c[k] # None

Key(fru, m)   == IF fru.type = "project" THEN GroupOf[m] ELSE m
Limit(fru, m) == IF fru.type = "creative_2" THEN fru.capping[m] ELSE fru.first
Unlisted(fru, m) == fru.type = "creative_2" /\ fru.capping[m] = None

PERIOD_TIME(period) == IF period = "hour" THEN PERHOUR ELSE DAYSECOND
getStartTime(period) == IF period = "hour" THEN hour ELSE 0

\* The time since start: unsigned, as the bidder and the tracker compare it for
\* a full entry, and signed, as the tracker does otherwise.
Elapsed(start)  == IF sec >= start THEN sec - start ELSE sec - start + UINT32
interval(start) == sec - start

-----------------------------------------------------------------------------
(* UserRestrictionCount                                                    *)

\* A mutant of Fresh: the start of the period is left out.
FreshUnset(period) == [imp |-> 1]

Fresh(period) == [start |-> getStartTime(period), imp |-> 1]

\* The device has been shown the creative often enough in this period: nothing
\* is counted.
Full(e, fru, m) == e.imp >= Limit(fru, m) /\ Elapsed(e.start) < PERIOD_TIME(fru.period)

CountEntry(e, fru, m) ==
    IF e.imp >= Limit(fru, m) \/ interval(e.start) >= PERIOD_TIME(fru.period)
    THEN Fresh(fru.period)
    ELSE [e EXCEPT !.imp = @ + 1]

\* A mutant of Ignored: a full entry is counted in.
IgnoredUnlisted(c, fru, m) == Known(c, GroupOf[m]) /\ Unlisted(fru, m)

\* Nothing is written: a limit by creative does not list it, or it is full.
Ignored(c, fru, m) ==
    LET k == Key(fru, m)
    IN  /\ Known(c, GroupOf[m])
        /\ \/ Unlisted(fru, m)
           \/ c[k] # None /\ Full(c[k], fru, m)

\* A mutant of Counted: what other groups have counted is not kept.
CountedAlone(c, fru, m) == [Nothing EXCEPT ![Key(fru, m)] =
    IF c[Key(fru, m)] = None THEN Fresh(fru.period) ELSE CountEntry(c[Key(fru, m)], fru, m)]

Counted(c, fru, m) ==
    [c EXCEPT ![Key(fru, m)] =
        IF @ = None THEN Fresh(fru.period) ELSE CountEntry(@, fru, m)]

-----------------------------------------------------------------------------
(* The bidder's check                                                      *)

\* A mutant of Capped: the limit itself is still allowed.
CappedAbove(c, fru, m) ==
    /\ Known(c, GroupOf[m]) /\ ~Unlisted(fru, m) /\ c[Key(fru, m)] # None
    /\ c[Key(fru, m)].imp > Limit(fru, m)
    /\ Elapsed(c[Key(fru, m)].start) < PERIOD_TIME(fru.period)

\* "has reached max times"
Capped(c, fru, m) ==
    /\ Known(c, GroupOf[m]) /\ ~Unlisted(fru, m) /\ c[Key(fru, m)] # None
    /\ Full(c[Key(fru, m)], fru, m)

Allowed(c, fru, m) ==
    \/ fru.type = "infinity"
    \/ ~Known(c, GroupOf[m])
    \/ ~Unlisted(fru, m) /\ ~Capped(c, fru, m)

-----------------------------------------------------------------------------
Init ==
    /\ day = 0 /\ sec = 0 /\ hour = 0
    /\ ver = [w \in {"tracker", "bidder"} |-> 1]
    /\ master = [day |-> 0, count |-> Nothing] /\ lag = <<>> /\ slave = master
    /\ queue = <<>> /\ batch = <<>> /\ copy = <<>>
    /\ bids = 0 /\ out = [m \in Mapids |-> 0] /\ strays = 0
    /\ hourly = [k \in Keys |-> 0] /\ daily = [k \in Keys |-> 0]
    /\ straddled = FALSE /\ disturbed = FALSE

Zero == [k \in Keys |-> 0]

\* The next second, of this hour, of the next hour or of the next day.
Tick ==
    /\ \/ /\ sec + 1 < DAYSECOND /\ sec + 1 < hour + PERHOUR
          /\ sec' = sec + 1
          /\ UNCHANGED <<day, hour, hourly, daily>>
       \/ /\ sec + 1 < DAYSECOND /\ sec + 1 = hour + PERHOUR
          /\ sec' = sec + 1 /\ hour' = sec + 1
          /\ hourly' = Zero
          /\ UNCHANGED <<day, daily>>
       \/ /\ sec + 1 = DAYSECOND /\ day < MaxDay
          /\ day' = day + 1 /\ sec' = 0 /\ hour' = 0
          /\ hourly' = Zero /\ daily' = Zero
    /\ UNCHANGED <<ver, redisVars, queue, batch, copy, bidVars, straddled, disturbed>>

\* The cache thread of a program loads the next limits.  (Bound: they change
\* again only after both programs have loaded the last change.)
Reload(w) ==
    /\ ver[w] < Len(Settings) /\ \A v \in DOMAIN ver : ver[v] >= ver[w]
    /\ ver' = [ver EXCEPT ![w] = @ + 1]
    /\ UNCHANGED <<clock, redisVars, queue, batch, copy, bidVars, history>>

Replicate ==
    /\ lag # <<>>
    /\ slave' = Head(lag)
    /\ lag' = Tail(lag)
    /\ UNCHANGED <<clock, ver, master, queue, batch, copy, bidVars, history>>

-----------------------------------------------------------------------------
(* The bidder, the exchange and the doit threads                           *)

FruOf(w, m) == Settings[ver[w]][GroupOf[m]]

\* Bids on their way to the record the bidder reads.
InFlight == SumFunctionOnSet(out, Mapids) + Len(queue) + Len(batch) + Len(lag)

Bid(m) ==
    /\ bids + strays < MaxBids /\ InFlight < MaxOut
    /\ Allowed(Content(slave), FruOf("bidder", m), m)
    /\ bids' = bids + 1
    /\ out' = [out EXCEPT ![m] = @ + 1]
    /\ UNCHANGED <<clock, ver, redisVars, queue, batch, copy, strays, history>>

\* The reply is an error, whose text is not JSON: the creative is allowed.
BidUnread(m) ==
    /\ "errorReply" \in Faults
    /\ bids + strays < MaxBids /\ InFlight < MaxOut
    /\ FruOf("bidder", m).type # "infinity"
    /\ bids' = bids + 1
    /\ out' = [out EXCEPT ![m] = @ + 1]
    /\ disturbed' = TRUE
    /\ UNCHANGED <<clock, ver, redisVars, queue, batch, copy, strays, hourly, daily, straddled>>

\* check_frequency_capping: the limits go with the item.
Push(m) ==
    LET fru == FruOf("tracker", m)
    IN  queue' = IF fru.type = "infinity" THEN queue
                 ELSE Append(queue, [mapid |-> m, fru |-> fru])

Impression(m) ==
    /\ out[m] > 0
    /\ out' = [out EXCEPT ![m] = @ - 1]
    /\ Push(m)
    /\ UNCHANGED <<clock, ver, redisVars, batch, copy, bids, strays, history>>

\* A notice that was not bid for, or a second one that NoticeDedup lets through.
Stray(m) ==
    /\ strays < MaxStrays /\ bids + strays < MaxBids
    /\ strays' = strays + 1
    /\ Push(m)
    /\ UNCHANGED <<clock, ver, redisVars, batch, copy, bids, out, history>>

-----------------------------------------------------------------------------
(* read_write_ur                                                           *)

\* The loop ends after a batch once run_flag is false: what is queued then is
\* never swapped out.
Swap ==
    /\ batch = <<>> /\ queue # <<>>
    /\ batch' = queue
    /\ queue' = <<>>
    /\ UNCHANGED <<clock, ver, redisVars, copy, bidVars, history>>

\* History: an impression of the creative, and so of its group, is met.
Seen(n, m) == [n EXCEPT ![m] = @ + 1, ![GroupOf[m]] = @ + 1]

\* The record is read, the impression counted in what was read; when there is
\* nothing to write the item is done with.
CountIn(c) ==
    LET m   == Head(batch).mapid
        fru == Head(batch).fru
    IN  /\ hourly' = Seen(hourly, m) /\ daily' = Seen(daily, m)
        /\ IF Ignored(c, fru, m)
           THEN batch' = Tail(batch) /\ copy' = <<>>
           ELSE batch' = batch /\ copy' = <<day, Counted(c, fru, m)>>

\* A mutant of Read: it counts in what is left of an earlier day, too.
ReadForever ==
    /\ batch # <<>> /\ copy = <<>>
    /\ CountIn(slave.count)
    /\ disturbed' = (disturbed \/ lag # <<>>)
    /\ UNCHANGED <<clock, ver, redisVars, queue, bidVars, straddled>>

Read ==
    /\ batch # <<>> /\ copy = <<>>
    /\ CountIn(Content(slave))
    /\ disturbed' = (disturbed \/ lag # <<>>)
    /\ UNCHANGED <<clock, ver, redisVars, queue, bidVars, straddled>>

\* The reply is an error, whose text is not JSON: the record begins anew.
ReadError ==
    /\ "errorReply" \in Faults
    /\ batch # <<>> /\ copy = <<>>
    /\ CountIn(Nothing)
    /\ disturbed' = TRUE
    /\ UNCHANGED <<clock, ver, redisVars, queue, bidVars, straddled>>

\* SETEX with what is left of the day as the time to live, computed now.
Write ==
    /\ copy # <<>>
    /\ master' = [day |-> day, count |-> copy[2]]
    /\ lag' = Append(lag, master')
    /\ straddled' = (straddled \/ copy[1] # day)
    /\ batch' = Tail(batch)
    /\ copy' = <<>>
    /\ UNCHANGED <<clock, ver, slave, queue, bidVars, hourly, daily, disturbed>>

\* A connection is missing or fails, at the read or at the write, or the write is
\* answered with an error: the item is given up.
Drop ==
    /\ "redisDown" \in Faults
    /\ batch # <<>>
    /\ batch' = Tail(batch)
    /\ copy' = <<>>
    /\ disturbed' = TRUE
    /\ UNCHANGED <<clock, ver, redisVars, queue, bidVars, hourly, daily, straddled>>

-----------------------------------------------------------------------------
Next ==
    \/ Tick \/ Replicate
    \/ \E w \in {"tracker", "bidder"} : Reload(w)
    \/ \E m \in Mapids : Bid(m) \/ BidUnread(m) \/ Impression(m) \/ Stray(m)
    \/ Swap \/ Read \/ ReadError \/ Write \/ Drop

Spec == Init /\ [][Next]_vars

-----------------------------------------------------------------------------
TypeOK ==
    /\ day \in Nat /\ sec \in Nat /\ hour \in Nat
    /\ hour <= sec /\ sec < hour + PERHOUR /\ sec < DAYSECOND
    /\ ver \in [{"tracker", "bidder"} -> 1..Len(Settings)]
    /\ master \in Record /\ slave \in Record /\ lag \in Seq(Record)
    /\ queue \in Seq(Item) /\ batch \in Seq(Item)
    /\ copy = <<>> \/ (copy \in Nat \X Counts /\ batch # <<>>)
    /\ bids \in Nat /\ out \in [Mapids -> Nat] /\ strays \in Nat
    /\ hourly \in [Keys -> Nat] /\ daily \in [Keys -> Nat]
    /\ straddled \in BOOLEAN /\ disturbed \in BOOLEAN

\* Impressions of this period that the worker has met.
Met(period, k) == IF period = "hour" THEN hourly[k] ELSE daily[k]

\* The bidder holds a creative back only if the limit was really reached in the
\* current period, whatever was lost, stale or changed in between: no count is
\* ever added twice or taken from another period.  (The exception is a record
\* that was read before midnight and written after it: SETEX then keeps the
\* counts of yesterday for all of today.)
CappedMeansShown ==
    \A m \in Mapids :
        LET fru == FruOf("bidder", m)
        IN  /\ ~straddled
            /\ fru.type # "infinity"
            /\ Capped(Content(slave), fru, m)
            => Met(fru.period, Key(fru, m)) >= Limit(fru, m)

(* Why CappedMeansShown holds: nothing a record says of today is more than   *)
(* what was met today, or in the hour it says it began in.                   *)

\* The counts are those of impressions met; those of an earlier hour are over.
Backed(c, perDay, perHour, h) ==
    \A k \in Keys : c[k] # None =>
        /\ c[k].imp <= perDay[k]
        /\ \/ c[k].start + PERHOUR <= h
           \/ c[k].start = h /\ c[k].imp <= perHour[k]

Stored == {master, slave} \cup {lag[i] : i \in 1..Len(lag)}

StoredBacked ==
    \A r \in Stored :
        r.day <= day /\ (r.day = day => Backed(r.count, daily, hourly, hour))

CopyBacked ==
    copy # <<>> =>
        copy[1] <= day /\ (copy[1] = day => Backed(copy[2], daily, hourly, hour))

\* The inductive invariant.
CountsBacked ==
    /\ TypeOK
    /\ hour = 0 \/ hour >= PERHOUR
    /\ ~straddled => StoredBacked /\ CopyBacked

Undisturbed == ~disturbed /\ ~straddled /\ ver = [w \in DOMAIN ver |-> 1]
Limited(m) == FruOf("bidder", m).type # "infinity" /\ ~Unlisted(FruOf("bidder", m), m)

\* A device is shown a creative in a period at most as often as the limit says,
\* and once more for every bid, but the last, on its way to the bidder's copy
\* of the record and for every notice no bid stands behind.
CapRespected ==
    \A m \in Mapids :
        LET fru == FruOf("bidder", m)
        IN  Undisturbed /\ Limited(m) =>
                Met(fru.period, Key(fru, m)) < Max({1, Limit(fru, m)}) + MaxOut + strays

\* Once the bidder holds a creative back it does so for the rest of the hour, or
\* of the day, while nothing is lost, stale or changed: the count of a full entry, which
\* counting would start anew at 1, is not touched by the notices still to come.
CappedStays ==
    [][\A m \in Mapids :
          LET fru == FruOf("bidder", m)
          IN  /\ Undisturbed' /\ day' = day /\ (fru.period = "hour" => hour' = hour)
              /\ fru.type # "infinity" /\ Capped(Content(slave), fru, m)
              => Capped(Content(slave), fru, m)']_vars

\* Every impression of the period is in the record, up to the limit, next to
\* the counts of the other groups of the device.
CountsExact ==
    \A m \in Mapids :
        LET fru == FruOf("bidder", m)
            k   == Key(fru, m)
            e   == Content(master)[k]
            n   == Met(fru.period, k)
        IN  Undisturbed /\ Limited(m) /\ copy = <<>> /\ n > 0 =>
                e # None /\ e.imp = Min({n, Max({1, Limit(fru, m)})})

-----------------------------------------------------------------------------
(* Why CountsExact holds: the record, or what is about to be written, has    *)
(* the exact entry of every limit.                                           *)

\* The entry begins with the period and has its n impressions, up to the limit;
\* when there were none, there is no entry or one of an hour that is over.
EntryExact(e, fru, m, n, h) ==
    IF n > 0
    THEN /\ e # None /\ e.start = (IF fru.period = "hour" THEN h ELSE 0)
         /\ e.imp = Min({n, Max({1, Limit(fru, m)})})
    ELSE e = None \/ (fru.period = "hour" /\ e.start + PERHOUR <= h)

Exact(c) ==
    \A m \in Mapids :
        LET fru == FruOf("bidder", m)
            k   == Key(fru, m)
        IN  Limited(m) => EntryExact(c[k], fru, m, Met(fru.period, k), hour)

\* The items carry the limits the bidder has.
SameLimits(s) ==
    \A i \in 1..Len(s) : s[i].fru = FruOf("bidder", s[i].mapid)

\* The inductive invariant.
RecordExact ==
    /\ TypeOK
    /\ Undisturbed =>
          /\ SameLimits(queue) /\ SameLimits(batch)
          /\ master.day <= day /\ master = (IF lag = <<>> THEN slave ELSE lag[Len(lag)])
          /\ copy = <<>> => Exact(Content(master))
          /\ copy # <<>> => copy[1] <= day /\ (copy[1] = day => Exact(copy[2]))

-----------------------------------------------------------------------------
(* Why CapRespected holds: a bid needs room in the record the bidder reads,  *)
(* and what is not in that record yet is in flight.                          *)

\* Impressions met that the bidder's record may lack.
Unseen == Len(lag) + (IF copy = <<>> THEN 0 ELSE 1)

\* The bidder's record is the exact one of v impressions, and unless these
\* reached the limit at most the unseen ones have been met since.
ViewBehind(m) ==
    LET fru == FruOf("bidder", m)
        k   == Key(fru, m)
        n   == Met(fru.period, k)
    IN  \E v \in 0..n :
            /\ EntryExact(Content(slave)[k], fru, m, v, hour)
            /\ v < Max({1, Limit(fru, m)}) => n <= v + Unseen

\* The creatives whose impressions are counted with those of m.
Sharing(m) ==
    {j \in Mapids : Key(FruOf("bidder", j), j) = Key(FruOf("bidder", m), m)}

Among(s, K) == Quantify(DOMAIN s, LAMBDA i : s[i].mapid \in K)

\* The first item of the batch is in the worker's hands, and met already.
Held(K) == copy # <<>> /\ Head(batch).mapid \in K

\* What may still be met leaves the impressions of the period below their bound.
RoomLeft(m) ==
    LET fru == FruOf("bidder", m)
        K   == Sharing(m)
    IN  Met(fru.period, Key(fru, m))
            + SumFunctionOnSet(out, K) + Among(queue, K) + Among(batch, K)
            < Max({1, Limit(fru, m)}) + MaxOut + strays + (IF Held(K) THEN 1 ELSE 0)

\* The inductive invariant.
CapBounded ==
    /\ CountsBacked /\ RecordExact
    /\ Undisturbed =>
          /\ lag = <<>> \/ (copy = <<>> /\ Len(lag) = 1)
          /\ \A m \in Mapids : Limited(m) => ViewBehind(m) /\ RoomLeft(m)
=============================================================================
