---------------------------- MODULE GroupPacing ----------------------------
(***************************************************************************)
(* Pacing of one ad group on one exchange over a day.                      *)
(*                                                                         *)
(* Every impression or click notice that is not rejected as repeated, be   *)
(* its request marked or not, is pushed on v_group_frequency by            *)
(* check_frequency_capping.  frequency_process swaps the vector out and,   *)
(* for each item, reads the group's record of the day from a redis SLAVE,  *)
(* counts the notice in it (GroupRestrictionCount) and writes the whole    *)
(* record to the MASTER.  The bidder reads the record from its slave and   *)
(* stops bidding for the group while get_finished_groupids says so.        *)
(*                                                                         *)
(* The record is the field <groupid> of dsp_group_frequency_<adx>_<day>.   *)
(* Left out: its expiry after 20 days and dstimp / dstclk of a day plan,   *)
(* which nothing reads.                                                    *)
(***************************************************************************)
EXTENDS Integers, Sequences, FiniteSetsExt

CONSTANTS HoursPerDay,   \* bound: 24 in the code
          Slots,         \* denominator_array: time slots of an hour
          Plans,         \* the group's successive settings, as a sequence
          MaxBids,       \* bound: bids of the day
          MaxOut,        \* bound: bids the bidder's slave does not reflect yet
          MaxClicks,     \* bound: click notices of the day
          MaxStrays,     \* bound: impression notices of no bid, or of one seen before
          Faults,        \* subset of {"redisDown", "errorReply"}: what the worker's
                         \* redis does, and what the bidder's does
          None           \* no such label in the record

Hours == 0..HoursPerDay-1
Kinds == {"imp", "clk"}                                    \* url_type

\* type: GROUP_FREQUENCY_INFINITY, imp or clk; day: RESTRICTION_PERIOD_DAY
Plan == [type : Kinds \cup {"infinity"}, day : BOOLEAN, frequency : [Hours -> Nat]]

ASSUME PacingAssumption ==
    /\ HoursPerDay \in Nat \ {0} /\ Slots \in Nat \ {0}
    /\ Plans \in Seq(Plan) /\ Plans # <<>>
    /\ MaxBids \in Nat /\ MaxOut \in Nat /\ MaxClicks \in Nat /\ MaxStrays \in Nat
    /\ Faults \subseteq {"redisDown", "errorReply"}
    /\ None \notin Nat

VARIABLES
    now,       \* the slot of the day
    ver,       \* the plan each program's cache holds, as an index of Plans
    master,    \* the record on the redis master
    lag,       \* records the master has not replicated yet
    slave,     \* the record on the slave
    queue,     \* v_group_frequency
    batch,     \* v_group_frequency_temp
    copy,      \* what the worker has read: a record and the slot it read it in
    bids,      \* bids made
    out,       \* bids that have not won, yet or ever
    shown,     \* impressions not clicked, as far as MaxClicks matters
    strays,    \* history: impression notices that no bid stands behind
    unread,    \* history: bids made without the record
    pushed,    \* history: notices pushed, per kind
    dropped,   \* history: notices taken from the queue and not counted
    stale      \* history: some read missed a write of the worker's own

envVars    == <<now, ver>>
redisVars  == <<master, lag, slave>>
workerVars == <<queue, batch, copy>>
bidVars    == <<bids, out, shown, strays, unread>>
history    == <<pushed, dropped, stale>>
vars == <<envVars, redisVars, workerVars, bidVars, history>>

Record == [live  : BOOLEAN,
           total : [Kinds -> Nat],                         \* sumimp, sumclk
           dst   : [Kinds -> [Hours -> Nat \cup {None}]],  \* dstimp-hh
           sum   : [Kinds -> [Hours -> Nat \cup {None}]],  \* sumimp-hh
           slot  : [Kinds -> [0..HoursPerDay*Slots-1 -> Nat]],
           fin   : [Kinds -> SUBSET Hours]]                \* s_imp_t_hh
Item == [kind : Kinds, plan : {Plans[n] : n \in 1..Len(Plans)}]

Blank == [live  |-> FALSE,
          total |-> [k \in Kinds |-> 0],
          dst   |-> [k \in Kinds |-> [h \in Hours |-> None]],
          sum   |-> [k \in Kinds |-> [h \in Hours |-> None]],
          slot  |-> [k \in Kinds |-> [n \in 0..HoursPerDay*Slots-1 |-> 0]],
          fin   |-> [k \in Kinds |-> {}]]

Hour(n) == n \div Slots
Count(c) == IF c = None THEN 0 ELSE c                      \* an absent label counts 0

-----------------------------------------------------------------------------
(* GroupRestrictionCount                                                   *)

\* Mutant of Carry: what an hour left over is forgotten.
CarryNothing(r, type, h) == 0

\* What the last earlier hour with a target left over, or overran.  The loop
\* stops before hour 0.
Carry(r, type, h) ==
    LET earlier == {i \in 1..h-1 : Count(r.dst[type][i]) # 0}
    IN  IF earlier = {} THEN 0
        ELSE LET i == Max(earlier) IN r.dst[type][i] - Count(r.sum[type][i])

\* Mutant of Target: no lower bound, and no special case for an hour without limit.
TargetUnclamped(r, p, h) == p.frequency[h] + Carry(r, p.type, h)

Target(r, p, h) ==
    IF p.frequency[h] = 0 THEN 0 ELSE Max({1, p.frequency[h] + Carry(r, p.type, h)})

\* Mutant of Planned: the target is computed again for every notice.
PlannedAgain(r, p, h) == [r EXCEPT !.dst[p.type][h] = Target(r, p, h)]

Planned(r, p, h) ==
    IF r.dst[p.type][h] # None THEN r
    ELSE [r EXCEPT !.dst[p.type][h] = Target(r, p, h)]

\* Mutant of Met: notices of either kind are compared with the target.
MetByAnyKind(r, p, k, h) ==
    LET dst == Count(r.dst[p.type][h])
    IN  r.sum[k][h] # None /\ dst # 0 /\ dst <= r.sum[k][h] + 1

\* Mutant of Met: only the notice that reaches the target meets it.
MetExactly(r, p, k, h) ==
    LET dst == Count(r.dst[k][h])
    IN  p.type = k /\ r.sum[k][h] # None /\ dst # 0 /\ dst = r.sum[k][h] + 1

\* This notice meets the target of the hour (never the first of its hour).
Met(r, p, k, h) ==
    LET dst == Count(r.dst[k][h])
    IN  p.type = k /\ r.sum[k][h] # None /\ dst # 0 /\ dst <= r.sum[k][h] + 1

\* Mutant of CountHour: a slot that has its label is not incremented.
CountHourOnce(r, p, k, n) ==
    [r EXCEPT !.sum[k][Hour(n)] = Count(@) + 1, !.slot[k][n] = 1]

CountHour(r, p, k, n) ==
    [r EXCEPT !.sum[k][Hour(n)] = Count(@) + 1,
              !.slot[k][n] = @ + 1,
              !.fin[k] = IF Met(r, p, k, Hour(n)) THEN @ \cup {Hour(n)} ELSE @]

\* The group's first notice of the day makes the record.
Created(p, k, n) ==
    LET r == [Blank EXCEPT !.live = TRUE, !.total[k] = 1]
    IN  IF p.day THEN r
        ELSE [r EXCEPT !.sum = [j \in Kinds |-> [@[j] EXCEPT ![Hour(n)] = IF j = k THEN 1 ELSE 0]],
                       !.slot[k][n] = 1,
                       !.dst[p.type][Hour(n)] = p.frequency[Hour(n)]]

\* Mutant of Counted: a notice after the first does not add to the total.
CountedByHour(r, p, k, n) ==
    IF ~r.live THEN Created(p, k, n) ELSE CountHour(Planned(r, p, Hour(n)), p, k, n)

Counted(r, p, k, n) ==
    IF ~r.live THEN Created(p, k, n)
    ELSE LET t == [r EXCEPT !.total[k] = @ + 1]
         IN  IF p.day THEN t ELSE CountHour(Planned(t, p, Hour(n)), p, k, n)

-----------------------------------------------------------------------------
(* get_finished_groupids                                                   *)

\* Mutant of Done: the other kind of notice is compared with the target.
DoneOther(r, p, h) ==
    LET k == IF p.type = "imp" THEN "clk" ELSE "imp"
    IN  IF p.day THEN r.total[k] ELSE Count(r.sum[k][h])

\* sum and dst of the hour, or of the day
Done(r, p, h) == IF p.day THEN r.total[p.type] ELSE Count(r.sum[p.type][h])
Goal(r, p, h) ==
    IF p.day THEN p.frequency[0]
    ELSE IF r.dst[p.type][h] = None THEN p.frequency[h] ELSE r.dst[p.type][h]

Unplanned(p, h) == IF p.day THEN p.type # "infinity" /\ p.frequency[0] = 0
                            ELSE p.frequency[h] = 0

\* Mutant of Finished: the group is finished only while it stands at its target.
FinishedExactly(r, p, n) ==
    LET h == Hour(n)
    IN  /\ r.live
        /\ \/ Unplanned(p, h)
           \/ p.type # "infinity" /\ Done(r, p, h) = Goal(r, p, h)
           \/ p.type # "infinity" /\ ~p.day /\ r.slot[p.type][n] > Goal(r, p, h) \div Slots

\* A group without a record of the day is not looked at.
Finished(r, p, n) ==
    LET h == Hour(n)
    IN  /\ r.live
        /\ \/ Unplanned(p, h)
           \/ p.type # "infinity" /\ Done(r, p, h) >= Goal(r, p, h)
           \/ p.type # "infinity" /\ ~p.day /\ r.slot[p.type][n] > Goal(r, p, h) \div Slots

-----------------------------------------------------------------------------
Init ==
    /\ now = 0
    /\ ver = [w \in {"tracker", "bidder"} |-> 1]
    /\ master = Blank /\ lag = <<>> /\ slave = Blank
    /\ queue = <<>> /\ batch = <<>> /\ copy = <<>>
    /\ bids = 0 /\ out = 0 /\ shown = 0 /\ strays = 0 /\ unread = 0
    /\ pushed = [k \in Kinds |-> 0] /\ dropped = [k \in Kinds |-> 0]
    /\ stale = FALSE

Tick ==
    /\ now < HoursPerDay*Slots - 1
    /\ now' = now + 1
    /\ UNCHANGED <<ver, redisVars, workerVars, bidVars, history>>

\* The cache thread of a program loads the group's next settings.  (Bound: the
\* settings change again only after both programs have loaded the last change.)
Reload(w) ==
    /\ ver[w] < Len(Plans) /\ \A v \in DOMAIN ver : ver[v] >= ver[w]
    /\ ver' = [ver EXCEPT ![w] = @ + 1]
    /\ UNCHANGED <<now, redisVars, workerVars, bidVars, history>>

Replicate ==
    /\ lag # <<>>
    /\ slave' = Head(lag)
    /\ lag' = Tail(lag)
    /\ UNCHANGED <<envVars, master, workerVars, bidVars, history>>

-----------------------------------------------------------------------------
(* The bidder, the exchange and the doit threads                           *)

Waiting(q, k) == Quantify(DOMAIN q, LAMBDA n : q[n].kind = k)

\* Bids on their way to the record the bidder reads.
InFlight == out + Waiting(queue, "imp") + Waiting(batch, "imp") + Len(lag)

Bid ==
    /\ bids < MaxBids /\ InFlight < MaxOut
    /\ ~Finished(slave, Plans[ver["bidder"]], now)
    /\ bids' = bids + 1
    /\ out' = out + 1
    /\ UNCHANGED <<envVars, redisVars, workerVars, shown, strays, unread, history>>

\* An error reply to the bidder's HGETALL (LOADING, MASTERDOWN) is not a broken
\* connection: no group is finished, and the group is bid for whatever its record
\* says.
BidUnread ==
    /\ "errorReply" \in Faults
    /\ bids < MaxBids /\ InFlight < MaxOut
    /\ bids' = bids + 1
    /\ out' = out + 1
    /\ unread' = unread + 1
    /\ UNCHANGED <<envVars, redisVars, workerVars, shown, strays, history>>

\* check_frequency_capping: the settings go with the item.
Push(k) ==
    /\ queue' = Append(queue, [kind |-> k, plan |-> Plans[ver["tracker"]]])
    /\ pushed' = [pushed EXCEPT ![k] = @ + 1]

Impression ==
    /\ out > 0
    /\ out' = out - 1
    /\ shown' = Min({shown + 1, MaxClicks})
    /\ Push("imp")
    /\ UNCHANGED <<envVars, redisVars, batch, copy, bids, strays, unread, dropped, stale>>

Click ==
    /\ shown > 0 /\ pushed["clk"] < MaxClicks
    /\ shown' = shown - 1
    /\ Push("clk")
    /\ UNCHANGED <<envVars, redisVars, batch, copy, bids, out, strays, unread, dropped, stale>>

\* A notice that was not bid for, or a second one that NoticeDedup lets through:
\* only what is judged repeated is not counted.
Stray ==
    /\ strays < MaxStrays
    /\ strays' = strays + 1
    /\ Push("imp")
    /\ UNCHANGED <<envVars, redisVars, batch, copy, bids, out, shown, unread, dropped, stale>>

-----------------------------------------------------------------------------
(* frequency_process                                                       *)

\* Mutant of Swap: the loop over the batch starts at its second item.
SwapSkipsFirst ==
    /\ batch = <<>> /\ queue # <<>>
    /\ batch' = Tail(queue)
    /\ queue' = <<>>
    /\ UNCHANGED <<envVars, redisVars, copy, bidVars, history>>

\* The loop ends after a batch once run_flag is false: what is queued then is
\* never swapped out (Spec assumes no fairness: Swap may never happen).
Swap ==
    /\ batch = <<>> /\ queue # <<>>
    /\ batch' = queue
    /\ queue' = <<>>
    /\ UNCHANGED <<envVars, redisVars, copy, bidVars, history>>

Forget == dropped' = [dropped EXCEPT ![Head(batch).kind] = @ + 1]

\* check_group_frequency_capping does nothing for a group without a limit.
Skip ==
    /\ batch # <<>> /\ copy = <<>>
    /\ Head(batch).plan.type = "infinity"
    /\ Forget
    /\ batch' = Tail(batch)
    /\ UNCHANGED <<envVars, redisVars, queue, copy, bidVars, pushed, stale>>

Read ==
    /\ batch # <<>> /\ copy = <<>>
    /\ Head(batch).plan.type # "infinity"
    /\ copy' = <<slave, now>>
    /\ stale' = (stale \/ lag # <<>>)
    /\ UNCHANGED <<envVars, redisVars, queue, batch, bidVars, pushed, dropped>>

Write ==
    /\ copy # <<>>
    /\ LET item == Head(batch)
           r    == Counted(copy[1], item.plan, item.kind, copy[2])
       IN  master' = r /\ lag' = Append(lag, r)
    /\ batch' = Tail(batch)
    /\ copy' = <<>>
    /\ UNCHANGED <<envVars, slave, queue, bidVars, history>>

\* A connection is missing or fails, at the read or at the write, or redis answers
\* with an error, which is no record to count in: the item is given up.
Drop ==
    /\ "redisDown" \in Faults
    /\ batch # <<>> /\ Head(batch).plan.type # "infinity"
    /\ Forget
    /\ batch' = Tail(batch)
    /\ copy' = <<>>
    /\ UNCHANGED <<envVars, redisVars, queue, bidVars, pushed, stale>>

-----------------------------------------------------------------------------
Next ==
    \/ Tick \/ Replicate
    \/ \E w \in {"tracker", "bidder"} : Reload(w)
    \/ Bid \/ BidUnread \/ Impression \/ Click \/ Stray
    \/ Swap \/ Skip \/ Read \/ Write \/ Drop

Spec == Init /\ [][Next]_vars

\* The worker thread runs; nothing makes the bidder bid, the exchange show or
\* the master replicate.
FairSpec == Spec /\ WF_vars(Swap) /\ WF_vars(Skip \/ Read) /\ WF_vars(Write)

-----------------------------------------------------------------------------
TypeOK ==
    /\ now \in 0..HoursPerDay*Slots-1
    /\ ver \in [{"tracker", "bidder"} -> 1..Len(Plans)]
    /\ master \in Record /\ slave \in Record /\ lag \in Seq(Record)
    /\ queue \in Seq(Item) /\ batch \in Seq(Item)
    /\ copy = <<>> \/ copy \in Record \X (0..HoursPerDay*Slots-1)
    /\ bids \in Nat /\ out \in Nat /\ shown \in Nat
    /\ strays \in Nat /\ unread \in Nat
    /\ pushed \in [Kinds -> Nat] /\ dropped \in [Kinds -> Nat]
    /\ stale \in BOOLEAN

\* No notice is counted twice, and unless a read of the worker missed its own
\* last write every notice is counted, waits its turn or was dropped.
CountsAddUp ==
    \A k \in Kinds :
        LET known == master.total[k] + Waiting(queue, k) + Waiting(batch, k) + dropped[k]
        IN  IF stale THEN known <= pushed[k] ELSE known = pushed[k]

\* The record agrees with itself even when updates are lost: the slots of an
\* hour add up to the hour, and the hours never exceed the day.
SlotsOf(h) == {n \in 0..HoursPerDay*Slots-1 : Hour(n) = h}

AddsUp(r) ==
    \A k \in Kinds :
        /\ \A h \in Hours : Count(r.sum[k][h]) = SumFunctionOnSet(r.slot[k], SlotsOf(h))
        /\ SumFunctionOnSet(r.slot[k], 0..HoursPerDay*Slots-1) <= r.total[k]

RecordAddsUp == AddsUp(master)

\* The minute at which an hour's target was met is recorded only when the
\* hour's notices reached its target, whatever plan was in force in between.
FinishMeansTargetMet ==
    \A k \in Kinds : \A h \in master.fin[k] :
        /\ Count(master.dst[k][h]) > 0
        /\ Count(master.sum[k][h]) >= master.dst[k][h]

Hourly(p) == ~p.day /\ p.type # "infinity"

\* Settings may change the limits of the group, but neither what is limited nor
\* whether by the hour.
PacedAlike == \A n \in 1..Len(Plans) : Plans[n].type = Plans[1].type /\ Plans[n].day = Plans[1].day

\* An hour that reached its target has a finish time, whatever was stale or
\* dropped.  (Except that the first notice of an hour never records one: a target
\* of 1 may be met without a finish time until the second notice.)
MetIsFinished ==
    LET k == Plans[1].type
    IN  PacedAlike /\ Hourly(Plans[1]) =>
            \A h \in Hours :
                /\ Count(master.dst[k][h]) > 0 /\ Count(master.sum[k][h]) > 1
                /\ Count(master.sum[k][h]) >= master.dst[k][h]
                => h \in master.fin[k]

\* Once the bidder's gate is closed on the group it stays closed for the slot,
\* unless the bidder's settings change or a stale read has lost counts: neither
\* what is counted meanwhile nor the tracker's new settings open it again.
GateStaysClosed ==
    [][LET p == Plans[ver["bidder"]]
       IN  /\ PacedAlike /\ ~stale' /\ now' = now /\ ver' = ver
           /\ Finished(slave, p, now)
           => Finished(slave', p, now)]_vars

\* The target of the current hour does not change, whether the plan changes or
\* not, as long as no read is stale.
TargetFixedInHour ==
    [][\A k \in Kinds, h \in Hours :
          master.dst[k][h] # None /\ ~stale => master'.dst[k][h] = master.dst[k][h]]_vars

Undisturbed == ~stale /\ dropped = [k \in Kinds |-> 0] /\ ver = [w \in DOMAIN ver |-> 1]

\* The group is shown in an hour at most as often as its target says, and once
\* more for every bid, but the last, on its way to the bidder's copy of the record
\* for every bid made without the record and for every notice no bid stands behind:
\* an error reply opens the gate for its own bid and no other.
OvershootBounded ==
    LET p == Plans[1]
    IN  Undisturbed /\ Hourly(p) /\ p.type = "imp" =>
            \A h \in Hours :
                Count(master.sum["imp"][h]) < Max({1, Count(master.dst["imp"][h])}) + MaxOut + strays + unread

\* The same for a group that is paced by the day.
DayOvershootBounded ==
    LET p == Plans[1]
    IN  Undisturbed /\ p.day /\ p.type = "imp" =>
            master.total["imp"] < Max({1, p.frequency[0]}) + MaxOut + strays + unread

\* Every notice pushed is counted in the end (or was given up, or a stale read
\* has lost counts), while the tracker runs.
CountedEventually ==
    \A n \in 1..MaxBids :
        pushed["imp"] >= n ~> stale \/ master.total["imp"] + dropped["imp"] >= n

\* What the hours before left over of their limits is offered again: a target
\* is never below the limits so far, less what was delivered so far.  (Hours
\* that never got a target, and hour 0, do not count.)
PlannedBefore(r, p, h) == {i \in 1..h-1 : Count(r.dst[p.type][i]) > 0}
Left(r, p) == [i \in Hours |-> p.frequency[i] - Count(r.sum[p.type][i])]

RollsOver(r, p, h) ==
    Count(r.dst[p.type][h]) > 0 =>
        r.dst[p.type][h] >= p.frequency[h] + SumFunctionOnSet(Left(r, p), PlannedBefore(r, p, h))

LeftoverRolls ==
    LET p == Plans[1]
    IN  Undisturbed /\ Hourly(p) => \A h \in Hours \ {0} : RollsOver(master, p, h)

\* Every hour's target takes over what the hour before it left (the example of
\* the interface document: limit 10000, 4000 of hour 00 done, target of hour 01
\* 16000).  Not so for hour 01: the loop stops before hour 00.
EveryHourRolls ==
    LET p == Plans[1]
        dst(h) == Count(master.dst[p.type][h])
    IN  Undisturbed /\ Hourly(p) =>
            \A h \in Hours \ {0} : dst(h) > 0 /\ dst(h-1) > 0 =>
                dst(h) = Max({1, p.frequency[h] + dst(h-1) - Count(master.sum[p.type][h-1])})

-----------------------------------------------------------------------------
(* Why these hold: the parts of the inductive invariants.                  *)

\* The records there are: in redis, on their way, and in the worker's hands.
Records ==
    {master, slave} \cup {lag[i] : i \in 1..Len(lag)}
    \cup (IF copy = <<>> THEN {} ELSE {copy[1]})

\* What holds of every record, however stale.
RecordSound(r) ==
    /\ ~r.live => r = Blank
    /\ \A k \in Kinds : \A h \in r.fin[k] :
          Count(r.dst[k][h]) > 0 /\ Count(r.sum[k][h]) >= r.dst[k][h]

\* What the worker holds is the first item of its batch, of a group with a limit.
WorkerSound ==
    copy # <<>> => batch # <<>> /\ Head(batch).plan.type # "infinity" /\ copy[2] <= now

\* Replication ends with the master's record, and a read that missed nothing
\* has it.
Synced ==
    /\ master = IF lag = <<>> THEN slave ELSE lag[Len(lag)]
    /\ ~stale /\ copy # <<>> => copy[1] = master

\* Notices of a kind that were not dropped and are not counted yet.
Uncounted(k) == Waiting(queue, k) + Waiting(batch, k)

TotalsBounded ==
    /\ \A r \in Records, k \in Kinds : r.total[k] + Uncounted(k) + dropped[k] <= pushed[k]
    /\ \A k \in Kinds : ~stale => master.total[k] + Uncounted(k) + dropped[k] = pushed[k]

\* No hour is counted before it has its target, and what meets it is recorded.
Reached(r, k) ==
    \A h \in Hours :
        /\ r.dst[k][h] = None => Count(r.sum[k][h]) = 0
        /\ /\ Count(r.dst[k][h]) > 0 /\ Count(r.sum[k][h]) > 1
           /\ Count(r.sum[k][h]) >= r.dst[k][h]
           => h \in r.fin[k]

TargetsReached ==
    PacedAlike /\ Hourly(Plans[1]) => \A r \in Records : Reached(r, Plans[1].type)

\* The record t says no less than r, and keeps its targets.
Grown(r, t) ==
    r.live =>
        /\ t.live
        /\ \A k \in Kinds :
              /\ r.total[k] <= t.total[k]
              /\ \A h \in Hours : /\ Count(r.sum[k][h]) <= Count(t.sum[k][h])
                                  /\ r.dst[k][h] # None => t.dst[k][h] = r.dst[k][h]
              /\ \A n \in 0..HoursPerDay*Slots-1 : r.slot[k][n] <= t.slot[k][n]

\* The n-th record from the one the bidder reads to the master's.
Copy(n) == IF n = 0 THEN slave ELSE lag[n]

\* Each record to be replicated follows the one before it.
Growing == ~stale => \A n \in 0..Len(lag)-1 : Grown(Copy(n), Copy(n+1))

(* Of a group limited by the hour, undisturbed.  p is its plan.            *)

\* Hours get their targets in order, as the worker comes to them.
TargetsInOrder(p) ==
    \A h \in Hours : master.dst[p.type][h] # None =>
        h <= Hour(IF copy = <<>> THEN now ELSE copy[2])

Rolled ==
    LET p == Plans[1]
    IN  Undisturbed /\ Hourly(p) =>
            /\ TargetsInOrder(p)
            /\ \A h \in Hours \ {0} : RollsOver(master, p, h)

(* Of a group limited in its impressions, undisturbed.                     *)

\* The limit of an hour, or of the day, as far as it is known.
Limit(p, h) == Max({1, IF p.day THEN p.frequency[0] ELSE Count(master.dst["imp"][h])})

\* Every write adds one, and keeps the targets there are.
Chained(p) ==
    \A n \in 0..Len(lag), h \in Hours :
        /\ Done(master, p, h) <= Done(Copy(n), p, h) + (Len(lag) - n)
        /\ Copy(n).dst["imp"][h] # None => master.dst["imp"][h] = Copy(n).dst["imp"][h]

\* An hour is counted once it has come, and has a target once it is counted.
HoursSound ==
    \A r \in Records, h \in Hours :
        (r.dst["imp"][h] = None \/ h > Hour(now)) => Count(r.sum["imp"][h]) = 0

\* The worker holds a notice that it will count in the hour.
Held(p, h) == copy # <<>> /\ Head(batch).kind = "imp" /\ (p.day \/ Hour(copy[2]) = h)

\* What may still be counted in an hour leaves it within its bound.
RoomLeft(p) ==
    /\ \A h \in Hours : h >= Hour(now) =>
          Done(master, p, h) + out + Uncounted("imp") < Limit(p, h) + MaxOut + strays + unread
    /\ \A h \in Hours :
          Done(master, p, h) + (IF Held(p, h) THEN 1 ELSE 0) < Limit(p, h) + MaxOut + strays + unread

\* The tracker pushes the settings it has.
SamePlan(p) ==
    /\ \A i \in 1..Len(queue) : queue[i].plan = p
    /\ \A i \in 1..Len(batch) : batch[i].plan = p

Bounded ==
    LET p == Plans[1]
    IN  Undisturbed =>
            /\ SamePlan(p)
            /\ p.type = "imp" => Chained(p) /\ (~p.day => HoursSound) /\ RoomLeft(p)
=============================================================================
