# Verification of the DSP's notice tracker and pacing

TLA+ modules, TLC configurations and TLAPS proofs about the part of this
demand-side platform that decides what is counted and what is paid for: the
tracker, which receives the win, impression and click notices of the exchanges,
and the bidder's use of what the tracker counts.

## 1. The system

| Part | Source | State | Operations |
|---|---|---|---|
| **Bidder** (one FastCGI program per exchange) | `src/bid/*`, `src/common/bid_filter.cpp` | caches of groups and creatives; price ratios per group and hour | convert a request, filter groups and creatives, answer, mark the answer in redis |
| **Tracker: notices** | `src/tracker/tracker.cpp`, `src/tracker/main.cpp` (`doit`) | a redis context per thread, the vectors `cmds_id`, `v_group_frequency`, `v_user_frequency` | accept a notice, read the flag of its request, judge it, record the verdict, push updates |
| **Tracker: flag writer** | `src/common/init_context.cpp` (`threadpipeline`) | the batch taken from `cmds_id`, a connection to the master | swap the vector out, pipeline it |
| **Tracker: group counts** | `main.cpp` (`frequency_process`), `tracker.cpp` (`GroupRestrictionCount`) | the batch taken from `v_group_frequency`; a JSON record per group, exchange and day in redis | read the record from the slave, count, write it to the master |
| **Bidder: pacing gate** | `bid_filter.cpp` (`get_finished_groupids`) | none (reads the records) | stop bidding for groups that reached their target |
| **Tracker: cache of the groups** | `src/common/redisimpclk.cpp`, `selfsemphore.cpp` | two buffers, two semaphores, a private copy | fill one buffer while readers use the other, keep recently loaded groups, publish |
| **User frequency capping** | `tracker.cpp` (`UserRestrictionCount`), `main.cpp` (`read_write_ur`), `bid_filter.cpp` | counts per device, group and creative in redis | count an impression; check a device before bidding |
| **Smart bid** | `bid_filter.cpp`, `init_context.cpp` (`thread_redis_pipeline_smart`) | `group_bid_info`: price ratio and finish minute per group and hour | raise or lower the ratio from the finish times of earlier hours |
| **Log shipping** | `src/common/util.cpp`, `tcp.cpp`, `rdkafka_operator.cpp`, `setlog.cpp` | a queue per connection or file, drained by one thread | push, send, reconnect and send again, drain at exit |
| Older monitor servers | `src/impclk`, `src/settle`, `src/pv`, `src/lpd` | as the tracker, in separate programs | |
| Replay and tools | `src/makeup*`, `src/compress`, `src/tools` | files | sequential |

Interaction. A bidder that answers a request writes the flag `DSP_FLAG_BID`
under `dsp_id_flag_<bid>_<impid>` (redis "id"). A notice of that request reaches
some `doit` thread of the tracker, which reads the flag from a slave, judges the
notice and pushes the update of the flag on `cmds_id`; `threadpipeline` writes
it to the master. An impression or click not judged *repeated* is also pushed on
`v_group_frequency`, with the group's settings as the cache of the groups has
them; `frequency_process` counts it in the group's record of the day (redis
"gr"), and the bidder's gate reads that record from its slave before the next
bid. All of these are threads that share vectors under mutexes, and redis
masters and slaves between which writes lag.

What makes it hard, and the properties wanted of each part:

* **De-duplication**: decisions over a stale copy, two threads at once, updates
  that are sums (`INCRBY`) in one place and overwrites (`SETEX`) in another,
  batches lost with a connection, expiry. Wanted: a verdict tells the truth about
  what was accepted before; nothing that was never bid for is accepted; where
  updates do not overlap, each kind of notice is accepted once.
* **Pacing**: read-modify-write over a lagging copy, settings that change,
  targets that roll from hour to hour. Wanted: nothing is counted twice, a record
  agrees with itself, the target of an hour is fixed, the group overshoots by no
  more than what is under way, and by what is bid for while redis answers errors.
* **Cache**: two buffers, readers that hold one, a connection that breaks half
  way, a clock that returns to 0 at midnight. Wanted: readers see whole buffers,
  a group that ends is still known for an hour, and not for ever.
* **User capping**: a whole record per device is read from a slave and written to
  the master, by the hour and by the day, with a time to live that is computed
  later than the counts. Wanted: a creative is held back only when its limit was
  reached, it is shown at most as often as the limit and what is under way allow,
  and the counts of other groups of the device survive.
* **Log shipping**: three kinds of threads that connect again, send again, change
  files and drain their queue while other threads still push, and a `main` that
  frees what they use. Wanted: no record twice, none out of its thread's order,
  none lost unless something failed.
* **Smart bid**: ratios that follow the finish minutes of other hours, copied by
  threads of many programs; see the plan.

`PROJECT.json` lists every component and every hazard with the line where it bites.

## 2. Modules

### NoticeDedup (de-duplication of notices)

| Model | Code |
|---|---|
| `master`, `ttl`, `lag`, `slave` | the flag in redis: on the master, whether its key expires, the values not replicated yet, on the slave |
| `cmds_id`, `batch`, `pipe`, `pipeCtx` | the vector, `cmds_temp`, the place and the connection of `threadpipeline` |
| `pc`, `notice`, `seen`, `ctx` | a `doit` thread: where it is, its notice, `str_flag`, `redis_id_slave # NULL` |
| `Bid` | the end of `bid_filter_response` |
| `Accept` | `FCGX_Accept_r` and the parsing of a notice |
| `ReadFlag`, `ReadFlagBroken`, `ReadFlagError`, `NoContext` | reconnection and `GET`: an answer, no answer, an error for an answer, no connection |
| `JudgeValid`, `JudgeRepeated`, `JudgeNotBid` with `Fresh`, `Update`, `Conclude` | the branches of `handing_rtb_process` and the return to the loop |
| `PipeTake`, `PipeDrop`, `PipeEmpty`, `PipeExec`, `PipeDone`, `PipeBreak` | one iteration of `threadpipeline`: swap, failed reconnection, nothing to do and the end, commands one by one, all answered, connection lost |
| `Replicate`, `Expire` | redis (external) |
| `Stop` | `sigroutine` |

`bids`, `sent`, `tally` and `disturbed` are history: ids bid for, notices sent,
verdicts so far, and the ids for which an update overlapped another or was lost.

**NoticeLedger** is the abstract specification: a ledger that sees every verdict
at once and says when a notice of an id may be accepted and when it may be
rejected, given those before it. `Ledger` maps `tally` to `accepted` and
`rejected`, and `disturbed` to `unsure`; `KeepsLedger` says that NoticeDedup
implements it. The ledger is strict (each kind once, a click after its impression)
for ids that are not in doubt, and keeps what is left for the others.

An id stands for one `<bid>_<impid>`; ids interact only through the queue, so
the runs use one. What the handlers put in kafka and flume records is left out;
`tally` counts the verdict they carry.

### GroupPacing (one group, one exchange, one day)

| Model | Code |
|---|---|
| `master`, `lag`, `slave` | the JSON record: `total` is `sumimp`/`sumclk`, `dst`, `sum` the labels `dstimp-hh`, `sumimp-hh` (`None` when absent), `slot` the interval entries, `fin` the hours with `s_imp_t_hh` |
| `queue`, `batch`, `copy` | `v_group_frequency`, `v_group_frequency_temp`, the record just read (with the time of its reading) |
| `ver`, `Plans` | the group's settings in the caches of the tracker and of the bidder; an item of the queue carries them |
| `bids`, `out`, `shown` | the bidder and the exchange: bids made, not won yet or ever, shown and not clicked |
| `Counted` with `Created`, `Planned`, `Target`, `Carry`, `CountHour`, `Met` | `GroupRestrictionCount` |
| `Finished` with `Done`, `Goal`, `Unplanned` | `get_finished_groupids` |
| `Swap`, `Skip`, `Read`, `Write`, `Drop` | `frequency_process` |
| `Push`, `Impression`, `Click`, `Stray` | `check_frequency_capping`, called for every notice not judged repeated; `Stray` is one that no bid stands behind |
| `Bid` | `bid_filter_response` past the gate |
| `BidUnread`, counted in `unread` | the same after an error reply (LOADING, MASTERDOWN, NOAUTH) to `HGETALL`: `hgetallRedisValue` returns `E_REDIS_COMMAND`, the set of finished groups stays empty, and only `E_REDIS_CONNECT_INVALID` stops the bid |
| `Tick`, `Reload`, `Replicate` | the clock, the caches, redis |

Left out: the label `dstimp`/`dstclk` of a group paced by the day (nothing reads
it), the expiry of the record after 20 days, and the clock passing midnight
(another day is another record). A lost reply to a write that was done is the
action `Write`. Of `Faults`, `redisDown` is the worker's: no connection, a broken one,
or an error reply, whose text is no JSON at the read (nothing is written) and which is
`E_REDIS_COMMAND` at the write: `Drop` in each case. `errorReply` is the bidder's; a
broken connection there only means no bid.

### CacheBuffer (the tracker's cache of the groups)

| Model | Code |
|---|---|
| `addr`, `ext`, `cache` | `addr[2]`, `extaddr`, the private maps `creativeinfo` and `fc` |
| `semidarr`, `sem_id` | the semaphores, and each reader's copy of one |
| `pc`, `todo`, `g_context` | `major_thread`: where it is, groups left to load, its connection |
| `Clear`, `Load`, `LoadNothing`, `Complete` with `Merge` | `initializeStruct`, `addGroup`, `cacheCmpCopy` |
| `NoConnection`, `Publish`, `Wake` | the rest of the loop of `major_thread` |
| `Acquire`, `Release` | `get_semaphore` + `semaphore_release`, `semaphore_wait` |

An entry is its `lastrefreshtime`. `DAYSECOND`, `LIFEGROUP` and 2^32 are
constants. `begun`, `merged` and `loaded` are history.

### UserCapping (the counts of one device)

| Model | Code |
|---|---|
| `day`, `sec`, `hour` | the date, `getCurrentTimeSecond`, the second at which the hour began |
| `ver`, `Settings`, `Fru` | the limits (`FREQUENCY_RESTRICTION_USER`) in the caches of the tracker and of the bidder; an item of the queue carries them |
| `master`, `lag`, `slave` | `dsp_user_frequency_<deviceid>`: an entry (`start`, `imp`) per group or creative, and the day at whose end it expires |
| `queue`, `batch`, `copy` | `v_user_frequency`, `v_user_frequency_temp`, the counts to be written with the day they were read on |
| `bids`, `out`, `strays` | bids made, not shown yet or ever, notices that no bid stands behind |
| `Counted`, `Ignored` with `CountEntry`, `Fresh`, `Full` | `UserRestrictionCount`, `create_new_frequency` |
| `Allowed`, `Capped` | the check of `filter_creative` |
| `Bid`, `BidUnread` | a bid with the record read, or with an error for an answer |
| `Impression`, `Stray` with `Push` | `check_frequency_capping` |
| `Swap`, `Read`, `ReadError`, `Write`, `Drop` | `read_write_ur`: swap, `readUserRestriction`, an error for an answer, `writeUserRestriction`, a connection that is missing or fails |
| `Tick`, `Reload`, `Replicate` | the clock, the caches, redis |

`hourly` and `daily` count what the worker has met in the current hour and day;
`straddled` marks a record read on one day and written on another, `disturbed` a
count that was lost or taken from a stale or unreadable record. `Elapsed` is
unsigned and `interval` signed, as in the code.

### LogShip (a queue of records, its thread, and the end of the program)

| Model | Code |
|---|---|
| `kind` | which of `threadSendLog` (flume), `threadSendKafkaLog`, `threadLog` (file) empties the queue |
| `clock`, `held` | stamps taken, and the record each `doit` thread has stamped and not pushed |
| `data`, `thread`, `hand`, `drained` | the queue, where its thread is, the records it has taken, `i` of `threadLog`'s last loop |
| `fd`, `live`, `wire`, `far` | descriptor, handle or `FILE *`; whether the connection holds; what is under way; what each connection brought and each file holds |
| `main` | how far `main` is: waiting, the queue freed, the process gone |
| `Stamp`, `Push`, `PushCrash` | `sendLog`, `sendLogToKafka`, `writeLog`; a push into freed memory goes unnoticed or crashes |
| `Pop`, `Send`, `Reconnect`, `Resend` | one round of `threadSendLog` or `threadSendKafkaLog` |
| `Rotate`, `Write`, `WriteCrash` | `threadLog`: a new hour or a full file, writing, a file that cannot be opened |
| `Drain`, `DrainSend`, `DrainLine`, `DrainEnd` | after `run_flag` is cleared, with the mutex kept |
| `Deliver`, `Break`, `Expire` | TCP and librdkafka (external) |
| `Stop`, `Free`, `Kill` | `sigroutine`, the joins and `delete`s of `main`, its end |

**LogChannel** is the abstract specification: a record given to the channel is on
its way, has arrived or is lost, stays what it became, and is lost only after a
failure or if it was given after the thread had left. `Channel` maps `far` to
`arrived`, what is nowhere any more to `lost`, and counts `threadLog`'s last loop,
which leaves lines behind, as a failure of its own. `KeepsPromise` is the
refinement.

Taken as given: librdkafka's handle is made without a server, so
`KafkaServer::connectServer` succeeds; libfcgi ignores SIGPIPE (`FCGX_Init`), so
`send` on a broken connection returns; the prefix of a message that a failing
`send` passed is no record; the server sees connections in any order, so order is
claimed for each connection alone. `Break` lets what was under way on the old
connection arrive up to some point and drops the rest. Two files whose names fall
in the same millisecond, the level of the lines and the several queues that
share one kafka producer are left out.

### How they fit

The modules stand beside one another: a `JudgeValid`, `JudgeNotBid` or
`NoContext` of NoticeDedup is an `Impression`, `Click` or `Stray` of GroupPacing
(an impression also of UserCapping), every verdict is a `Stamp` of LogShip,
and `Reload` of GroupPacing is `Publish` of CacheBuffer. A module that composes
the first two is in the plan.

## 3. Runs

| Run | Asks | Result |
|---|---|---|
| `dedup_faults` | With every fault: is a rejected win one that was won, does an accepted click (a rejected impression) have its impression or else two accepted wins, is the flag exact for ids without overlap, and is every verdict one that NoticeLedger allows? | holds (4,007,531 states) |
| `dedup_live` | Is only what was bid for accepted, and does its mark reach the readers? | holds |
| `dedup_duplicate` | Is a notice marked valid never a repetition, as the comments say? | **violated**: a second notice in the window between reading and replication |
| `dedup_click` | Is a click accepted only behind an impression? | **violated**: 1 + 2 + 2 = 5 sets the impression's bit |
| `pacing` | Counts, records, finish times, targets, rollover and overshoot of a group paced by the hour; does a closed gate stay closed? | holds (1,773,572 states) |
| `pacing_day` | Overshoot and counting of a group paced by the day, with redis failing and answering errors | holds (58,636 states) |
| `pacing_hour_zero` | Does every hour take over what the one before left? | **violated**: hour 00 is skipped |
| `user_capping` | Is a creative held back only when its limit was reached, shown at most as often as the limit and what is under way allow, does one held back stay so for its period, and is the record exact? | holds (1,160,022 states) |
| `log_ship` | Over failures and the end of the program: no record twice, none out of its thread's order, none lost without a failure, none kept for ever? | holds (52,218 states) |
| `cache_keeps` | Are recent groups kept, old ones dropped, newer buffers published? | holds |
| `cache_refill` | Is a buffer never filled while a reader uses it? | **violated**: the semaphore is a copy |
| `cache_midnight` | Are recent groups kept over midnight? | **violated**: unsigned difference of seconds of the day |

Notes on the properties:

* `disturbed` is what separates the two worlds of NoticeDedup. Outside it
  `FlagTellsAccepted` and `DedupExactWhenQuiet` say that the protocol is exact.
  Inside it the three implications that still hold are checked and the two that
  do not are the violated runs. `RejectedWinWasWon` is not obvious: a `SETEX` of a
  stale copy may undo and redo other bits, and the carry of the `INCRBY` may set
  others, but none of it sets the price bit from nothing.
* `ValidOnlyIfBid` is false when redis answers errors: `getRedisValue` takes the
  text of the error for the value of the flag, which is then 0 and fresh for
  every kind. `dedup_live` is without faults; the theorem excludes only that one.
* `OvershootBounded` bounds the impressions of an hour by its target plus the
  bids under way, less one, the strays, and the bids made without the record
  (`unread`). A limit of 0 counts as 1: the gate does not look at a group without
  a record. The last term is not bounded by the code: as long as the bidder's
  slave answers with errors every request is bid for, for closed groups too. What
  the property says is that each such bid costs one impression at most and opens
  the gate for no other, `DayOvershootBounded` the same of the day.
* `CountsAddUp` has two cases: exact while no read of the worker missed its own
  last write, and never too much otherwise.
* `FinishMeansTargetMet` and `MetIsFinished` are converses: a finish time only where
  the target was reached, and one wherever it was. The second needs settings that
  keep what is limited, and by the hour (`PacedAlike`), and an hour counted at
  least twice: the first notice of an hour makes its label and records no finish
  time, so a target of 1 has none before the second notice (`tracker.cpp:873-882`).
* `GateStaysClosed` is what the gate is worth between two notices: it may close
  late (`OvershootBounded` says how late) but does not open again within the slot,
  although each record the bidder reads was computed from an older one. It excepts
  a change of the bidder's own settings, not one of the tracker's. Within the hour
  it may open with the next slot, whose share of the target is its own.
* `CappedStays` is the same of a device's creative: a full entry that were counted
  instead of ignored would begin anew at 1 and let the creative through again.
* `CappedMeansShown` has one exception, a record read before midnight and written
  after it: `SETEX` then keeps the counts of yesterday for all of today. Stale
  reads, lost writes, changed limits and error replies are no exception.
* `CapRespected` and `CountsExact` are for limits that have not changed and
  records that were neither lost nor stale. A limit of 0 counts as 1, as for the
  groups.
* `AtMostOnce` is about places, not only arrivals: a message that is sent a second
  time was in nobody's buffer, and what `threadLog` leaves in its queue is not
  in its file.
* `WriterOrder` is not for kafka, whose partitions keep no order, nor for records
  of two threads: the stamp is taken before the mutex.
* `HalfIsLeft` describes what the last loop of `threadLog` does (it counts up to a
  size that shrinks); no text of the repository says otherwise, so it is a
  property and not a violated run.
* `RecordsSettle` excepts the queue of a flume server that was not there at the
  start: it has no thread, and `main` joins one that was never made (`Kill`).
* `main.cpp:729` says `//13. 等待所有线程结束` (wait for all threads); the `doit`
  threads are not joined. That is where late records, `PushCrash` and pushes into
  freed memory come from.
* `NewestPublished` is for a thread with a connection: without one the buffers
  swap on every round and readers do go back to the older buffer.

Bounds. Dedup: one id, two threads (a race needs two), up to two notices of a
kind (a repetition; three of one kind add nothing, as the flag has one bit for
it), four notices in all. Pacing: three hours of two slots (an hour 0, one with
a carry over it and one with a carry over that), three bids, two under way, one
click, one change of settings, error replies to the bidder: two bids fill a limit
of two, or overrun one of one while both are under way, and the third comes past
the closed gate; the day run has two hours, four bids and every fault. Cache: two groups,
one reader, a lifetime of two ticks, days of three, five instants, one change of
the list: an entry gets too old within a day, and a day ends. User capping: a
group limited as a whole by the day and one of two creatives limited each by the
hour, later not at all and by the day; hours of two seconds and days of four, over
one midnight; three bids or notices, two under way, one stray; both faults. Log shipping: two
writers and three records (one reordered, one late, one under way), batches of two
lines and a kafka queue of one, three connections or files. Every bound is a
CONSTANT in a guard. Deadlock is not checked: the clocks, the exchange and the
tracker stop.

Fairness. `dedup_live` assumes that `threadpipeline` and the `doit` threads that
hold a notice go on (they never block on one another beyond a short mutex) and
that redis replicates; not that notices come, that connections come back or that
the tracker is stopped. `pacing_day` assumes that `frequency_process` goes on,
and nothing else: an item that fails is given up, never retried, so it needs no
connection to get on. `log_ship` assumes that the emptying thread goes on, that
what is under way arrives or expires, and that `main` goes on once it has been
told to stop; not that notices come, that connections break or come back, or that
anyone stops the program. Each of these is a thread of its own that waits for
nothing but short mutexes (and for the thread it joins).

## 4. Proofs

All theorems are for every value of the constants that the assumption of the
module allows: any number of ids, groups, threads, records and notices, queues of
any length, any limits and any set of faults.

| Module | Theorem | Property |
|---|---|---|
| `NoticeDedupProofs` | `TypeCorrect`, `RejectedWinsWereWon`, `OnlyBidsAreAccepted` (without error replies) | `TypeOK`, `RejectedWinWasWon`, `ValidOnlyIfBid` |
| `NoticeDedupQuietProofs` | `ClicksNeedImpressions`, `RejectedImpsWereShown` | `ClickNeedsImpOrDoubleWin`, `RejectedImpNeedsImpOrDoubleWin` |
| | `FlagsAreTrue`, `QuietIsExact` | `FlagTellsAccepted`, `DedupExactWhenQuiet` |
| | `LedgerKept` | `KeepsLedger`: NoticeDedup implements NoticeLedger |
| `GroupPacingProofs` | `TypeCorrect`, `FinishTimesTrue`, `EveryNoticeCounted` | `TypeOK`, `FinishMeansTargetMet`, `CountsAddUp` |
| | `RecordsAddUp`, `RestIsOfferedAgain`, `MetHoursFinish` | `RecordAddsUp`, `LeftoverRolls`, `MetIsFinished` |
| | `TargetsFixed`, `GateStays` (action properties) | `TargetFixedInHour`, `GateStaysClosed` |
| | `OvershootIsBounded`, `DayOvershootIsBounded` | `OvershootBounded`, `DayOvershootBounded` |
| `CacheBufferProofs` | `TypeCorrect`, `NewestIsPublished`, `RecentAreKept`, `OldAreGone` | `TypeOK`, `NewestPublished`, `RecentGroupsKept`, `OldGroupsGone` |
| `UserCappingProofs` | `TypeCorrect`, `CappedOnlyIfShown`, `RecordsAreExact` | `TypeOK`, `CappedMeansShown`, `CountsExact` |
| | `CapIsRespected`, `CapStays` (an action property) | `CapRespected`, `CappedStays` |
| `LogShipProofs` | `TypeCorrect`, `OrderKept`, `HalfStays` | `TypeOK`, `WriterOrder`, `HalfIsLeft` |
| | `PromiseKept` | `KeepsPromise`: LogShip implements LogChannel |
| `LogShipOnceProofs` | `NothingTwice` | `AtMostOnce` |
| `SumProofs` | lemmas on sums over finite sets and on counting in sequences (`SumInt`, `SumSplit`, `SumChange`, `SumSame`, `SumPart`, `NumberAppend`, `NumberTail`), used by `GroupPacingProofs` and `UserCappingProofs` | |

With these every invariant and every action property that a passing run checks is a
theorem (`ValidOnlyIfBid` for any faults but error replies), and both refinements are; what remains with TLC is liveness.

Assumed: `DedupAssumption`, `PacingAssumption`, `CacheAssumption`,
`CappingAssumption`, `LogAssumption` (types of the constants, no empty day, hour
or batch, a lifetime shorter than a day, a modulus that two days fit in, finitely
many creatives) and the
two `NoneAssumption`s, by which the value for "nothing" is no entry and no
record. TLC evaluates each of them in a run.

### The arguments

**Sums and counts.** The induction theorems of the library take a predicate, which
the provers cannot instantiate. `SumProofs` does without: the sum of the community
modules is a recursion over finite sets, and each fact about it is proved by taking
the smallest subset of the set at hand for which it fails (`SmallestSubset`: the
inclusion of finite sets is well founded) and removing an element of it. What a sum
is and how it changes with one value is all that the counts of records need.

**De-duplication.** A verdict speaks of the tally alone, but follows from a copy of
the flag that has gone through the queue, the master, the replication and a
thread. `IInv` says that the flag is *backed* in each of these places: a value with
the price bit, wherever it is, belongs to an id with an accepted win, and so does a
queued `INCRBY`. `LightInv` does it for the bit of the impression, which a sum can
set: while an id is *light* (no impression and at most one win accepted) no copy of
its flag has that bit, and at most one win waits to be added, to a flag that has
none (`OnlyOne`). `QuietInv` is for ids whose updates never overlapped or got lost:
the flag on the master, with the one waiting command applied if there is one,
encodes the tally, and a thread that judges a notice is the only one and has read
that flag (`UpdateEncodes`: the command of an accepted notice adds the bit of its
kind).

**The ledger.** `LedgerInv` joins the three. Each verdict is the ledger's `Accept`
or `Reject`: `OneCounted` and `LedgerCounts` say what it does to the mapped
variables, the invariants after the step give the guards, and every other step
is a `Bid`, a `Doubt` or a stutter (`NextIsLedgers`).

**Pacing.** `RecordSound` holds of every record there is (`Records`: on the master,
on its way, on the slave, in the worker's hands), as `NewRecord` shows that
counting preserves it from any of them. `Synced` says that the last record under
way is the master's and that a read that missed nothing holds it; with
`TotalsBounded` the totals balance. The bound on the overshoot is `Bounded`: the
same plan everywhere, each record from the bidder's to the master's at most one
ahead of the one before (`Chained`), no hour counted before it has come
(`HoursSound`), and what may still be counted leaves an hour within its bound
(`RoomLeft`). A bid made without the record is let through by no gate, so `RoomLeft`
grows with `unread` as it does with the strays. The gate looks at the oldest of these records and `Chained` carries
its answer to the newest.

`AddsUp` holds of every record because counting adds one to a slot exactly when it
adds one to that slot's hour, and a record is replaced only as a whole; the sums
change by one (`SlotMoreSums`). `Rolled` is the rollover: targets are set in the
order of the hours (`TargetsInOrder`), so the hour that gets its target now comes after
all that have one, and `CarryRolls` adds its limit and the rest of the last planned
hour to what `RollsOver` says of that hour. (Where the lower bound of 1 lifts a
target the inequality only gains.) `Reached` says of every record that no hour is
counted before it has a target and that the notice that finds the target met
records it: a later change of settings cannot unfix the target. `Growing` orders the
records on their way to the bidder: each is the one before with a notice counted in
it (`CountedGrows`), so the gate closed by one is closed by the next
(`GrownFinished`); where the hour has no target yet, the gate was closed because the
hour has no limit or by counts that `Reached` and `AddsUp` show to be zero.

**Cache.** `CacheInv` relates the instant at which each buffer was begun and
completed to its entries, in the buffer, in the one being filled and in the
private copy. `AgeInDay` and `DayOver` are the arithmetic of seconds of the day.

**User capping.** `CountsBacked`: whatever a record says of today is at most what was
met today, and what it says of the current hour at most what was met in it;
stale records only say less. `RecordExact`: while nothing was lost or stale, the
last record under way has the exact entry of every limit (`EntryExact`), over ends
of hours (an entry that began earlier is over) and of days (the record expired).
`CapBounded` adds what a bid relies on. The bidder's record is the exact one of some
number v of the impressions met (`ViewBehind`); a bid needs v below the limit, and
then at most the unseen ones were met since. At most one record is under way while
nothing is stale (the worker's next read would be, else), so what is met, out, queued and
in the batch stays within the limit, `MaxOut` and the strays (`RoomLeft`). The sum of
the bids out is over the creatives that share the limit, whatever their number.
`CapStays` follows from the same invariant: the record that replaces the bidder's is
exact, of no fewer impressions, and a period's entry keeps its start.

**Log shipping.** `ShipInv` is `TypeOK`, `StampsUnique` (what is anywhere was given,
what a thread holds was not) and `CleanEnd` (what the end looks like if nothing
failed). Every action only moves records on (`MovesOn`), which is what LogChannel
allows. `InOrder` says that the records of a thread are sorted along the way from
the newest connection back to the queue and that the one it holds comes last;
`WayOnce` says that the places on that way have no record in common. `LineCount`
counts the drained lines.

### Model-checked only

* Liveness under fairness (`AcceptedBecomesVisible`, `CountedEventually`,
  `RecordsSettle`): out of the prover's reach.
* The violated runs, which are counterexamples and need no proof.

## 5. Not modelled, and why

Smart bid: planned, see below; its sources have been read and its hazards are listed
there. The chain of
target filters of the bidder, the adapters of the exchanges, decryption, JSON,
geography: functions of their input without state. The bidder's own cache
(`redisoperation.cpp`) has the shape of CacheBuffer without the retained
entries. The older monitor servers repeat the tracker's design. Of the
handlers of notices only the verdict, the push for pacing and capping and the
pushing of log records are modelled; prices, redirects and texts are not
(among them the frame of a flume record, for which `sendLog`, `util.cpp:1064`, looks at
`datatransfer->kafka`, a byte the tracker never sets). Replay programs
and tools are sequential and run by hand.

## 6. Plan

Done: NoticeDedup with NoticeLedger, GroupPacing, CacheBuffer, UserCapping, LogShip
with LogChannel, and the proofs of section 4. What is left:

1. **SmartBid** (`bid_filter.cpp:494-552`, `818-937`, `2985-3125`,
   `thread_redis_pipeline_smart`): the ratio of a group per hour from the finish
   minutes that GroupPacing records. What can go wrong: the ratio of an hour is
   fixed by the first request in it; the midnight clear needs a request in an
   hour other than 0 and happens once per flag; threads that took hour 23 before
   the clear apply it after; `write_smart_ratio` pushes its snapshot outside the
   mutex, so an older one may be written over a newer one; a restart restores
   ratios with the finish minutes of another interval. Wanted: a ratio stays within
   its bounds, moves by one step per hour, and what redis holds is what some
   program had last.
2. **TrackerCore**: NoticeDedup, GroupPacing and UserCapping composed by
   `check_frequency_capping` under the verdict: a count of a record never exceeds
   the notices not judged repeated.
