---------------------------- MODULE CacheBuffer ----------------------------
(***************************************************************************)
(* The tracker's cache of the ad groups (src/common/redisimpclk.cpp) and   *)
(* its readers, the doit threads (src/tracker/tracker.cpp).                *)
(*                                                                         *)
(* One thread (major_thread) fills one of two buffers from redis while the *)
(* readers use the other, adds the groups that redis no longer lists but   *)
(* that were loaded less than LIFEGROUP ago (cacheCmpCopy), publishes the  *)
(* buffer and sleeps.  A semaphore per buffer is meant to count its        *)
(* readers: the thread tests it before it goes on to the old buffer.       *)
(*                                                                         *)
(* The entries of a group (creativeinfo and fc) are one entry here, which  *)
(* is its lastrefreshtime: the second of the DAY, as an unsigned number.   *)
(***************************************************************************)
EXTENDS Integers, FiniteSets

CONSTANTS Groups, Readers,
          LIFEGROUP,     \* seconds a group is kept after it was last loaded
          DAYSECOND,     \* seconds of a day
          UINT32,        \* bound: stands for 2^32
          MaxTime,       \* bound: the clock stops there
          MaxNews,       \* bound: changes of the groups redis lists
          Faults,        \* subset of {"redisDown", "badGroup"}
          None           \* no entry

ASSUME CacheAssumption ==
    /\ LIFEGROUP \in Nat /\ DAYSECOND \in Nat /\ LIFEGROUP < DAYSECOND
    /\ UINT32 \in Nat /\ UINT32 >= DAYSECOND + LIFEGROUP
    /\ MaxTime \in Nat /\ MaxNews \in Nat
    /\ Faults \subseteq {"redisDown", "badGroup"}
    /\ None \notin Nat

VARIABLES
    now,
    listed,     \* groups in dsp_groupids and pap_groupids
    news,       \* changes of listed so far
    addr,       \* the two buffers
    cache,      \* redisdata->creativeinfo and fc: a private copy
    ext,        \* index of extaddr, the buffer readers get
    semidarr,   \* value of each buffer's semaphore
    pc,         \* where major_thread is
    todo,       \* groups of the list that are still to be loaded
    g_context,  \* its connection is up
    hold,       \* the buffer each reader uses, or None
    sem_id,     \* the reader's copy of that buffer's semaphore
    begun,      \* history: when the filling of each buffer last began
    merged,     \* history: when each buffer was last completed
    loaded      \* history: when each group was last loaded

world  == <<now, listed, news>>
thread == <<addr, cache, ext, semidarr, pc, todo, g_context>>
users  == <<hold, sem_id>>
history == <<begun, merged, loaded>>
vars == <<world, thread, users, history>>

Time  == 0..MaxTime
Empty == [g \in Groups |-> None]
Time_now == now % DAYSECOND               \* getCurrentTimeSecond
Age(entry) == (Time_now - entry) % UINT32 \* unsigned: large for an entry of yesterday
next  == 1 - ext                          \* the buffer that is filled

Init ==
    /\ now = 0
    /\ listed \in SUBSET Groups
    /\ news = 0
    /\ addr = [i \in {0, 1} |-> IF i = 0 THEN [g \in Groups |-> IF g \in listed THEN 0 ELSE None]
                                         ELSE Empty]
    /\ cache = addr[0]                    \* init_redis_operation fills buffer 0
    /\ ext = 0
    /\ semidarr = [i \in {0, 1} |-> 0]
    /\ pc = "wake"
    /\ todo = {}
    /\ g_context = TRUE
    /\ hold = [r \in Readers |-> None]
    /\ sem_id = [r \in Readers |-> None]
    /\ begun = [i \in {0, 1} |-> 0]
    /\ merged = [i \in {0, 1} |-> IF i = 0 THEN 0 ELSE None]
    /\ loaded = cache

-----------------------------------------------------------------------------
(* The world                                                               *)

Tick ==
    /\ now < MaxTime
    /\ now' = now + 1
    /\ UNCHANGED <<listed, news, thread, users, history>>

\* The management console starts or stops groups.
News ==
    /\ news < MaxNews
    /\ news' = news + 1
    /\ listed' \in SUBSET Groups
    /\ UNCHANGED <<now, thread, users, history>>

-----------------------------------------------------------------------------
(* major_thread                                                            *)

\* initializeStruct clears the buffer and reads the list of groups.
Clear ==
    /\ pc = "wake"
    /\ addr' = [addr EXCEPT ![next] = Empty]
    /\ pc' = "load"
    /\ g_context' = TRUE
    /\ todo' = listed
    /\ begun' = [begun EXCEPT ![next] = now]
    /\ UNCHANGED <<world, cache, ext, semidarr, users, merged, loaded>>

\* A mutant of NoConnection: the buffers swap unfilled whatever the connection is.
SwapUnfilled ==
    /\ "redisDown" \in Faults
    /\ pc = "wake"
    /\ pc' = "publish"
    /\ UNCHANGED <<world, addr, cache, ext, semidarr, todo, g_context, users, history>>

\* It has no connection and gets none: nothing is filled, the buffers swap.
NoConnection ==
    /\ "redisDown" \in Faults
    /\ pc = "wake" /\ ~g_context
    /\ pc' = "publish"
    /\ UNCHANGED <<world, addr, cache, ext, semidarr, todo, g_context, users, history>>

\* A mutant of Load: the entry gets the time itself, not the second of the day.
LoadWithDate(g) ==
    /\ pc = "load" /\ g \in todo
    /\ addr' = [addr EXCEPT ![next][g] = now]
    /\ todo' = todo \ {g}
    /\ loaded' = [loaded EXCEPT ![g] = now]
    /\ UNCHANGED <<world, cache, ext, semidarr, pc, g_context, users, begun, merged>>

\* addGroup
Load(g) ==
    /\ pc = "load" /\ g \in todo
    /\ addr' = [addr EXCEPT ![next][g] = Time_now]
    /\ todo' = todo \ {g}
    /\ loaded' = [loaded EXCEPT ![g] = now]
    /\ UNCHANGED <<world, cache, ext, semidarr, pc, g_context, users, begun, merged>>

\* The group's own key is missing or is not JSON.
LoadNothing(g) ==
    /\ "badGroup" \in Faults
    /\ pc = "load" /\ g \in todo
    /\ todo' = todo \ {g}
    /\ UNCHANGED <<world, addr, cache, ext, semidarr, pc, g_context, users, history>>

\* Mutants of Merge: what is missing is not taken from the private copy; the
\* age of an entry is not looked at.
MergeNothing ==
    /\ addr' = addr
    /\ cache' = addr[next]
MergeAnyAge ==
    /\ addr' = [addr EXCEPT ![next] =
                  [g \in Groups |-> IF @[g] = None THEN cache[g] ELSE @[g]]]
    /\ cache' = addr'[next]

\* cacheCmpCopy
Merge ==
    /\ addr' = [addr EXCEPT ![next] =
                  [g \in Groups |->
                      IF @[g] = None /\ cache[g] # None /\ Age(cache[g]) < LIFEGROUP
                      THEN cache[g] ELSE @[g]]]
    /\ cache' = addr'[next]

\* All groups are loaded, or the connection broke on the way: both merge.
Complete ==
    /\ pc = "load"
    /\ \/ todo = {} /\ g_context' = g_context
       \/ "redisDown" \in Faults /\ g_context' = FALSE
    /\ Merge
    /\ pc' = "publish"
    /\ todo' = {}
    /\ merged' = [merged EXCEPT ![next] = now]
    /\ UNCHANGED <<world, ext, semidarr, users, begun, loaded>>

\* Under the mutex: extaddr and extsemid are those of the new buffer.
Publish ==
    /\ pc = "publish"
    /\ ext' = next
    /\ pc' = "sleep"
    /\ UNCHANGED <<world, addr, cache, semidarr, todo, g_context, users, history>>

\* sleep(5), and semaphore_test spins until the old buffer's semaphore is 0.
Wake ==
    /\ pc = "sleep"
    /\ semidarr[next] = 0
    /\ pc' = "wake"
    /\ UNCHANGED <<world, addr, cache, ext, semidarr, todo, g_context, users, history>>

-----------------------------------------------------------------------------
(* The readers                                                             *)

\* get_semaphore copies extaddr and, by value, the semaphore; the reader then
\* posts its copy (semaphore_release, "semaphore add 1").
Acquire(r) ==
    /\ hold[r] = None
    /\ hold' = [hold EXCEPT ![r] = ext]
    /\ sem_id' = [sem_id EXCEPT ![r] = semidarr[ext] + 1]
    /\ UNCHANGED <<world, thread, history>>

\* semaphore_wait on the copy: it was posted, so the reader never blocks.
Release(r) ==
    /\ hold[r] # None
    /\ sem_id[r] > 0
    /\ hold' = [hold EXCEPT ![r] = None]
    /\ sem_id' = [sem_id EXCEPT ![r] = None]
    /\ UNCHANGED <<world, thread, history>>

-----------------------------------------------------------------------------
Next ==
    \/ Tick \/ News
    \/ Clear \/ NoConnection \/ Complete \/ Publish \/ Wake
    \/ \E g \in Groups : Load(g) \/ LoadNothing(g)
    \/ \E r \in Readers : Acquire(r) \/ Release(r)

Spec == Init /\ [][Next]_vars

-----------------------------------------------------------------------------
Entry   == 0..DAYSECOND-1 \cup {None}
History == Time \cup {None}

TypeOK ==
    /\ now \in Time /\ listed \subseteq Groups /\ news \in 0..MaxNews
    /\ addr \in [{0, 1} -> [Groups -> Entry]]
    /\ cache \in [Groups -> Entry] /\ loaded \in [Groups -> History]
    /\ ext \in {0, 1} /\ semidarr \in [{0, 1} -> Nat]
    /\ pc \in {"wake", "load", "publish", "sleep"}
    /\ todo \subseteq Groups /\ g_context \in BOOLEAN
    /\ hold \in [Readers -> {0, 1, None}]
    /\ sem_id \in [Readers -> Nat \cup {None}]
    /\ begun \in [{0, 1} -> Time] /\ merged \in [{0, 1} -> History]

Whole(i) == ~(i = next /\ pc = "load")    \* the buffer is not being filled

\* The group was loaded less than LIFEGROUP before the buffer was completed.
Recent(i, g) ==
    /\ loaded[g] # None /\ loaded[g] < merged[i]
    /\ merged[i] - loaded[g] < LIFEGROUP

SameDay(i, g) == loaded[g] \div DAYSECOND = merged[i] \div DAYSECOND

\* A whole buffer holds every group that was loaded less than LIFEGROUP before
\* the buffer was completed, even if redis no longer lists the group, and even
\* if a connection broke half way: notices that come late find their group.
\* (Within a day.)
RecentGroupsKept ==
    \A i \in {0, 1}, g \in Groups :
        Whole(i) /\ merged[i] # None /\ Recent(i, g) /\ SameDay(i, g) => addr[i][g] # None

\* The same at any time of day: what the comment in cacheCmpCopy says.  Not so
\* just after midnight, when the age of every entry of yesterday is huge.
RecentGroupsKeptOverMidnight ==
    \A i \in {0, 1}, g \in Groups :
        Whole(i) /\ merged[i] # None /\ Recent(i, g) => addr[i][g] # None

\* A group of a whole buffer was last loaded less than LIFEGROUP before the
\* buffer was completed, or for this buffer or a later one, however often its
\* entry was carried over from buffer to buffer.
OldGroupsGone ==
    \A i \in {0, 1}, g \in Groups :
        Whole(i) /\ addr[i][g] # None /\ SameDay(i, g) =>
            merged[i] - loaded[g] < LIFEGROUP \/ loaded[g] >= begun[i]

\* As long as the connection holds, readers are given the newer buffer.
NewestPublished ==
    g_context /\ pc = "sleep" =>
        merged[ext] # None /\ (merged[next] = None \/ merged[ext] >= merged[next])

\* What the semaphore is for: no reader uses a buffer that is being filled.
NoReaderInRefill ==
    \A r \in Readers : hold[r] # None => Whole(hold[r])

-----------------------------------------------------------------------------
(* Why these hold: the parts of the inductive invariant.                   *)

\* Nothing was done in the future.
Past ==
    /\ \A i \in {0, 1} : begun[i] <= now /\ (merged[i] # None => merged[i] <= now)
    /\ \A g \in Groups : loaded[g] # None => loaded[g] <= now

\* An entry is of a group that was loaded, in a buffer that was filled.
Filled ==
    \A i \in {0, 1}, g \in Groups :
        addr[i][g] # None => loaded[g] # None /\ (Whole(i) => merged[i] # None)

\* What is in the buffer that is being filled was loaded in this filling.
FillSound ==
    pc = "load" => \A g \in Groups :
        addr[next][g] # None => /\ loaded[g] >= begun[next]
                                /\ addr[next][g] = loaded[g] % DAYSECOND

Expired(g) == now - loaded[g] >= LIFEGROUP \/ now \div DAYSECOND # loaded[g] \div DAYSECOND

\* The private copy has every group that was not loaded since it was made, with
\* the time of its last loading, unless that was too long ago.
CopySound ==
    \A g \in Groups : pc # "load" \/ addr[next][g] = None =>
        /\ cache[g] # None => loaded[g] # None /\ cache[g] = loaded[g] % DAYSECOND
        /\ cache[g] = None /\ loaded[g] # None => Expired(g)

\* The buffer about to be published is the newer one.
NewestNext ==
    g_context /\ pc = "publish" =>
        merged[next] # None /\ (merged[ext] = None \/ merged[next] >= merged[ext])
=============================================================================
