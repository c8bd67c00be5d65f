------------------------- MODULE NoticeDedupProofs -------------------------
(* Theorems about NoticeDedup, for every set of ids and threads. *)
EXTENDS NoticeDedup, TLAPS

-----------------------------------------------------------------------------
(* Type correctness *)

LEMMA UpdateType ==
    ASSUME NEW id \in Ids, NEW k \in Kinds, NEW f \in Nat
    PROVE  Update(id, k, f) \in Command
<1>1. OrBit(f, DSP_FLAG_SHOW) \in Nat /\ OrBit(f, DSP_FLAG_CLICK) \in Nat
  BY DEF OrBit, DSP_FLAG_SHOW, DSP_FLAG_CLICK
<1> QED
  BY <1>1 DEF Update, Command, Kinds, DSP_FLAG_PRICE

LEMMA ApplyType ==
    ASSUME NEW c \in Command, NEW v \in FlagVal
    PROVE  Apply(c, v) \in Nat
BY DEF Apply, Command, FlagVal, NoKey

LEMMA InitType == Init => TypeOK
<1> SUFFICES ASSUME Init PROVE TypeOK
  OBVIOUS
<1>1. (CHOOSE n \in Notice : TRUE) \in Notice
  <2>1. \E n : n \in Notice
    <3>1. PICK id \in Ids : TRUE
      BY DedupAssumption
    <3>2. [id |-> id, kind |-> "w"] \in Notice
      BY DEF Notice, Kinds
    <3> QED
      BY <3>2
  <2> QED
    BY <2>1
<1>2. notice \in [Threads -> Notice]
  BY <1>1 DEF Init
<1>3. lag \in [Ids -> Seq(FlagVal)] /\ cmds_id \in Seq(Command) /\ batch \in Seq(Command)
  BY DEF Init
<1>4. master \in [Ids -> FlagVal] /\ slave \in [Ids -> FlagVal] /\ seen \in [Threads -> FlagVal]
  BY DEF Init, FlagVal
<1>5. sent \in [Ids -> [Kinds -> Nat]] /\ tally \in [Ids -> [Kinds -> [Verdicts -> Nat]]]
  BY DEF Init
<1> QED
  BY <1>2, <1>3, <1>4, <1>5 DEF Init, TypeOK

\* Conclude only counts a verdict and moves the thread on.
LEMMA ConcludeType ==
    ASSUME TypeOK, NEW t \in Threads, NEW v \in Verdicts, Conclude(t, v)
    PROVE  /\ tally' \in [Ids -> [Kinds -> [Verdicts -> Nat]]]
           /\ pc' \in [Threads -> {"idle", "read", "judge", "gone"}]
<1>1. notice[t].id \in Ids /\ notice[t].kind \in Kinds
  BY DEF TypeOK, Notice
<1> QED
  BY <1>1 DEF TypeOK, Conclude

LEMMA SetMasterType ==
    ASSUME TypeOK, NEW id \in Ids, NEW v \in FlagVal, SetMaster(id, v)
    PROVE  master' \in [Ids -> FlagVal] /\ lag' \in [Ids -> Seq(FlagVal)]
BY DEF TypeOK, SetMaster

LEMMA NextType == TypeOK /\ [Next]_vars => TypeOK'
<1> SUFFICES ASSUME TypeOK, [Next]_vars PROVE TypeOK'
  OBVIOUS
<1> USE DEF redisVars, pipeVars, reqVars
<1>1. ASSUME NEW id \in Ids, Replicate(id) PROVE TypeOK'
  <2>1. Head(lag[id]) \in FlagVal /\ Tail(lag[id]) \in Seq(FlagVal)
    BY <1>1 DEF TypeOK, Replicate
  <2> QED
    BY <1>1, <2>1 DEF TypeOK, Replicate
<1>2. ASSUME NEW id \in Ids, Expire(id) PROVE TypeOK'
  <2>1. NoKey \in FlagVal /\ SetMaster(id, NoKey)
    BY <1>2 DEF FlagVal, Expire
  <2> QED
    BY <1>2, <2>1, SetMasterType DEF TypeOK, Expire
<1>3. ASSUME NEW id \in Ids, Bid(id) PROVE TypeOK'
  <2>1. DSP_FLAG_BID \in FlagVal /\ SetMaster(id, DSP_FLAG_BID)
    BY <1>3 DEF FlagVal, DSP_FLAG_BID, Bid
  <2> QED
    BY <1>3, <2>1, SetMasterType DEF TypeOK, Bid
<1>4. ASSUME NEW t \in Threads, NEW id \in Ids, NEW k \in Kinds, Accept(t, id, k)
      PROVE  TypeOK'
  <2>1. [id |-> id, kind |-> k] \in Notice
    BY DEF Notice
  <2> QED
    BY <1>4, <2>1 DEF TypeOK, Accept
<1>5. ASSUME NEW t \in Threads, ReadFlag(t) PROVE TypeOK'
  <2>1. notice[t].id \in Ids
    BY DEF TypeOK, Notice
  <2>2. slave[notice[t].id] \in FlagVal
    BY <2>1 DEF TypeOK
  <2> QED
    BY <1>5, <2>1, <2>2 DEF TypeOK, ReadFlag
<1>6. ASSUME NEW t \in Threads, ReadFlagBroken(t) PROVE TypeOK'
  <2>1. notice[t].id \in Ids /\ NoKey \in FlagVal
    BY DEF TypeOK, Notice, FlagVal
  <2> QED
    BY <1>6, <2>1 DEF TypeOK, ReadFlagBroken
<1>7. ASSUME NEW t \in Threads, ReadFlagError(t) PROVE TypeOK'
  <2>1. notice[t].id \in Ids /\ 0 \in FlagVal
    BY DEF TypeOK, Notice, FlagVal
  <2> QED
    BY <1>7, <2>1 DEF TypeOK, ReadFlagError
<1>8. ASSUME NEW t \in Threads, NoContext(t) PROVE TypeOK'
  <2>1. notice[t].id \in Ids
    BY DEF TypeOK, Notice
  <2>2. "unjudged" \in Verdicts /\ Conclude(t, "unjudged")
    BY <1>8 DEF Verdicts, NoContext
  <2> QED
    BY <1>8, <2>1, <2>2, ConcludeType DEF TypeOK, NoContext
<1>9. ASSUME NEW t \in Threads, JudgeNotBid(t) PROVE TypeOK'
  <2>1. "notbid" \in Verdicts /\ Conclude(t, "notbid")
    BY <1>9 DEF Verdicts, JudgeNotBid
  <2> QED
    BY <1>9, <2>1, ConcludeType DEF TypeOK, JudgeNotBid
<1>10. ASSUME NEW t \in Threads, JudgeValid(t) PROVE TypeOK'
  <2>1. "valid" \in Verdicts /\ Conclude(t, "valid")
    BY <1>10 DEF Verdicts, JudgeValid
  <2>2. notice[t].id \in Ids /\ notice[t].kind \in Kinds /\ seen[t] \in Nat
    BY <1>10 DEF TypeOK, Notice, JudgeValid, FlagVal
  <2>3. Update(notice[t].id, notice[t].kind, seen[t]) \in Command
    BY <2>2, UpdateType
  <2>4. cmds_id' \in Seq(Command)
    BY <1>10, <2>3 DEF TypeOK, JudgeValid
  <2> QED
    BY <1>10, <2>1, <2>4, ConcludeType DEF TypeOK, JudgeValid
<1>11. ASSUME NEW t \in Threads, JudgeRepeated(t) PROVE TypeOK'
  <2>1. "repeated" \in Verdicts /\ Conclude(t, "repeated")
    BY <1>11 DEF Verdicts, JudgeRepeated
  <2> QED
    BY <1>11, <2>1, ConcludeType DEF TypeOK, JudgeRepeated
<1>12. CASE PipeTake
  BY <1>12 DEF TypeOK, PipeTake
<1>13. CASE PipeDrop
  BY <1>13 DEF TypeOK, PipeDrop, EndOfLoop, Ids_of
<1>14. CASE PipeEmpty
  BY <1>14 DEF TypeOK, PipeEmpty, EndOfLoop
<1>15. CASE PipeExec
  <2>1. Head(batch) \in Command /\ Tail(batch) \in Seq(Command)
    BY <1>15 DEF TypeOK, PipeExec
  <2>2. Head(batch).id \in Ids /\ master[Head(batch).id] \in FlagVal
    BY <2>1 DEF TypeOK, Command
  <2>3. Apply(Head(batch), master[Head(batch).id]) \in FlagVal
    BY <2>1, <2>2, ApplyType DEF FlagVal
  <2>4. master' \in [Ids -> FlagVal] /\ lag' \in [Ids -> Seq(FlagVal)]
    BY <1>15, <2>2, <2>3, SetMasterType DEF PipeExec
  <2>5. ttl' \subseteq Ids
    BY <1>15, <2>2 DEF TypeOK, PipeExec
  <2> QED
    BY <1>15, <2>1, <2>4, <2>5 DEF TypeOK, PipeExec
<1>16. CASE PipeDone
  BY <1>16 DEF TypeOK, PipeDone, EndOfLoop
<1>17. CASE PipeBreak
  <2>1. batch' \in Seq(Command) /\ disturbed' \subseteq Ids /\ pipe' \in {"wake", "exited"}
    BY <1>17 DEF TypeOK, PipeBreak, EndOfLoop, Ids_of
  <2> QED
    BY <1>17, <2>1 DEF TypeOK, PipeBreak
<1>18. CASE Stop
  BY <1>18 DEF TypeOK, Stop
<1>19. CASE UNCHANGED vars
  BY <1>19 DEF TypeOK, vars
<1> QED
  BY <1>1, <1>2, <1>3, <1>4, <1>5, <1>6, <1>7, <1>8, <1>9, <1>10, <1>11, <1>12,
     <1>13, <1>14, <1>15, <1>16, <1>17, <1>18, <1>19 DEF Next

\* Every variable of the notice de-duplication keeps its type: in particular
\* a flag stays a natural number or absent, and every command in cmds_id or in
\* a batch is one that redis understands.
THEOREM TypeCorrect == Spec => []TypeOK
BY InitType, NextType, PTL DEF Spec

-----------------------------------------------------------------------------
(* Where a flag can come from.                                             *)
(*                                                                         *)
(* ValidOnlyIfBid and RejectedWinWasWon are not inductive: they speak of   *)
(* concluded notices, and say nothing of the copies of a flag that are on  *)
(* their way from a doit thread to the master, to the slave and back.      *)
(* Backed extends both to every copy: on the master, in the replication    *)
(* stream, on the slave, in a thread, and in a command not yet executed.   *)

\* The values that what happened to the id so far accounts for.
Backed(id) ==
    {v \in FlagVal :
        v # NoKey =>
            /\ "errorReply" \notin Faults => id \in bids
            /\ HasBit(v, DSP_FLAG_PRICE) => Valid(id, "w") > 0}

BackedCommands ==
    {c \in Command :
        /\ "errorReply" \notin Faults => c.id \in bids
        /\ c.op = "INCRBY" => Valid(c.id, "w") > 0
        /\ c.op = "SETEX" => (HasBit(c.arg, DSP_FLAG_PRICE) => Valid(c.id, "w") > 0)}

BackedRedis ==
    \A id \in Ids : /\ master[id] \in Backed(id)
                    /\ slave[id] \in Backed(id)
                    /\ lag[id] \in Seq(Backed(id))

BackedQueues == cmds_id \in Seq(BackedCommands) /\ batch \in Seq(BackedCommands)

BackedSeen ==
    \A t \in Threads : pc[t] = "judge" => seen[t] \in Backed(notice[t].id)

BackedTally ==
    \A id \in Ids :
        /\ "errorReply" \notin Faults => ((\E k \in Kinds : Valid(id, k) > 0) => id \in bids)
        /\ Repeated(id, "w") > 0 => Valid(id, "w") > 0

IInv == TypeOK /\ BackedRedis /\ BackedQueues /\ BackedSeen /\ BackedTally

\* Setting the show or the click bit neither sets nor hides the price bit.
LEMMA PriceBitKept ==
    ASSUME NEW f \in Nat, NEW b \in {DSP_FLAG_SHOW, DSP_FLAG_CLICK},
           HasBit(OrBit(f, b), DSP_FLAG_PRICE)
    PROVE  HasBit(f, DSP_FLAG_PRICE)
<1>1. CASE b = 4
  BY <1>1 DEF HasBit, OrBit, DSP_FLAG_PRICE
<1>2. CASE b = 8
  BY <1>2 DEF HasBit, OrBit, DSP_FLAG_PRICE
<1> QED
  BY <1>1, <1>2 DEF DSP_FLAG_SHOW, DSP_FLAG_CLICK

LEMMA SeqMonotone ==
    ASSUME NEW S, NEW T, S \subseteq T
    PROVE  Seq(S) \subseteq Seq(T)
OBVIOUS

\* Concluding a notice counts it, under its verdict and under no other.
LEMMA ConcludeCounts ==
    ASSUME TypeOK, NEW t \in Threads, NEW v \in Verdicts, Conclude(t, v)
    PROVE  /\ \A id \in Ids, k \in Kinds, x \in Verdicts :
                 /\ tally[id][k][x] \in Nat /\ tally'[id][k][x] \in Nat
                 /\ tally'[id][k][x] =
                       IF x = v /\ notice[t].id = id /\ notice[t].kind = k
                       THEN tally[id][k][x] + 1 ELSE tally[id][k][x]
           /\ \A u \in Threads : pc'[u] = "judge" => u # t /\ pc[u] = "judge"
<1>1. notice[t].id \in Ids /\ notice[t].kind \in Kinds
  BY DEF TypeOK, Notice
<1>2. ASSUME NEW id \in Ids, NEW k \in Kinds
      PROVE  /\ tally[id][k] \in [Verdicts -> Nat]
             /\ tally'[id][k] =
                   IF notice[t].id = id /\ notice[t].kind = k
                   THEN [tally[id][k] EXCEPT ![v] = @ + 1] ELSE tally[id][k]
  BY <1>1 DEF TypeOK, Conclude
<1>3. \A u \in Threads : pc'[u] = "judge" => u # t /\ pc[u] = "judge"
  BY DEF TypeOK, Conclude
<1>4. ASSUME NEW id \in Ids, NEW k \in Kinds, NEW x \in Verdicts
      PROVE  /\ tally[id][k][x] \in Nat
             /\ tally'[id][k][x] =
                   IF x = v /\ notice[t].id = id /\ notice[t].kind = k
                   THEN tally[id][k][x] + 1 ELSE tally[id][k][x]
  <2>1. PICK f \in [Verdicts -> Nat] : f = tally[id][k]
    BY <1>2
  <2>2. [f EXCEPT ![v] = @ + 1][x] = (IF x = v THEN f[x] + 1 ELSE f[x])
    OBVIOUS
  <2> QED
    BY <1>2, <2>1, <2>2
<1> QED
  BY <1>3, <1>4

\* The bidder's answers and the counts of verdicts only grow.
LEMMA History ==
    ASSUME TypeOK, [Next]_vars
    PROVE  /\ bids \subseteq bids'
           /\ \A id \in Ids, k \in Kinds, x \in Verdicts :
                 /\ tally[id][k][x] \in Nat /\ tally'[id][k][x] \in Nat
                 /\ tally'[id][k][x] >= tally[id][k][x]
<1>1. ASSUME NEW t \in Threads, NEW v \in Verdicts, Conclude(t, v)
      PROVE  \A id \in Ids, k \in Kinds, x \in Verdicts :
                 /\ tally[id][k][x] \in Nat /\ tally'[id][k][x] \in Nat
                 /\ tally'[id][k][x] >= tally[id][k][x]
  BY <1>1, ConcludeCounts
<1>2. {"valid", "repeated", "notbid", "unjudged"} \subseteq Verdicts
  BY DEF Verdicts
<1>3. ASSUME NEW t \in Threads,
             JudgeNotBid(t) \/ JudgeValid(t) \/ JudgeRepeated(t) \/ NoContext(t)
      PROVE  /\ bids' = bids
             /\ \E v \in Verdicts : Conclude(t, v)
  BY <1>2, <1>3 DEF JudgeNotBid, JudgeValid, JudgeRepeated, NoContext
<1>4. ASSUME tally' = tally
      PROVE  \A id \in Ids, k \in Kinds, x \in Verdicts :
                 /\ tally[id][k][x] \in Nat /\ tally'[id][k][x] \in Nat
                 /\ tally'[id][k][x] >= tally[id][k][x]
  BY <1>4 DEF TypeOK
<1>5. \/ tally' = tally /\ bids \subseteq bids'
      \/ \E t \in Threads :
            JudgeNotBid(t) \/ JudgeValid(t) \/ JudgeRepeated(t) \/ NoContext(t)
  BY DEF Next, vars, Replicate, Expire, Bid, Accept, ReadFlag, ReadFlagBroken, ReadFlagError,
         PipeTake, PipeDrop, PipeEmpty, PipeExec, PipeDone, PipeBreak, Stop
<1> QED
  BY <1>1, <1>3, <1>4, <1>5

LEMMA BackedGrows ==
    ASSUME TypeOK, [Next]_vars
    PROVE  /\ \A id \in Ids : Backed(id) \subseteq Backed(id)'
           /\ BackedCommands \subseteq BackedCommands'
<1>1. \A id \in Ids : Valid(id, "w") > 0 => Valid(id, "w")' > 0
  <2>1. "w" \in Kinds /\ "valid" \in Verdicts
    BY DEF Kinds, Verdicts
  <2>2. ASSUME NEW id \in Ids
        PROVE  /\ tally[id]["w"]["valid"] \in Nat /\ tally'[id]["w"]["valid"] \in Nat
               /\ tally'[id]["w"]["valid"] >= tally[id]["w"]["valid"]
    BY <2>1, History
  <2> QED
    BY <2>2 DEF Valid
<1>2. bids \subseteq bids'
  BY History
<1>3. \A c \in Command : c.id \in Ids
  BY DEF Command
<1> QED
  BY <1>1, <1>2, <1>3 DEF Backed, BackedCommands

\* A command pushed for an accepted notice is backed by the copy it was judged
\* from, once the notice itself is counted.
LEMMA UpdateBacked ==
    ASSUME NEW id \in Ids, NEW k \in Kinds, NEW f \in Nat,
           NEW w \in BOOLEAN,
           HasBit(f, DSP_FLAG_PRICE) => w,
           k = "w" => w
    PROVE  /\ Update(id, k, f) \in Command
           /\ Update(id, k, f).id = id
           /\ Update(id, k, f).op = "INCRBY" => w
           /\ Update(id, k, f).op = "SETEX" =>
                 (HasBit(Update(id, k, f).arg, DSP_FLAG_PRICE) => w)
<1>1. CASE k = "w"
  BY <1>1, UpdateType DEF Update
<1>2. CASE k = "i"
  BY <1>2, UpdateType, PriceBitKept DEF Update
<1>3. CASE k = "c"
  BY <1>3, UpdateType, PriceBitKept DEF Update
<1> QED
  BY <1>1, <1>2, <1>3 DEF Kinds

\* The value a backed command leaves on the master is backed.
LEMMA ApplyBacked ==
    ASSUME TypeOK, NEW c \in BackedCommands, NEW v \in Backed(c.id)
    PROVE  Apply(c, v) \in Backed(c.id)
<1>1. Apply(c, v) \in Nat
  BY ApplyType DEF BackedCommands, Backed
<1>2. CASE c.op = "SETEX"
  BY <1>1, <1>2 DEF Apply, Backed, BackedCommands, FlagVal
<1>3. CASE c.op = "INCRBY"
  BY <1>1, <1>3 DEF Apply, Backed, BackedCommands, FlagVal
<1> QED
  BY <1>2, <1>3 DEF BackedCommands, Command

LEMMA InitBacked == Init => IInv
<1> SUFFICES ASSUME Init PROVE IInv
  OBVIOUS
<1>1. TypeOK
  BY InitType
<1>2. \A id \in Ids : NoKey \in Backed(id)
  BY DEF Backed, FlagVal
<1>4. BackedRedis /\ BackedQueues /\ BackedSeen
  BY <1>2 DEF Init, BackedRedis, BackedQueues, BackedSeen
<1>5. BackedTally
  <2>1. \A id \in Ids, k \in Kinds : ~ Valid(id, k) > 0 /\ ~ Repeated(id, k) > 0
    BY DEF Init, Valid, Repeated, Verdicts
  <2>2. "w" \in Kinds
    BY DEF Kinds
  <2> QED
    BY <2>1, <2>2 DEF BackedTally
<1> QED
  BY <1>1, <1>4, <1>5 DEF IInv

LEMMA SetMasterBacked ==
    ASSUME IInv, [Next]_vars, NEW id \in Ids, NEW v \in Backed(id)',
           SetMaster(id, v), UNCHANGED slave
    PROVE  BackedRedis'
<1>1. \A i \in Ids : Backed(i) \subseteq Backed(i)'
  BY BackedGrows DEF IInv
<1>2. ASSUME NEW i \in Ids
      PROVE  master'[i] \in Backed(i)' /\ slave'[i] \in Backed(i)' /\ lag'[i] \in Seq(Backed(i)')
  <2>1. lag[i] \in Seq(Backed(i)')
    BY <1>1, SeqMonotone DEF IInv, BackedRedis
  <2>2. master[i] \in Backed(i)' /\ slave[i] \in Backed(i)'
    BY <1>1 DEF IInv, BackedRedis
  <2>3. /\ master'[i] = (IF i = id THEN v ELSE master[i])
        /\ lag'[i] = (IF i = id THEN Append(lag[i], v) ELSE lag[i])
    BY DEF IInv, TypeOK, SetMaster
  <2> QED
    BY <2>1, <2>2, <2>3
<1> QED
  BY <1>2 DEF BackedRedis

\* What a step leaves alone stays backed.
LEMMA BackedStays ==
    ASSUME IInv, [Next]_vars
    PROVE  /\ UNCHANGED <<master, lag, slave>> => BackedRedis'
           /\ UNCHANGED cmds_id => cmds_id' \in Seq(BackedCommands)'
           /\ UNCHANGED batch => batch' \in Seq(BackedCommands)'
           /\ UNCHANGED <<pc, notice, seen>> => BackedSeen'
           /\ UNCHANGED tally => BackedTally'
<1>1. \A i \in Ids : Backed(i) \subseteq Backed(i)' /\ Seq(Backed(i)) \subseteq Seq(Backed(i)')
  BY BackedGrows, SeqMonotone DEF IInv
<1>2. Seq(BackedCommands) \subseteq Seq(BackedCommands')
  BY BackedGrows, SeqMonotone DEF IInv
<1>3. UNCHANGED <<master, lag, slave>> => BackedRedis'
  BY <1>1 DEF IInv, BackedRedis
<1>4. UNCHANGED cmds_id => cmds_id' \in Seq(BackedCommands)'
  BY <1>2 DEF IInv, BackedQueues
<1>5. UNCHANGED batch => batch' \in Seq(BackedCommands)'
  BY <1>2 DEF IInv, BackedQueues
<1>6. UNCHANGED <<pc, notice, seen>> => BackedSeen'
  <2>1. \A t \in Threads : notice[t].id \in Ids
    BY DEF IInv, TypeOK, Notice
  <2> QED
    BY <1>1, <2>1 DEF IInv, BackedSeen
<1>7. UNCHANGED tally => BackedTally'
  BY History DEF IInv, BackedTally, Valid, Repeated
<1> QED
  BY <1>3, <1>4, <1>5, <1>6, <1>7

\* Every step keeps every copy of a flag backed.
LEMMA NextBacked == IInv /\ [Next]_vars => IInv'
<1> SUFFICES ASSUME IInv, [Next]_vars PROVE IInv'
  OBVIOUS
<1> USE DEF redisVars, pipeVars, reqVars
<1>0. TypeOK /\ TypeOK' /\ BackedRedis /\ BackedQueues /\ BackedSeen /\ BackedTally
  BY NextType DEF IInv
\* Redis
<1>1. ASSUME NEW id \in Ids, Replicate(id) PROVE IInv'
  <2>1. ASSUME NEW i \in Ids
        PROVE  master'[i] \in Backed(i)' /\ slave'[i] \in Backed(i)' /\ lag'[i] \in Seq(Backed(i)')
    <3>1. Backed(i)' = Backed(i)
      BY <1>1 DEF Replicate, Backed, Valid
    <3>2. lag[i] \in Seq(Backed(i)) /\ (i = id => lag[i] # <<>>)
      BY <1>0, <1>1 DEF BackedRedis, Replicate
    <3>3. /\ master'[i] = master[i]
          /\ slave'[i] = (IF i = id THEN Head(lag[i]) ELSE slave[i])
          /\ lag'[i] = (IF i = id THEN Tail(lag[i]) ELSE lag[i])
      BY <1>0, <1>1 DEF TypeOK, Replicate
    <3> QED
      BY <1>0, <3>1, <3>2, <3>3 DEF BackedRedis
  <2>2. BackedRedis'
    BY <2>1 DEF BackedRedis
  <2> QED
    BY <1>0, <1>1, <2>2, BackedStays DEF IInv, Replicate, BackedQueues
<1>2. ASSUME NEW id \in Ids, Expire(id) PROVE IInv'
  <2>1. NoKey \in Backed(id)'
    BY DEF Backed, FlagVal
  <2>2. BackedRedis'
    BY <1>2, <2>1, SetMasterBacked DEF Expire
  <2> QED
    BY <1>0, <1>2, <2>2, BackedStays DEF IInv, Expire, BackedQueues
<1>3. ASSUME NEW id \in Ids, Bid(id) PROVE IInv'
  <2>1. DSP_FLAG_BID \in Backed(id)'
    BY <1>3 DEF Bid, Backed, FlagVal, HasBit, NoKey, DSP_FLAG_BID, DSP_FLAG_PRICE
  <2>2. BackedRedis'
    BY <1>3, <2>1, SetMasterBacked DEF Bid
  <2> QED
    BY <1>0, <1>3, <2>2, BackedStays DEF IInv, Bid, BackedQueues
\* The doit threads
<1>4. ASSUME NEW t \in Threads, NEW id \in Ids, NEW k \in Kinds, Accept(t, id, k)
      PROVE  IInv'
  <2>1. BackedSeen'
    BY <1>0, <1>4 DEF TypeOK, Accept, BackedSeen, Backed, Valid
  <2> QED
    BY <1>0, <1>4, <2>1, BackedStays DEF IInv, Accept, BackedQueues
<1>5. ASSUME NEW t \in Threads, ReadFlag(t) \/ ReadFlagBroken(t) \/ ReadFlagError(t)
      PROVE  IInv'
  <2>1. notice[t].id \in Ids
    BY <1>0 DEF TypeOK, Notice
  <2>2. seen'[t] \in Backed(notice[t].id)
    <3>1. CASE ReadFlag(t)
      BY <1>0, <2>1, <3>1 DEF ReadFlag, BackedRedis, TypeOK
    <3>2. CASE ReadFlagBroken(t)
      BY <1>0, <3>2 DEF ReadFlagBroken, Backed, FlagVal, TypeOK
    <3>3. CASE ReadFlagError(t)
      BY <1>0, <3>3 DEF ReadFlagError, Backed, FlagVal, TypeOK, HasBit, DSP_FLAG_PRICE
    <3> QED
      BY <1>5, <3>1, <3>2, <3>3
  <2>3. /\ UNCHANGED <<redisVars, cmds_id, pipeVars, notice, run_flag, bids, sent, tally>>
        /\ \A u \in Threads : u # t => pc'[u] = pc[u] /\ seen'[u] = seen[u]
    BY <1>0, <1>5 DEF ReadFlag, ReadFlagBroken, ReadFlagError, TypeOK
  <2>4. BackedSeen'
    BY <1>0, <2>2, <2>3 DEF BackedSeen, Backed, Valid
  <2> QED
    BY <1>0, <2>3, <2>4, BackedStays DEF IInv, BackedQueues
<1>6. ASSUME NEW t \in Threads, NEW v \in Verdicts, Conclude(t, v),
             UNCHANGED <<redisVars, pipeVars, notice, seen, bids>>,
             cmds_id' \in Seq(BackedCommands)',
             v = "valid" => ("errorReply" \notin Faults => notice[t].id \in bids),
             v = "repeated" /\ notice[t].kind = "w" => Valid(notice[t].id, "w") > 0
      PROVE  IInv'
  <2>1. BackedSeen'
    <3>1. \A u \in Threads : pc'[u] = "judge" => pc[u] = "judge" /\ notice[u].id \in Ids
      BY <1>0, <1>6, ConcludeCounts DEF TypeOK, Notice
    <3> QED
      BY <1>0, <1>6, <3>1, BackedGrows DEF BackedSeen
  <2>2. BackedTally'
    <3>1. ASSUME NEW id \in Ids, NEW k \in Kinds,
                 "errorReply" \notin Faults, Valid(id, k)' > 0
          PROVE  id \in bids'
      <4>1. Valid(id, k) > 0 \/ (v = "valid" /\ notice[t].id = id)
        BY <1>0, <1>6, <3>1, ConcludeCounts DEF Valid, Verdicts
      <4> QED
        BY <1>0, <1>6, <3>1, <4>1 DEF BackedTally
    <3>2. ASSUME NEW id \in Ids, Repeated(id, "w")' > 0
          PROVE  Valid(id, "w")' > 0
      <4>1. "w" \in Kinds /\ "valid" \in Verdicts /\ "repeated" \in Verdicts
        BY DEF Kinds, Verdicts
      <4>2. Repeated(id, "w") > 0 \/ (v = "repeated" /\ notice[t].id = id /\ notice[t].kind = "w")
        BY <1>0, <1>6, <3>2, <4>1, ConcludeCounts DEF Repeated
      <4>3. Valid(id, "w") > 0
        BY <1>0, <1>6, <4>2 DEF BackedTally
      <4>4. tally'[id]["w"]["valid"] >= tally[id]["w"]["valid"]
            /\ tally'[id]["w"]["valid"] \in Nat /\ tally[id]["w"]["valid"] \in Nat
        BY <1>0, <4>1, History
      <4> QED
        BY <4>3, <4>4 DEF Valid
    <3> QED
      BY <3>1, <3>2 DEF BackedTally
  <2> QED
    BY <1>0, <1>6, <2>1, <2>2, BackedStays DEF IInv, BackedQueues
<1>7. ASSUME NEW t \in Threads, JudgeNotBid(t) \/ NoContext(t) PROVE IInv'
  <2>1. PICK v \in {"notbid", "unjudged"} : Conclude(t, v)
    BY <1>7 DEF JudgeNotBid, NoContext
  <2>2. UNCHANGED <<redisVars, cmds_id, pipeVars, notice, seen, bids>>
    BY <1>7 DEF JudgeNotBid, NoContext
  <2>3. cmds_id' \in Seq(BackedCommands)'
    BY <2>2, BackedStays
  <2> QED
    BY <1>6, <2>1, <2>2, <2>3 DEF Verdicts
<1>8. ASSUME NEW t \in Threads, JudgeRepeated(t) PROVE IInv'
  <2>1. Conclude(t, "repeated") /\ UNCHANGED <<redisVars, cmds_id, pipeVars, notice, seen, bids>>
    BY <1>8 DEF JudgeRepeated
  <2>2. cmds_id' \in Seq(BackedCommands)'
    BY <2>1, BackedStays
  <2>3. notice[t].kind = "w" => Valid(notice[t].id, "w") > 0
    BY <1>0, <1>8 DEF JudgeRepeated, Fresh, BackedSeen, Backed
  <2> QED
    BY <1>6, <2>1, <2>2, <2>3 DEF Verdicts
<1>9. ASSUME NEW t \in Threads, JudgeValid(t) PROVE IInv'
  <2> DEFINE id == notice[t].id
             k  == notice[t].kind
             c  == Update(id, k, seen[t])
  <2>1. Conclude(t, "valid") /\ UNCHANGED <<redisVars, pipeVars, notice, seen, bids>>
    BY <1>9 DEF JudgeValid
  <2>2. id \in Ids /\ k \in Kinds /\ seen[t] \in Nat /\ seen[t] \in Backed(id)
    BY <1>0, <1>9 DEF TypeOK, Notice, JudgeValid, FlagVal, BackedSeen
  <2>3. /\ HasBit(seen[t], DSP_FLAG_PRICE) => Valid(id, "w")' > 0
        /\ k = "w" => Valid(id, "w")' > 0
    <3>1. "w" \in Kinds /\ "valid" \in Verdicts
      BY DEF Kinds, Verdicts
    <3>2. /\ tally[id]["w"]["valid"] \in Nat
          /\ tally'[id]["w"]["valid"] = IF k = "w" THEN tally[id]["w"]["valid"] + 1
                                                   ELSE tally[id]["w"]["valid"]
      BY <1>0, <2>1, <2>2, <3>1, ConcludeCounts
    <3>3. HasBit(seen[t], DSP_FLAG_PRICE) => tally[id]["w"]["valid"] > 0
      BY <1>9, <2>2 DEF Backed, JudgeValid, Valid
    <3>4. notice' = notice
      BY <2>1
    <3> QED
      BY <3>2, <3>3, <3>4 DEF Valid
  <2>4. "errorReply" \notin Faults => id \in bids
    BY <1>9, <2>2 DEF Backed, JudgeValid
  <2>5. c \in BackedCommands'
    <3> DEFINE w == Valid(id, "w")' > 0
    <3>1. /\ c \in Command /\ c.id = id
          /\ c.op = "INCRBY" => w
          /\ c.op = "SETEX" => (HasBit(c.arg, DSP_FLAG_PRICE) => w)
      <4>1. w \in BOOLEAN
        OBVIOUS
      <4> HIDE DEF w
      <4> QED
        BY <2>2, <2>3, <4>1, UpdateBacked DEF w
    <3> QED
      BY <2>1, <2>4, <3>1 DEF BackedCommands
  <2>6. cmds_id' = Append(cmds_id, c)
    BY <1>9 DEF JudgeValid
  <2>7. cmds_id \in Seq(BackedCommands')
    BY <1>0, BackedGrows, SeqMonotone DEF BackedQueues
  <2>8. cmds_id' \in Seq(BackedCommands)'
    BY <2>5, <2>6, <2>7
  <2> QED
    BY <1>6, <2>1, <2>4, <2>8 DEF Verdicts
\* threadpipeline
<1>10. CASE PipeTake
  <2>1. BackedCommands' = BackedCommands
    BY <1>10 DEF PipeTake, BackedCommands, Valid
  <2> QED
    BY <1>0, <1>10, <2>1, BackedStays DEF IInv, PipeTake, BackedQueues
<1>11. CASE PipeDrop
  BY <1>0, <1>11, BackedStays DEF IInv, PipeDrop, BackedQueues
<1>12. CASE PipeEmpty \/ PipeDone \/ Stop
  BY <1>0, <1>12, BackedStays DEF IInv, PipeEmpty, PipeDone, Stop, BackedQueues
<1>13. CASE PipeBreak
  BY <1>0, <1>13, BackedStays DEF IInv, PipeBreak, BackedQueues
<1>14. CASE PipeExec
  <2>0. PICK c \in BackedCommands : c = Head(batch)
    BY <1>0, <1>14 DEF PipeExec, BackedQueues
  <2>1. c \in BackedCommands /\ c.id \in Ids /\ Tail(batch) \in Seq(BackedCommands)
    BY <1>0, <1>14 DEF PipeExec, BackedQueues, BackedCommands, Command
  <2>2. Apply(c, master[c.id]) \in Backed(c.id)'
    BY <1>0, <2>1, ApplyBacked, BackedGrows DEF BackedRedis
  <2>3. BackedRedis'
    BY <1>14, <2>0, <2>1, <2>2, SetMasterBacked DEF PipeExec
  <2>4. BackedCommands' = BackedCommands
    BY <1>14 DEF PipeExec, BackedCommands, Valid
  <2> QED
    BY <1>0, <1>14, <2>1, <2>3, <2>4, BackedStays DEF IInv, PipeExec, BackedQueues
<1>15. CASE UNCHANGED vars
  BY <1>0, <1>15, BackedStays DEF IInv, vars, BackedQueues
<1> QED
  BY <1>1, <1>2, <1>3, <1>4, <1>5, <1>7, <1>8, <1>9, <1>10, <1>11, <1>12, <1>13,
     <1>14, <1>15 DEF Next

\* While redis never answers a GET with an error, a notice is accepted only for
\* an id the bidder has answered, whatever is lost, late or repeated.
THEOREM OnlyBidsAreAccepted ==
    ASSUME "errorReply" \notin Faults
    PROVE  Spec => []ValidOnlyIfBid
<1>1. IInv => ValidOnlyIfBid
  BY DEF IInv, BackedTally, ValidOnlyIfBid
<1> QED
  BY <1>1, InitBacked, NextBacked, PTL DEF Spec

\* A win notice is rejected as repeated only when one was accepted before,
\* under every fault of the model.
THEOREM RejectedWinsWereWon == Spec => []RejectedWinWasWon
<1>1. IInv => RejectedWinWasWon
  BY DEF IInv, BackedTally, RejectedWinWasWon
<1> QED
  BY <1>1, InitBacked, NextBacked, PTL DEF Spec

=============================================================================
