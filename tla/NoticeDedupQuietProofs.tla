----------------------- MODULE NoticeDedupQuietProofs -----------------------
(* When de-duplication is exact, and what holds of every id: further theorems
   about NoticeDedup, for every set of ids and threads.                    *)
EXTENDS NoticeDedupProofs

-----------------------------------------------------------------------------
(* The commands of an id that wait to be executed                          *)

\* The commands of the id in a queue.
Of(s, id) == {s[n] : n \in {m \in 1..Len(s) : s[m].id = id}}

Single(s, id) == \A m, n \in 1..Len(s) : s[m].id = id /\ s[n].id = id => m = n

Pending(id) == Of(cmds_id, id) \cup Of(batch, id)

OnlyOne(id) ==
    /\ Single(cmds_id, id) /\ Single(batch, id)
    /\ Of(cmds_id, id) = {} \/ Of(batch, id) = {}

\* Between two batches there is no batch.
BatchSound == pipe # "send" => batch = <<>>

LEMMA OfEmpty == \A id : Of(<<>>, id) = {} /\ Single(<<>>, id)
BY DEF Of, Single

LEMMA OfMentions == \A s, id : Mentions(s, id) <=> Of(s, id) # {}
BY DEF Of, Mentions

LEMMA OfType ==
    ASSUME NEW s \in Seq(Command), NEW id
    PROVE  \A c \in Of(s, id) : c \in Command /\ c.id = id
BY DEF Of

LEMMA OfAppend ==
    ASSUME NEW s \in Seq(Command), NEW c \in Command, NEW id
    PROVE  /\ Of(Append(s, c), id) = Of(s, id) \cup (IF c.id = id THEN {c} ELSE {})
           /\ Single(s, id) /\ (Of(s, id) = {} \/ c.id # id) => Single(Append(s, c), id)
<1> DEFINE a == Append(s, c)
           l == Len(s)
<1>1. /\ l \in Nat /\ Len(a) = l + 1 /\ a[l + 1] = c
      /\ \A n \in 1..l : a[n] = s[n]
      /\ \A n \in 1..l+1 : n \in 1..l \/ n = l + 1
      /\ \A n \in 1..l : n \in 1..l+1
      /\ l + 1 \in 1..l+1
  OBVIOUS
<1> HIDE DEF a, l
<1>2. Of(s, id) = {s[n] : n \in {m \in 1..l : s[m].id = id}}
  BY DEF Of, l
<1>3. Of(a, id) = {a[n] : n \in {m \in 1..l+1 : a[m].id = id}}
  BY <1>1 DEF Of
<1>4. Of(a, id) = Of(s, id) \cup (IF c.id = id THEN {c} ELSE {})
  <2>1. ASSUME NEW x \in Of(a, id) PROVE x \in Of(s, id) \/ (c.id = id /\ x = c)
    <3>1. PICK n \in 1..l+1 : a[n].id = id /\ x = a[n]
      BY <1>3, <2>1
    <3> QED
      BY <1>1, <1>2, <3>1
  <2>2. ASSUME NEW x \in Of(s, id) PROVE x \in Of(a, id)
    <3>1. PICK n \in 1..l : s[n].id = id /\ x = s[n]
      BY <1>2, <2>2
    <3> QED
      BY <1>1, <1>3, <3>1
  <2>3. c.id = id => c \in Of(a, id)
    BY <1>1, <1>3
  <2> QED
    BY <2>1, <2>2, <2>3
<1>5. ASSUME Single(s, id), Of(s, id) = {} \/ c.id # id PROVE Single(a, id)
  <2> SUFFICES ASSUME NEW m \in 1..l+1, NEW n \in 1..l+1, a[m].id = id, a[n].id = id
               PROVE  m = n
    BY <1>1 DEF Single
  <2>1. CASE m \in 1..l /\ n \in 1..l
    BY <1>1, <1>5, <2>1 DEF Single, l
  <2>2. CASE m = l + 1 /\ n = l + 1
    BY <2>2
  <2>3. CASE ~(m \in 1..l) \/ ~(n \in 1..l)
    <3>1. c.id = id
      BY <1>1, <2>3
    <3>2. ~(\E i \in 1..l : s[i].id = id)
      BY <1>2, <1>5, <3>1
    <3> QED
      BY <1>1, <3>2
  <2> QED
    BY <2>1, <2>2, <2>3
<1> QED
  BY <1>4, <1>5 DEF a

LEMMA OfTail ==
    ASSUME NEW s \in Seq(Command), s # <<>>, NEW id
    PROVE  /\ Of(Tail(s), id) \subseteq Of(s, id)
           /\ Head(s).id = id => Head(s) \in Of(s, id)
           /\ Head(s).id # id => Of(Tail(s), id) = Of(s, id)
           /\ Single(s, id) => Single(Tail(s), id)
           /\ Single(s, id) /\ Head(s).id = id => Of(Tail(s), id) = {}
<1> DEFINE t == Tail(s)
           l == Len(s)
<1>1. /\ l \in Nat \ {0} /\ Len(t) = l - 1 /\ Head(s) = s[1] /\ 1 \in 1..l
      /\ \A n \in 1..l-1 : t[n] = s[n+1] /\ n + 1 \in 1..l /\ n + 1 # 1
      /\ \A n \in 1..l : n = 1 \/ (n - 1 \in 1..l-1 /\ s[n] = t[n-1])
      /\ \A m, n \in 1..l-1 : m + 1 = n + 1 => m = n
  OBVIOUS
<1> HIDE DEF t, l
<1>2. Of(s, id) = {s[n] : n \in {m \in 1..l : s[m].id = id}}
  BY DEF Of, l
<1>3. Of(t, id) = {t[n] : n \in {m \in 1..l-1 : t[m].id = id}}
  BY <1>1 DEF Of
<1>4. Of(t, id) \subseteq Of(s, id)
  BY <1>1, <1>2, <1>3
<1>5. Head(s).id = id => Head(s) \in Of(s, id)
  BY <1>1, <1>2
<1>6. Head(s).id # id => Of(t, id) = Of(s, id)
  <2> SUFFICES ASSUME Head(s).id # id, NEW x \in Of(s, id) PROVE x \in Of(t, id)
    BY <1>4
  <2>1. PICK n \in 1..l : s[n].id = id /\ x = s[n]
    BY <1>2
  <2> QED
    BY <1>1, <1>3, <2>1
<1>7. Single(s, id) => Single(t, id)
  <2> SUFFICES ASSUME Single(s, id), NEW m \in 1..l-1, NEW n \in 1..l-1,
                      t[m].id = id, t[n].id = id
               PROVE  m = n
    BY <1>1 DEF Single
  <2>1. m + 1 = n + 1
    BY <1>1 DEF Single, l
  <2> QED
    BY <1>1, <2>1
<1>8. Single(s, id) /\ Head(s).id = id => Of(t, id) = {}
  <2> SUFFICES ASSUME Single(s, id), Head(s).id = id, NEW n \in 1..l-1, t[n].id = id PROVE FALSE
    BY <1>3
  <2> QED
    BY <1>1 DEF Single, l
<1> QED
  BY <1>4, <1>5, <1>6, <1>7, <1>8 DEF t

-----------------------------------------------------------------------------
(* What the steps do to the commands of an id                              *)

QueuesType == cmds_id \in Seq(Command) /\ batch \in Seq(Command)

LEMMA QueuesSame ==
    ASSUME UNCHANGED <<cmds_id, batch>>, NEW id
    PROVE  Pending(id)' = Pending(id) /\ (OnlyOne(id)' <=> OnlyOne(id))
BY DEF Pending, OnlyOne

LEMMA PendingType ==
    ASSUME QueuesType, NEW id, NEW c \in Pending(id)
    PROVE  c \in Command /\ c.id = id
BY OfType DEF Pending, QueuesType

LEMMA PendingMentions ==
    ASSUME NEW id
    PROVE  Pending(id) # {} <=> Mentions(cmds_id, id) \/ Mentions(batch, id)
BY OfMentions DEF Pending

\* A command is pushed.
LEMMA PushPending ==
    ASSUME QueuesType, NEW c \in Command, cmds_id' = Append(cmds_id, c), batch' = batch, NEW id
    PROVE  /\ c.id = id => Pending(id)' = Pending(id) \cup {c}
           /\ c.id # id => Pending(id)' = Pending(id)
           /\ OnlyOne(id) /\ (Pending(id) = {} \/ c.id # id) => OnlyOne(id)'
<1>1. Of(cmds_id', id) = Of(cmds_id, id) \cup (IF c.id = id THEN {c} ELSE {})
  BY OfAppend DEF QueuesType
<1>2. Single(cmds_id, id) /\ (Of(cmds_id, id) = {} \/ c.id # id) => Single(cmds_id', id)
  BY OfAppend DEF QueuesType
<1>3. Pending(id)' = Of(cmds_id', id) \cup Of(batch, id)
  BY DEF Pending
<1>4. OnlyOne(id)' <=> /\ Single(cmds_id', id) /\ Single(batch, id)
                       /\ Of(cmds_id', id) = {} \/ Of(batch, id) = {}
  BY DEF OnlyOne
<1> QED
  BY <1>1, <1>2, <1>3, <1>4 DEF Pending, OnlyOne

\* The vector is swapped out.
LEMMA TakePending ==
    ASSUME batch = <<>>, batch' = cmds_id, cmds_id' = <<>>, NEW id
    PROVE  Pending(id)' = Pending(id) /\ (OnlyOne(id) => OnlyOne(id)')
<1>1. Of(batch, id) = {} /\ Of(cmds_id', id) = {} /\ Single(cmds_id', id)
  BY OfEmpty
<1>2. Pending(id)' = Of(cmds_id', id) \cup Of(batch', id)
  BY DEF Pending
<1>3. OnlyOne(id)' <=> /\ Single(cmds_id', id) /\ Single(batch', id)
                       /\ Of(cmds_id', id) = {} \/ Of(batch', id) = {}
  BY DEF OnlyOne
<1> QED
  BY <1>1, <1>2, <1>3 DEF Pending, OnlyOne

\* The next command is executed.
LEMMA ExecPending ==
    ASSUME QueuesType, batch # <<>>, batch' = Tail(batch), cmds_id' = cmds_id, NEW id, OnlyOne(id)
    PROVE  /\ OnlyOne(id)'
           /\ Head(batch).id # id => Pending(id)' = Pending(id)
           /\ Head(batch).id = id => Head(batch) \in Pending(id) /\ Pending(id)' = {}
<1>1. /\ Of(batch', id) \subseteq Of(batch, id)
      /\ Head(batch).id = id => Head(batch) \in Of(batch, id)
      /\ Head(batch).id # id => Of(batch', id) = Of(batch, id)
      /\ Single(batch, id) => Single(batch', id)
      /\ Single(batch, id) /\ Head(batch).id = id => Of(batch', id) = {}
  BY OfTail DEF QueuesType
<1>2. Pending(id)' = Of(cmds_id, id) \cup Of(batch', id)
  BY DEF Pending
<1>3. OnlyOne(id)' <=> /\ Single(cmds_id, id) /\ Single(batch', id)
                       /\ Of(cmds_id, id) = {} \/ Of(batch', id) = {}
  BY DEF OnlyOne
<1> QED
  BY <1>1, <1>2, <1>3 DEF Pending, OnlyOne

\* One of the queues is lost.
LEMMA LosePending ==
    ASSUME NEW id, OnlyOne(id),
           \/ cmds_id' = <<>> /\ batch' = batch
           \/ batch' = <<>> /\ cmds_id' = cmds_id
    PROVE  /\ OnlyOne(id)' /\ Pending(id)' \subseteq Pending(id)
           /\ cmds_id' = cmds_id /\ ~Mentions(batch, id) => Pending(id)' = Pending(id)
           /\ batch' = batch /\ ~Mentions(cmds_id, id) => Pending(id)' = Pending(id)
<1>1. Of(<<>>, id) = {} /\ Single(<<>>, id)
  BY OfEmpty
<1>2. Pending(id)' = Of(cmds_id', id) \cup Of(batch', id)
  BY DEF Pending
<1>3. OnlyOne(id)' <=> /\ Single(cmds_id', id) /\ Single(batch', id)
                       /\ Of(cmds_id', id) = {} \/ Of(batch', id) = {}
  BY DEF OnlyOne
<1> QED
  BY <1>1, <1>2, <1>3, OfMentions DEF Pending, OnlyOne

LEMMA NextBatchSound == TypeOK /\ BatchSound /\ [Next]_vars => BatchSound'
<1> SUFFICES ASSUME BatchSound, [Next]_vars PROVE BatchSound'
  OBVIOUS
<1>1. CASE PipeTake \/ PipeDrop \/ PipeEmpty \/ PipeExec \/ PipeDone \/ PipeBreak
  BY <1>1 DEF PipeTake, PipeDrop, PipeEmpty, PipeExec, PipeDone, PipeBreak, BatchSound
<1>2. CASE UNCHANGED pipeVars
  BY <1>2 DEF pipeVars, BatchSound
<1>3. CASE UNCHANGED vars
  BY <1>2, <1>3 DEF vars
<1> QED
  BY <1>1, <1>2, <1>3 DEF Next, Replicate, Expire, Bid, Accept, ReadFlag, ReadFlagBroken, ReadFlagError,
         NoContext, JudgeNotBid, JudgeValid, JudgeRepeated, Stop
-----------------------------------------------------------------------------
(* The show bit needs an impression, or two wins                           *)

\* No impression, and no second win of the id, was accepted so far.
Light(id) == Valid(id, "i") = 0 /\ Valid(id, "w") <= 1

Low == {NoKey, 0, 1, 2, 3}     \* flags without the show bit

LightRedis(id) == master[id] \in Low /\ slave[id] \in Low /\ lag[id] \in Seq(Low)

LightSeen(id) == \A t \in Threads : pc[t] = "judge" /\ notice[t].id = id => seen[t] \in Low

\* One win at most waits to be added, to a flag that has none.
LightQueue(id) ==
    /\ OnlyOne(id)
    /\ \A c \in Pending(id) : c.op = "INCRBY" /\ c.arg = DSP_FLAG_PRICE
    /\ Pending(id) # {} => Valid(id, "w") # 0
    /\ Valid(id, "w") = 0 \/ Pending(id) # {} => master[id] \in {NoKey, 1}

LightTally(id) == Valid(id, "c") = 0 /\ Repeated(id, "i") = 0

LightInv ==
    /\ TypeOK /\ BatchSound
    /\ \A id \in Ids : Light(id) =>
          LightRedis(id) /\ LightSeen(id) /\ LightQueue(id) /\ LightTally(id)

LEMMA LowBits ==
    /\ \A v \in Low : v # NoKey => ~HasBit(v, DSP_FLAG_SHOW)
    /\ NoKey \in Low /\ 0 \in Low /\ 1 \in Low /\ Low \subseteq FlagVal
BY DEF Low, HasBit, DSP_FLAG_SHOW, NoKey, FlagVal

LEMMA TallyType ==
    ASSUME TypeOK, NEW id \in Ids, NEW k \in Kinds
    PROVE  Valid(id, k) \in Nat /\ Repeated(id, k) \in Nat
<1>1. tally[id][k] \in [Verdicts -> Nat]
  BY DEF TypeOK
<1> QED
  BY <1>1 DEF Valid, Repeated, Verdicts

LEMMA TallySame ==
    ASSUME tally' = tally, NEW id, NEW k
    PROVE  Valid(id, k)' = Valid(id, k) /\ Repeated(id, k)' = Repeated(id, k)
BY DEF Valid, Repeated

\* What was light after a step was light before it.
LEMMA LightBefore ==
    ASSUME TypeOK, [Next]_vars, NEW id \in Ids, Light(id)'
    PROVE  /\ Light(id)
           /\ Valid(id, "w")' >= Valid(id, "w")
           /\ Valid(id, "w")' \in Nat /\ Valid(id, "w") \in Nat
<1>1. "valid" \in Verdicts /\ "w" \in Kinds /\ "i" \in Kinds
  BY DEF Verdicts, Kinds
<1>2. /\ tally[id]["w"]["valid"] \in Nat /\ tally'[id]["w"]["valid"] \in Nat
      /\ tally'[id]["w"]["valid"] >= tally[id]["w"]["valid"]
      /\ tally[id]["i"]["valid"] \in Nat /\ tally'[id]["i"]["valid"] \in Nat
      /\ tally'[id]["i"]["valid"] >= tally[id]["i"]["valid"]
  BY <1>1, History
<1> QED
  BY <1>2 DEF Light, Valid

LightParts(id) == LightRedis(id) /\ LightSeen(id) /\ LightQueue(id) /\ LightTally(id)

LEMMA LightSetMaster ==
    ASSUME TypeOK, NEW id \in Ids, LightRedis(id), NEW i \in Ids, NEW v,
           SetMaster(i, v), slave' = slave, i = id => v \in Low
    PROVE  LightRedis(id)' /\ (i # id => master'[id] = master[id]) /\ (i = id => master'[id] = v)
<1>1. /\ master'[id] = (IF i = id THEN v ELSE master[id])
      /\ lag'[id] = (IF i = id THEN Append(lag[id], v) ELSE lag[id])
  BY DEF TypeOK, SetMaster
<1>2. i = id => Append(lag[id], v) \in Seq(Low)
  BY DEF LightRedis
<1> QED
  BY <1>1, <1>2 DEF LightRedis

\* The parts that a step leaves alone.
LEMMA LightSame ==
    ASSUME NEW id, LightParts(id)
    PROVE  /\ UNCHANGED <<master, slave, lag>> => LightRedis(id)'
           /\ UNCHANGED <<pc, notice, seen>> => LightSeen(id)'
           /\ UNCHANGED <<master, cmds_id, batch, tally>> => LightQueue(id)'
           /\ UNCHANGED tally => LightTally(id)'
<1>1. UNCHANGED <<master, slave, lag>> => LightRedis(id)'
  BY DEF LightParts, LightRedis
<1>2. UNCHANGED <<pc, notice, seen>> => LightSeen(id)'
  BY DEF LightParts, LightSeen
<1>3. UNCHANGED <<master, cmds_id, batch, tally>> => LightQueue(id)'
  BY QueuesSame DEF LightParts, LightQueue, Valid
<1>4. UNCHANGED tally => LightTally(id)'
  BY DEF LightParts, LightTally, Valid, Repeated
<1> QED
  BY <1>1, <1>2, <1>3, <1>4

\* Of the steps that conclude a notice, only those of the id itself matter.
LEMMA LightConclude ==
    ASSUME TypeOK, NEW id \in Ids, LightParts(id), NEW t \in Threads, NEW v \in Verdicts,
           Conclude(t, v), UNCHANGED <<notice, seen>>,
           notice[t].id = id => /\ ~(v = "valid" /\ notice[t].kind = "c")
                                /\ ~(v = "repeated" /\ notice[t].kind = "i")
    PROVE  LightSeen(id)' /\ LightTally(id)'
<1>1. /\ \A k \in Kinds, x \in Verdicts :
             tally'[id][k][x] = IF x = v /\ notice[t].id = id /\ notice[t].kind = k
                                THEN tally[id][k][x] + 1 ELSE tally[id][k][x]
      /\ \A u \in Threads : pc'[u] = "judge" => u # t /\ pc[u] = "judge"
  BY ConcludeCounts
<1>2. LightSeen(id)'
  BY <1>1 DEF LightParts, LightSeen
<1>3. /\ "c" \in Kinds /\ "i" \in Kinds /\ "valid" \in Verdicts /\ "repeated" \in Verdicts
  BY DEF Kinds, Verdicts
<1>4. LightTally(id)'
  BY <1>1, <1>3 DEF LightParts, LightTally, Valid, Repeated
<1> QED
  BY <1>2, <1>4

LEMMA NextLight ==
    ASSUME LightInv, [Next]_vars, NEW id \in Ids, Light(id)'
    PROVE  LightParts(id)'
<1> USE DEF redisVars, pipeVars, reqVars
<1>0. /\ TypeOK /\ BatchSound /\ QueuesType
      /\ LightParts(id) /\ LightRedis(id) /\ LightSeen(id) /\ LightQueue(id) /\ LightTally(id)
      /\ Valid(id, "w")' >= Valid(id, "w")
      /\ Valid(id, "w")' \in Nat /\ Valid(id, "w") \in Nat
  BY LightBefore DEF LightInv, LightParts, TypeOK, QueuesType
<1>1. ASSUME NEW i \in Ids, Replicate(i) PROVE LightParts(id)'
  <2>1. /\ master' = master
        /\ slave'[id] = (IF i = id THEN Head(lag[id]) ELSE slave[id])
        /\ lag'[id] = (IF i = id THEN Tail(lag[id]) ELSE lag[id])
        /\ i = id => lag[id] # <<>>
    BY <1>0, <1>1 DEF TypeOK, Replicate
  <2>2. LightRedis(id)'
    BY <1>0, <2>1 DEF LightRedis
  <2> QED
    BY <1>0, <1>1, <2>1, <2>2, LightSame DEF LightParts, Replicate
<1>2. ASSUME NEW i \in Ids, Expire(i) \/ Bid(i) PROVE LightParts(id)'
  <2>1. PICK v \in {NoKey, 1} : SetMaster(i, v)
    BY <1>2 DEF Expire, Bid, DSP_FLAG_BID
  <2>2. UNCHANGED <<slave, cmds_id, batch, pc, notice, seen, tally>>
    BY <1>2 DEF Expire, Bid
  <2>3. LightRedis(id)' /\ (master'[id] = master[id] \/ master'[id] \in {NoKey, 1})
    BY <1>0, <2>1, <2>2, LightSetMaster, LowBits
  <2>4. LightQueue(id)'
    BY <1>0, <2>2, <2>3, QueuesSame, TallySame DEF LightQueue
  <2> QED
    BY <1>0, <2>2, <2>3, <2>4, LightSame DEF LightParts
<1>3. ASSUME NEW t \in Threads, NEW i \in Ids, NEW k \in Kinds, Accept(t, i, k)
      PROVE  LightParts(id)'
  <2>1. LightSeen(id)'
    BY <1>0, <1>3 DEF TypeOK, Accept, LightSeen
  <2> QED
    BY <1>0, <1>3, <2>1, LightSame DEF LightParts, Accept
<1>4. ASSUME NEW t \in Threads, ReadFlag(t) \/ ReadFlagBroken(t) \/ ReadFlagError(t)
      PROVE  LightParts(id)'
  <2>1. UNCHANGED <<master, slave, lag, cmds_id, batch, notice, tally>>
    BY <1>4 DEF ReadFlag, ReadFlagBroken, ReadFlagError
  <2>2. notice[t].id = id => seen'[t] \in Low
    <3>1. seen'[t] = slave[notice[t].id] \/ seen'[t] \in {NoKey, 0}
      BY <1>0, <1>4 DEF ReadFlag, ReadFlagBroken, ReadFlagError, TypeOK
    <3> QED
      BY <1>0, <3>1, LowBits DEF LightRedis
  <2>3. \A u \in Threads : u # t => pc'[u] = pc[u] /\ seen'[u] = seen[u]
    BY <1>0, <1>4 DEF ReadFlag, ReadFlagBroken, ReadFlagError, TypeOK
  <2>4. LightSeen(id)'
    BY <1>0, <2>1, <2>2, <2>3 DEF LightSeen
  <2> QED
    BY <1>0, <2>1, <2>4, LightSame DEF LightParts
<1>5. ASSUME NEW t \in Threads, JudgeNotBid(t) \/ NoContext(t) \/ JudgeRepeated(t)
      PROVE  LightParts(id)'
  <2>1. UNCHANGED <<master, slave, lag, cmds_id, batch, notice, seen>>
    BY <1>5 DEF JudgeNotBid, NoContext, JudgeRepeated
  <2>2. PICK v \in {"notbid", "unjudged", "repeated"} :
           Conclude(t, v) /\ (v = "repeated" => JudgeRepeated(t))
    BY <1>5 DEF JudgeNotBid, NoContext, JudgeRepeated
  <2>3. ~(v = "repeated" /\ notice[t].id = id /\ notice[t].kind = "i")
    <3> SUFFICES ASSUME JudgeRepeated(t), notice[t].id = id, notice[t].kind = "i" PROVE FALSE
      BY <2>2
    <3>1. seen[t] \in Low /\ seen[t] # NoKey
      BY <1>0 DEF LightSeen, JudgeRepeated
    <3>2. Fresh("i", seen[t])
      BY <3>1, LowBits DEF Fresh
    <3> QED
      BY <3>2 DEF JudgeRepeated
  <2>4. LightSeen(id)' /\ LightTally(id)'
    BY <1>0, <2>1, <2>2, <2>3, LightConclude DEF Verdicts
  <2>5. Valid(id, "w")' = Valid(id, "w")
    <3>1. "w" \in Kinds /\ "valid" \in Verdicts
      BY DEF Kinds, Verdicts
    <3> QED
      BY <1>0, <2>2, <3>1, ConcludeCounts DEF Valid, Verdicts
  <2>6. LightQueue(id)'
    BY <1>0, <2>1, <2>5, QueuesSame DEF LightQueue
  <2> QED
    BY <1>0, <2>1, <2>4, <2>6, LightSame DEF LightParts
<1>6. ASSUME NEW t \in Threads, JudgeValid(t) PROVE LightParts(id)'
  <2> DEFINE k == notice[t].kind
             c == Update(notice[t].id, k, seen[t])
  <2>1. /\ UNCHANGED <<master, slave, lag, batch, notice, seen>> /\ Conclude(t, "valid")
        /\ cmds_id' = Append(cmds_id, c) /\ pc[t] = "judge" /\ seen[t] # NoKey /\ Fresh(k, seen[t])
    BY <1>6 DEF JudgeValid
  <2>2. notice[t].id \in Ids /\ k \in Kinds /\ seen[t] \in Nat
    BY <1>0, <2>1 DEF TypeOK, Notice, FlagVal
  <2>3. c \in Command /\ c.id = notice[t].id
    BY <2>2, UpdateType DEF Update, Kinds
  <2>4. \A j \in Kinds : Valid(id, j)' = IF notice[t].id = id /\ k = j
                                         THEN Valid(id, j) + 1 ELSE Valid(id, j)
    BY <1>0, <2>1, ConcludeCounts DEF Valid, Verdicts
  <2>5. notice[t].id = id => k = "w"
    <3> SUFFICES ASSUME notice[t].id = id, k # "w" PROVE FALSE
      OBVIOUS
    <3>1. CASE k = "c"
      BY <1>0, <2>1, <3>1, LowBits DEF LightSeen, Fresh
    <3>2. CASE k = "i"
      <4>1. Valid(id, "i")' = Valid(id, "i") + 1 /\ Valid(id, "i") \in Nat
        BY <1>0, <2>2, <2>4, <3>2, TallyType
      <4> QED
        BY <4>1 DEF Light
    <3> QED
      BY <2>2, <3>1, <3>2 DEF Kinds
  <2>6. LightSeen(id)' /\ LightTally(id)'
    <3>1. notice[t].id = id => notice[t].kind # "c"
      BY <2>5
    <3> QED
      BY <1>0, <2>1, <3>1, LightConclude DEF Verdicts
  <2>7. LightQueue(id)'
    <3>1. CASE notice[t].id # id
      <4>1. Pending(id)' = Pending(id) /\ OnlyOne(id)'
        BY <1>0, <2>1, <2>3, <3>1, PushPending DEF LightQueue
      <4>2. Valid(id, "w")' = Valid(id, "w")
        BY <2>4, <3>1 DEF Kinds
      <4> QED
        BY <1>0, <2>1, <4>1, <4>2 DEF LightQueue
    <3>2. CASE notice[t].id = id
      <4>1. k = "w" /\ Valid(id, "w")' = Valid(id, "w") + 1
        BY <2>2, <2>4, <2>5, <3>2
      <4>2. Valid(id, "w") = 0
        BY <1>0, <4>1 DEF Light
      <4>3. Pending(id) = {} /\ master[id] \in {NoKey, 1}
        BY <1>0, <4>2 DEF LightQueue
      <4>4. Pending(id)' = {c} /\ OnlyOne(id)'
        BY <1>0, <2>1, <2>3, <3>2, <4>3, PushPending DEF LightQueue
      <4>5. c.op = "INCRBY" /\ c.arg = DSP_FLAG_PRICE
        BY <4>1 DEF Update
      <4>6. Valid(id, "w")' # 0
        BY <1>0, <4>1
      <4> HIDE DEF c
      <4> QED
        BY <2>1, <4>3, <4>4, <4>5, <4>6 DEF LightQueue
    <3> QED
      BY <3>1, <3>2
  <2> QED
    BY <1>0, <2>1, <2>6, <2>7, LightSame DEF LightParts
<1>7. CASE PipeTake \/ PipeDrop \/ PipeBreak
  <2>1. UNCHANGED <<master, slave, lag, pc, notice, seen, tally>>
    BY <1>7 DEF PipeTake, PipeDrop, PipeBreak
  <2>2. Pending(id)' \subseteq Pending(id) /\ OnlyOne(id)'
    <3>1. CASE PipeTake
      BY <1>0, <3>1, TakePending DEF PipeTake, BatchSound, LightQueue
    <3>2. CASE PipeDrop \/ PipeBreak
      BY <1>0, <3>2, LosePending DEF PipeDrop, PipeBreak, LightQueue
    <3> QED
      BY <1>7, <3>1, <3>2
  <2>3. LightQueue(id)'
    BY <1>0, <2>1, <2>2, TallySame DEF LightQueue
  <2> QED
    BY <1>0, <2>1, <2>3, LightSame DEF LightParts
<1>8. CASE PipeExec
  <2> DEFINE c == Head(batch)
  <2>1. /\ UNCHANGED <<slave, cmds_id, pc, notice, seen, tally>>
        /\ batch # <<>> /\ batch' = Tail(batch) /\ SetMaster(c.id, Apply(c, master[c.id]))
    BY <1>8 DEF PipeExec
  <2>2. c \in Command /\ c.id \in Ids
    <3>1. c \in Command
      BY <1>0, <2>1 DEF QueuesType
    <3> QED
      BY <3>1 DEF Command
  <2>3. /\ OnlyOne(id)'
        /\ c.id # id => Pending(id)' = Pending(id)
        /\ c.id = id => c \in Pending(id) /\ Pending(id)' = {}
    BY <1>0, <2>1, ExecPending DEF LightQueue
  <2>4. c.id = id => Apply(c, master[c.id]) \in Low /\ Valid(id, "w") # 0
    <3> SUFFICES ASSUME c.id = id PROVE Apply(c, master[id]) \in Low /\ Valid(id, "w") # 0
      OBVIOUS
    <3>1. c \in Pending(id) /\ c.op = "INCRBY" /\ c.arg = 2
      BY <1>0, <2>3 DEF LightQueue, DSP_FLAG_PRICE
    <3>2. master[id] \in {NoKey, 1} /\ Valid(id, "w") # 0
      BY <1>0, <3>1 DEF LightQueue
    <3> HIDE DEF c
    <3> QED
      BY <3>1, <3>2 DEF Apply, Low, NoKey
  <2> HIDE DEF c
  <2>5. LightRedis(id)' /\ (c.id # id => master'[id] = master[id])
    BY <1>0, <2>1, <2>2, <2>4, LightSetMaster
  <2>6. LightQueue(id)'
    BY <1>0, <2>1, <2>3, <2>4, <2>5, TallySame DEF LightQueue
  <2> QED
    BY <1>0, <2>1, <2>5, <2>6, LightSame DEF LightParts
<1>9. CASE PipeEmpty \/ PipeDone \/ Stop \/ UNCHANGED vars
  BY <1>0, <1>9, LightSame DEF LightParts, PipeEmpty, PipeDone, Stop, vars
<1> QED
  BY <1>1, <1>2, <1>3, <1>4, <1>5, <1>6, <1>7, <1>8, <1>9 DEF Next

LEMMA LightHolds == Spec => []LightInv
<1>1. Init => LightInv
  <2> SUFFICES ASSUME Init PROVE LightInv
    OBVIOUS
  <2>1. TypeOK /\ BatchSound
    BY InitType DEF Init, BatchSound
  <2>2. ASSUME NEW id \in Ids PROVE LightParts(id)
    <3>1. LightRedis(id) /\ LightSeen(id)
      BY LowBits DEF Init, LightRedis, LightSeen
    <3>2. Pending(id) = {} /\ OnlyOne(id)
      BY OfEmpty DEF Init, Pending, OnlyOne
    <3>3. LightQueue(id)
      BY <3>2 DEF Init, LightQueue
    <3>4. LightTally(id)
      BY DEF Init, LightTally, Valid, Repeated, Kinds, Verdicts
    <3> QED
      BY <3>1, <3>3, <3>4 DEF LightParts
  <2> QED
    BY <2>1, <2>2 DEF LightInv, LightParts
<1>2. LightInv /\ [Next]_vars => LightInv'
  BY NextType, NextBatchSound, NextLight DEF LightInv, LightParts
<1> QED
  BY <1>1, <1>2, PTL DEF Spec

LEMMA NotLight ==
    ASSUME TypeOK, NEW id \in Ids, ~Light(id)
    PROVE  Valid(id, "i") > 0 \/ Valid(id, "w") > 1
<1>1. Valid(id, "i") \in Nat /\ Valid(id, "w") \in Nat
  BY TallyType DEF Kinds
<1> QED
  BY <1>1 DEF Light

\* Under every fault of the model, a click is accepted only behind an impression,
\* or when two wins of the id added up to the show bit.
THEOREM ClicksNeedImpressions == Spec => []ClickNeedsImpOrDoubleWin
<1>1. LightInv => ClickNeedsImpOrDoubleWin
  BY NotLight DEF LightInv, LightTally, ClickNeedsImpOrDoubleWin
<1> QED
  BY <1>1, LightHolds, PTL

\* And an impression is rejected as repeated only then.
THEOREM RejectedImpsWereShown == Spec => []RejectedImpNeedsImpOrDoubleWin
<1>1. LightInv => RejectedImpNeedsImpOrDoubleWin
  BY NotLight DEF LightInv, LightTally, RejectedImpNeedsImpOrDoubleWin
<1> QED
  BY <1>1, LightHolds, PTL
-----------------------------------------------------------------------------
(* Quiet ids                                                               *)

Judging(id) == {t \in Threads : pc[t] = "judge" /\ notice[t].id = id}

\* A thread that judges a notice of a quiet id is alone, and knows the flag
\* (or read it before the bid).
QuietSeen(id) ==
    /\ \A t, u \in Judging(id) : t = u
    /\ Judging(id) # {} => Pending(id) = {}
    /\ \A t \in Judging(id) : seen[t] = NoKey \/ (seen[t] = Encoded(id) /\ lag[id] = <<>>)

QuietRedis(id) ==
    /\ (lag[id] = <<>> /\ slave[id] = master[id]) \/ lag[id] = <<master[id]>>
    /\ Pending(id) = {} => master[id] = Encoded(id)
    /\ id \notin bids => Pending(id) = {} /\ lag[id] = <<>>

\* The one command that waits makes the flag that encodes what was accepted.
QuietQueue(id) ==
    /\ OnlyOne(id)
    /\ Pending(id) # {} => lag[id] = <<>>
    /\ \A c \in Pending(id) : Apply(c, master[id]) = Encoded(id)

QuietTally(id) ==
    /\ \A k \in Kinds : Valid(id, k) \in {0, 1}
    /\ \A k \in {"w", "i"} : Repeated(id, k) > 0 => Valid(id, k) = 1
    /\ Valid(id, "c") <= Valid(id, "i")
    /\ id \notin bids => \A k \in Kinds : Valid(id, k) = 0

Quiet(id) == QuietSeen(id) /\ QuietRedis(id) /\ QuietQueue(id) /\ QuietTally(id)

QuietInv == TypeOK /\ BatchSound /\ \A id \in Ids \ disturbed : Quiet(id)

LEMMA EncodedSame ==
    ASSUME NEW id, id \in bids' <=> id \in bids, \A k \in Kinds : Valid(id, k)' = Valid(id, k)
    PROVE  Encoded(id)' = Encoded(id)
<1>1. Valid(id, "w")' = Valid(id, "w") /\ Valid(id, "i")' = Valid(id, "i") /\ Valid(id, "c")' = Valid(id, "c")
  BY DEF Kinds
<1> QED
  BY <1>1 DEF Encoded

\* The flag of at most one accepted notice per kind, and its bits.
Bits(w, i, c) == 1 + 2 * w + 4 * i + 8 * c

LEMMA BitsOf ==
    ASSUME NEW w \in {0, 1}, NEW i \in {0, 1}, NEW c \in {0, 1}
    PROVE  /\ HasBit(Bits(w, i, c), 2) <=> w = 1
           /\ HasBit(Bits(w, i, c), 4) <=> i = 1
           /\ HasBit(Bits(w, i, c), 8) <=> c = 1
<1>1. CASE w = 0 /\ i = 0 /\ c = 0
  BY <1>1 DEF HasBit, Bits
<1>2. CASE w = 0 /\ i = 0 /\ c = 1
  BY <1>2 DEF HasBit, Bits
<1>3. CASE w = 0 /\ i = 1 /\ c = 0
  BY <1>3 DEF HasBit, Bits
<1>4. CASE w = 0 /\ i = 1 /\ c = 1
  BY <1>4 DEF HasBit, Bits
<1>5. CASE w = 1 /\ i = 0 /\ c = 0
  BY <1>5 DEF HasBit, Bits
<1>6. CASE w = 1 /\ i = 0 /\ c = 1
  BY <1>6 DEF HasBit, Bits
<1>7. CASE w = 1 /\ i = 1 /\ c = 0
  BY <1>7 DEF HasBit, Bits
<1>8. CASE w = 1 /\ i = 1 /\ c = 1
  BY <1>8 DEF HasBit, Bits
<1> QED
  BY <1>1, <1>2, <1>3, <1>4, <1>5, <1>6, <1>7, <1>8

LEMMA EncodedBits ==
    ASSUME NEW id, \A k \in Kinds : Valid(id, k) \in {0, 1}
    PROVE  /\ id \in bids => Encoded(id) = Bits(Valid(id, "w"), Valid(id, "i"), Valid(id, "c"))
           /\ Encoded(id) # NoKey <=> id \in bids
           /\ Encoded(id) \in FlagVal
<1>1. Valid(id, "w") \in {0, 1} /\ Valid(id, "i") \in {0, 1} /\ Valid(id, "c") \in {0, 1}
  BY DEF Kinds
<1> QED
  BY <1>1 DEF Encoded, Bits, NoKey, FlagVal, DSP_FLAG_BID, DSP_FLAG_PRICE, DSP_FLAG_SHOW, DSP_FLAG_CLICK

\* The command of an accepted notice turns the flag of the notices accepted
\* before into the flag that has this one as well.
LEMMA UpdateEncodes ==
    ASSUME NEW w \in {0, 1}, NEW i \in {0, 1}, NEW c \in {0, 1}, NEW id,
           NEW k \in Kinds, Fresh(k, Bits(w, i, c))
    PROVE  /\ k = "w" => w = 0 /\ Apply(Update(id, k, Bits(w, i, c)), Bits(w, i, c)) = Bits(1, i, c)
           /\ k = "i" => i = 0 /\ Apply(Update(id, k, Bits(w, i, c)), Bits(w, i, c)) = Bits(w, 1, c)
           /\ k = "c" => c = 0 /\ i = 1
                         /\ Apply(Update(id, k, Bits(w, i, c)), Bits(w, i, c)) = Bits(w, i, 1)
<1> DEFINE f == Bits(w, i, c)
<1>1. /\ HasBit(f, DSP_FLAG_PRICE) <=> w = 1
      /\ HasBit(f, DSP_FLAG_SHOW) <=> i = 1
      /\ HasBit(f, DSP_FLAG_CLICK) <=> c = 1
  BY BitsOf DEF DSP_FLAG_PRICE, DSP_FLAG_SHOW, DSP_FLAG_CLICK
<1>2. /\ f \in Nat /\ f # NoKey
      /\ f + 2 = Bits(w + 1, i, c) /\ f + 4 = Bits(w, i + 1, c) /\ f + 8 = Bits(w, i, c + 1)
  BY DEF Bits, NoKey
<1> HIDE DEF f
<1>3. CASE k = "w"
  <2>1. w = 0
    BY <1>1, <1>3 DEF Fresh, f
  <2>2. Apply(Update(id, k, f), f) = f + 2
    BY <1>2, <1>3 DEF Apply, Update, DSP_FLAG_PRICE
  <2> QED
    BY <1>2, <1>3, <2>1, <2>2 DEF f
<1>4. CASE k = "i"
  <2>1. i = 0
    BY <1>1, <1>4 DEF Fresh, f
  <2>2. Apply(Update(id, k, f), f) = OrBit(f, DSP_FLAG_SHOW)
    BY <1>4 DEF Apply, Update
  <2>3. OrBit(f, DSP_FLAG_SHOW) = f + 4
    BY <1>1, <2>1 DEF OrBit, DSP_FLAG_SHOW
  <2> QED
    BY <1>2, <1>4, <2>1, <2>2, <2>3 DEF f
<1>5. CASE k = "c"
  <2>1. c = 0 /\ i = 1
    BY <1>1, <1>5 DEF Fresh, f
  <2>2. Apply(Update(id, k, f), f) = OrBit(f, DSP_FLAG_CLICK)
    BY <1>5 DEF Apply, Update
  <2>3. OrBit(f, DSP_FLAG_CLICK) = f + 8
    BY <1>1, <2>1 DEF OrBit, DSP_FLAG_CLICK
  <2> QED
    BY <1>2, <1>5, <2>1, <2>2, <2>3 DEF f
<1> QED
  BY <1>3, <1>4, <1>5 DEF Kinds

\* A step that leaves alone what concerns the id, at most counting a notice
\* that repeats an accepted one.
LEMMA QuietFrame ==
    ASSUME NEW id, Quiet(id),
           master'[id] = master[id], slave'[id] = slave[id], lag'[id] = lag[id],
           Pending(id)' = Pending(id), OnlyOne(id)',
           id \in bids' <=> id \in bids,
           \A k \in Kinds : /\ Valid(id, k)' = Valid(id, k)
                            /\ Repeated(id, k)' = Repeated(id, k) \/ (k # "c" => Valid(id, k) = 1),
           \A t \in Threads : pc'[t] = "judge" /\ notice'[t].id = id =>
               pc[t] = "judge" /\ notice[t].id = id /\ seen'[t] = seen[t]
    PROVE  Quiet(id)'
<1>1. Encoded(id)' = Encoded(id)
  BY EncodedSame
<1>2. \A t \in Judging(id)' : t \in Judging(id) /\ seen'[t] = seen[t]
  BY DEF Judging
<1>3. QuietSeen(id)'
  BY <1>1, <1>2 DEF Quiet, QuietSeen
<1>4. QuietRedis(id)'
  BY <1>1 DEF Quiet, QuietRedis
<1>5. QuietQueue(id)'
  BY <1>1 DEF Quiet, QuietQueue
<1>6. QuietTally(id)'
  BY DEF Quiet, QuietTally, Kinds
<1> QED
  BY <1>3, <1>4, <1>5, <1>6 DEF Quiet

LEMMA NextQuiet ==
    ASSUME QuietInv, [Next]_vars, NEW id \in Ids, id \notin disturbed'
    PROVE  Quiet(id)'
<1> USE DEF redisVars, pipeVars, reqVars
<1>0. TypeOK /\ BatchSound /\ QueuesType
  BY DEF QuietInv, TypeOK, QueuesType
<1>a. id \notin disturbed
  BY DEF Next, Replicate, Expire, Bid, Accept, ReadFlag, ReadFlagBroken, ReadFlagError, NoContext,
         JudgeNotBid, JudgeValid, JudgeRepeated, PipeTake, PipeDrop, PipeEmpty, PipeExec, PipeDone,
         PipeBreak, Stop, vars
<1>b. Quiet(id) /\ QuietSeen(id) /\ QuietRedis(id) /\ QuietQueue(id) /\ QuietTally(id) /\ OnlyOne(id)
  BY <1>a DEF QuietInv, Quiet, QuietQueue
<1>c. \A k \in Kinds : Valid(id, k) \in {0, 1}
  BY <1>b DEF QuietTally
<1>1. ASSUME NEW x \in Ids, Replicate(x) PROVE Quiet(id)'
  <2>1. UNCHANGED <<master, cmds_id, batch, pc, notice, seen, bids, tally>>
    BY <1>1 DEF Replicate
  <2>2. Pending(id)' = Pending(id) /\ OnlyOne(id)' /\ Encoded(id)' = Encoded(id)
    BY <1>b, <2>1, QueuesSame, TallySame, EncodedSame
  <2>3. CASE x # id
    <3>1. slave'[id] = slave[id] /\ lag'[id] = lag[id]
      BY <1>0, <1>1, <2>3 DEF Replicate, TypeOK
    <3> QED
      BY <1>b, <2>1, <2>2, <3>1, TallySame, QuietFrame
  <2>4. CASE x = id
    <3>1. lag[id] = <<master[id]>>
      BY <1>1, <1>b, <2>4 DEF QuietRedis, Replicate
    <3>2. slave'[id] = master'[id] /\ lag'[id] = <<>>
      BY <1>0, <1>1, <2>1, <2>4, <3>1 DEF Replicate, TypeOK
    <3>3. QuietRedis(id)'
      BY <1>b, <2>1, <2>2, <3>2 DEF QuietRedis
    <3>4. QuietSeen(id)'
      BY <1>b, <2>1, <2>2, <3>2 DEF QuietSeen, Judging
    <3>5. QuietQueue(id)'
      BY <1>b, <2>1, <2>2, <3>2 DEF QuietQueue
    <3>6. QuietTally(id)'
      BY <1>b, <2>1, TallySame DEF QuietTally
    <3> QED
      BY <3>3, <3>4, <3>5, <3>6 DEF Quiet
  <2> QED
    BY <2>3, <2>4
<1>2. ASSUME NEW x \in Ids, Bid(x) PROVE Quiet(id)'
  <2>1. /\ UNCHANGED <<slave, cmds_id, batch, pc, notice, seen, tally>>
        /\ x \notin bids /\ bids' = bids \cup {x}
    BY <1>2 DEF Bid
  <2>2. Pending(id)' = Pending(id) /\ OnlyOne(id)'
    BY <1>b, <2>1, QueuesSame
  <2>3. CASE x # id
    <3>1. master'[id] = master[id] /\ lag'[id] = lag[id] /\ (id \in bids' <=> id \in bids)
      BY <1>0, <1>2, <2>1, <2>3 DEF Bid, SetMaster, TypeOK
    <3> QED
      BY <1>b, <2>1, <2>2, <3>1, TallySame, QuietFrame
  <2>4. CASE x = id
    <3>1. Pending(id) = {} /\ lag[id] = <<>> /\ id \in bids'
      BY <1>b, <2>1, <2>4 DEF QuietRedis
    <3>2. master'[id] = 1 /\ lag'[id] = <<1>>
      BY <1>0, <1>2, <2>4, <3>1 DEF Bid, SetMaster, TypeOK, DSP_FLAG_BID
    <3>3. \A k \in Kinds : Valid(id, k)' = 0
      BY <1>b, <2>1, <2>4, TallySame DEF QuietTally
    <3>4. Encoded(id)' = 1
      <4>1. Valid(id, "w")' = 0 /\ Valid(id, "i")' = 0 /\ Valid(id, "c")' = 0
        BY <3>3 DEF Kinds
      <4> QED
        BY <3>1, <4>1 DEF Encoded, DSP_FLAG_BID
    <3>5. \A t \in Judging(id) : seen[t] = NoKey
      BY <1>b, <2>1, <2>4 DEF QuietSeen, Encoded
    <3>6. QuietSeen(id)'
      BY <1>b, <2>1, <2>2, <3>5 DEF QuietSeen, Judging
    <3>7. QuietRedis(id)' /\ QuietQueue(id)'
      BY <2>2, <3>1, <3>2, <3>4 DEF QuietRedis, QuietQueue
    <3>8. QuietTally(id)'
      BY <1>b, <2>1, <3>1, TallySame DEF QuietTally
    <3> QED
      BY <3>6, <3>7, <3>8 DEF Quiet
  <2> QED
    BY <2>3, <2>4
<1>3. ASSUME NEW x \in Ids, Expire(x) PROVE Quiet(id)'
  <2>1. UNCHANGED <<slave, cmds_id, batch, pc, notice, seen, bids, tally>> /\ x # id
    BY <1>3 DEF Expire
  <2>2. Pending(id)' = Pending(id) /\ OnlyOne(id)'
    BY <1>b, <2>1, QueuesSame
  <2>3. master'[id] = master[id] /\ lag'[id] = lag[id]
    BY <1>0, <1>3, <2>1 DEF Expire, SetMaster, TypeOK
  <2> QED
    BY <1>b, <2>1, <2>2, <2>3, TallySame, QuietFrame
<1>4. ASSUME NEW t \in Threads, NEW x \in Ids, NEW k \in Kinds, Accept(t, x, k) PROVE Quiet(id)'
  <2>1. UNCHANGED <<master, slave, lag, cmds_id, batch, seen, bids, tally>>
    BY <1>4 DEF Accept
  <2>2. Pending(id)' = Pending(id) /\ OnlyOne(id)'
    BY <1>b, <2>1, QueuesSame
  <2>3. \A u \in Threads : pc'[u] = "judge" => u # t /\ pc[u] = "judge" /\ notice'[u] = notice[u]
    BY <1>0, <1>4 DEF Accept, TypeOK
  <2> QED
    BY <1>b, <2>1, <2>2, <2>3, TallySame, QuietFrame
<1>5. ASSUME NEW t \in Threads, ReadFlag(t) \/ ReadFlagBroken(t) \/ ReadFlagError(t)
      PROVE  Quiet(id)'
  <2>1. UNCHANGED <<master, slave, lag, cmds_id, batch, notice, bids, tally>> /\ pc[t] = "read"
    BY <1>5 DEF ReadFlag, ReadFlagBroken, ReadFlagError
  <2>2. Pending(id)' = Pending(id) /\ OnlyOne(id)' /\ Encoded(id)' = Encoded(id)
    BY <1>b, <2>1, QueuesSame, TallySame, EncodedSame
  <2>3. \A u \in Threads : u # t => pc'[u] = pc[u] /\ seen'[u] = seen[u]
    BY <1>0, <1>5 DEF ReadFlag, ReadFlagBroken, ReadFlagError, TypeOK
  <2>4. CASE notice[t].id # id
    <3>1. \A u \in Threads : pc'[u] = "judge" /\ notice'[u].id = id =>
              pc[u] = "judge" /\ notice[u].id = id /\ seen'[u] = seen[u]
      BY <2>1, <2>3, <2>4
    <3> QED
      BY <1>b, <2>1, <2>2, <3>1, TallySame, QuietFrame
  <2>5. CASE notice[t].id = id
    <3>1. ReadFlag(t) /\ ~InFlight(id)
      BY <1>5, <2>5 DEF ReadFlag, ReadFlagBroken, ReadFlagError
    <3>2. lag[id] = <<>> /\ Pending(id) = {} /\ Judging(id) = {}
      BY <3>1, PendingMentions DEF InFlight, Judging
    <3>3. seen'[t] = Encoded(id)
      <4>1. slave[id] = master[id] /\ master[id] = Encoded(id)
        BY <1>b, <3>2 DEF QuietRedis
      <4> QED
        BY <1>0, <2>5, <3>1, <4>1 DEF ReadFlag, TypeOK
    <3>4. \A u \in Judging(id)' : u = t
      BY <2>1, <2>3, <3>2 DEF Judging
    <3>5. QuietSeen(id)'
      BY <2>1, <2>2, <3>2, <3>3, <3>4 DEF QuietSeen
    <3>6. QuietRedis(id)' /\ QuietQueue(id)'
      BY <1>b, <2>1, <2>2 DEF QuietRedis, QuietQueue
    <3>7. QuietTally(id)'
      BY <1>b, <2>1, TallySame DEF QuietTally
    <3> QED
      BY <3>5, <3>6, <3>7 DEF Quiet
  <2> QED
    BY <2>4, <2>5
<1>6. ASSUME NEW t \in Threads, NoContext(t) \/ JudgeNotBid(t) \/ JudgeRepeated(t)
      PROVE  Quiet(id)'
  <2>1. UNCHANGED <<master, slave, lag, cmds_id, batch, notice, seen, bids>>
    BY <1>6 DEF NoContext, JudgeNotBid, JudgeRepeated
  <2>2. Pending(id)' = Pending(id) /\ OnlyOne(id)'
    BY <1>b, <2>1, QueuesSame
  <2>3. PICK v \in {"notbid", "unjudged", "repeated"} :
           Conclude(t, v) /\ (v = "repeated" => JudgeRepeated(t))
    BY <1>6 DEF NoContext, JudgeNotBid, JudgeRepeated
  <2>4. /\ \A k \in Kinds, x \in Verdicts :
               tally'[id][k][x] = IF x = v /\ notice[t].id = id /\ notice[t].kind = k
                                  THEN tally[id][k][x] + 1 ELSE tally[id][k][x]
        /\ \A u \in Threads : pc'[u] = "judge" => u # t /\ pc[u] = "judge"
    BY <1>0, <2>3, ConcludeCounts DEF Verdicts
  <2>5. ASSUME NEW k \in Kinds
        PROVE  /\ Valid(id, k)' = Valid(id, k)
               /\ Repeated(id, k)' = Repeated(id, k) \/ (k # "c" => Valid(id, k) = 1)
    <3>1. Valid(id, k)' = Valid(id, k)
      BY <2>3, <2>4 DEF Valid, Verdicts
    <3>2. Repeated(id, k)' = Repeated(id, k) \/ (JudgeRepeated(t) /\ notice[t].id = id /\ notice[t].kind = k)
      BY <2>3, <2>4 DEF Repeated, Verdicts
    <3>3. ASSUME JudgeRepeated(t), notice[t].id = id, notice[t].kind = k, k # "c"
          PROVE  Valid(id, k) = 1
      <4>1. seen[t] # NoKey /\ ~Fresh(k, seen[t]) /\ t \in Judging(id)
        BY <3>3 DEF JudgeRepeated, Judging
      <4>2. seen[t] = Encoded(id) /\ id \in bids
        BY <1>b, <1>c, <4>1, EncodedBits DEF QuietSeen
      <4>3. seen[t] = Bits(Valid(id, "w"), Valid(id, "i"), Valid(id, "c"))
        BY <1>c, <4>2, EncodedBits
      <4>4. (HasBit(seen[t], 2) <=> Valid(id, "w") = 1) /\ (HasBit(seen[t], 4) <=> Valid(id, "i") = 1)
        BY <1>c, <4>3, BitsOf DEF Kinds
      <4>5. k \in {"w", "i"}
        BY <3>3 DEF Kinds
      <4> QED
        BY <4>1, <4>4, <4>5 DEF Fresh, DSP_FLAG_PRICE, DSP_FLAG_SHOW
    <3> QED
      BY <3>1, <3>2, <3>3
  <2> QED
    BY <1>b, <2>1, <2>2, <2>4, <2>5, QuietFrame
<1>7. ASSUME NEW t \in Threads, JudgeValid(t) PROVE Quiet(id)'
  <2> DEFINE kind == notice[t].kind
             cmd == Update(notice[t].id, kind, seen[t])
  <2>1. /\ UNCHANGED <<master, slave, lag, batch, notice, seen, bids>> /\ Conclude(t, "valid")
        /\ cmds_id' = Append(cmds_id, cmd)
        /\ pc[t] = "judge" /\ seen[t] # NoKey /\ Fresh(kind, seen[t])
    BY <1>7 DEF JudgeValid
  <2>2. notice[t].id \in Ids /\ kind \in Kinds /\ seen[t] \in Nat
    BY <1>0, <2>1 DEF TypeOK, Notice, FlagVal
  <2>3. cmd \in Command /\ cmd.id = notice[t].id
    BY <2>2, UpdateType DEF Update, Kinds
  <2>4. /\ \A k \in Kinds, x \in Verdicts :
               tally'[id][k][x] = IF x = "valid" /\ notice[t].id = id /\ kind = k
                                  THEN tally[id][k][x] + 1 ELSE tally[id][k][x]
        /\ \A u \in Threads : pc'[u] = "judge" => u # t /\ pc[u] = "judge"
    BY <1>0, <2>1, ConcludeCounts DEF Verdicts
  <2>5. \A k \in Kinds :
            /\ Valid(id, k)' = IF notice[t].id = id /\ kind = k THEN Valid(id, k) + 1 ELSE Valid(id, k)
            /\ Repeated(id, k)' = Repeated(id, k)
    BY <2>4 DEF Valid, Repeated, Verdicts
  <2>6. /\ notice[t].id = id => Pending(id)' = Pending(id) \cup {cmd}
        /\ notice[t].id # id => Pending(id)' = Pending(id)
        /\ Pending(id) = {} \/ notice[t].id # id => OnlyOne(id)'
    BY <1>0, <1>b, <2>1, <2>3, PushPending
  <2>7. CASE notice[t].id # id
    BY <1>b, <2>1, <2>4, <2>5, <2>6, <2>7, QuietFrame
  <2>8. CASE notice[t].id = id
    <3> DEFINE w == Valid(id, "w")
               i == Valid(id, "i")
               c == Valid(id, "c")
    <3>1. t \in Judging(id)
      BY <2>1, <2>8 DEF Judging
    <3>2. /\ seen[t] = Encoded(id) /\ lag[id] = <<>> /\ Pending(id) = {}
          /\ master[id] = Encoded(id)
      BY <1>b, <2>1, <3>1 DEF QuietSeen, QuietRedis
    <3>3. id \in bids /\ seen[t] = Bits(w, i, c) /\ Encoded(id) = Bits(w, i, c)
      BY <1>c, <2>1, <3>2, EncodedBits
    <3>4. w \in {0, 1} /\ i \in {0, 1} /\ c \in {0, 1} /\ c <= i
      BY <1>b, <1>c DEF QuietTally, Kinds
    <3>5. /\ kind = "w" => w = 0 /\ Apply(cmd, Encoded(id)) = Bits(1, i, c)
          /\ kind = "i" => i = 0 /\ Apply(cmd, Encoded(id)) = Bits(w, 1, c)
          /\ kind = "c" => c = 0 /\ i = 1 /\ Apply(cmd, Encoded(id)) = Bits(w, i, 1)
      <4> HIDE DEF w, i, c
      <4> QED
        BY <2>1, <2>2, <3>3, <3>4, UpdateEncodes
    <3>6. /\ Valid(id, "w")' = IF kind = "w" THEN 1 ELSE w
          /\ Valid(id, "i")' = IF kind = "i" THEN 1 ELSE i
          /\ Valid(id, "c")' = IF kind = "c" THEN 1 ELSE c
      <4>1. /\ Valid(id, "w")' = IF kind = "w" THEN w + 1 ELSE w
            /\ Valid(id, "i")' = IF kind = "i" THEN i + 1 ELSE i
            /\ Valid(id, "c")' = IF kind = "c" THEN c + 1 ELSE c
        BY <2>5, <2>8 DEF Kinds
      <4> HIDE DEF w, i, c, kind, cmd
      <4> QED
        BY <3>5, <4>1
    <3>7. \A k \in Kinds : Valid(id, k)' \in {0, 1}
      BY <3>4, <3>6 DEF Kinds
    <3>8. Apply(cmd, Encoded(id)) = Encoded(id)'
      <4>1. Encoded(id)' = Bits(Valid(id, "w")', Valid(id, "i")', Valid(id, "c")')
        <5>1. /\ Valid(id, "w")' \in {0, 1} /\ Valid(id, "i")' \in {0, 1} /\ Valid(id, "c")' \in {0, 1}
              /\ id \in bids'
          BY <2>1, <3>3, <3>7 DEF Kinds
        <5> QED
          BY <5>1 DEF Encoded, Bits, DSP_FLAG_BID, DSP_FLAG_PRICE, DSP_FLAG_SHOW, DSP_FLAG_CLICK
      <4> HIDE DEF w, i, c, kind, cmd
      <4> QED
        BY <2>2, <3>5, <3>6, <4>1 DEF Kinds, kind
    <3>9. QuietSeen(id)'
      <4>1. Judging(id)' = {}
        BY <1>b, <2>1, <2>4, <3>1 DEF QuietSeen, Judging
      <4> QED
        BY <4>1 DEF QuietSeen
    <3>10. QuietRedis(id)'
      BY <1>b, <2>1, <2>6, <2>8, <3>3 DEF QuietRedis
    <3>11. QuietQueue(id)'
      <4>1. Pending(id)' = {cmd} /\ OnlyOne(id)' /\ master'[id] = Encoded(id) /\ lag'[id] = <<>>
        BY <2>1, <2>6, <2>8, <3>2
      <4> HIDE DEF cmd
      <4> QED
        BY <3>8, <4>1 DEF QuietQueue
    <3>12. QuietTally(id)'
      <4>1. Valid(id, "c")' <= Valid(id, "i")'
        <5> HIDE DEF w, i, c, kind
        <5> QED
          BY <3>4, <3>5, <3>6
      <4>2. \A k \in {"w", "i"} : Repeated(id, k)' > 0 => Valid(id, k)' = 1
        BY <1>b, <2>5, <3>6 DEF QuietTally, Kinds
      <4> QED
        BY <2>1, <3>3, <3>7, <4>1, <4>2 DEF QuietTally
    <3> QED
      BY <3>9, <3>10, <3>11, <3>12 DEF Quiet
  <2> QED
    BY <2>7, <2>8
<1>8. CASE PipeTake \/ PipeDrop \/ PipeBreak
  <2>1. UNCHANGED <<master, slave, lag, pc, notice, seen, bids, tally>>
    BY <1>8 DEF PipeTake, PipeDrop, PipeBreak
  <2>2. Pending(id)' = Pending(id) /\ OnlyOne(id)'
    <3>1. CASE PipeTake
      BY <1>0, <1>b, <3>1, TakePending DEF PipeTake, BatchSound
    <3>2. CASE PipeDrop
      <4>1. ~Mentions(cmds_id, id) /\ batch' = batch /\ cmds_id' = <<>>
        BY <3>2 DEF PipeDrop, Ids_of
      <4> QED
        BY <1>b, <4>1, LosePending
    <3>3. CASE PipeBreak
      <4>1. ~Mentions(batch, id) /\ cmds_id' = cmds_id /\ batch' = <<>>
        BY <3>3 DEF PipeBreak, Ids_of
      <4> QED
        BY <1>b, <4>1, LosePending
    <3> QED
      BY <1>8, <3>1, <3>2, <3>3
  <2> QED
    BY <1>b, <2>1, <2>2, TallySame, QuietFrame
<1>9. CASE PipeExec
  <2> DEFINE c == Head(batch)
  <2>1. /\ UNCHANGED <<slave, cmds_id, pc, notice, seen, bids, tally>>
        /\ batch # <<>> /\ batch' = Tail(batch) /\ SetMaster(c.id, Apply(c, master[c.id]))
    BY <1>9 DEF PipeExec
  <2>2. c.id \in Ids
    <3>1. c \in Command
      BY <1>0, <2>1 DEF QueuesType
    <3> QED
      BY <3>1 DEF Command
  <2>3. /\ OnlyOne(id)'
        /\ c.id # id => Pending(id)' = Pending(id)
        /\ c.id = id => c \in Pending(id) /\ Pending(id)' = {}
    BY <1>0, <1>b, <2>1, ExecPending
  <2> HIDE DEF c
  <2>4. CASE c.id # id
    <3>1. master'[id] = master[id] /\ lag'[id] = lag[id]
      BY <1>0, <2>1, <2>2, <2>4 DEF SetMaster, TypeOK
    <3> QED
      BY <1>b, <2>1, <2>3, <2>4, <3>1, TallySame, QuietFrame
  <2>5. CASE c.id = id
    <3>1. c \in Pending(id) /\ Pending(id)' = {}
      BY <2>3, <2>5
    <3>2. lag[id] = <<>> /\ Apply(c, master[id]) = Encoded(id) /\ Judging(id) = {} /\ id \in bids
      BY <1>b, <3>1 DEF QuietQueue, QuietSeen, QuietRedis
    <3>3. master'[id] = Encoded(id) /\ lag'[id] = <<master'[id]>>
      BY <1>0, <2>1, <2>2, <2>5, <3>2 DEF SetMaster, TypeOK
    <3>4. Encoded(id)' = Encoded(id) /\ Judging(id)' = {}
      BY <2>1, <3>2, TallySame, EncodedSame DEF Judging
    <3>5. QuietSeen(id)' /\ QuietRedis(id)' /\ QuietQueue(id)'
      BY <2>1, <2>3, <3>1, <3>2, <3>3, <3>4 DEF QuietSeen, QuietRedis, QuietQueue
    <3>6. QuietTally(id)'
      BY <1>b, <2>1, TallySame DEF QuietTally
    <3> QED
      BY <3>5, <3>6 DEF Quiet
  <2> QED
    BY <2>4, <2>5
<1>10. CASE PipeEmpty \/ PipeDone \/ Stop \/ UNCHANGED vars
  <2>1. UNCHANGED <<master, slave, lag, cmds_id, batch, pc, notice, seen, bids, tally>>
    BY <1>10 DEF PipeEmpty, PipeDone, Stop, vars
  <2>2. Pending(id)' = Pending(id) /\ OnlyOne(id)'
    BY <1>b, <2>1, QueuesSame
  <2> QED
    BY <1>b, <2>1, <2>2, TallySame, QuietFrame
<1> QED
  BY <1>1, <1>2, <1>3, <1>4, <1>5, <1>6, <1>7, <1>8, <1>9, <1>10 DEF Next

LEMMA QuietHolds == Spec => []QuietInv
<1>1. Init => QuietInv
  <2> SUFFICES ASSUME Init PROVE QuietInv
    OBVIOUS
  <2>1. TypeOK /\ BatchSound
    BY InitType DEF Init, BatchSound
  <2>2. ASSUME NEW id \in Ids PROVE Quiet(id)
    <3>1. Pending(id) = {} /\ OnlyOne(id) /\ Judging(id) = {}
      BY OfEmpty DEF Init, Pending, OnlyOne, Judging
    <3>2. QuietSeen(id) /\ QuietRedis(id) /\ QuietQueue(id)
      BY <3>1 DEF Init, QuietSeen, QuietRedis, QuietQueue, Encoded
    <3>3. QuietTally(id)
      BY DEF Init, QuietTally, Valid, Repeated, Kinds, Verdicts
    <3> QED
      BY <3>2, <3>3 DEF Quiet
  <2> QED
    BY <2>1, <2>2 DEF QuietInv
<1>2. QuietInv /\ [Next]_vars => QuietInv'
  BY NextType, NextBatchSound, NextQuiet DEF QuietInv
<1> QED
  BY <1>1, <1>2, PTL DEF Spec

\* While the updates of an id never overlap and none is lost, the flag in redis
\* encodes the accepted notices whenever nothing of the id is on its way.
THEOREM FlagsAreTrue == Spec => []FlagTellsAccepted
<1>1. QuietInv => FlagTellsAccepted
  <2> SUFFICES ASSUME QuietInv, NEW id \in Ids \ disturbed, ~InFlight(id)
               PROVE  master[id] = Encoded(id) /\ slave[id] = Encoded(id)
    BY DEF FlagTellsAccepted
  <2>1. Pending(id) = {} /\ lag[id] = <<>>
    BY PendingMentions DEF InFlight
  <2> QED
    BY <2>1 DEF QuietInv, Quiet, QuietRedis
<1> QED
  BY <1>1, QuietHolds, PTL

\* ... and each kind of notice of the id is accepted once, a rejected win or
\* impression was accepted before, and a click follows an accepted impression.
THEOREM QuietIsExact == Spec => []DedupExactWhenQuiet
<1>1. QuietInv => DedupExactWhenQuiet
  <2> SUFFICES ASSUME QuietInv, NEW id \in Ids \ disturbed, QuietTally(id)
               PROVE  /\ \A k \in Kinds : Valid(id, k) <= 1
                      /\ \A k \in {"w", "i"} : Repeated(id, k) > 0 => Valid(id, k) = 1
                      /\ Valid(id, "c") <= Valid(id, "i")
    BY DEF DedupExactWhenQuiet, QuietInv, Quiet
  <2> QED
    BY DEF QuietTally
<1> QED
  BY <1>1, QuietHolds, PTL

-----------------------------------------------------------------------------
(* NoticeDedup implements NoticeLedger                                     *)

LedgerInv == IInv /\ LightInv /\ QuietInv

Counts(id, k, v) == tally' = [tally EXCEPT ![id][k][v] = @ + 1]

\* A verdict counts one notice, and no other.
LEMMA OneCounted ==
    ASSUME TypeOK, NEW id \in Ids, NEW k \in Kinds, NEW v \in Verdicts, Counts(id, k, v)
    PROVE  \A i \in Ids, j \in Kinds, u \in Verdicts :
              tally'[i][j][u] = IF i = id /\ j = k /\ u = v THEN tally[i][j][u] + 1
                                ELSE tally[i][j][u]
<1>1. tally \in [Ids -> [Kinds -> [Verdicts -> Nat]]]
  BY DEF TypeOK
<1>2. tally' = [tally EXCEPT ![id][k][v] = @ + 1]
  BY DEF Counts
<1> QED
  BY <1>1, <1>2

\* What the ledger records of a verdict.
LEMMA LedgerCounts ==
    ASSUME TypeOK, NEW id \in Ids, NEW k \in Kinds, NEW v \in Verdicts, Counts(id, k, v)
    PROVE  /\ Accepted' = IF v = "valid" THEN [Accepted EXCEPT ![id][k] = @ + 1] ELSE Accepted
           /\ Rejected' = IF v = "repeated" THEN [Rejected EXCEPT ![id][k] = @ + 1] ELSE Rejected
<1>2. \A i \in Ids, j \in Kinds, u \in Verdicts :
         tally'[i][j][u] = IF i = id /\ j = k /\ u = v THEN tally[i][j][u] + 1 ELSE tally[i][j][u]
  BY OneCounted
<1>3. ASSUME NEW u \in Verdicts, NEW F, NEW G,
             F = [i \in Ids |-> [j \in Kinds |-> tally[i][j][u]]],
             G = [i \in Ids |-> [j \in Kinds |-> tally'[i][j][u]]]
      PROVE  G = IF v = u THEN [F EXCEPT ![id][k] = @ + 1] ELSE F
  <2>1. CASE v # u
    BY <1>2, <1>3, <2>1
  <2>2. CASE v = u
    <3> DEFINE H == [F EXCEPT ![id][k] = @ + 1]
    <3>1. \A i \in Ids : /\ G[i] = [j \in Kinds |-> tally'[i][j][u]]
                         /\ F[i] = [j \in Kinds |-> tally[i][j][u]]
      BY <1>3
    <3>2. F[id][k] = tally[id][k][u]
      BY <3>1
    <3>3. G[id] = [F[id] EXCEPT ![k] = F[id][k] + 1]
      <4>1. \A j \in Kinds : tally'[id][j][u] = IF j = k THEN F[id][k] + 1 ELSE tally[id][j][u]
        BY <1>2, <2>2, <3>2
      <4>2. [F[id] EXCEPT ![k] = F[id][k] + 1] =
                [j \in Kinds |-> IF j = k THEN F[id][k] + 1 ELSE tally[id][j][u]]
        <5>1. ASSUME NEW g, NEW h, NEW x, g = [j \in Kinds |-> h[j][u]]
              PROVE  [g EXCEPT ![k] = x] = [j \in Kinds |-> IF j = k THEN x ELSE h[j][u]]
          BY <5>1
        <5>2. F[id] = [j \in Kinds |-> tally[id][j][u]]
          BY <3>1
        <5> QED
          BY <5>1, <5>2
      <4>3. G[id] = [j \in Kinds |-> tally'[id][j][u]]
        BY <3>1
      <4> QED
        BY <4>1, <4>2, <4>3
    <3>4. ASSUME NEW i \in Ids, i # id PROVE G[i] = F[i]
      <4>1. \A j \in Kinds : tally'[i][j][u] = tally[i][j][u]
        BY <1>2, <3>4
      <4>2. G[i] = [j \in Kinds |-> tally'[i][j][u]] /\ F[i] = [j \in Kinds |-> tally[i][j][u]]
        BY <3>1, <3>4
      <4> QED
        BY <4>1, <4>2
    <3>5. H = [i \in Ids |-> IF i = id THEN [F[id] EXCEPT ![k] = F[id][k] + 1] ELSE F[i]]
      BY <1>3
    <3>6. G = [i \in Ids |-> G[i]]
      BY <1>3
    <3> QED
      BY <2>2, <3>3, <3>4, <3>5, <3>6
  <2> QED
    BY <2>1, <2>2
<1>4. "valid" \in Verdicts /\ "repeated" \in Verdicts
  BY DEF Verdicts
<1> QED
  BY <1>3, <1>4 DEF Accepted, Rejected, Valid, Repeated

\* A thread that rejects a notice of a quiet id knows its flag, and the bid.
LEMMA RejectedWhenQuiet ==
    ASSUME LedgerInv, NEW t \in Threads, JudgeRepeated(t), notice[t].id \notin disturbed
    PROVE  LET id == notice[t].id
               k  == notice[t].kind
           IN  id \in bids /\ (Valid(id, k) > 0 \/ (k = "c" /\ Valid(id, "i") = 0))
<1> DEFINE id == notice[t].id
           k  == notice[t].kind
           w  == Valid(id, "w")
           i  == Valid(id, "i")
           c  == Valid(id, "c")
<1>1. id \in Ids /\ k \in Kinds
  BY DEF LedgerInv, IInv, TypeOK, Notice
<1>2. Quiet(id) /\ t \in Judging(id) /\ seen[t] # NoKey /\ ~Fresh(k, seen[t])
  BY <1>1 DEF LedgerInv, QuietInv, JudgeRepeated, Judging
<1>3. seen[t] = Encoded(id) /\ \A x \in Kinds : Valid(id, x) \in {0, 1}
  BY <1>2 DEF Quiet, QuietSeen, QuietTally
<1>4. /\ id \in bids /\ seen[t] = Bits(w, i, c)
      /\ w \in {0, 1} /\ i \in {0, 1} /\ c \in {0, 1}
  BY <1>2, <1>3, EncodedBits DEF Kinds
<1> HIDE DEF w, i, c
<1>5. /\ HasBit(seen[t], DSP_FLAG_PRICE) <=> w = 1
      /\ HasBit(seen[t], DSP_FLAG_SHOW) <=> i = 1
      /\ HasBit(seen[t], DSP_FLAG_CLICK) <=> c = 1
  BY <1>4, BitsOf DEF DSP_FLAG_PRICE, DSP_FLAG_SHOW, DSP_FLAG_CLICK
<1>6. \/ k = "w" /\ w = 1
      \/ k = "i" /\ i = 1
      \/ k = "c" /\ (c = 1 \/ i = 0)
  BY <1>1, <1>2, <1>4, <1>5 DEF Fresh, Kinds
<1> QED
  BY <1>4, <1>6 DEF w, i, c

LEMMA RejectIsLedgers ==
    ASSUME LedgerInv, LedgerInv', NEW t \in Threads, JudgeRepeated(t),
           NEW id \in Ids, NEW k \in Kinds, id = notice[t].id, k = notice[t].kind
    PROVE  Ledger!Reject(id, k)
<1>1. TypeOK /\ TypeOK'
  BY DEF LedgerInv, IInv
<1>2. Counts(id, k, "repeated") /\ UNCHANGED <<bids, disturbed>>
  BY DEF JudgeRepeated, Conclude, Counts
<1>3. /\ \A x \in Kinds : Valid(id, x)' = Valid(id, x)
      /\ Repeated(id, k)' = Repeated(id, k) + 1 /\ Repeated(id, k) \in Nat
  <2>1. "repeated" \in Verdicts /\ "valid" \in Verdicts /\ "valid" # "repeated"
    BY DEF Verdicts
  <2>2. \A i \in Ids, j \in Kinds, u \in Verdicts :
           tally'[i][j][u] = IF i = id /\ j = k /\ u = "repeated" THEN tally[i][j][u] + 1
                             ELSE tally[i][j][u]
    BY <1>1, <1>2, <2>1, OneCounted
  <2>3. \A j \in Kinds :
           /\ tally'[id][j]["repeated"] =
                 IF j = k THEN tally[id][j]["repeated"] + 1 ELSE tally[id][j]["repeated"]
           /\ tally'[id][j]["valid"] = tally[id][j]["valid"]
    BY <2>1, <2>2
  <2> QED
    BY <1>1, <2>1, <2>3, TallyType DEF Valid, Repeated
<1>4. k = "w" => Valid(id, "w") > 0
  BY <1>1, <1>3 DEF LedgerInv, IInv, BackedTally, Kinds
<1>5. k = "i" => Valid(id, "i") > 0 \/ Valid(id, "w") > 1
  <2>1. k = "i" => ~Light(id)'
    BY <1>1, <1>3 DEF LedgerInv, LightInv, LightTally
  <2>2. Light(id)' <=> Light(id)
    BY <1>3 DEF Light, Kinds
  <2> QED
    BY <1>1, <2>1, <2>2, NotLight
<1>6. /\ Accepted' = Accepted
      /\ Rejected' = [Rejected EXCEPT ![id][k] = @ + 1]
  BY <1>1, <1>2, LedgerCounts DEF Verdicts
<1>7. \A x \in Kinds : Accepted[id][x] = Valid(id, x)
  BY <1>1 DEF Accepted
<1> QED
  BY <1>1, <1>2, <1>4, <1>5, <1>6, <1>7, RejectedWhenQuiet DEF Ledger!Reject, Ledger!MayBeShown, Kinds

LEMMA AcceptIsLedgers ==
    ASSUME LedgerInv, LedgerInv', NEW t \in Threads, JudgeValid(t),
           NEW id \in Ids, NEW k \in Kinds, id = notice[t].id, k = notice[t].kind
    PROVE  Ledger!Accept(id, k)
<1>1. TypeOK /\ TypeOK'
  BY DEF LedgerInv, IInv
<1>2. Counts(id, k, "valid") /\ UNCHANGED <<bids, disturbed>>
  BY DEF JudgeValid, Conclude, Counts
<1>3. \A x \in Kinds : /\ Valid(id, x)' = IF x = k THEN Valid(id, x) + 1 ELSE Valid(id, x)
                       /\ Valid(id, x) \in Nat
  <2>1. "valid" \in Verdicts
    BY DEF Verdicts
  <2>2. \A i \in Ids, j \in Kinds, u \in Verdicts :
           tally'[i][j][u] = IF i = id /\ j = k /\ u = "valid" THEN tally[i][j][u] + 1
                             ELSE tally[i][j][u]
    BY <1>1, <1>2, <2>1, OneCounted
  <2>3. \A j \in Kinds :
           tally'[id][j]["valid"] = IF j = k THEN tally[id][j]["valid"] + 1 ELSE tally[id][j]["valid"]
    BY <2>1, <2>2
  <2> QED
    BY <1>1, <2>3, TallyType DEF Valid
<1>4. k = "c" => Valid(id, "i") > 0 \/ Valid(id, "w") > 1
  <2>1. k = "c" => ~Light(id)'
    BY <1>1, <1>3 DEF LedgerInv, LightInv, LightTally
  <2>2. k = "c" => (Light(id)' <=> Light(id))
    BY <1>3 DEF Light, Kinds
  <2> QED
    BY <1>1, <2>1, <2>2, NotLight
<1>5. id \notin disturbed =>
          id \in bids /\ Valid(id, k) = 0 /\ (k = "c" => Valid(id, "i") > 0)
  <2> SUFFICES ASSUME id \notin disturbed
               PROVE  id \in bids /\ Valid(id, k) = 0 /\ (k = "c" => Valid(id, "i") > 0)
    OBVIOUS
  <2>1. QuietTally(id)'
    BY <1>1, <1>2 DEF LedgerInv, QuietInv, Quiet
  <2>2. /\ Valid(id, k)' \in {0, 1} /\ Valid(id, "c")' <= Valid(id, "i")'
        /\ id \notin bids => Valid(id, k)' = 0
    BY <1>1, <1>2, <2>1 DEF QuietTally
  <2>3. "i" \in Kinds /\ "c" \in Kinds
    BY DEF Kinds
  <2> QED
    BY <1>1, <1>3, <2>2, <2>3
<1>6. /\ Rejected' = Rejected
      /\ Accepted' = [Accepted EXCEPT ![id][k] = @ + 1]
  BY <1>1, <1>2, LedgerCounts DEF Verdicts
<1>7. \A x \in Kinds : Accepted[id][x] = Valid(id, x)
  BY <1>1 DEF Accepted
<1> QED
  BY <1>1, <1>2, <1>4, <1>5, <1>6, <1>7 DEF Ledger!Accept, Ledger!MayBeShown, Kinds

LEMMA NextIsLedgers ==
    LedgerInv /\ LedgerInv' /\ [Next]_vars => [Ledger!Next]_(Ledger!ledger)
<1> SUFFICES ASSUME LedgerInv, LedgerInv', [Next]_vars
             PROVE  Ledger!Next \/ UNCHANGED <<bids, Accepted, Rejected, disturbed>>
  BY DEF Ledger!ledger
<1> USE DEF redisVars, pipeVars, reqVars
<1>0. TypeOK
  BY DEF LedgerInv, IInv
<1>a. ASSUME tally' = tally PROVE Accepted' = Accepted /\ Rejected' = Rejected
  BY <1>a DEF Accepted, Rejected, Valid, Repeated
<1>b. ASSUME NEW S \in SUBSET Ids, disturbed' = disturbed \cup S, bids' = bids,
             Accepted' = Accepted, Rejected' = Rejected
      PROVE  Ledger!Next
  BY <1>b DEF Ledger!Next, Ledger!Doubt
<1>1. ASSUME NEW id \in Ids, Bid(id) PROVE Ledger!Next
  BY <1>1, <1>a DEF Bid, Ledger!Next, Ledger!Bid
<1>2. ASSUME NEW id \in Ids, Expire(id) PROVE Ledger!Next
  BY <1>2, <1>a, <1>b DEF Expire
<1>3. ASSUME NEW t \in Threads, ReadFlag(t) PROVE Ledger!Next
  <2> DEFINE S == {id \in {notice[t].id} : InFlight(id)}
  <2>1. tally' = tally /\ bids' = bids /\ disturbed' = disturbed \cup S
    BY <1>3 DEF ReadFlag
  <2>2. S \in SUBSET Ids
    BY <1>0 DEF TypeOK, Notice
  <2> QED
    BY <2>1, <2>2, <1>a, <1>b
<1>4. ASSUME NEW t \in Threads, ReadFlagBroken(t) \/ ReadFlagError(t) PROVE Ledger!Next
  <2>1. tally' = tally /\ bids' = bids /\ disturbed' = disturbed \cup {notice[t].id}
    BY <1>4 DEF ReadFlagBroken, ReadFlagError
  <2>2. {notice[t].id} \in SUBSET Ids
    BY <1>0 DEF TypeOK, Notice
  <2> QED
    BY <2>1, <2>2, <1>a, <1>b
<1>5. ASSUME NEW t \in Threads, NoContext(t) PROVE Ledger!Next
  <2>1. /\ Counts(notice[t].id, notice[t].kind, "unjudged")
        /\ bids' = bids /\ disturbed' = disturbed \cup {notice[t].id}
        /\ notice[t].id \in Ids /\ notice[t].kind \in Kinds
    BY <1>0, <1>5 DEF NoContext, Conclude, Counts, TypeOK, Notice
  <2>2. Accepted' = Accepted /\ Rejected' = Rejected
    BY <1>0, <2>1, LedgerCounts DEF Verdicts
  <2> QED
    BY <2>1, <2>2, <1>b
<1>6. ASSUME NEW t \in Threads, JudgeNotBid(t)
      PROVE  UNCHANGED <<bids, Accepted, Rejected, disturbed>>
  <2>1. /\ Counts(notice[t].id, notice[t].kind, "notbid")
        /\ UNCHANGED <<bids, disturbed>>
        /\ notice[t].id \in Ids /\ notice[t].kind \in Kinds
    BY <1>0, <1>6 DEF JudgeNotBid, Conclude, Counts, TypeOK, Notice
  <2> QED
    BY <1>0, <2>1, LedgerCounts DEF Verdicts
<1>7. ASSUME NEW t \in Threads, JudgeValid(t) \/ JudgeRepeated(t) PROVE Ledger!Next
  <2>1. notice[t].id \in Ids /\ notice[t].kind \in Kinds
    BY <1>0 DEF TypeOK, Notice
  <2> QED
    BY <1>7, <2>1, AcceptIsLedgers, RejectIsLedgers DEF Ledger!Next
<1>8. CASE PipeDrop \/ PipeBreak
  <2>1. /\ tally' = tally /\ bids' = bids
        /\ \E s \in {cmds_id, batch} : disturbed' = disturbed \cup Ids_of(s)
    BY <1>8 DEF PipeDrop, PipeBreak
  <2> QED
    BY <2>1, <1>a, <1>b DEF Ids_of
<1>9. ASSUME UNCHANGED <<bids, tally, disturbed>>
      PROVE  UNCHANGED <<bids, Accepted, Rejected, disturbed>>
  BY <1>9, <1>a
<1>10. ASSUME NEW id \in Ids, NEW t \in Threads, NEW k \in Kinds, Replicate(id) \/ Accept(t, id, k)
       PROVE  UNCHANGED <<bids, tally, disturbed>>
  BY <1>10 DEF Replicate, Accept
<1>11. ASSUME NEW id \in Ids, Replicate(id)
       PROVE  UNCHANGED <<bids, tally, disturbed>>
  BY <1>11 DEF Replicate
<1>12. CASE PipeTake \/ PipeEmpty \/ PipeExec \/ PipeDone \/ Stop \/ UNCHANGED vars
  <2>1. UNCHANGED <<bids, tally, disturbed>>
    BY <1>12 DEF PipeTake, PipeEmpty, PipeExec, PipeDone, Stop, vars
  <2> QED
    BY <2>1, <1>9
<1> QED
  BY <1>1, <1>2, <1>3, <1>4, <1>5, <1>6, <1>7, <1>8, <1>9, <1>10, <1>11, <1>12 DEF Next

\* NoticeDedup implements NoticeLedger: with every fault, no verdict contradicts
\* the ones before it, beyond what overlapping or lost updates explain.
THEOREM LedgerKept == Spec => KeepsLedger
<1>1. Init => Ledger!Init
  BY DEF Init, Ledger!Init, Accepted, Rejected, Valid, Repeated, Verdicts
<1>2. LedgerInv /\ LedgerInv' /\ [Next]_vars => [Ledger!Next]_(Ledger!ledger)
  BY NextIsLedgers
<1>3. Spec => []LedgerInv
  <2>1. Spec => []IInv
    BY InitBacked, NextBacked, PTL DEF Spec
  <2> QED
    BY <2>1, LightHolds, QuietHolds, PTL DEF LedgerInv
<1> QED
  BY <1>1, <1>2, <1>3, PTL DEF Spec, KeepsLedger, Ledger!Spec
=============================================================================
