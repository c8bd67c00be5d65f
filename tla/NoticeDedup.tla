---------------------------- MODULE NoticeDedup ----------------------------
(***************************************************************************)
(* De-duplication of win / impression / click notices in the tracker       *)
(* (src/tracker/tracker.cpp, handing_rtb_process).                         *)
(*                                                                         *)
(* A bidder writes the flag DSP_FLAG_BID under dsp_id_flag_<bid>_<impid>   *)
(* when it answers a request.  Each doit thread of the tracker reads the   *)
(* flag of a notice from a redis SLAVE, decides from the local copy        *)
(* whether the notice is valid, repeated or was never bid for, and pushes  *)
(* the command that updates the flag on the vector cmds_id.  One writer    *)
(* thread (threadpipeline) swaps the whole vector out and pipelines it to  *)
(* the redis MASTER, which replicates to the slave later.                  *)
(*                                                                         *)
(* An id of the model is one <bid>_<impid> pair.                           *)
(***************************************************************************)
EXTENDS Integers, Sequences

CONSTANTS Ids,       \* <bid>_<impid> pairs
          Threads,   \* the doit threads
          Faults,    \* which of FaultKinds may happen
          MaxSent    \* bound: notices of each kind the exchange sends for an id

FaultKinds == {"slaveConnect", "slaveGet", "errorReply", "masterDown", "expire"}
Kinds      == {"w", "i", "c"}                              \* mtype
Verdicts   == {"valid", "repeated", "notbid", "unjudged"}

ASSUME DedupAssumption ==
    /\ Faults \subseteq FaultKinds
    /\ MaxSent \in [Kinds -> Nat]
    /\ Ids # {}

DSP_FLAG_BID   == 1
DSP_FLAG_PRICE == 2
DSP_FLAG_SHOW  == 4
DSP_FLAG_CLICK == 8

NoKey == -1                       \* GET answers nil: str_flag stays ""

\* f & b and f | b, for a single bit b
HasBit(f, b) == (f \div b) % 2 = 1
AndNotBit(f, b) == IF HasBit(f, b) THEN f ELSE f - b      \* mutant of OrBit
OrBit(f, b)  == IF HasBit(f, b) THEN f ELSE f + b

VARIABLES
    master,    \* flag on the redis master, per id
    ttl,       \* ids whose key has a time to live on the master
    lag,       \* values the master has not replicated yet, per id
    slave,     \* flag on the redis slave, per id
    cmds_id,   \* commands pushed by the doit threads
    batch,     \* cmds_temp of threadpipeline: taken, not executed yet
    pipe,      \* where threadpipeline is
    pipeCtx,   \* its connection to the master is up
    pc,        \* where each doit thread is
    notice,    \* the notice each doit thread handles
    seen,      \* its local copy of the flag
    ctx,       \* redis_id_slave of the thread is not NULL
    run_flag,
    bids,      \* ids the bidder has answered with a bid
    sent,      \* notices the exchange has sent, per id and kind
    tally,     \* notices concluded, per id, kind and verdict
    disturbed  \* history: ids with overlapping updates, or with one lost

redisVars == <<master, ttl, lag, slave>>
pipeVars  == <<batch, pipe, pipeCtx>>
reqVars   == <<pc, notice, seen, ctx>>
vars == <<redisVars, cmds_id, pipeVars, reqVars, run_flag, bids, sent, tally, disturbed>>

Command == [op : {"INCRBY", "SETEX"}, id : Ids, arg : Nat]
Notice  == [id : Ids, kind : Kinds]
FlagVal == Nat \cup {NoKey}

-----------------------------------------------------------------------------
Mentions(s, id) == \E n \in 1..Len(s) : s[n].id = id

\* An update of the id is on its way: being decided, queued or replicating.
InFlight(id) ==
    \/ \E t \in Threads : pc[t] = "judge" /\ notice[t].id = id
    \/ Mentions(cmds_id, id)
    \/ Mentions(batch, id)
    \/ lag[id] # <<>>

Valid(id, k)    == tally[id][k]["valid"]
Repeated(id, k) == tally[id][k]["repeated"]

Init ==
    /\ master = [id \in Ids |-> NoKey]
    /\ ttl = {}
    /\ lag = [id \in Ids |-> <<>>]
    /\ slave = [id \in Ids |-> NoKey]
    /\ cmds_id = <<>>
    /\ batch = <<>>
    /\ pipe = "wake"
    /\ pipeCtx \in BOOLEAN            \* the first redisConnect may fail
    /\ pc = [t \in Threads |-> "idle"]
    /\ notice = [t \in Threads |-> CHOOSE n \in Notice : TRUE]
    /\ seen = [t \in Threads |-> NoKey]
    /\ ctx = [t \in Threads |-> TRUE]
    /\ run_flag = TRUE
    /\ bids = {}
    /\ sent = [id \in Ids |-> [k \in Kinds |-> 0]]
    /\ tally = [id \in Ids |-> [k \in Kinds |-> [v \in Verdicts |-> 0]]]
    /\ disturbed = {}

-----------------------------------------------------------------------------
(* Redis, as the code uses it: the master runs one command at a time and   *)
(* sends every new value to the slave in order.                            *)

SetMaster(id, v) ==
    /\ master' = [master EXCEPT ![id] = v]
    /\ lag' = [lag EXCEPT ![id] = Append(@, v)]

Apply(c, v) ==
    IF c.op = "SETEX" THEN c.arg ELSE (IF v = NoKey THEN 0 ELSE v) + c.arg

Replicate(id) ==
    /\ lag[id] # <<>>
    /\ slave' = [slave EXCEPT ![id] = Head(lag[id])]
    /\ lag' = [lag EXCEPT ![id] = Tail(@)]
    /\ UNCHANGED <<master, ttl, cmds_id, pipeVars, reqVars, run_flag, bids, sent, tally, disturbed>>

\* REQUESTIDFLAGLIFE runs out (INCRBY on a missing key makes one that has no ttl)
Expire(id) ==
    /\ "expire" \in Faults
    /\ id \in ttl
    /\ SetMaster(id, NoKey)
    /\ ttl' = ttl \ {id}
    /\ disturbed' = disturbed \cup {id}
    /\ UNCHANGED <<slave, cmds_id, pipeVars, reqVars, run_flag, bids, sent, tally>>

\* bid_filter_response: the bidder answers a request and marks the id with
\* DSP_FLAG_BID.  Request ids are unique: an id is bid for at most once.
Bid(id) ==
    /\ id \notin bids
    /\ bids' = bids \cup {id}
    /\ SetMaster(id, DSP_FLAG_BID)
    /\ ttl' = ttl \cup {id}
    /\ UNCHANGED <<slave, cmds_id, pipeVars, reqVars, run_flag, sent, tally, disturbed>>

-----------------------------------------------------------------------------
(* The doit threads.                                                       *)

\* FCGX_Accept_r returns a notice; the exchange sends it in any order and again.
Accept(t, id, k) ==
    /\ pc[t] = "idle"
    /\ sent[id][k] < MaxSent[k]
    /\ sent' = [sent EXCEPT ![id][k] = @ + 1]
    /\ notice' = [notice EXCEPT ![t] = [id |-> id, kind |-> k]]
    /\ pc' = [pc EXCEPT ![t] = "read"]
    /\ UNCHANGED <<redisVars, cmds_id, pipeVars, seen, ctx, run_flag, bids, tally, disturbed>>

\* str_flag is the value read; the context was up or has been reconnected.
ReadFlag(t) ==
    /\ pc[t] = "read"
    /\ pc' = [pc EXCEPT ![t] = "judge"]
    /\ seen' = [seen EXCEPT ![t] = slave[notice[t].id]]
    /\ ctx' = [ctx EXCEPT ![t] = TRUE]
    /\ disturbed' = disturbed \cup {id \in {notice[t].id} : InFlight(id)}
    /\ UNCHANGED <<redisVars, cmds_id, pipeVars, notice, run_flag, bids, sent, tally>>

\* GET fails: the context is freed and str_flag stays "", but control is
\* inside the branch of a live context.
ReadFlagBroken(t) ==
    /\ "slaveGet" \in Faults
    /\ pc[t] = "read"
    /\ pc' = [pc EXCEPT ![t] = "judge"]
    /\ seen' = [seen EXCEPT ![t] = NoKey]
    /\ ctx' = [ctx EXCEPT ![t] = FALSE]
    /\ disturbed' = disturbed \cup {notice[t].id}
    /\ UNCHANGED <<redisVars, cmds_id, pipeVars, notice, run_flag, bids, sent, tally>>

\* GET answers with an error (LOADING, MASTERDOWN): getRedisValue takes its
\* text for the value, and atoi makes it 0.
ReadFlagError(t) ==
    /\ "errorReply" \in Faults
    /\ pc[t] = "read"
    /\ pc' = [pc EXCEPT ![t] = "judge"]
    /\ seen' = [seen EXCEPT ![t] = 0]
    /\ ctx' = [ctx EXCEPT ![t] = TRUE]
    /\ disturbed' = disturbed \cup {notice[t].id}
    /\ UNCHANGED <<redisVars, cmds_id, pipeVars, notice, run_flag, bids, sent, tally>>

\* Mutant of Conclude: is_valid starts out true.
ConcludeValidByDefault(t, v) ==
    /\ tally' = [tally EXCEPT ![notice[t].id][notice[t].kind]
                               [IF v = "notbid" THEN "valid" ELSE v] = @ + 1]
    /\ pc' = [pc EXCEPT ![t] = IF run_flag THEN "idle" ELSE "gone"]

\* The handler runs with the verdict, and the loop tests run_flag again.
Conclude(t, v) ==
    /\ tally' = [tally EXCEPT ![notice[t].id][notice[t].kind][v] = @ + 1]
    /\ pc' = [pc EXCEPT ![t] = IF run_flag THEN "idle" ELSE "gone"]

\* No context and no reconnection: the handler runs, nothing is judged.
NoContext(t) ==
    /\ "slaveConnect" \in Faults
    /\ pc[t] = "read" /\ ~ctx[t]
    /\ Conclude(t, "unjudged")
    /\ disturbed' = disturbed \cup {notice[t].id}
    /\ UNCHANGED <<redisVars, cmds_id, pipeVars, notice, seen, ctx, run_flag, bids, sent>>

\* Mutants of Fresh: a win tested against the show bit, a click not tested
\* for its impression, an impression tested against the price bit, a click
\* tested for its win as well.
FreshWinByShow(k, f) ==
    \/ k \in {"w", "i"} /\ ~HasBit(f, DSP_FLAG_SHOW)
    \/ k = "c" /\ ~HasBit(f, DSP_FLAG_CLICK) /\ HasBit(f, DSP_FLAG_SHOW)
FreshClickAlone(k, f) ==
    \/ k = "w" /\ ~HasBit(f, DSP_FLAG_PRICE)
    \/ k = "i" /\ ~HasBit(f, DSP_FLAG_SHOW)
    \/ k = "c" /\ ~HasBit(f, DSP_FLAG_CLICK)
FreshImpByPrice(k, f) ==
    \/ k \in {"w", "i"} /\ ~HasBit(f, DSP_FLAG_PRICE)
    \/ k = "c" /\ ~HasBit(f, DSP_FLAG_CLICK) /\ HasBit(f, DSP_FLAG_SHOW)
FreshClickNeedsWin(k, f) ==
    \/ k = "w" /\ ~HasBit(f, DSP_FLAG_PRICE)
    \/ k = "i" /\ ~HasBit(f, DSP_FLAG_SHOW)
    \/ /\ k = "c" /\ ~HasBit(f, DSP_FLAG_CLICK)
       /\ HasBit(f, DSP_FLAG_SHOW) /\ HasBit(f, DSP_FLAG_PRICE)

Fresh(k, f) ==
    \/ k = "w" /\ ~HasBit(f, DSP_FLAG_PRICE)
    \/ k = "i" /\ ~HasBit(f, DSP_FLAG_SHOW)
    \/ k = "c" /\ ~HasBit(f, DSP_FLAG_CLICK) /\ HasBit(f, DSP_FLAG_SHOW)

\* Mutant of Update: the impression overwrites the flag with its own bit.
UpdateOverwrites(id, k, f) ==
    IF k = "w" THEN [op |-> "INCRBY", id |-> id, arg |-> DSP_FLAG_PRICE]
    ELSE [op |-> "SETEX", id |-> id,
          arg |-> IF k = "i" THEN DSP_FLAG_SHOW ELSE OrBit(f, DSP_FLAG_CLICK)]

Update(id, k, f) ==
    CASE k = "w" -> [op |-> "INCRBY", id |-> id, arg |-> DSP_FLAG_PRICE]
      [] k = "i" -> [op |-> "SETEX", id |-> id, arg |-> OrBit(f, DSP_FLAG_SHOW)]
      [] k = "c" -> [op |-> "SETEX", id |-> id, arg |-> OrBit(f, DSP_FLAG_CLICK)]

JudgeNotBid(t) ==
    /\ pc[t] = "judge"
    /\ seen[t] = NoKey
    /\ Conclude(t, "notbid")
    /\ UNCHANGED <<redisVars, cmds_id, pipeVars, notice, seen, ctx, run_flag, bids, sent, disturbed>>

\* Mutant of JudgeValid: the command is never pushed.
JudgeValidNoPush(t) ==
    /\ pc[t] = "judge"
    /\ seen[t] # NoKey
    /\ Fresh(notice[t].kind, seen[t])
    /\ Conclude(t, "valid")
    /\ UNCHANGED <<redisVars, cmds_id, pipeVars, notice, seen, ctx, run_flag, bids, sent, disturbed>>

JudgeValid(t) ==
    /\ pc[t] = "judge"
    /\ seen[t] # NoKey
    /\ Fresh(notice[t].kind, seen[t])
    /\ cmds_id' = Append(cmds_id, Update(notice[t].id, notice[t].kind, seen[t]))
    /\ Conclude(t, "valid")
    /\ UNCHANGED <<redisVars, pipeVars, notice, seen, ctx, run_flag, bids, sent, disturbed>>

JudgeRepeated(t) ==
    /\ pc[t] = "judge"
    /\ seen[t] # NoKey
    /\ ~Fresh(notice[t].kind, seen[t])
    /\ Conclude(t, "repeated")
    /\ UNCHANGED <<redisVars, cmds_id, pipeVars, notice, seen, ctx, run_flag, bids, sent, disturbed>>

-----------------------------------------------------------------------------
(* threadpipeline.                                                         *)

EndOfLoop == pipe' = IF run_flag THEN "wake" ELSE "exited"

Ids_of(s) == {id \in Ids : Mentions(s, id)}

\* Mutant of PipeTake: the loop over cmds_temp starts at 1.
PipeTakeSkipsFirst ==
    /\ pipe = "wake" /\ cmds_id # <<>>
    /\ batch' = Tail(cmds_id)
    /\ cmds_id' = <<>>
    /\ pipe' = "send"
    /\ pipeCtx' = TRUE
    /\ UNCHANGED <<redisVars, reqVars, run_flag, bids, sent, tally, disturbed>>

\* The vector is swapped out whole and the context is up, or comes up again.
PipeTake ==
    /\ pipe = "wake" /\ cmds_id # <<>>
    /\ batch' = cmds_id
    /\ cmds_id' = <<>>
    /\ pipe' = "send"
    /\ pipeCtx' = TRUE
    /\ UNCHANGED <<redisVars, reqVars, run_flag, bids, sent, tally, disturbed>>

\* The vector is swapped out whole and the reconnection fails: continue.
PipeDrop ==
    /\ "masterDown" \in Faults
    /\ pipe = "wake" /\ cmds_id # <<>> /\ ~pipeCtx
    /\ cmds_id' = <<>>
    /\ EndOfLoop
    /\ disturbed' = disturbed \cup Ids_of(cmds_id)
    /\ UNCHANGED <<redisVars, batch, pipeCtx, reqVars, run_flag, bids, sent, tally>>

PipeEmpty ==
    /\ pipe = "wake" /\ cmds_id = <<>> /\ ~run_flag
    /\ EndOfLoop
    /\ UNCHANGED <<redisVars, cmds_id, batch, pipeCtx, reqVars, run_flag, bids, sent, tally, disturbed>>

\* The master runs the next command of the pipeline.
PipeExec ==
    /\ pipe = "send" /\ batch # <<>>
    /\ LET c == Head(batch)
       IN /\ SetMaster(c.id, Apply(c, master[c.id]))
          /\ ttl' = IF c.op = "SETEX" THEN ttl \cup {c.id} ELSE ttl
    /\ batch' = Tail(batch)
    /\ UNCHANGED <<slave, cmds_id, pipe, pipeCtx, reqVars, run_flag, bids, sent, tally, disturbed>>

PipeDone ==
    /\ pipe = "send" /\ batch = <<>>
    /\ EndOfLoop
    /\ UNCHANGED <<redisVars, cmds_id, batch, pipeCtx, reqVars, run_flag, bids, sent, tally, disturbed>>

\* redisGetReply gives NULL: the rest of the batch is gone with the context.
PipeBreak ==
    /\ "masterDown" \in Faults
    /\ pipe = "send"
    /\ batch' = <<>>
    /\ pipeCtx' = FALSE
    /\ EndOfLoop
    /\ disturbed' = disturbed \cup Ids_of(batch)
    /\ UNCHANGED <<redisVars, cmds_id, reqVars, run_flag, bids, sent, tally>>

\* SIGINT / SIGTERM
Stop ==
    /\ run_flag
    /\ run_flag' = FALSE
    /\ UNCHANGED <<redisVars, cmds_id, pipeVars, reqVars, bids, sent, tally, disturbed>>

-----------------------------------------------------------------------------
Next ==
    \/ \E id \in Ids : Replicate(id) \/ Expire(id) \/ Bid(id)
    \/ \E t \in Threads :
          \/ \E id \in Ids, k \in Kinds : Accept(t, id, k)
          \/ ReadFlag(t) \/ ReadFlagBroken(t) \/ ReadFlagError(t) \/ NoContext(t)
          \/ JudgeNotBid(t) \/ JudgeValid(t) \/ JudgeRepeated(t)
    \/ PipeTake \/ PipeDrop \/ PipeEmpty \/ PipeExec \/ PipeDone \/ PipeBreak
    \/ Stop

Spec == Init /\ [][Next]_vars

\* The threads run and the master replicates; nothing makes the exchange send,
\* the bidder bid, the connections fail or the operator stop the tracker.
Fairness ==
    /\ WF_vars(PipeTake \/ PipeEmpty \/ PipeExec \/ PipeDone)
    /\ \A id \in Ids : WF_vars(Replicate(id))
    /\ \A t \in Threads :
          WF_vars(ReadFlag(t) \/ JudgeNotBid(t) \/ JudgeValid(t) \/ JudgeRepeated(t))

FairSpec == Spec /\ Fairness

-----------------------------------------------------------------------------
TypeOK ==
    /\ master \in [Ids -> FlagVal]
    /\ ttl \subseteq Ids
    /\ lag \in [Ids -> Seq(FlagVal)]
    /\ slave \in [Ids -> FlagVal]
    /\ cmds_id \in Seq(Command)
    /\ batch \in Seq(Command)
    /\ pipe \in {"wake", "send", "exited"}
    /\ pipeCtx \in BOOLEAN
    /\ pc \in [Threads -> {"idle", "read", "judge", "gone"}]
    /\ notice \in [Threads -> Notice]
    /\ seen \in [Threads -> FlagVal]
    /\ ctx \in [Threads -> BOOLEAN]
    /\ run_flag \in BOOLEAN
    /\ bids \subseteq Ids
    /\ sent \in [Ids -> [Kinds -> Nat]]
    /\ tally \in [Ids -> [Kinds -> [Verdicts -> Nat]]]
    /\ disturbed \subseteq Ids

\* A notice is marked valid (and goes to kafka as valid) only for an id the
\* bidder answered: whatever is lost, late or repeated, no command and no copy
\* of a flag exists for any other id.  (Not so if redis answers errors.)
ValidOnlyIfBid ==
    \A id \in Ids : (\E k \in Kinds : Valid(id, k) > 0) => id \in bids

\* A win notice is rejected as repeated only if one was accepted before: no
\* interleaving of INCRBY and stale SETEX makes the price bit up from nothing.
RejectedWinWasWon ==
    \A id \in Ids : Repeated(id, "w") > 0 => Valid(id, "w") > 0

\* A click is accepted only after an accepted impression, unless at least two
\* win notices of the id were accepted (1 + 2 + 2 carries into the show bit).
ClickNeedsImpOrDoubleWin ==
    \A id \in Ids : Valid(id, "c") > 0 => Valid(id, "i") > 0 \/ Valid(id, "w") > 1

\* The same for an impression rejected as repeated, which is not counted.
RejectedImpNeedsImpOrDoubleWin ==
    \A id \in Ids : Repeated(id, "i") > 0 => Valid(id, "i") > 0 \/ Valid(id, "w") > 1

\* The flag that encodes what was accepted for an id.
Encoded(id) ==
    IF id \in bids
    THEN DSP_FLAG_BID + (IF Valid(id, "w") > 0 THEN DSP_FLAG_PRICE ELSE 0)
                      + (IF Valid(id, "i") > 0 THEN DSP_FLAG_SHOW ELSE 0)
                      + (IF Valid(id, "c") > 0 THEN DSP_FLAG_CLICK ELSE 0)
    ELSE NoKey

\* As long as the updates of an id never overlap and none is lost, the flag in
\* redis says exactly which kinds of notice were accepted, whenever no update
\* is on its way.
FlagTellsAccepted ==
    \A id \in Ids \ disturbed : ~InFlight(id) => master[id] = Encoded(id) /\ slave[id] = Encoded(id)

\* ... and de-duplication is exact: each kind is accepted once, what is
\* rejected was accepted before (a click: or came before its impression), and
\* a click is accepted only after its impression.
DedupExactWhenQuiet ==
    \A id \in Ids \ disturbed :
        /\ \A k \in Kinds : Valid(id, k) <= 1
        /\ \A k \in {"w", "i"} : Repeated(id, k) > 0 => Valid(id, k) = 1
        /\ Valid(id, "c") <= Valid(id, "i")

Accepted == [id \in Ids |-> [k \in Kinds |-> Valid(id, k)]]
Rejected == [id \in Ids |-> [k \in Kinds |-> Repeated(id, k)]]

Ledger == INSTANCE NoticeLedger WITH
    accepted <- Accepted, rejected <- Rejected, unsure <- disturbed

\* Every verdict is one that the ledger of the notices before it allows, for a
\* quiet id and, as far as anything holds there, for a disturbed one.
KeepsLedger == Ledger!Spec

\* The bit of an accepted notice becomes visible to the readers, unless the id
\* was disturbed or the writer has exited.
AcceptedBecomesVisible ==
    \A id \in Ids :
        (\E k \in Kinds : Valid(id, k) > 0) ~> \/ slave[id] = Encoded(id)
                                               \/ id \in disturbed
                                               \/ pipe = "exited"

-----------------------------------------------------------------------------
(* What comments and documents say of the flags; the code does otherwise.  *)

\* tracker.cpp:2123, 2158, 2193: a notice marked valid is one that is not a
\* repetition.
NonRepeatedAreValid ==
    \A id \in Ids, k \in Kinds : Valid(id, k) <= 1

\* The third bit says there is an impression: a click counts only behind one.
ClickOnlyAfterImpression ==
    \A id \in Ids : Valid(id, "c") > 0 => Valid(id, "i") > 0
=============================================================================
