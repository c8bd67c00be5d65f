------------------------------ MODULE LogShip ------------------------------
(***************************************************************************)
(* The queues of log records and the threads that empty them.              *)
(*                                                                         *)
(* A doit thread stamps a record with the time and pushes it, under the    *)
(* mutex, on the queue of a DATATRANSFER (sendLog, sendLogToKafka) or of a *)
(* USERLOG (writeLog).  One thread empties each queue, of a kind of its    *)
(* own: threadSendLog to the flume server over TCP, threadSendKafkaLog to  *)
(* librdkafka's queue, threadLog to a file.  All three go on while         *)
(* run_flag is set, then empty the queue under the mutex and end.  main    *)
(* joins them, frees the queues and kills the process: the doit threads    *)
(* are never joined.                                                       *)
(*                                                                         *)
(* One queue is modelled, with the doit threads that share it; its kind is *)
(* chosen at the start.  A record is known by its stamp.                   *)
(***************************************************************************)
EXTENDS Integers, SequencesExt

CONSTANTS Writers,       \* the doit threads that share the queue
          None,
          BATCH,         \* lines threadLog takes at once
          OUTQ,          \* messages librdkafka's queue holds
          MaxRecords,    \* bound: records stamped
          MaxFar         \* bound: connections made, or files opened

ASSUME LogAssumption ==
    /\ BATCH \in Nat \ {0} /\ OUTQ \in Nat \ {0}
    /\ MaxRecords \in Nat /\ MaxFar \in Nat \ {0}

Records == [by : Writers, at : 1..MaxRecords]

ASSUME NoneAssumption == None \notin Records

VARIABLES
    kind,      \* which of the three threads empties the queue
    run_flag,
    clock,     \* stamps taken
    held,      \* the record each doit thread has stamped and not pushed yet
    data,      \* the queue
    thread,    \* where the emptying thread is
    hand,      \* the records it has taken and not passed on
    drained,   \* i: the lines threadLog took from the queue at its end
    fd,        \* the connection, or the file, is there (not -1, not NULL)
    live,      \* the connection is not broken
    wire,      \* passed on and not arrived: TCP's buffers, librdkafka's queue
    far,       \* what each connection brought to the server, what each file holds
    main,      \* how far main is
    given,     \* history: records pushed
    late,      \* history: those pushed after the emptying thread had ended
    broken     \* history: something failed

thrVars == <<thread, hand, drained>>
farVars == <<fd, live, wire, far>>
history == <<given, late, broken>>
vars == <<kind, run_flag, clock, held, data, thrVars, farVars, main, history>>

\* connect_log_server: no thread is started when the flume server is not there.
\* openLog leaves the file to be opened by the thread.
Init ==
    /\ kind \in {"flume", "kafka", "file"}
    /\ run_flag = TRUE
    /\ clock = 0 /\ held = [w \in Writers |-> None]
    /\ data = <<>> /\ hand = <<>> /\ drained = 0 /\ wire = <<>>
    /\ thread \in {"loop", "none"} /\ (thread = "none" => kind = "flume")
    /\ fd = (kind # "file" /\ thread = "loop")
    /\ live = fd
    /\ far = IF fd THEN << <<>> >> ELSE <<>>
    /\ main = "waiting"
    /\ given = {} /\ late = {} /\ broken = (thread = "none")

-----------------------------------------------------------------------------
(* The doit threads                                                        *)

\* Also after run_flag is cleared: a thread that waits in FCGX_Accept_r has one
\* more notice to see, of several records.
Stamp(w) ==
    /\ main # "gone" /\ held[w] = None /\ clock < MaxRecords
    /\ clock' = clock + 1
    /\ held' = [held EXCEPT ![w] = [by |-> w, at |-> clock + 1]]
    /\ UNCHANGED <<kind, run_flag, data, thrVars, farVars, main, history>>

\* A mutant of Push: the record is put in front.
PushFront(w) ==
    /\ main # "gone" /\ held[w] # None /\ thread # "drain"
    /\ data' = <<held[w]>> \o data
    /\ held' = [held EXCEPT ![w] = None]
    /\ given' = given \cup {held[w]}
    /\ late' = IF thread = "exited" THEN late \cup {held[w]} ELSE late
    /\ UNCHANGED <<kind, run_flag, clock, thrVars, farVars, main, broken>>

\* The thread keeps the mutex while it drains the queue.  After main has freed
\* the queue this is an access to freed memory, which may go unnoticed.
Push(w) ==
    /\ main # "gone" /\ held[w] # None /\ thread # "drain"
    /\ data' = Append(data, held[w])
    /\ held' = [held EXCEPT ![w] = None]
    /\ given' = given \cup {held[w]}
    /\ late' = IF thread = "exited" THEN late \cup {held[w]} ELSE late
    /\ UNCHANGED <<kind, run_flag, clock, thrVars, farVars, main, broken>>

-----------------------------------------------------------------------------
(* The end of the process: what is in its memory is gone, what it gave to  *)
(* the system is not.                                                      *)

Gone ==
    /\ main' = "gone"
    /\ data' = <<>> /\ hand' = <<>>
    /\ wire' = IF kind = "kafka" THEN <<>> ELSE wire

\* The other outcome of a push into freed memory.
PushCrash(w) ==
    /\ main = "freed" /\ held[w] # None
    /\ Gone
    /\ broken' = TRUE
    /\ UNCHANGED <<kind, run_flag, clock, held, thread, drained, fd, live, far, given, late>>

-----------------------------------------------------------------------------
(* The three threads, while run_flag is set                                *)

Running == main # "gone" /\ thread = "loop" /\ run_flag

\* threadLog takes several lines at once, the others one message.
Pop ==
    /\ Running /\ data # <<>>
    /\ \E n \in 1..Len(data) :
          /\ n = IF kind # "file" THEN 1 ELSE IF Len(data) < BATCH THEN Len(data) ELSE BATCH
          /\ hand' = SubSeq(data, 1, n)
          /\ data' = SubSeq(data, n + 1, Len(data))
    /\ thread' = "send"
    /\ UNCHANGED <<kind, run_flag, clock, held, drained, farVars, main, history>>

\* send() and produce() take the messages.  The first message after the
\* connection broke may be taken, too, for nothing.
Taken(rs) ==
    \/ kind = "flume" /\ fd /\ live /\ wire' = wire \o rs
    \/ kind = "flume" /\ fd /\ ~live /\ wire' = wire
    \/ kind = "kafka" /\ Len(wire) < OUTQ /\ wire' = wire \o rs

\* They do not: a prefix of the message, at most, has passed.
Refused == kind = "kafka" \/ (kind = "flume" /\ ~(fd /\ live))

\* A mutant of Send: a message that was taken is taken for a failure.
SendAgain ==
    /\ main # "gone" /\ thread = "send" /\ kind # "file"
    /\ Taken(hand) \/ (Refused /\ UNCHANGED wire)
    /\ thread' = "connect" /\ broken' = TRUE
    /\ UNCHANGED <<kind, run_flag, clock, held, data, hand, drained, fd, live, far, main, given, late>>

Send ==
    /\ main # "gone" /\ thread = "send" /\ kind # "file"
    /\ \/ /\ Taken(hand)
          /\ hand' = <<>> /\ thread' = "loop"
          /\ UNCHANGED broken
       \/ /\ Refused
          /\ thread' = "connect" /\ broken' = TRUE
          /\ UNCHANGED <<hand, wire>>
    /\ UNCHANGED <<kind, run_flag, clock, held, data, drained, fd, live, far, main, given, late>>

\* A mutant of Reconnect: the thread tries until the server is there.
ReconnectForever ==
    /\ main # "gone" /\ thread = "connect"
    /\ \/ /\ kind = "flume" /\ Len(far) < MaxFar
          /\ fd' = TRUE /\ live' = TRUE
          /\ far' = Append(far, <<>>)
          /\ thread' = "resend" /\ UNCHANGED hand
       \/ /\ kind = "kafka"
          /\ thread' = "resend" /\ UNCHANGED <<fd, live, far, hand>>
       \/ /\ kind = "flume"
          /\ fd' = FALSE /\ live' = FALSE
          /\ UNCHANGED <<thread, hand, far>>
    /\ UNCHANGED <<kind, run_flag, clock, held, data, drained, wire, main, history>>

\* The old connection is left as it is.  For kafka only the topic's handle is
\* made anew.
Reconnect ==
    /\ main # "gone" /\ thread = "connect"
    /\ \/ /\ kind = "flume" /\ Len(far) < MaxFar
          /\ fd' = TRUE /\ live' = TRUE
          /\ far' = Append(far, <<>>)
          /\ thread' = "resend" /\ UNCHANGED hand
       \/ /\ kind = "kafka"
          /\ thread' = "resend" /\ UNCHANGED <<fd, live, far, hand>>
       \/ /\ kind = "flume"
          /\ fd' = FALSE /\ live' = FALSE
          /\ thread' = "loop" /\ hand' = <<>>
          /\ UNCHANGED far
    /\ UNCHANGED <<kind, run_flag, clock, held, data, drained, wire, main, history>>

\* A mutant of Resend: the message is not let go of.
ResendKeeps ==
    /\ main # "gone" /\ thread = "resend"
    /\ Taken(hand) \/ (Refused /\ UNCHANGED wire)
    /\ thread' = "loop"
    /\ UNCHANGED <<kind, run_flag, clock, held, data, hand, drained, fd, live, far, main, history>>

\* Once more, whatever becomes of it.
Resend ==
    /\ main # "gone" /\ thread = "resend"
    /\ Taken(hand) \/ (Refused /\ UNCHANGED wire)
    /\ hand' = <<>> /\ thread' = "loop"
    /\ UNCHANGED <<kind, run_flag, clock, held, data, drained, fd, live, far, main, history>>

\* The hour or the day changed: the file is closed.
Rotate ==
    /\ Running /\ kind = "file" /\ fd /\ Len(far) < MaxFar
    /\ fd' = FALSE
    /\ UNCHANGED <<kind, run_flag, clock, held, data, thrVars, live, wire, far, main, history>>

\* A file is opened when there is none, and another one when this one is full.
Write ==
    /\ main # "gone" /\ thread = "send" /\ kind = "file"
    /\ \E n \in 0..2 :
          /\ n \in (IF fd THEN {0, 1} ELSE {1, 2}) /\ Len(far) + n <= MaxFar
          /\ LET files == far \o [i \in 1..n |-> <<>>]
             IN  \/ /\ far' = [files EXCEPT ![Len(files)] = @ \o hand]
                    /\ UNCHANGED broken
                 \/ /\ far' = files            \* fwrite fails
                    /\ broken' = TRUE
    /\ fd' = TRUE
    /\ hand' = <<>> /\ thread' = "loop"
    /\ UNCHANGED <<kind, run_flag, clock, held, data, drained, live, wire, main, given, late>>

\* The file cannot be opened, and a null pointer is written to.
WriteCrash ==
    /\ main # "gone" /\ thread = "send" /\ kind = "file"
    /\ Gone
    /\ broken' = TRUE
    /\ UNCHANGED <<kind, run_flag, clock, held, thread, drained, fd, live, far, given, late>>

-----------------------------------------------------------------------------
(* The three threads, at their end: the mutex is kept                      *)

Drain ==
    /\ main # "gone" /\ thread = "loop" /\ ~run_flag
    /\ thread' = "drain"
    /\ UNCHANGED <<kind, run_flag, clock, held, data, hand, drained, farVars, main, history>>

DrainSend ==
    /\ main # "gone" /\ thread = "drain" /\ kind # "file" /\ data # <<>>
    /\ data' = Tail(data)
    /\ \/ Taken(<<Head(data)>>) /\ UNCHANGED broken
       \/ Refused /\ broken' = TRUE /\ UNCHANGED wire
    /\ UNCHANGED <<kind, run_flag, clock, held, thrVars, fd, live, far, main, given, late>>

\* A mutant of DrainLine: the lines are not counted.
DrainLineUncounted ==
    /\ main # "gone" /\ thread = "drain" /\ kind = "file" /\ drained < Len(data)
    /\ hand' = Append(hand, Head(data))
    /\ data' = Tail(data)
    /\ UNCHANGED <<kind, run_flag, clock, held, thread, drained, farVars, main, history>>

\* for (i = 0; i < log.size(); ++i), of a queue that gets shorter.
DrainLine ==
    /\ main # "gone" /\ thread = "drain" /\ kind = "file" /\ drained < Len(data)
    /\ hand' = Append(hand, Head(data))
    /\ data' = Tail(data)
    /\ drained' = drained + 1
    /\ UNCHANGED <<kind, run_flag, clock, held, thread, farVars, main, history>>

\* threadLog writes what it has taken, if a file is open; it does not look
\* whether that fails.
DrainEnd ==
    /\ main # "gone" /\ thread = "drain"
    /\ IF kind = "file" THEN drained >= Len(data) ELSE data = <<>>
    /\ thread' = "exited" /\ hand' = <<>>
    /\ \/ kind = "file" /\ fd /\ far' = [far EXCEPT ![Len(far)] = @ \o hand]
       \/ UNCHANGED far
    /\ UNCHANGED <<kind, run_flag, clock, held, data, drained, fd, live, wire, main, history>>

-----------------------------------------------------------------------------
(* What is beyond the program                                              *)

\* TCP keeps the order of a connection; librdkafka spreads messages over the
\* partitions.
Deliver ==
    /\ \E i \in DOMAIN wire :
          /\ kind = "flume" => i = 1
          /\ far' = [far EXCEPT ![Len(far)] = Append(@, wire[i])]
          /\ wire' = RemoveAt(wire, i)
    /\ UNCHANGED <<kind, run_flag, clock, held, data, thrVars, fd, live, main, history>>

\* The messages that were on their way arrive up to some point.
Break ==
    /\ kind = "flume" /\ live
    /\ live' = FALSE
    /\ \E n \in 0..Len(wire) :
          far' = [far EXCEPT ![Len(far)] = @ \o SubSeq(wire, 1, n)]
    /\ wire' = <<>>
    /\ broken' = TRUE
    /\ UNCHANGED <<kind, run_flag, clock, held, data, thrVars, fd, main, given, late>>

\* librdkafka gives a message up; its delivery report is not asked for.
Expire ==
    /\ kind = "kafka" /\ main # "gone"
    /\ \E i \in DOMAIN wire : wire' = RemoveAt(wire, i)
    /\ broken' = TRUE
    /\ UNCHANGED <<kind, run_flag, clock, held, data, thrVars, fd, live, far, main, given, late>>

-----------------------------------------------------------------------------
(* main                                                                    *)

\* sigroutine
Stop ==
    /\ main = "waiting" /\ run_flag
    /\ run_flag' = FALSE
    /\ UNCHANGED <<kind, clock, held, data, thrVars, farVars, main, history>>

\* A mutant of Free: kafka's queue is not waited for.
FreeAtOnce ==
    /\ main = "waiting" /\ ~run_flag /\ thread \in {"exited", "none"}
    /\ main' = "freed"
    /\ UNCHANGED <<kind, run_flag, clock, held, data, thrVars, farVars, history>>

\* The thread is joined, its connection or file closed and its queue freed.
\* disconnectServer waits until librdkafka's queue is empty.
Free ==
    /\ main = "waiting" /\ ~run_flag /\ thread \in {"exited", "none"}
    /\ kind = "kafka" => wire = <<>>
    /\ main' = "freed"
    /\ UNCHANGED <<kind, run_flag, clock, held, data, thrVars, farVars, history>>

\* The process is killed; or it crashes when it joins the thread that was never
\* started.
Kill ==
    /\ \/ main = "freed"
       \/ main = "waiting" /\ ~run_flag /\ thread = "none"
    /\ Gone
    /\ UNCHANGED <<kind, run_flag, clock, held, thread, drained, fd, live, far, history>>

-----------------------------------------------------------------------------
ThreadStep ==
    \/ Pop \/ Send \/ Reconnect \/ Resend \/ Rotate \/ Write \/ WriteCrash
    \/ Drain \/ DrainSend \/ DrainLine \/ DrainEnd

Next ==
    \/ \E w \in Writers : Stamp(w) \/ Push(w) \/ PushCrash(w)
    \/ ThreadStep
    \/ Deliver \/ Break \/ Expire
    \/ Stop \/ Free \/ Kill

\* The threads, main and the network go on; nothing says that a notice comes,
\* that something breaks or that the program is stopped.
Spec ==
    /\ Init /\ [][Next]_vars
    /\ WF_vars(ThreadStep) /\ WF_vars(Deliver \/ Expire) /\ WF_vars(Free \/ Kill)

-----------------------------------------------------------------------------
TypeOK ==
    /\ kind \in {"flume", "kafka", "file"} /\ run_flag \in BOOLEAN
    /\ clock \in 0..MaxRecords
    /\ held \in [Writers -> Records \cup {None}]
    /\ data \in Seq(Records) /\ hand \in Seq(Records) /\ wire \in Seq(Records)
    /\ thread \in {"none", "loop", "send", "connect", "resend", "drain", "exited"}
    /\ hand # <<>> => \/ thread \in {"send", "connect", "resend"}
                      \/ thread = "drain" /\ kind = "file"
    /\ drained \in Nat
    /\ fd \in BOOLEAN /\ live \in BOOLEAN /\ (kind = "kafka" => fd)
    /\ far \in Seq(Seq(Records)) /\ (fd \/ live \/ wire # <<>> => far # <<>>)
    /\ main \in {"waiting", "freed", "gone"}
    /\ given \subseteq Records /\ late \subseteq given /\ broken \in BOOLEAN

Apart(rs, qs) == Range(rs) \cap Range(qs) = {}

\* A record is in one place, once: what threadSendLog sends again after it has
\* connected again had not arrived, and no thread passes a record on twice or
\* puts it back.
AtMostOnce ==
    /\ IsInjective(data) /\ IsInjective(hand) /\ IsInjective(wire)
    /\ Apart(data, hand) /\ Apart(data, wire) /\ Apart(hand, wire)
    /\ \A c \in DOMAIN far :
          /\ IsInjective(far[c])
          /\ Apart(far[c], data) /\ Apart(far[c], hand) /\ Apart(far[c], wire)
          /\ \A d \in DOMAIN far \ {c} : Apart(far[c], far[d])

Sorted(rs) ==
    \A i, j \in DOMAIN rs : i < j /\ rs[i].by = rs[j].by => rs[i].at < rs[j].at

\* The records of one doit thread arrive, in each connection and each file, in
\* the order of their stamps, whatever was sent again in between.  (The stamps
\* of two threads need not be in order, as they are taken before the mutex is;
\* neither are messages of kafka's partitions.)
WriterOrder == kind # "kafka" => \A c \in DOMAIN far : Sorted(far[c])

\* The loop by which threadLog empties its queue at the end takes every other
\* line only: it leaves as many as it writes, or one less.
HalfIsLeft ==
    thread = "drain" /\ kind = "file" /\ drained >= Len(data) =>
        Len(hand) - Len(data) \in {0, 1}

Arrived == UNION {Range(far[c]) : c \in DOMAIN far}
Places == Range(data) \cup Range(hand) \cup Range(wire) \cup Arrived

\* The end of threadLog, which leaves lines behind, is a failure of its own.
Channel == INSTANCE LogChannel WITH
    arrived <- Arrived,
    lost    <- given \ Places,
    broken  <- broken \/ (kind = "file" /\ ~run_flag)

\* The three threads keep the promise of LogChannel: no record comes back that
\* was lost, and none is lost as long as nothing breaks, the end of the program
\* included, but for those the doit threads push after the thread has ended
\* (and the lines that threadLog leaves).
KeepsPromise == Channel!Spec

(* Why the promise is kept.                                                 *)

\* Stamps are taken once; what is somewhere was given, what is held was not yet.
StampsUnique ==
    /\ Places \subseteq given
    /\ \A r \in given : r.at <= clock
    /\ \A w \in Writers : held[w] # None =>
          held[w].by = w /\ held[w].at <= clock /\ held[w] \notin given

\* What a thread meets when nothing failed, and what it leaves at its end.
CleanEnd ==
    /\ thread \in {"drain", "exited"} => ~run_flag
    /\ main = "freed" => ~run_flag /\ thread \in {"none", "exited"}
    /\ main = "freed" /\ kind = "kafka" => wire = <<>>
    /\ main # "waiting" /\ ~broken => thread = "exited"
    /\ thread \in {"none", "connect", "resend"} => broken
    /\ kind = "flume" /\ ~broken => fd /\ live
    /\ thread = "exited" /\ kind # "file" /\ ~broken => Range(data) \subseteq late

\* Why the records of one thread stay in order: on the way from the queue to the
\* newest connection or file all come before those behind them, and what a
\* thread holds comes after all it has given.
Newest(f) == IF f = <<>> THEN <<>> ELSE f[Len(f)]

Before(rs, qs) == \A r \in Range(rs), q \in Range(qs) : r.by = q.by => r.at < q.at

InOrder ==
    /\ kind = "file" => wire = <<>>
    /\ \A w \in Writers : \A r \in given :
          held[w] # None /\ r.by = w => r.at < held[w].at
    /\ kind # "kafka" =>
          /\ \A c \in DOMAIN far : Sorted(far[c])
          /\ Sorted(wire) /\ Sorted(hand) /\ Sorted(data)
          /\ Before(Newest(far), wire) /\ Before(Newest(far), hand) /\ Before(Newest(far), data)
          /\ Before(wire, hand) /\ Before(wire, data) /\ Before(hand, data)

\* Why half of the lines are left.
LineCount ==
    /\ thread \notin {"drain", "exited"} => drained = 0
    /\ thread = "drain" /\ kind = "file" =>
          drained = Len(hand) /\ drained <= Len(data) + 1

\* The inductive invariant.
ShipInv == TypeOK /\ StampsUnique /\ CleanEnd

\* A record that was pushed arrives or is lost: it is not kept for ever in a
\* queue that someone empties.
RecordsSettle ==
    \A r \in Records :
        (r \in given /\ thread # "none") ~> (r \in Arrived \/ r \in given \ Places)
=============================================================================
