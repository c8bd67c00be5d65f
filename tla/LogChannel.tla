----------------------------- MODULE LogChannel -----------------------------
(***************************************************************************)
(* What a log channel of the programs promises, whichever thread empties   *)
(* its queue: a record given to it arrives, is lost, or is still on its    *)
(* way, and what it once is it stays; and a record is lost only when       *)
(* something broke, or when it was given after the emptying thread left.   *)
(*                                                                         *)
(* LogShip is shown to implement it.                                       *)
(***************************************************************************)
CONSTANT Records

VARIABLES given,    \* records given to the channel
          late,     \* those given after its thread had left
          arrived,  \* those that arrived
          lost,     \* those that never will
          broken    \* a connection, a file or a limit failed

channel == <<given, late, arrived, lost, broken>>

Init ==
    /\ given = {} /\ late = {} /\ arrived = {} /\ lost = {}
    /\ broken \in BOOLEAN

Give(r) ==
    /\ r \notin given
    /\ given' = given \cup {r}
    /\ late' \in {late, late \cup {r}}
    /\ UNCHANGED <<arrived, lost, broken>>

\* Some records on their way arrive and some are lost.
Settle(A, L) ==
    /\ arrived' = arrived \cup A
    /\ lost' = lost \cup L
    /\ broken' \in {broken, TRUE}
    /\ broken' \/ L \subseteq late
    /\ UNCHANGED <<given, late>>

OnTheWay == given \ (arrived \cup lost)

Next ==
    \/ \E r \in Records : Give(r)
    \/ \E A \in SUBSET OnTheWay : \E L \in SUBSET (OnTheWay \ A) : Settle(A, L)

Spec == Init /\ [][Next]_channel
=============================================================================
