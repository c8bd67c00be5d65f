---------------------------- MODULE NoticeLedger ----------------------------
(***************************************************************************)
(* What the de-duplication of notices promises, notice by notice: when one *)
(* may be accepted and when one may be rejected as repeated, given what    *)
(* was accepted before it.  For an id whose updates overlap or are lost    *)
(* little is left of the promise, but not nothing.                         *)
(*                                                                         *)
(* NoticeDedup is shown to implement it.                                   *)
(***************************************************************************)
EXTENDS Naturals

CONSTANTS Ids, Kinds

VARIABLES bids,      \* ids the bidder has answered
          accepted,  \* notices accepted, per id and kind
          rejected,  \* notices rejected as repeated, per id and kind
          unsure     \* ids whose flag cannot be trusted any more

ledger == <<bids, accepted, rejected, unsure>>

Init ==
    /\ bids = {} /\ unsure = {}
    /\ accepted = [id \in Ids |-> [k \in Kinds |-> 0]]
    /\ rejected = accepted

\* There was an impression, or two wins that add up to look like one.
MayBeShown(id) == accepted[id]["i"] > 0 \/ accepted[id]["w"] > 1

Bid(id) ==
    /\ bids' = bids \cup {id}
    /\ UNCHANGED <<accepted, rejected, unsure>>

Accept(id, k) ==
    /\ k = "c" => MayBeShown(id)
    /\ id \notin unsure =>
          /\ id \in bids
          /\ accepted[id][k] = 0
          /\ k = "c" => accepted[id]["i"] > 0
    /\ accepted' = [accepted EXCEPT ![id][k] = @ + 1]
    /\ UNCHANGED <<bids, rejected, unsure>>

Reject(id, k) ==
    /\ k = "w" => accepted[id]["w"] > 0
    /\ k = "i" => MayBeShown(id)
    /\ id \notin unsure =>
          /\ id \in bids
          /\ accepted[id][k] > 0 \/ (k = "c" /\ accepted[id]["i"] = 0)
    /\ rejected' = [rejected EXCEPT ![id][k] = @ + 1]
    /\ UNCHANGED <<bids, accepted, unsure>>

\* Updates of the ids overlap, or one is lost.
Doubt(S) ==
    /\ unsure' = unsure \cup S
    /\ UNCHANGED <<bids, accepted, rejected>>

Next ==
    \/ \E id \in Ids : Bid(id) \/ \E k \in Kinds : Accept(id, k) \/ Reject(id, k)
    \/ \E S \in SUBSET Ids : Doubt(S)

Spec == Init /\ [][Next]_ledger
=============================================================================
