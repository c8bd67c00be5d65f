--------------------------- MODULE MCUserCapping ---------------------------
(* One device, a group limited by the day and a group limited by the hour    *)
(* with two creatives; the limits change once.                               *)
EXTENDS UserCapping, TLC

CONSTANTS g1, g2, m1, m2, m3

MCGroups  == {g1, g2}
MCMapids  == {m1, m2, m3}
MCGroupOf == m1 :> g1 @@ m2 :> g2 @@ m3 :> g2

Unset == [m \in MCMapids |-> None]
MCSettings ==
    << g1 :> [type |-> "project", period |-> "day", first |-> 1, capping |-> Unset] @@
       g2 :> [type |-> "creative_2", period |-> "hour", first |-> 1, capping |-> m1 :> None @@ m2 :> 1 @@ m3 :> 2],
       g1 :> [type |-> "infinity", period |-> "day", first |-> 0, capping |-> Unset] @@
       g2 :> [type |-> "creative_2", period |-> "day", first |-> 1, capping |-> [Unset EXCEPT ![m3] = 1]] >>
=============================================================================
