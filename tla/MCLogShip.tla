----------------------------- MODULE MCLogShip -----------------------------
(* Two doit threads on one queue. *)
EXTENDS LogShip
=============================================================================
