--------------------------- MODULE MCNoticeDedup ---------------------------
(* Instances of NoticeDedup for TLC. *)
EXTENDS NoticeDedup, TLC

CONSTANTS WMax, IMax, CMax

MCMaxSent == [k \in Kinds |-> CASE k = "w" -> WMax [] k = "i" -> IMax [] k = "c" -> CMax]

MCSymmetry == Permutations(Threads) \cup Permutations(Ids)
=============================================================================
