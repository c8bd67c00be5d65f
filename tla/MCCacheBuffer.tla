--------------------------- MODULE MCCacheBuffer ---------------------------
(* Two groups that come and go, a lifetime of two ticks. *)
EXTENDS CacheBuffer, TLC

CONSTANTS g1, g2, r1

MCGroups  == {g1, g2}
MCReaders == {r1}
MCSymmetry == Permutations(MCGroups)
=============================================================================
