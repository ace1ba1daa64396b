---------------------------- MODULE MCSiteFlip ----------------------------
(***************************************************************************)
(* Three executors and three islands: flips, rollbacks and later flips.    *)
(***************************************************************************)
EXTENDS SiteFlip, TLC

Symmetry == Permutations(Executors) \cup Permutations(Islands)
=============================================================================
