---------------------------- MODULE MCHookArena ----------------------------
(* A process and its child share an arena. *)
EXTENDS HookArena, TLC

Symmetry == Permutations(Threads)
=============================================================================
