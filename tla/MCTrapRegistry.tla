-------------------------- MODULE MCTrapRegistry --------------------------
(* Instances of TrapRegistry for TLC.  Windows of three bytes with jumps of *)
(* two have the geometry of windows of eight with jumps of five: sites one  *)
(* jump apart share the rest of the window, sites two jumps apart nothing.  *)
EXTENDS TrapRegistry, TLC

CONSTANTS h1, h2, h3, r1, q1

Three     == {h1, h2, h3}
OneRapid  == {r1}
OneQuiet  == {q1}

\* Three sites in a row, each sharing its tail with the next; a fourth inside
\* what the third displaces; a fifth cut by a boundary.  An installation from
\* inside the second site into the third, so that plans for the second are made
\* while it is there and bound afterwards; a rapid probe over the third.
MCSites      == {0, 2, 4, 6, 9}
MCLens       == 0 :> 2 @@ 2 :> 2 @@ 4 :> 3 @@ 6 :> 2 @@ 9 :> 2
MCBoundaries == {11}
MCClients    == r1 :> 4 @@ q1 :> 3

Symmetry == Permutations(Handles)
=============================================================================
