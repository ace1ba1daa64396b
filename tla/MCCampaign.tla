---------------------------- MODULE MCCampaign ----------------------------
(* Two cases, and one worker more than they and the calibrations need.     *)
EXTENDS Campaign, TLC

Symmetry == Permutations(Workers)
=============================================================================
