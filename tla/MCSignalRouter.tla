-------------------------- MODULE MCSignalRouter --------------------------
(* Three threads: one prepares, one is trapped, one registers.             *)
EXTENDS SignalRouter, TLC
=============================================================================
