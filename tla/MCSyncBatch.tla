---------------------------- MODULE MCSyncBatch ----------------------------
(* Two batches over a split and a single-line member.                      *)
EXTENDS SyncBatch, TLC

CONSTANTS b1, b2, e1

TwoBatches  == {b1, b2}
OneExecutor == {e1}
TwoMembers  == {1, 2}
FirstSplit  == {1}
=============================================================================
