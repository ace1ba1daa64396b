---------------------------- MODULE MCWordPatch ----------------------------
(* Instances of WordPatch for TLC.                                         *)
EXTENDS WordPatch, FiniteSets, TLC

CONSTANTS w1, w2, e1

MCWriters    == {w1, w2}
OneWriterSet == {w1}
OneExecutor  == {e1}

\* One five-byte instruction is displaced; the next one starts behind it.
OneHead    == {0, 5}
OneHeadLen == 0 :> 5 @@ 5 :> 4

\* A two-byte and a four-byte instruction are displaced together.
TwoHeads    == {0, 2, 6}
TwoHeadsLen == 0 :> 2 @@ 2 :> 4 @@ 6 :> 2
=============================================================================
