SPECIFICATION FairSpec
CONSTANTS
  b1 = b1  b2 = b2  e1 = e1
  Members <- TwoMembers
  Split <- FirstSplit
  Batches <- TwoBatches
  Executors <- OneExecutor
INVARIANTS LeaseInv NoTornExecution ReleasedIsSettled
PROPERTIES SwitchesTogether TrappedThreadReleased
CHECK_DEADLOCK FALSE
