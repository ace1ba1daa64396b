SPECIFICATION FairSpec
CONSTANTS
  w1 = w1  w2 = w2  e1 = e1
  Writers <- MCWriters
  Executors <- OneExecutor
  FrontLen = 3
  Heads <- OneHead
  Len <- OneHeadLen
  Budget = 2
  MaxStale = 1
  MaxOps = 2
INVARIANTS PatchInv NoTornExecution AllOrNothing
PROPERTIES RunsOneVersion TrappedThreadReturns
