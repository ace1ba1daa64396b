SPECIFICATION Spec
CONSTANTS
  w1 = w1  w2 = w2  e1 = e1 
  Writers <- OneWriterSet
  Executors <- OneExecutor
  FrontLen = 3
  Heads <- TwoHeads
  Len <- TwoHeadsLen
  Budget = 2
  MaxStale = 1
  MaxOps = 1
INVARIANTS NoTornExecution
