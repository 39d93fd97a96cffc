SPECIFICATION Spec
CONSTANTS
  Workers <- ParallelWorkers
  KindOf <- Parallel
  MaxDials = 3
INVARIANTS OpenWhileUsed
CHECK_DEADLOCK FALSE
