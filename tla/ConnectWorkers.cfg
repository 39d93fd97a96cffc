SPECIFICATION Spec
CONSTANTS
  Workers <- FourWorkers
  KindOf <- Four
  MaxDials = 4
INVARIANTS
  TypeOK
  SeparateAreSafe
  ClustersStayOpen
  LeaksOnlyByOverlap
  FieldClosedAtRest
CHECK_DEADLOCK FALSE
