SPECIFICATION Spec
CONSTANTS
  Workers <- ClusterWorkers
  KindOf <- Clusters
  MaxDials = 3
INVARIANTS UsesOwnConnection
CHECK_DEADLOCK FALSE
