SPECIFICATION FairUsageSpec
CONSTANTS
  Workers <- OneBundleWorkers
  KindOf <- OneBundle
  MaxDials = 2
  Configs = {c1, c2}
  None = None
  MaxEdits = 2
INVARIANTS
  UsageTypeOK
  HeldAreTracked
  KnownUsersKeepConfig
PROPERTIES
  ReleasedWhenUnused
  UsageSettles
CHECK_DEADLOCK FALSE
