SPECIFICATION CopiesSpec
CONSTANTS
  Reconciles = {a, b}
  Nobody = nobody
  MaxWrites = 3
INVARIANTS
  CopiesTypeOK
  CopiesShareNothing
  CacheIsWhatWasSent
PROPERTY
  SavesOwnChanges
CHECK_DEADLOCK FALSE
