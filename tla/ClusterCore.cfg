SPECIFICATION Spec
CONSTANTS
  Resources = {m1}
  Specs <- NamesAndParams
  Extras = {plain, custom}
  Plain = plain
  Admin = admin
  RejectsDuplicates = FALSE
  AllowRename = TRUE
  AllowFaults = TRUE
  AllowDelays = TRUE
  MaxDisruptions = 4
  MaxObjects = 2
INVARIANTS Inv CreateIsRecoverable DeleteTargetIsOurs
PROPERTY UnmanagedFieldsKept
CHECK_DEADLOCK FALSE
