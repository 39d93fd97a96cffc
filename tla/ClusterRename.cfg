SPECIFICATION Spec
CONSTANTS
  Resources = {m1}
  Specs <- TwoNames
  Extras = {plain}
  Plain = plain
  Admin = admin
  RejectsDuplicates = TRUE
  AllowRename = TRUE
  AllowFaults = FALSE
  AllowDelays = FALSE
  MaxDisruptions = 3
  MaxObjects = 5
PROPERTY NoOrphanOnRelease
CHECK_DEADLOCK FALSE
