SPECIFICATION WatchedSpec
CONSTANTS
  Resources = {m1}
  Specs <- OneName
  Extras = {plain}
  Plain = plain
  Admin = admin
  RejectsDuplicates = TRUE
  AllowRename = FALSE
  AllowFaults = TRUE
  AllowDelays = FALSE
  MaxDisruptions = 3
  MaxObjects = 3
INVARIANT ReadyBundleIsPublished
CHECK_DEADLOCK FALSE
