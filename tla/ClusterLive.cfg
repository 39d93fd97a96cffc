SPECIFICATION FairSpec
CONSTANTS
  Resources = {m1}
  Specs <- NamesAndParams
  Extras = {plain}
  Plain = plain
  Admin = admin
  RejectsDuplicates = FALSE
  AllowRename = TRUE
  AllowFaults = TRUE
  AllowDelays = FALSE
  MaxDisruptions = 3
  MaxObjects = 4
INVARIANT TypeOK
PROPERTIES Converges DeletionCompletes NothingMadeTwice NothingLeftBehind LivesAsPromised
CHECK_DEADLOCK FALSE
