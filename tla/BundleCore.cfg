SPECIFICATION WatchedSpec
CONSTANTS
  Resources = {m1}
  Specs <- TwoNames
  Extras = {plain}
  Plain = plain
  Admin = admin
  RejectsDuplicates = FALSE
  AllowRename = TRUE
  AllowFaults = TRUE
  AllowDelays = TRUE
  MaxDisruptions = 3
  MaxObjects = 4
INVARIANTS TypeOK Inv RevokesOnlyOwnOnDeletion SecretIsOwned CalmBundleIsPublished
PROPERTIES SecretNeverRegresses LivesAsPromised BundlesConverge RevocationCompletes
CHECK_DEADLOCK FALSE
