SPECIFICATION FairDeploymentSpec
CONSTANTS
  Replicas = {r1, r2}
  LeaseDuration = 6
  RenewDeadline = 5
  Nobody = nobody
  MaxFailures = 4
INVARIANTS
  DeploymentTypeOK
  OneActiveReplica
  AllOrNothing
PROPERTIES
  SomeoneLeads
CHECK_DEADLOCK FALSE
