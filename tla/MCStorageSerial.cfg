\* One call at a time (a single thread plays every role), with the base storage,
\* the eviction and a network of another process.
SPECIFICATION Spec
CONSTANTS
  n1 = n1
  n2 = n2
  n3 = n3
  deployer = deployer
  requester = requester
  sweeper = sweeper
  NoName = NoName
  Names = {n1, n2, n3}
  ForeignNames = {n3}
  Deployers = {deployer}
  Requesters = {deployer}
  Sweepers = {deployer}
  HasBase = TRUE
  MaxItems = 1
  Lifetime = 0
  MaxDeployments = 3
  MaxTime = 1
  MaxDepth = 3
INVARIANTS AgreesBetweenCalls
\* The clock and the deployments are bounded, so behaviours may end.
CHECK_DEADLOCK FALSE
