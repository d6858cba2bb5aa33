\* One deployment task, one request thread and the expiration loop, interleaved
\* at every unlocked step; one own network and one deployed by another process.
\* A reservation lasts to the end of the tick it was made in.
SPECIFICATION FairSpec
CONSTANTS
  n1 = n1
  n2 = n2
  n3 = n3
  deployer = deployer
  requester = requester
  sweeper = sweeper
  NoName = NoName
  Names = {n1, n2}
  ForeignNames = {n2}
  Deployers = {deployer}
  Requesters = {requester}
  Sweepers = {sweeper}
  HasBase = TRUE
  MaxItems = 0
  Lifetime = 0
  MaxDeployments = 2
  MaxTime = 1
  MaxDepth = 3
INVARIANTS TypeOK TablesTogether LeaseKept AnswersAreLeased
PROPERTIES ImplementsLeases ExpiredIsRemoved
\* The clock and the deployments are bounded, so behaviours may end.
CHECK_DEADLOCK FALSE
