CONSTANTS
  END_MESSAGE = END_MESSAGE
  ra = ra
  rb = rb
  ta = ta
  tb = tb
  tc = tc
  Requests = {ra, rb}
  Tools = {ta, tb, tc}
  RequestOf <- MCRequestOf
  EarlyClose = {rb}
  Unreliable = TRUE
  MaxBatches <- MCMaxBatches
SPECIFICATION FairSpec
CHECK_DEADLOCK FALSE
INVARIANTS
  TypeOK
  NothingIsLost
PROPERTIES
  ImplementsChannel
  PipelineDrains
