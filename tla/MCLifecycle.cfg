CONSTANTS
  END_MESSAGE = END_MESSAGE
  ra = ra
  rb = rb
  ka = ka
  kb = kb
  Roots = {ra, rb}
  Clones = {ka}
  MotherOf <- MCMother
  Reused = {rb}
  Disconnecting = {ra}
  Failing = {ra, ka}
  BadClose = {rb}
  HasMonitor = TRUE
  MaxMessages = 1
  MaxExchanges = 2
SPECIFICATION FairSpec
CHECK_DEADLOCK FALSE
INVARIANTS
  TypeOK
  ClosedOnce
  EventClosedAfterWork
  AnsweredAtEnd
  ReturnedAfterClose
  StreamsAreCounted
PROPERTY EventuallyClosed
