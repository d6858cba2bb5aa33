CONSTANTS
  chat1 = chat1
  chat2 = chat2
  call1 = call1
  list1 = list1
  docs1 = docs1
  mcp1 = mcp1
  Requests = {chat1, chat2, call1, list1, docs1, mcp1}
  Kind <- MCKind
  requests_limit = 1
  concurrent_requests_limit = 2
  MaxPolls = 2
SPECIFICATION FairSpec
CHECK_DEADLOCK FALSE
INVARIANTS
  TypeOK
  WithinConcurrentLimit
  StopsWhenIdle
PROPERTIES
  NoneAdmittedPastLimit
  StopsAfterLimit
