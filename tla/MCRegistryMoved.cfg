CONSTANTS
  Disks <- MCMovingDisks
  NameOf <- MCNameOf
  Callers <- MCCallers
  MaxEdits <- MCOneEdit
  MaxLookups <- MCMaxLookups
SPECIFICATION Spec
CHECK_DEADLOCK FALSE
INVARIANTS ListenerMatchesTables
