CONSTANTS
  Disks <- MCDisks
  NameOf <- MCNameOf
  Callers <- MCCallers
  MaxEdits <- MCMaxEdits
  MaxLookups <- MCMaxLookups
SPECIFICATION Spec
CHECK_DEADLOCK FALSE
PROPERTIES ServedIsCurrent UpdatesAndLookupsEnd
