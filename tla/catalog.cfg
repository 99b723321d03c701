SPECIFICATION Spec
CONSTANTS
  Lines <- MCLines
  MaxLines = 4
  MAX_COUNT = 3
  NAME_SIZE = 4
  PATH_SIZE = 4
  SKIP = 2
  TEXT_SIZE = 6
  MAX_ITEMS = 3
INVARIANTS
  FittingEntriesIntact
  LabelsNameEntries
  DefinedWithinLimits
CHECK_DEADLOCK FALSE
