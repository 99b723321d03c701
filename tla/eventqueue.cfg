SPECIFICATION FairSpec
CONSTANTS
  BLOCK_SIZE = 2
  EXPLICIT_INITIAL_INDEX_SIZE = 2
  MaxBulk = 3
  MaxItems = 11
INVARIANTS
  ProcessedInOrder
  NoSharedPlace
PROPERTIES
  AllProcessed
CHECK_DEADLOCK FALSE
