SPECIFICATION Spec
CONSTANTS
  ball = ball
  beam = beam
  smoke = smoke
  spark = spark
  empty = empty
  torn = torn
  missing = missing
  glowA = glowA
  glowB = glowB
  NULL = NULL
  NoTexture = NoTexture
  NoEndFrame = NoEndFrame
  Catalog <- MCCatalog
  File <- Shipped
  FirstPick = 1
  ARENA_SIZE = 4
  SIZE_LIMIT = 8
  Height = 2
  Spacing = 1
  Depths <- MCDepths
INVARIANT
  NeverCrashes
CHECK_DEADLOCK FALSE
