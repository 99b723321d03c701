SPECIFICATION Spec
CONSTANTS
  CNST = CNST
  name = CNST
  number = number
  decimal = decimal
  flag = flag
  NoText = NoText
  Texts <- MCQueryTexts
  ScalarType <- MCQueryScalarType
  StrSize <- MCQueryStrSize
  Paths <- MCPaths
  ARENA_SIZE = 20
  SizeofNode = 2
  SizeofEntry = 2
  SizeofPtr = 1
  InitialCapacity = 1
  MAX_DEPTH = 3
  Dialect = {}

INVARIANTS
  QueriesReadDocument
PROPERTY
  LookupsStable
CHECK_DEADLOCK FALSE
