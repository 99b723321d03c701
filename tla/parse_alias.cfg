SPECIFICATION Spec
CONSTANTS
  name = name
  number = number
  NoText = NoText
  Texts <- MCTexts
  ScalarType <- MCScalarType
  StrSize <- MCStrSize
  ARENA_SIZE = 20
  SizeofNode = 2
  SizeofEntry = 2
  SizeofPtr = 1
  InitialCapacity = 1
  MAX_DEPTH = 3
  Dialect = {"alias"}
INVARIANT
  KeyPhase
CHECK_DEADLOCK FALSE
