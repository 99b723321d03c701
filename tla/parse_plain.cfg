SPECIFICATION Spec
CONSTANTS
  name = name
  number = number
  NoText = NoText
  Texts <- MCTexts
  ScalarType <- MCScalarType
  StrSize <- MCStrSize
  ARENA_SIZE = 28
  SizeofNode = 2
  SizeofEntry = 2
  SizeofPtr = 1
  InitialCapacity = 1
  MAX_DEPTH = 3
  Dialect = {}
INVARIANTS
  TypeOK
  BlocksSound
  PointersSound
  KeyPhase
  NoUndefined
PROPERTIES
  NodesOnlyGrow
  ImplementsNodes
  ImplementsYamlTree
CHECK_DEADLOCK FALSE
