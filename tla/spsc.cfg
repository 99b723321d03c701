SPECIFICATION FairSpec
CONSTANTS
  a = a
  b = b
  Raw = Raw
  Items <- MCItems
  Capacity = 3
INVARIANTS
  SlotsApart
PROPERTIES
  ImplementsFifo
  NeitherHeldUp
