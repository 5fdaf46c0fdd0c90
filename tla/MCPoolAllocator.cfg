SPECIFICATION Spec
CONSTANTS
  size_max = 4
  item_size = 3
  Offsets <- MCOffsets
INVARIANTS
  TypeOK
  FreeListIsChain
PROPERTY
  ImplementsBlockPool
