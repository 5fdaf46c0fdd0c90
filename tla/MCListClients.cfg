SPECIFICATION Spec
CONSTANTS
  Heads <- MCHeads
  Items <- MCItems
INVARIANT
  MemoryIsLists
