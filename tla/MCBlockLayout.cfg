SPECIFICATION Spec
CONSTANTS
  Pointer = 8
  Word = 1024
  Counts = {0, 1, 2, 3, 5}
  Types <- MCTypes
  Buffers <- MCBuffers
  NULL = NULL
INVARIANTS
  WellPlaced
  AllCarved
