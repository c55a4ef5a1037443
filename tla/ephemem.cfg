SPECIFICATION Spec
CONSTANTS
  b1 = b1
  b2 = b2
  b3 = b3
  b4 = b4
  NULL = NULL
  EPHEMEM_SIZE = 3
  MaxSize = 65535
  Block <- MCBlock
  Request <- MCRequest
  FileSize <- MCFileSize
  MaxOpen = 2
SYMMETRY Symmetry
INVARIANTS
  TypeOK
  WindowSound
  RingOwnsHeap
