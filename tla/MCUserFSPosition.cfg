SPECIFICATION Spec
CONSTANTS
  f1 = f1  f2 = f2
  b1 = b1  b2 = b2  b3 = b3  b4 = b4
  x = x
  FileNames = {n1}
  FileIds = {f1, f2}
  BlockIds = {b1, b2, b3, b4}
  BLOCK_SIZE = 2
  MAX_FILE_SIZE = 4
  Bytes = {x}
  Garbage = garbage
  NULL = null
  Buffers <- BufferChoices
  ReadSizes = {1, 2}
  NewSizes = {0, 1, 3}
  OpenFlags <- FlagChoices
  MAX_OPEN = 2
VIEW StructureView
SYMMETRY AddressSymmetry
CHECK_DEADLOCK FALSE
PROPERTY ResizeMovesOnlyThoseBehind
