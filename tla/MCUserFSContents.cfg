SPECIFICATION FairSpec
CONSTANTS
  f1 = f1  b1 = b1  b2 = b2  x = x  y = y
  FileNames = {n1}
  FileIds = {f1}
  BlockIds = {b1, b2}
  BLOCK_SIZE = 2
  MAX_FILE_SIZE = 4
  Bytes = {x, y}
  Garbage = garbage
  NULL = null
  Buffers <- BufferChoices
  ReadSizes = {3}
  NewSizes = {}
  OpenFlags <- FlagChoices
  MAX_OPEN = 3
INVARIANTS
  TableAccounted
PROPERTIES
  ImplementsFlatFS
  ReadReturns
  WriteReturns
