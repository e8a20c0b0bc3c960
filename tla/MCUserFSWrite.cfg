SPECIFICATION FairSpec
CONSTANTS
  f1 = f1  f2 = f2
  b1 = b1  b2 = b2  b3 = b3  b4 = b4
  x = x
  FileNames = {n1}
  FileIds = {f1}
  BlockIds = {b1, b2}
  BLOCK_SIZE = 2
  MAX_FILE_SIZE = 4
  Bytes = {x}
  Garbage = garbage
  NULL = null
  Buffers <- BufferChoices
  ReadSizes = {1, 2}
  NewSizes = {}
  OpenFlags <- FlagChoices
  MAX_OPEN = 2
PROPERTY EveryWriteReturns
