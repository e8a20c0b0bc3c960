SPECIFICATION FairSpec
CONSTANT N = 3
INVARIANTS
  TypeOK
  StackKept
  ListSound
  DestroyedOnce
  StacksHandedOver
  ScanCovers
PROPERTY MainReturns
