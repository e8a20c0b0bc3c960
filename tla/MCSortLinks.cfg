SPECIFICATION Spec
CONSTANTS
  SortInputs <- MCSortInputs
  INT_MAX = 3
  LinkRead = "makecontext"
  LibIds = {c1, c2, c3}
  MAX_YIELDS = 2
  coro_count = 3
  MAX_DEEP = 3
  MAIN = main
CHECK_DEADLOCK FALSE
INVARIANT SwitchedAfterEnd
