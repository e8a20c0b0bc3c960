SPECIFICATION Spec
CONSTANTS
  Clients = {c1, c2, c3}
  OBSERVED = c1
  SERVER = server
  MAX_KILLS = 1
INVARIANTS
  NeverBlocks
  ServesAccepted
PROPERTIES
  Answered
CHECK_DEADLOCK FALSE
