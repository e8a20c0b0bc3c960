SPECIFICATION Spec
CONSTANTS
  Threads = {t1, t2, t3}
  MAX_LOOPS = 3
  CHARS = 3
  Waiters = {w1, w2, w3}
  MAX_SIGNALS = 3
  HandoffInputs <- Numbers
  ROOM = 2
  Consumers = {c1, c2}
  EVENTS = 2
  MAX_LINES = 3
  MAX_ENDS = 2
  MAX_SENT = 3
INVARIANTS
  LocksSound
  CondvarSound
  HandoffSound
  EventsSound
  WakeupSound
PROPERTY
  AllEnd
CHECK_DEADLOCK FALSE
