SPECIFICATION Spec
CONSTANTS
  Scripts <- MCScripts
  JobIds <- MCJobIds
  Codes = {0, 1}
  MAX_FAULTS = 1
CHECK_DEADLOCK FALSE
INVARIANTS
  TokensFaithful
  PipesClosed
  PipelineStatus
  LogicSound
PROPERTIES
  ZombiesReaped
  ScriptEnds
