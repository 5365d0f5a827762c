SPECIFICATION FairSpec
CONSTANTS
  Calls = {a1, a2}
  NoKey = NoKey
  Keys = {k1}
  Padded = {}
  NonAscii = {}
  PoolSize = 2
  Persistent = TRUE
  Faults = {}
PROPERTIES
  FailureEscalates
CHECK_DEADLOCK FALSE
