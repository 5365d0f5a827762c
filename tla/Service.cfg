SPECIFICATION FairSpec
CONSTANTS
  Calls = {a1, a2}
  NoKey = NoKey
  Keys = {k1, padded, accented}
  Padded = {padded}
  NonAscii = {accented}
  PoolSize = 2
  Persistent = TRUE
  Faults = {"model", "setup", "sessions", "kill", "db", "llm", "disconnect"}
INVARIANTS
  TypeOK
  WorkHasResources
  NothingLeftOpen
  StallTakesDecisions
PROPERTIES
  LoopbackAdmitted
  NothingHangs
CHECK_DEADLOCK FALSE
