SPECIFICATION Spec
CONSTANTS
  StateCodes = {"CA", "NY", "TX", "FL", "ca"}
  Lines <- MCLines
  MaxLines = 4
INVARIANTS
  TypeOK
  PassedIsWithinPolicy
  NoNeedlessRevision
CHECK_DEADLOCK FALSE
