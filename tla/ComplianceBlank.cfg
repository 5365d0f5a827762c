SPECIFICATION Spec
CONSTANTS
  StateCodes = {"CA", "NY", "TX", "FL"}
  Lines <- BlankLines
  MaxLines = 4
INVARIANTS
  PassedIsWithinPolicy
CHECK_DEADLOCK FALSE
