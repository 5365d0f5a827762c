SPECIFICATION Spec
CONSTANTS
  Threads = {t1, t2}
  States = {"CA", "FL"}
  Document <- MCDocument
  ChildrenOf <- MCChildrenOf
  K = 2
  MaxScore = 2
  MayFail = TRUE
SYMMETRY Symmetry
INVARIANTS
  TypeOK
  WholeScopeOnly
  BestParentsFirst
  SomethingRetrieved
CHECK_DEADLOCK FALSE
