SPECIFICATION FairSpec
CONSTANTS
  Scores <- MCScores
  Channels = {"rest", "mcp"}
  Faults <- AllFaults
  MaxPosts = 2
  Customers = {cu1, cu2}
  Registered = {cu1}
  Clients = {k1, k2}
INVARIANTS
  TypeOK
  StoredTogether
  AnswerShowsCase
  ReadsNeverGoBack
PROPERTIES
  EveryCaseLaunched
CHECK_DEADLOCK FALSE
