SPECIFICATION FairRemoteSpec
CONSTANTS
  p1 = p1
  p2 = p2
  Posts = {p1, p2}
  Supplied = {s}
  NoId = NoId
  MaxRestarts = 1
  FailureThreshold = 2
INVARIANTS RemoteTypeOK RowsAdjacent OwnConversation RootTruthful
PROPERTIES ImplementsLog RequestsEnd CallsEnd
CHECK_DEADLOCK FALSE
