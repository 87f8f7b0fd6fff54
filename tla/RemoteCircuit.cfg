SPECIFICATION RemoteSpec
CONSTANTS
  p1 = p1
  p2 = p2
  Posts = {p1, p2}
  Supplied = {s}
  NoId = NoId
  MaxRestarts = 0
  FailureThreshold = 2
INVARIANT OpensAtThreshold
CHECK_DEADLOCK FALSE
