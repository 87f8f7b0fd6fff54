SPECIFICATION FairRunsSpec
CONSTANTS
  Calls <- FiveCalls
  Segments <- WfSegments
  Tenants <- OneTenant
  Uris <- NestedUris
  Keys <- OneKey
  Parsed <- NestedParsed
  Wirings <- BothWirings
  Suspending <- NestedSuspending
  MaxRestarts = 1
  NoKey = NoKey
  NoCall = NoCall
  NoEntry = NoEntry
  Flow <- NestedFlows
  RootUris <- FlowRoots
  Tenant <- LocalTenant
  Inputs = {i}
  MaxItems = 2
  MaxRequests = 2
INVARIANTS StepsInOrder
PROPERTIES RequestsAnswered
CHECK_DEADLOCK FALSE
