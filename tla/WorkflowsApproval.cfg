SPECIFICATION RunsSpec
CONSTANTS
  Calls <- FiveCalls
  Segments <- WfSegments
  Tenants <- OneTenant
  Uris <- NestedUris
  Keys <- OneKey
  Parsed <- NestedParsed
  Wirings <- BothWirings
  Suspending <- NestedSuspending
  MaxRestarts = 0
  NoKey = NoKey
  NoCall = NoCall
  NoEntry = NoEntry
  Flow <- NestedFlows
  RootUris <- FlowRoots
  Tenant <- LocalTenant
  Inputs = {i}
  MaxItems = 1
  MaxRequests = 1
INVARIANTS ApprovalsHalt
CHECK_DEADLOCK FALSE
