SPECIFICATION RunsSpec
CONSTANTS
  Calls <- SevenCalls
  Segments <- WfSegments
  Tenants <- OneTenant
  Uris <- NestedUris
  Keys <- OneKey
  Parsed <- NestedParsed
  Wirings <- BothWirings
  Suspending <- NestedSuspending
  MaxRestarts = 1
  NoKey = NoKey
  NoCall = NoCall
  NoEntry = NoEntry
  Flow <- NestedFlows
  RootUris <- NestedRoots
  Tenant <- LocalTenant
  Inputs = {i}
  MaxItems = 1
  MaxRequests = 2
INVARIANTS RunsTypeOK Nested FailStop SuccessIsComplete
PROPERTIES ImplementsRegistry
CHECK_DEADLOCK FALSE
