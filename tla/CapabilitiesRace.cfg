CONSTANTS
  c1 = c1
  c2 = c2
  Calls = {c1, c2}
  Segments <- AllSegments
  Tenants <- Local
  Uris <- RemoteOnly
  Keys <- OneKey
  Parsed <- RemoteParsed
  Wirings <- AllWired
  Suspending <- RemoteSuspends
  MaxRestarts = 0
  NoKey = NoKey
  NoCall = NoCall
  NoEntry = NoEntry
SPECIFICATION Spec
INVARIANT ChargedOnce
CHECK_DEADLOCK FALSE
