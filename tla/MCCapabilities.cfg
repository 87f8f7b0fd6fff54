CONSTANTS
  c1 = c1
  c2 = c2
  c3 = c3
  Calls = {c1, c2, c3}
  Segments <- AllSegments
  Tenants <- Local
  Uris <- ManyUris
  Keys <- TwoKeys
  Parsed <- ManyParsed
  Wirings <- SomeWired
  Suspending <- ResourcesSuspend
  MaxRestarts = 1
  NoKey = NoKey
  NoCall = NoCall
  NoEntry = NoEntry
SYMMETRY Permute
SPECIFICATION Spec
INVARIANTS
  TypeOK
  CacheFaithful
  SuccessRemembered
  ReplaysAreTheirOwn
PROPERTIES
  NoSequentialRerun
  ImplementsService
CHECK_DEADLOCK FALSE
