SPECIFICATION RegistriesSpec
CONSTANTS
  Documents <- AllFiles
  Examples <- ExampleFiles
  Strings <- AllStrings
  Identifiers <- Idents
  OtherUris <- Tools
  WithWorkflows = {"workflows", "my-workflows"}
  MaxEdits = 2
  Absent = Absent
  Unreadable = Unreadable
  None = None
INVARIANTS RegistriesTypeOK CallsResolve NoneHidden OffersResolve
