SPECIFICATION FairRootSpec
CONSTANTS
  Agents <- AllAgents
  Card <- TwoCards
  Gets = {}
  Startup = startup
  Loop = loop
  MaxChanges = 1
  Requests = {r1, r2}
  Conversation <- SameConversation
  Workflows = "workflows"
  Recipes = {"rg", "fd"}
  Available = {"rg"}
  Tools = {"read_file"}
  Plans <- SomePlans
INVARIANTS RootTypeOK OnlyOffered FirstFailureEnds ProcessesAccounted NotesAreResponses
PROPERTIES AnsweredOrRaised
