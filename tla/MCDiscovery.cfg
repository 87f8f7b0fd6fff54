SPECIFICATION FairDiscoverySpec
CONSTANTS
  Agents <- AllAgents
  Card <- TwoCards
  Gets = {g1, g2}
  Startup = startup
  Loop = loop
  MaxChanges = 4
INVARIANTS DiscoveryTypeOK AnswersAreFresh
PROPERTIES Converges
