SPECIFICATION RouterSpec
CONSTANTS
  Nodes = 3
  Groups = {0, 1}
  Preferred = 1
  Shapes <- MCShapes
  Tiers <- MCTiers
  DefaultTier = 1
  MaxEntries = 1
  TtlContributor = 1
  TtlAnonymous = 1
  Clients = {c1, c2}
  Contributors = {c1}
  Prompts = {0}
  Modes = {"auto", "replica", "pipeline"}
  MaxTokens = 2
  MaxScore = 1
  RRSpan = 2
INVARIANTS ChatTypeOK CacheBounded 
PROPERTIES EveryReplicaTried EveryChatEnds
