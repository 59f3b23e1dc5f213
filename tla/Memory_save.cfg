SPECIFICATION Spec
CONSTANTS
  StreamChat = TRUE
  StreamStructured = TRUE
  JsonFormat = TRUE
  PlainOnRetry = FALSE
  MaxJsonRepairs = 0
  Ids <- Nodes
  NodeType <- Type
  Nowhere = nowhere
  Events = {"duel", "escape"}
  Worldly = {}
  Invented = {}
  Causal <- Planned
  Temporal <- Planned
  Seeded = {"hero", "rival", "city", "port"}
  Narrators = {"hero", "rival"}
  Cast = {"hero", "rival"}
  Batches = {"one"}
  EntityReplies <- EntityAnswers
  RelationReplies <- RelationAnswers
  Patches <- Ends
  Found <- Searches
  Remaps <- Identities
  Mandatory = {"duel"}
  MaxAlignRetries = 1
  MaxChapters = 2
  MaxTroubles = 1
  Store = "neo4j"
PROPERTIES SaveClearsOnlyTheCast
CHECK_DEADLOCK FALSE
