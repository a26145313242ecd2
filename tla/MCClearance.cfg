SPECIFICATION Spec
CONSTANTS
  Paths <- MCPaths
  RulesPath = "rules"
  MaxHead = 2
  MaxPosts = 2
  MaxComments = 1
  MaxEntries = 1
  Changes <- QueuedChanges
  RuleFiles <- MCRuleFiles
  Commands <- MCCommands
  Batches <- MCBatches
  SameSecond = FALSE
CHECK_DEADLOCK FALSE
INVARIANTS RecordBeforeResolution ResolvedWasPending ClearedWasRead QueueSuccessEarned
