SPECIFICATION Spec
CONSTANTS
  Components <- MCComponents
  Files <- MCFiles
  Under <- MCUnder
  Watch <- MCWatch
  DependsOn <- MCDependsOn
  AtRoot = {}
  Invalidators = {"go.sum"}
  Raw = {"script"}
  Shards <- MCShards
  Reaches <- MCReaches
  Changes <- MCChanges
  Uncovered <- MCUncovered
  Tolerance = 20
  FirstLines = 50
  Attempts = 3
  MaxTree = 2
  MaxRuns = 2
  MaxJobs = 2
CHECK_DEADLOCK FALSE
INVARIANTS NoPartialBaseline DescribesItsTree
PROPERTY NothingSinks
