SPECIFICATION Spec
CONSTANTS
    NoCommit = NoCommit
    Unknown = Unknown
    Nothing = Nothing
    Commit <- MCCommit
    Branch <- MCBranch
    Recording <- MCRecording
    Bucket <- MCBucket
    Fingerprint <- MCFingerprint
    Chain <- MCChain
    Past <- MCPast
    Date <- MCDate
    DayLength = 2
    MonthLength = 4
    lookbackMonths = 2
    Metric <- MCMetric
    Content <- MCContent
    Tree <- MCTree
    Trees <- MCTrees
    Attempts = 2
    Plans <- MCPlans
INVARIANTS
    NoDuplicates
    BaselineHasItsEntry
    OverlapTolerated
    GapsAreTheHoles
    ReadersAgree
PROPERTIES
    NothingIsLost
