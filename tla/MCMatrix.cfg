SPECIFICATION MatrixSpec
CONSTANTS
    NoDir = NoDir
    Segment <- MCSegment
    Port <- MCPort
    Word <- MCWord
    Files <- MCFiles
    Tested <- MCTested
    Commanded <- MCCommanded
    Profiles <- MCProfiles
    Outcomes <- MCOutcomes
    Modes <- MCModes
    MaxFaults = 2
    Tolerance = 10
    PatchTolerance = 0
    Floor = 600
INVARIANTS
    MatrixIsThePartition
    MergeIsWhole
    ShardingIsInvisible
