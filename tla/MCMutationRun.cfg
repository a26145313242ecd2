SPECIFICATION FairSpec
CONSTANTS
    NoDir = NoDir
    Source = Source
    Torn = Torn
    Segment <- MCSegment
    Port <- MCPort
    Component <- MCComponent
    Declared <- MCDeclared
    Mutant <- MCMutant
    File <- MCFile
    MutantsOf <- MCMutantsOf
    FileOf <- MCFileOf
    Acknowledged <- MCAcknowledged
    Left <- MCLeft
    Measured <- MCMeasured
    Overlaid <- MCOverlaid
    Faulty <- MCFaulty
    Ends <- MCEnds
    Phases <- MCPhases
    Limit = 2
INVARIANTS
    MutantUnderTest
PROPERTIES
    VerdictsStand
    RunReports
