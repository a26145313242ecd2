SPECIFICATION FairSpec
CONSTANTS
    NoDir = NoDir
    Segment <- MCSegment
    Port <- MCPort
    Component <- MCComponent
    Service <- MCService
    Services <- MCServices
    Up <- MCUp
    Wait <- MCWait
    Test <- MCTest
    Suite <- MCSuite
    Scope <- OneScope
    Class <- MCClass
    Name <- MCName
    Introduced <- MCIntroduced
    ByName <- Nobody
    Dir <- MCDir
    Occupies <- MCOccupies
    ReportOf <- MCReportOf
    Selections <- MCSelections
    Outcomes <- MCOutcomes
    GateFlaky = TRUE
    GateCoverage = TRUE
    PatchGated = TRUE
    Limit = 2
    MaxRuns = 2
INVARIANTS
    StacksAccountedFor
    RefusedOnlyByLeftovers
    MeasuredIsOwn
    VerdictIsOwn
    GreenIsWhole
PROPERTIES
    InterruptEnds
CHECK_DEADLOCK FALSE
