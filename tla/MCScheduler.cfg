SPECIFICATION FairSpec
CONSTANTS
    NoDir = NoDir
    Segment <- MCSegment
    Port <- MCPort
    Declarations <- MCDeclarations
    Limits <- MCLimits
PROPERTIES
    ImplementsBoundedExclusion
    RunReturns
