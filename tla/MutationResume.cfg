SPECIFICATION ResumeSpec
CONSTANTS
    TreeMutant = {a, b}
    Fingerprint = {f, g}
    Elapsed = {1, 2}
    MaxWait = 1
    MaxRuns = 4
    MaxFaults = 2
    None = None
    TornLine = TornLine
INVARIANTS
    ReusedIsOwn
    KeptIsReused
    OneBudget
