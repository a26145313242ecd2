SPECIFICATION Spec
CONSTANTS
  Fingerprints = {"claim"}
  Places = {"the file", "a line"}
  Identities = {"app", "bot"}
  Exclusive = TRUE
  MaxPushes = 2
  MaxRuns = 3
  MaxWords = 1
CHECK_DEADLOCK FALSE
INVARIANTS PeopleKept OneOfEach Reconciled
