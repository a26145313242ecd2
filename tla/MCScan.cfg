SPECIFICATION ScanSpec
CONSTANTS
  Repos <- MCRepos
  MaxRecordings = 2
INVARIANTS PassesAreEarned SitesHoldNoMatch LicenceIsTheChange
PROPERTY SilenceIsEarned
