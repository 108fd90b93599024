CONSTANTS
  Files = {"a", "b"}
  Contents <- MCContents
  Empty = ""
  Absent = Absent
  Parses <- MCParses
  TextOf <- MCTextOf
  Formatted <- MCFormatted
  Violations <- MCViolations
  TypeErrors <- MCTypeErrors
  Tests = {"test_a", "test_b"}
  Passes <- MCPasses
  Tools = {"ruff", "pyright", "pytest"}
  Faults = {"gate", "pyright", "git", "write", "log", "kill"}
  MaxEdits = 1
SPECIFICATION FairSpec
INVARIANT RolledBackMeansRestored
INVARIANT CommittedMeansVerified
PROPERTY CallEnds
CHECK_DEADLOCK FALSE
