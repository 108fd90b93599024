CONSTANTS
  Files = {"a", "b"}
  Contents <- MCContents
  Empty = ""
  Absent = Absent
  Parses <- MCParses
  TextOf <- MCTextOf
  Formatted <- MCFormatted
  Violations <- MCViolations
  TypeErrors <- MCTypeErrors
  Tests = {"test_a", "test_b"}
  Passes <- MCPasses
  Tools = {"ruff", "pyright", "pytest"}
  Faults = {}
  MaxEdits = 1
SPECIFICATION Spec
INVARIANT RestoredByteForByte
CHECK_DEADLOCK FALSE
