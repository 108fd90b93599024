CONSTANTS
  Files = {"a", "b"}
  Contents <- MCFewContents
  Empty = ""
  Absent = Absent
  Parses <- MCParses
  TextOf <- MCTextOf
  Formatted <- MCFormatted
  Violations <- MCNoViolations
  TypeErrors <- MCTypeErrors
  Tests = {"test_a"}
  Passes <- MCPasses
  Tools = {"ruff", "pyright", "pytest"}
  Faults = {"gate"}
  MaxEdits = 2
SPECIFICATION Spec
INVARIANT HeadFollowsDisk
INVARIANT LogReplaysHead
PROPERTY ImplementsAtomicEdits
CHECK_DEADLOCK FALSE
