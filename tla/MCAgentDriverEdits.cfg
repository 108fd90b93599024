CONSTANTS
  Paths <- MCPaths
  Contents = {"old", "better", "torn", "crlf"}
  Absent = Absent
  TotalCalls = 5
  Limit <- MCLimit
  MaxActionCalls = 1
  AnyEdits <- MCAnyEdits
  Faults = {}
  Sources <- MCSources
  TestPaths = {"test_new.py"}
  TestsDir = {}
  Origin <- MCOrigin
  TextOf <- MCTextOf
  Torn = "torn"
  Arms = {"agentic"}
  Accepts <- MCAccepts
  Green <- MCGreen
  Plans <- MCPlans
  Patches <- MCPatches
  NoPlan = NoPlan
  BadPlan = BadPlan
  MaxPatches = 2
SPECIFICATION Spec
INVARIANT EditsAreTheDiff
CHECK_DEADLOCK FALSE
