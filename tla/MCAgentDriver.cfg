CONSTANTS
  Paths <- MCPaths
  Contents = {"old", "better", "torn", "crlf"}
  Absent = Absent
  TotalCalls = 4
  Limit <- MCLimit
  MaxActionCalls = 1
  AnyEdits <- MCAnyEdits
  Faults = {"provider", "timeout", "gate", "write"}
  Sources <- MCSources
  TestPaths = {"test_new.py"}
  TestsDir = {}
  Origin <- MCOrigin
  TextOf <- MCTextOf
  Torn = "torn"
  Arms = {"agentic", "agentic+harness"}
  Accepts <- MCAccepts
  Green <- MCGreen
  Plans <- MCPlans
  Patches <- MCPatches
  NoPlan = NoPlan
  BadPlan = BadPlan
  MaxPatches = 2
SPECIFICATION FairSpec
INVARIANT DependenciesFirst
INVARIANT CompletedMeansAudited
INVARIANT RollbackCoversSources
PROPERTY OnlyTheAuditCompletes
PROPERTY ReplanFollowsRejection
PROPERTY ImplementsCampaign
PROPERTY RunReturns
CHECK_DEADLOCK FALSE
