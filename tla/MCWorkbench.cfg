SPECIFICATION MCSpec
CONSTANTS
  Defs <- MCDefs
  Classes = {3}
  Assignments = {6}
  Scripts = {101}
  Mains = {102}
  HomeOf <- MCHomeOf
  NameOf <- MCNameOf
  AroundOf <- MCAroundOf
  Private = {2, 3, 5, 6, 7, 8}
  Decorated = {7}
  Registered = {7}
  Listed = {8}
  Spelled <- MCSpelled
  TestModules = {"tests"}
  Bodies <- MCBodies
  Similarity <- MCSimilarity
  SpaceOf <- MCSpaceOf
  Outages = {"decisions"}
  Lines <- MCLines
  Statements = {"os", "requests", "os, sys", "from .", "from.b", "tab re"}
  AlphaOf <- MCAlphaOf
  Stdlib = {"os", "os, sys", "tab re"}
  Relative = {"from .", "from.b"}
  Several = {"os, sys"}
  Tabbed = {"tab re"}
  Joined = {"from.b"}
  Gone = "gone"
  UsesOf <- MCUsesOf
  ScriptUses <- MCScriptUses
  Fingerprint <- MCFingerprint
  LinesOf <- MCLinesOf
  DepthOf <- MCDepthOf
  ComplexityOf <- MCComplexityOf
  ParamsOf <- MCFingerprint
  Preambles <- MCPreambles
  Programs <- MCPrograms
  Worked <- MCWorked
  Edits <- MCEdits
  MaxCalls = 3
  Threshold = 6
  K = 2
  DocNameOf <- MCDocNameOf
  PackageOf <- MCDocNameOf
  SummaryOf <- MCSummaryOf
  Helpers = {"h1", "h2"}
  Answers <- MCAnswers
  Faithful = TRUE
  DecisionThreshold = 9
  NeighbourThreshold = 5
  Clients = {"mcp", "cli"}
  Torn = Torn
  Files = {"a.py", "b.txt", "c.py"}
  Repo <- MCRepo
  PathOf <- MCPathOf
  Contents <- MCContents
  Cut = "bad"
  Absent = Absent
  Proposals <- MCProposals
  Python = {"a.py", "c.py"}
  Parses <- MCParses
  Formatted <- MCFormatted
  Violations <- MCViolations
  TypeErrors <- MCTypeErrors
  TestsPass <- MCTestsPass
  InitialTrees <- MCInitialTrees
  Faults = {"gate", "write", "lost", "full"}
  MaxEdits = 2
INVARIANTS LiveCodeIsMissedOnlyUnseen ReportsAreFresh ReorderSettles
  CommittedMeansGated RetriesAgreeWithLog ReturnedMeansLogged
PROPERTIES DecisionsStand IndexFollowsCode CallsReturn
CHECK_DEADLOCK FALSE
