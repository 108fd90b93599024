SPECIFICATION MCSpec
CONSTANTS
  Absent = Absent
  Paths = {"app.py", "new.py", "notes.md"}
  Contents = {"old", "better"}
  Steps = {"define", "extract", "callers"}
  Dependencies <- MCDependencies
  AffectedPaths <- MCAffectedPaths
  UnknownStep = "unknown"
  Audited <- MCAudited
  Faults = {"raise", "write"}
  MaxCalls = 4
  Files = {"app.py", "helper.py"}
  Texts = {"", "old", "new", "crlf", "worse", "bad"}
  NoFile = NoFile
  Empty = ""
  Parses <- MCParses
  TextOf <- MCTextOf
  Violations <- MCViolations
  TypeErrors <- MCTypeErrors
  Collects <- MCCollects
  Passes <- MCPasses
  Controls <- MCControls
  Correct <- MCCorrect
  Required = {"lint", "typecheck", "tests"}
  BenchFaults = {"gate", "json", "decode", "write"}
  Worktrees <- MCWorktrees
  MaxRetries = 1
  Pairs = 1
  RbTasks <- MCRbTasks
  ScopeOf <- MCScopeOf
  SubtestsOf <- MCSubtestsOf
  Outputs <- MCOutputs
  Options <- MCOptions
  SmokeTasks = 2
INVARIANTS StepsInOrder OpenStaysInScope AcceptedIsGated AttemptsAreIndependent ReportIsTrue
  ScopeIsSettled
PROPERTY ImplementsCampaign
CHECK_DEADLOCK FALSE
