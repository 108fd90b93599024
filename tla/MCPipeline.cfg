CONSTANTS
  Symbols = {1, 2, 3, 4, 5, 6}
  Graphs <- MCGraphs
  EntryPoints = {3}
  Modules = {1, 4}
  ModuleOf <- MCModuleOf
  Private = {2, 3, 5, 6}
  NameOf <- MCNameOf
  ScopesOf <- MCScopesOf
  Marked = {3, 5}
  Assigned = {6}
  Faults = {"gate", "dispatch", "raise"}
  MaxRounds = 2
  MaxDropped = 1
SPECIFICATION FairPipelineSpec
INVARIANT CallersGoFirst
INVARIANT ImpactStaysCovering
INVARIANT CascadeOnlyRetries
PROPERTY RemovedAreDead
PROPERTY ImplementsLeafToRoot
PROPERTY PipelineReturns
CHECK_DEADLOCK FALSE
