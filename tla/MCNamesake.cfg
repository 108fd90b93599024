CONSTANTS
  Symbols = {1, 2, 3, 4, 5, 6}
  Graphs <- NamesakeGraphs
  EntryPoints = {3, 6}
  Modules = {1, 5}
  ModuleOf <- NamesakeModuleOf
  Private = {2, 4}
  NameOf <- NamesakeNameOf
  ScopesOf <- NamesakeScopesOf
  Marked = {}
  Assigned = {}
  Faults = {}
  MaxRounds = 25
  MaxDropped = 0
SPECIFICATION PipelineSpec
PROPERTY RemovedAreDead
CHECK_DEADLOCK FALSE
