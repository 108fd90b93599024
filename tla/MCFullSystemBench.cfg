CONSTANTS
  Arms = {"off", "on", "agentic+harness"}
  Pairs = 1
  MaxRetries = 1
  ModelErrors = {"provider_failure", "malformed_response"}
  Endings = {"completed_after_repair", "iteration_limit"}
  Modes = {TRUE, FALSE}
  Families = {"behavior", "multifile"}
SPECIFICATION FairSpec
INVARIANTS AloneAfterThePool InitialIsTheFirstAnswer OnCrashInvalidates
PROPERTIES CallsStartFromBaseline Reports
CHECK_DEADLOCK FALSE
