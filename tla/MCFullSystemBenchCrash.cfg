CONSTANTS
  Arms = {"off", "on", "agentic+harness"}
  Pairs = 1
  MaxRetries = 1
  ModelErrors = {"provider_failure"}
  Endings = {"completed_after_repair", "agent_timeout", "safe_escalation"}
  Modes = {FALSE}
  Families = {"behavior", "multifile"}
SPECIFICATION Spec
INVARIANT GateCrashInvalidates
CHECK_DEADLOCK FALSE
