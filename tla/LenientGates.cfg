SPECIFICATION Spec
CONSTANTS
  MaxRetries = 0
  Commands = {"test", "wipe"}
  Blocked = {"wipe"}
  Allowlisted = {"test"}
  MaxSuggested = 1
  Platform = "claude-code"
  UseVertex = FALSE
  Gates <- AllGates
  Passes <- SafeEvalGate
INVARIANT LenientGatesLog
CHECK_DEADLOCK FALSE
