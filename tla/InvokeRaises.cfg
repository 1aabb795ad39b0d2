SPECIFICATION Spec
CONSTANTS
  MaxRetries = 2
  Commands = {"test", "wipe"}
  Blocked = {"wipe"}
  Allowlisted = {"test"}
  MaxSuggested = 1
  Platform = "gemini"
  UseVertex = TRUE
  Gates <- NoGates
  Passes <- SafeEvalGate
INVARIANT InvokeReturns
CHECK_DEADLOCK FALSE
