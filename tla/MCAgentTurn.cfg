SPECIFICATION FairSpec
CONSTANTS
  MaxRetries = 2
  Commands = {"test", "deploy", "wipe", "testwipe"}
  Blocked = {"wipe", "testwipe"}
  Allowlisted = {"test", "testwipe"}
  MaxSuggested = 3
  Platform = "claude-code"
  UseVertex = FALSE
  Gates <- AllGates
  Passes <- SafeEvalGate
INVARIANTS
  TypeOK
  EscalationsExplained
  OnlyVettedRuns
  GreenIsGreen
  GatesMeanPython
PROPERTY TurnEnds
\* A turn takes no step after its end.
CHECK_DEADLOCK FALSE
