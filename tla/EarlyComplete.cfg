SPECIFICATION Spec
CONSTANTS
  Requests = {r1, r2}
  Clients = {}
  MaxGates = 2
  MaxRestarts = 0
  Backends = {"file"}
INVARIANT CompleteMeansEnded
CHECK_DEADLOCK FALSE
