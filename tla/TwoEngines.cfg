SPECIFICATION Spec
CONSTANTS
  Requests = {r1, r2}
  Clients = {}
  MaxGates = 2
  MaxRestarts = 0
  Backends = {"redis"}
INVARIANT NeverTwoEngines
CHECK_DEADLOCK FALSE
