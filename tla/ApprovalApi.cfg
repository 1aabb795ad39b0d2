SPECIFICATION FairSpec
CONSTANTS
  Requests = {r1, r2}
  Clients = {c1, c2}
  MaxGates = 2
  MaxRestarts = 1
  Backends = {"file", "redis"}
INVARIANTS
  TypeOK
  OneEngine
  KeyForgotten
PROPERTIES
  DecidedOnce
  ImplementsGatedRun
  WaitingGateKept
  StreamsEnd
\* The server may be left with nothing to do.
CHECK_DEADLOCK FALSE
