SPECIFICATION Spec
CONSTANTS
  Roles = {architect, reviewer}
  MaxChain = 3
  MaxCalls = 2
INVARIANTS
  TypeOK
  WholeOrHalted
  CheckpointAhead
\* The caller need not resume.
CHECK_DEADLOCK FALSE
