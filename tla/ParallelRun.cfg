SPECIFICATION FairSpec
CONSTANTS
  MaxTasks = 4
  MaxParallel = 2
  Roles = {reviewer, qa}
  Files = {file}
  Severities = {blocker, nit}
INVARIANTS
  TypeOK
  Throttled
  PublishedInOrder
  ContradictionsStop
PROPERTY AllEnd
\* The call ends.
CHECK_DEADLOCK FALSE
