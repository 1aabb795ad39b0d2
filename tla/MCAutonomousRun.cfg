SPECIFICATION FairSpec
CONSTANT RoleMaps <- AllMaps
INVARIANTS
  TypeOK
  SignedOff
  WorkIsAuthorised
  ReviewedLast
  VerifiedRelease
  Rerouted
  RetryBudget
  PlanCompleted
  PausedIsSaved
  GateIdsUnique
  StopsBeforeImplementing
PROPERTIES
  SavedIsKept
  ImplementsGatedRun
  Concludes
\* A run that ended, or lost its engine, takes no further step.
CHECK_DEADLOCK FALSE
