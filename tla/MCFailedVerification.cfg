SPECIFICATION Spec
CONSTANT RoleMaps <- AllMaps
INVARIANT VerificationFailuresRerouted
CHECK_DEADLOCK FALSE
