SPECIFICATION Spec
CONSTANT Deployments <- Landing
INVARIANT InsertsLand
CHECK_DEADLOCK FALSE
