CONSTANTS
  Targets <- MCTargets4
  Inputs <- MCInputs4

INIT MCInit
NEXT Next

INVARIANT RuntimeDepsComplete
INVARIANT VisitedAtMostTwice

CHECK_DEADLOCK FALSE
