CONSTANTS
  Targets <- MCTargets
  Inputs <- MCInputs

SPECIFICATION Spec

INVARIANT FirstLineIsMainOutput

CHECK_DEADLOCK FALSE
