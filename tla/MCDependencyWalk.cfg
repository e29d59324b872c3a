CONSTANTS
  Targets <- MCTargets
  NoTarget <- MCNoTarget
  DepGraphs <- MCDepGraphs

SPECIFICATION Spec

INVARIANT WalkComplete
INVARIANT WalkSound
INVARIANT WalkShortest
INVARIANT NonPublicChainShown


CHECK_DEADLOCK FALSE
