CONSTANTS
  Targets <- MCTargets
  OutputType <- MCOutputType
  HasDepFile <- MCHasDepFile
  WriteOutput <- MCWriteOutputCollide
  Inputs <- MCInputs
  NoContent = NoContent
  Stale = Stale
  OldDisks <- MCOldDisks

SPECIFICATION Spec

INVARIANT FilesHoldTheirDeps

CHECK_DEADLOCK FALSE
