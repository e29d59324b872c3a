CONSTANTS
  Targets <- MCTargets
  OutputType <- MCOutputType
  HasDepFile <- MCHasDepFile
  WriteOutput <- MCWriteOutput
  Inputs <- MCInputs
  NoContent = NoContent
  Stale = Stale
  OldDisks <- MCOldDisks

SPECIFICATION Spec

INVARIANT NothingWrittenOnListError
INVARIANT FilesHoldTheirDeps
INVARIANT ResultMeansNoFailure
PROPERTY Terminates

CHECK_DEADLOCK FALSE
