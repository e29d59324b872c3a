CONSTANTS
  Targets <- MCTargets
  Files <- MCFiles
  Dirs <- MCDirs
  Literals <- MCLiterals
  Workers = {w1, w2}
  NoFile = none
  NoTask = notask
  TargetOrder <- MCTargetOrder
  ToCheck <- MCToCheck
  FileOrder <- MCFileOrder
  Toolchain <- MCToolchain
  IsBinary <- MCIsBinary
  CheckIncludes <- MCCheckIncludes
  PublicDeps <- MCPublicDeps
  PrivateDeps <- MCPrivateDeps
  Friends <- MCFriends
  AllowCircular <- MCAllowCircular
  AllHeadersPublic <- MCAllHeadersPublic
  Sources <- MCSources
  PublicHeaders <- MCPublicHeaders
  ActionOutputs <- MCActionOutputs
  BuildsSwiftModule <- MCBuildsSwiftModule
  SwiftBridge <- MCSwiftBridge
  SwiftOutputs <- MCSwiftOutputs
  FileType <- MCFileType
  InOutputDir <- MCInOutputDir
  OnDisk <- MCOnDisk
  FileDir <- MCFileDir
  IncludeDirs <- MCIncludeDirs
  ResolveIn <- MCResolveIn
  Includes <- MCIncludes
  CheckGenerated = FALSE
  CheckSystem = FALSE
  ForceCheck = TRUE

SPECIFICATION Spec

INVARIANT ErrorsComplete

CHECK_DEADLOCK FALSE
