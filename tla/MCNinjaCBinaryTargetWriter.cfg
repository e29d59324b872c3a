CONSTANTS
  Inputs <- MCInputs
  Kind <- MCKind
  OutputOf <- MCOutputOf
  PcmOf <- MCPcmOf
  PcmOrder <- MCPcmOrder
  PchOutput <- MCPchOutput
  DepKind <- MCDepKind
  LinkOutput <- MCLinkOutput
  DepOutput <- MCDepOutput
  NonLinkableOutput <- MCNonLinkableOutput
  SwiftModule = "s.swiftmodule"
  InputDeps <- MCInputDeps
  OrderOnlyDeps <- MCOrderOnlyDeps
  FrameworkOutput <- MCFrameworkOutput
  SwiftDepOutput <- MCSwiftDepOutput
  SwiftDepModule <- MCSwiftDepModule

SPECIFICATION Spec

INVARIANT BuildGraphAcyclic
INVARIANT PchDepsOwnTool
INVARIANT ObjectsLinkedOnce
INVARIANT LinkDepsComplete
INVARIANT NonLinkableDepsOrderOnly
INVARIANT InputsOrderEveryCompile
INVARIANT ModuleDepsExact
INVARIANT SharedUtilAgrees
INVARIANT LinkReadsAreDeps

CHECK_DEADLOCK FALSE
