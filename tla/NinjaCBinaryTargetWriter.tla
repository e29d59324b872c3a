----------------------- MODULE NinjaCBinaryTargetWriter -----------------------
(***************************************************************************)
(* NinjaCBinaryTargetWriter::Run (src/gn/ninja_c_binary_target_writer.cc) *)
(* for one C/C++ target: the module deps and compiler variables, the PCH  *)
(* build lines, one build line per source, the duplicate object check and *)
(* the source set stamp or the link line.                                  *)
(*                                                                         *)
(* The ninja text is abstracted to the build edges it declares: a record  *)
(* of rule, outputs, explicit inputs, implicit inputs ("|") and the       *)
(* solibs and rlibs variables of a link line. Files are names; what the   *)
(* code reads off a name (an extension, the order of paths) is a table.   *)
(***************************************************************************)
EXTENDS Integers, Sequences, FiniteSets, SequencesExt

CONSTANTS
  Inputs,       \* the targets to write: records, see Init
  Kind,         \* source -> "cc", "c", "modulemap", "o", "def", "h" or "swift"
  OutputOf,     \* source -> the first output of its tool (obj, pcm or itself)
  PcmOf,        \* module dep -> its pcm, or "" when it has no .modulemap
  PcmOrder,     \* every pcm name, in the order of their paths
  PchOutput,    \* [tool -> [pch type -> file]]: GetPCHOutputFiles
  DepKind,      \* linkable dep -> "static", "shared", "shared_toc" or "rust"
  LinkOutput,   \* linkable dep -> link_output_file()
  DepOutput,    \* linkable dep -> dependency_output() (the .TOC of a shared_toc)
  NonLinkableOutput, \* non-linkable dep -> dependency_output(), "" when it has none
  SwiftModule,  \* the .swiftmodule a Swift target builds
  InputDeps,    \* WriteInputsStampOrPhonyAndGetDep: the inputs stamp, or << >>
  OrderOnlyDeps, \* WriteInputDepsStampOrPhonyAndGetDep: the deps stamp, or << >>
  FrameworkOutput, \* framework dep -> dependency_output(), "" when it has none
  SwiftDepOutput,  \* swiftmodule dep -> dependency_output()
  SwiftDepModule   \* swiftmodule dep -> swift_values().module_output_file()

VARIABLES
  tgt,            \* the target being written (never changes)
  pc,             \* the step of Run
  moduleDepInfo,  \* GetModuleDepsInformation(target_): [pcm, isSelf] records
  moduleVars,     \* the module_deps and module_deps_no_self variables
  pchObjFiles,    \* pch_obj_files (MSVC .obj)
  pchOtherFiles,  \* pch_other_files (GCC .gch)
  i,              \* the next source of WriteSources
  objFiles,       \* obj_files
  otherFiles,     \* other_files
  edges           \* the build lines written so far

vars == <<tgt, pc, moduleDepInfo, moduleVars, pchObjFiles, pchOtherFiles, i,
          objFiles, otherFiles, edges>>

Edge(rule, outs, ins, implicit) ==
  [rule |-> rule, outs |-> outs, ins |-> ins, implicit |-> implicit,
   solibs |-> << >>, rlibs |-> << >>, swiftmodules |-> << >>,
   orderOnly |-> << >>, validations |-> << >>]

(* A compile line (WriteCompilerBuildLine): Run hands every compile the *)
(* input deps as implicit deps and the order-only deps after "||"       *)
(* (lines 150-185).                                                     *)
CompileEdge(rule, outs, ins, implicit) ==
  [Edge(rule, outs, ins, InputDeps \o implicit) EXCEPT !.orderOnly = OrderOnlyDeps]

SourceTypesUsed == {Kind[s] : s \in ToSet(tgt.sources)}

(* The C tool GetOutputFilesForSource picks for a source; "none" for an  *)
(* object file, which has an output but no build line.                    *)
ToolFor(k) == CASE k = "cc" -> "cxx" [] k = "c" -> "cc"
                [] k = "modulemap" -> "cxx_module" [] k = "o" -> "none"
(* GetOutputFilesForSource fails for headers and .def files. *)
HasOutput(s) == Kind[s] \notin {"def", "h"}

PchTypeOf(tool) == IF tool \in DOMAIN tgt.pchType THEN tgt.pchType[tool] ELSE "none"

IsFinal == tgt.type \in {"executable", "shared_library"}
           \/ (tgt.type = "static_library" /\ tgt.completeStatic)

(* Mutant of GetModuleDepsInformation: add_if_new's added_pcms test     *)
(* dropped, so a pcm reached twice is listed twice.                      *)
GetModuleDepsInformationNoDedup ==
  LET selfPcm == IF "modulemap" \in SourceTypesUsed
                   THEN << [pcm |-> OutputOf[SelectSeq(tgt.sources,
                                               LAMBDA s : Kind[s] = "modulemap")[1]],
                            isSelf |-> TRUE] >>
                   ELSE << >>
      deps == [k \in 1..Len(SelectSeq(tgt.moduleDeps, LAMBDA d : PcmOf[d] # "")) |->
                 [pcm |-> PcmOf[SelectSeq(tgt.moduleDeps, LAMBDA d : PcmOf[d] # "")[k]],
                  isSelf |-> FALSE]]
      before(a, b) == \E x, y \in DOMAIN PcmOrder :
                        x < y /\ PcmOrder[x] = a.pcm /\ PcmOrder[y] = b.pcm
  IN  SortSeq(selfPcm \o deps, before)

(* GetModuleDepsInformation (lines 86-132): the target's own module when *)
(* it uses a .modulemap, then each module dep that has one, first pcm    *)
(* wins, sorted by pcm path.                                              *)
GetModuleDepsInformation ==
  LET selfPcm == IF "modulemap" \in SourceTypesUsed
                   THEN << [pcm |-> OutputOf[SelectSeq(tgt.sources,
                                               LAMBDA s : Kind[s] = "modulemap")[1]],
                            isSelf |-> TRUE] >>
                   ELSE << >>
      deps == [k \in 1..Len(SelectSeq(tgt.moduleDeps, LAMBDA d : PcmOf[d] # "")) |->
                 [pcm |-> PcmOf[SelectSeq(tgt.moduleDeps, LAMBDA d : PcmOf[d] # "")[k]],
                  isSelf |-> FALSE]]
      addIfNew(acc, m) == IF \E k \in DOMAIN acc : acc[k].pcm = m.pcm THEN acc
                          ELSE Append(acc, m)
      before(a, b) == \E x, y \in DOMAIN PcmOrder :
                        x < y /\ PcmOrder[x] = a.pcm /\ PcmOrder[y] = b.pcm
  IN  SortSeq(FoldLeft(addIfNew, << >>, selfPcm \o deps), before)

Pcms(info) == [k \in DOMAIN info |-> info[k].pcm]

DepsOfKind(K) == SelectSeq(tgt.linkDeps, LAMBDA d : DepKind[d] \in K)
Outs(f, ds) == [k \in DOMAIN ds |-> f[ds[k]]]

(* Run, lines 144-148, and WriteCompilerVars (lines 243-283). *)
WriteCompilerVars ==
  /\ pc = "start"
  /\ moduleDepInfo' = GetModuleDepsInformation
  /\ moduleVars' =
       IF moduleDepInfo' # << >> /\ ({"cc", "modulemap"} \cap SourceTypesUsed # {})
         THEN [moduleDeps |-> Pcms(moduleDepInfo'),
               moduleDepsNoSelf |-> Pcms(SelectSeq(moduleDepInfo', LAMBDA m : ~m.isSelf))]
         ELSE [moduleDeps |-> << >>, moduleDepsNoSelf |-> << >>]
  /\ pc' = "pch"
  /\ UNCHANGED <<tgt, pchObjFiles, pchOtherFiles, i, objFiles, otherFiles, edges>>

(* The PCH tools WritePCHCommands visits, in order, with the source type  *)
(* that enables each (lines 292-305). The ObjC tools (lines 307-322) need *)
(* .m/.mm sources, which Kind does not include.                          *)
PchTools == << <<"cc", "c">>, <<"cxx", "cc">> >>

(* Mutant of AddPch: the PCH compile written without the input deps and *)
(* order-only deps Run hands it.                                          *)
AddPchNoDeps(st, tool) ==
  LET ty == PchTypeOf(tool)
      out == PchOutput[tool][ty]
  IN  [obj |-> IF ty = "msvc" THEN Append(st.obj, out) ELSE st.obj,
       other |-> IF ty = "gcc" THEN Append(st.other, out) ELSE st.other,
       edges |-> Append(st.edges, Edge(tool, <<out>>, <<"precompiled_source">>, << >>))]

(* WritePCHCommand for one tool (lines 326-347): WriteWindowsPCHCommand  *)
(* (lines 405-439) adds the .obj to the object files, WriteGCCPCHCommand *)
(* (lines 349-403) the .gch to the other files; both write the compile   *)
(* of precompiled_source.                                                 *)
AddPch(st, tool) ==
  LET ty == PchTypeOf(tool)
      out == PchOutput[tool][ty]
  IN  [obj |-> IF ty = "msvc" THEN Append(st.obj, out) ELSE st.obj,
       other |-> IF ty = "gcc" THEN Append(st.other, out) ELSE st.other,
       edges |-> Append(st.edges, CompileEdge(tool, <<out>>, <<"precompiled_source">>, << >>))]

(* WritePCHCommands (lines 285-324). *)
WritePCHCommands ==
  /\ pc = "pch"
  /\ LET enabled == SelectSeq(PchTools, LAMBDA tp : PchTypeOf(tp[1]) # "none"
                                                    /\ tp[2] \in SourceTypesUsed)
         st == FoldLeft(LAMBDA acc, tp : AddPch(acc, tp[1]),
                        [obj |-> << >>, other |-> << >>, edges |-> edges],
                        IF tgt.hasPch THEN enabled ELSE << >>)
     IN  /\ pchObjFiles' = st.obj
         /\ pchOtherFiles' = st.other
         /\ edges' = st.edges
  /\ pc' = "sources"
  /\ UNCHANGED <<tgt, moduleDepInfo, moduleVars, i, objFiles, otherFiles>>

(* pch_files (lines 195-196): the MSVC objects if any, else the .gch files. *)
PchFiles == IF pchObjFiles # << >> THEN pchObjFiles ELSE pchOtherFiles

(* Mutant of PchDeps: the extension test dropped, every PCH output is a *)
(* dep of every compile with PCH.                                        *)
PchDepsAnyTool(tool) == IF PchTypeOf(tool) = "none" THEN << >> ELSE PchFiles

(* The PCH deps of a compile with this tool (lines 476-495): those whose *)
(* name ends in the tool's own PCH extension.                            *)
PchDeps(tool) ==
  IF PchTypeOf(tool) = "none" THEN << >>
  ELSE SelectSeq(PchFiles, LAMBDA f : f = PchOutput[tool][PchTypeOf(tool)])

(* Mutant of ModuleDepsOf: the test against the compile's own output     *)
(* dropped.                                                              *)
ModuleDepsOfAll(out) == Pcms(moduleDepInfo)

(* The module deps of a compile (lines 497-500): every module pcm but the *)
(* one this source produces.                                              *)
ModuleDepsOf(out) == SelectSeq(Pcms(moduleDepInfo), LAMBDA m : m # out)

(* One iteration of WriteSources (lines 441-515), which Run calls when  *)
(* no Swift source is used (line 211).                                   *)
WriteSource ==
  /\ pc = "sources"
  /\ "swift" \notin SourceTypesUsed
  /\ i <= Len(tgt.sources)
  /\ LET s == tgt.sources[i]
         tool == ToolFor(Kind[s])
         out == OutputOf[s]
     IN  IF ~HasOutput(s)
           THEN /\ otherFiles' = IF Kind[s] = "def" THEN Append(otherFiles, s) ELSE otherFiles
                /\ UNCHANGED <<objFiles, edges>>
           ELSE /\ edges' = IF tool = "none" THEN edges
                            ELSE Append(edges, CompileEdge(tool, <<out>>, <<s>>,
                                                    PchDeps(tool) \o ModuleDepsOf(out)))
                /\ objFiles' = IF Kind[s] = "modulemap" THEN objFiles ELSE Append(objFiles, out)
                /\ UNCHANGED otherFiles
  /\ i' = i + 1
  /\ UNCHANGED <<tgt, pc, moduleDepInfo, moduleVars, pchObjFiles, pchOtherFiles>>

(* swift_values().GetOutputs: an object per Swift source, then the module. *)
SwiftOutputs == Outs(OutputOf, tgt.sources) \o <<SwiftModule>>

(* UniqueVector::Append: the files of xs not in acc yet, in order. *)
UniqueAppend(acc, xs) ==
  FoldLeft(LAMBDA u, x : IF x \in ToSet(u) THEN u ELSE Append(u, x), acc, xs)

(* WriteSwiftSources (lines 516-554): one build line compiles every      *)
(* source; its outputs are the extra files, the objects among them the   *)
(* object files; it is ordered after the order-only deps and the         *)
(* dependency output of every swiftmodule dep, each once.                *)
WriteSwiftSources ==
  /\ pc = "sources"
  /\ "swift" \in SourceTypesUsed
  /\ i <= Len(tgt.sources)
  /\ objFiles' = SelectSeq(SwiftOutputs, LAMBDA f : f # SwiftModule)
  /\ edges' = Append(edges, [CompileEdge("swift", SwiftOutputs, tgt.sources, << >>)
                               EXCEPT !.orderOnly = UniqueAppend(OrderOnlyDeps,
                                                      Outs(SwiftDepOutput, tgt.swiftDeps))])
  /\ i' = Len(tgt.sources) + 1
  /\ UNCHANGED <<tgt, pc, moduleDepInfo, moduleVars, pchObjFiles, pchOtherFiles,
                 otherFiles>>

(* CheckForDuplicateObjectFiles (lines 810-837): some object file name  *)
(* occurs twice.                                                        *)
HasDuplicate(files) == \E a, b \in DOMAIN files : a < b /\ files[a] = files[b]

(* Mutant of EndSources: the MSVC PCH objects are not appended. *)
EndSourcesNoPch ==
  /\ pc = "sources"
  /\ i > Len(tgt.sources)
  /\ objFiles' = objFiles
  /\ pc' = IF HasDuplicate(objFiles') THEN "failed" ELSE "objects"
  /\ UNCHANGED <<tgt, moduleDepInfo, moduleVars, pchObjFiles, pchOtherFiles, i,
                 otherFiles, edges>>

(* The end of WriteSources in Run: the MSVC PCH objects appended (line  *)
(* 223), and Run returns on a duplicate object file, after reporting it. *)
EndSources ==
  /\ pc = "sources"
  /\ i > Len(tgt.sources)
  /\ objFiles' = objFiles \o pchObjFiles
  /\ pc' = IF HasDuplicate(objFiles') THEN "failed" ELSE "objects"
  /\ UNCHANGED <<tgt, moduleDepInfo, moduleVars, pchObjFiles, pchOtherFiles, i,
                 otherFiles, edges>>

(* Mutant of DependencyOutputs: has_dependency_output() not tested. *)
DependencyOutputsAll(deps) == Outs(NonLinkableOutput, deps)

(* WriteOrderOnlyDependencies and WriteValidations (lines 778-809): the  *)
(* dependency outputs of the non-linkable deps that have one.            *)
DependencyOutputs(deps) ==
  Outs(NonLinkableOutput, SelectSeq(deps, LAMBDA d : NonLinkableOutput[d] # ""))

(* WriteSourceSetStamp (lines 555-576): the stamp depends on the object *)
(* files, or with Swift all its outputs (line 216), and order-only on    *)
(* the non-linkable deps' outputs.                                        *)
WriteSourceSetStamp ==
  /\ pc = "objects"
  /\ tgt.type = "source_set"
  /\ edges' = Append(edges, [Edge("stamp", <<"stamp">>,
                                   IF "swift" \in SourceTypesUsed THEN SwiftOutputs
                                   ELSE objFiles, << >>)
                               EXCEPT !.orderOnly = DependencyOutputs(tgt.nonLinkable)])
  /\ pc' = "done"
  /\ UNCHANGED <<tgt, moduleDepInfo, moduleVars, pchObjFiles, pchOtherFiles, i,
                 objFiles, otherFiles>>

(* Mutant of RustLibs: every linking target collects the Rust libraries. *)
RustLibsAlways == Outs(DepOutput, DepsOfKind({"rust"}))

(* The transitive Rust libraries of a final target (lines 661-671). *)
RustLibs == IF IsFinal THEN Outs(DepOutput, DepsOfKind({"rust"})) ELSE << >>

(* Mutant of SwiftModules: the target's own module left out. *)
SwiftModulesNoSelf ==
  IF IsFinal THEN Outs(SwiftDepModule, tgt.swiftDeps) ELSE << >>

(* The Swift modules a final target links (lines 675-686): each          *)
(* swiftmodule dep's, then its own when it builds one.                   *)
SwiftModules ==
  IF IsFinal
    THEN Outs(SwiftDepModule, tgt.swiftDeps)
         \o (IF "swift" \in SourceTypesUsed THEN <<SwiftModule>> ELSE << >>)
    ELSE << >>

(* WriteLinkerStuff (lines 578-743): the objects and the extra objects *)
(* of source-set deps (line 596), then the linkable deps               *)
(* (a shared library whose .TOC differs from its link output is an      *)
(* implicit dep on the .TOC and goes to solibs; Rust libraries are      *)
(* skipped), the first .def file, the libraries named by path and the  *)
(* frameworks that have a dependency output as implicit deps, the input *)
(* deps (line 655), and for a final target the Rust libraries as        *)
(* implicit deps and rlibs and the Swift modules as implicit deps; the  *)
(* non-linkable deps' outputs as validations with                        *)
(* async_non_linkable_deps, else as order-only deps (lines 707-711).    *)
(* An executable or a shared library also passes the Swift modules in   *)
(* the swiftmodules variable (lines 717-731).                           *)
WriteLinkerStuff ==
  /\ pc = "objects"
  /\ tgt.type # "source_set"
  /\ LET toc == DepsOfKind({"shared_toc"})
         defs == SelectSeq(otherFiles, LAMBDA f : Kind[f] = "def")
         rust == RustLibs
         nl == DependencyOutputs(tgt.nonLinkable)
     IN  edges' = Append(edges,
                    [rule |-> "link", outs |-> <<"link_output">>,
                     ins |-> objFiles \o tgt.extraObjs
                             \o Outs(LinkOutput, DepsOfKind({"static", "shared"})),
                     implicit |-> Outs(DepOutput, toc)
                                  \o (IF defs = << >> THEN << >> ELSE <<defs[1]>>)
                                  \o tgt.libPaths
                                  \o SelectSeq(Outs(FrameworkOutput, tgt.frameworks),
                                               LAMBDA f : f # "")
                                  \o InputDeps
                                  \o rust
                                  \o SwiftModules,
                     solibs |-> Outs(LinkOutput, toc),
                     rlibs |-> rust,
                     swiftmodules |-> IF tgt.type \in {"executable", "shared_library"}
                                        THEN SwiftModules ELSE << >>,
                     orderOnly |-> IF tgt.asyncNonLinkable THEN << >> ELSE nl,
                     validations |-> IF tgt.asyncNonLinkable THEN nl ELSE << >>])
  /\ pc' = "done"
  /\ UNCHANGED <<tgt, moduleDepInfo, moduleVars, pchObjFiles, pchOtherFiles, i,
                 objFiles, otherFiles>>

Init ==
  /\ tgt \in Inputs
  /\ pc = "start"
  /\ moduleDepInfo = << >>
  /\ moduleVars = [moduleDeps |-> << >>, moduleDepsNoSelf |-> << >>]
  /\ pchObjFiles = << >>
  /\ pchOtherFiles = << >>
  /\ i = 1
  /\ objFiles = << >>
  /\ otherFiles = << >>
  /\ edges = << >>

(* Run (lines 144-242): the phases in order. The lines that write the   *)
(* inputs stamp and the deps stamp themselves (in the base writer) are    *)
(* left out; their outputs are InputDeps and OrderOnlyDeps.               *)
Next ==
  \/ WriteCompilerVars
  \/ WritePCHCommands
  \/ WriteSource
  \/ WriteSwiftSources
  \/ EndSources
  \/ WriteSourceSetStamp
  \/ WriteLinkerStuff

Spec == Init /\ [][Next]_vars

-----------------------------------------------------------------------------
(* The files the build lines connect: a pair from each output to each of *)
(* its inputs, explicit or implicit.                                      *)
FileDeps ==
  UNION {{<<o, f>> : o \in ToSet(e.outs), f \in ToSet(e.ins) \cup ToSet(e.implicit)} :
           e \in ToSet(edges)}

RECURSIVE Closure(_)
Closure(R) ==
  LET next == R \cup {<<pq[1][1], pq[2][2]>> : pq \in {pq \in R \X R : pq[1][2] = pq[2][1]}}
  IN  IF next = R THEN R ELSE Closure(next)

(* The build lines of a target never form a cycle, ninja's first check:  *)
(* in particular a .modulemap compile does not list its own pcm among     *)
(* the module deps every compile of the target gets.                       *)
BuildGraphAcyclic == \A p \in Closure(FileDeps) : p[1] # p[2]

IsPchEdge(e) == e.ins = <<"precompiled_source">>
CompileRules == {"cc", "cxx", "cxx_module"}
PchOutputsOf(tool) == {e.outs[1] : e \in {e \in ToSet(edges) : IsPchEdge(e) /\ e.rule = tool}}
AllPchOutputs == PchOutputsOf("cc") \cup PchOutputsOf("cxx")

(* A source compile depends on exactly the precompiled headers built for *)
(* its own tool: a C++ compile never waits on (or, with MSVC, is handed)  *)
(* the C tool's .pch object, whichever kinds of PCH the toolchain has.    *)
PchDepsOwnTool ==
  \A e \in ToSet(edges) :
    e.rule \in CompileRules /\ ~IsPchEdge(e) =>
      ToSet(e.implicit) \cap AllPchOutputs = PchOutputsOf(e.rule)

(* The objects of the build: the outputs of the compiles that produce     *)
(* objects (not a pcm, not a .gch), then the object files listed as       *)
(* sources.                                                               *)
BuildObjects ==
  LET objEdges == SelectSeq(edges, LAMBDA e : e.rule \in {"cc", "cxx", "swift"}
                                              /\ e.outs[1] \notin ToSet(pchOtherFiles))
  IN  FlattenSeq([k \in DOMAIN objEdges |->
                    SelectSeq(objEdges[k].outs, LAMBDA f : f # SwiftModule)])
      \o Outs(OutputOf, SelectSeq(tgt.sources, LAMBDA s : Kind[s] = "o"))

(* Run stops with an error exactly when two objects of the build have the *)
(* same name; otherwise the stamp or link line lists every object of the  *)
(* build once, followed only by the extra objects of source-set deps    *)
(* and the libraries (a Swift source set's stamp also names its module). *)
ObjectsLinkedOnce ==
  /\ pc = "failed" <=> (pc \in {"objects", "done", "failed"} /\ ~IsInjective(BuildObjects))
  /\ pc = "done" =>
       LET objs == SubSeq(Last(edges).ins, 1, Len(BuildObjects))
       IN  /\ Len(BuildObjects) <= Len(Last(edges).ins)
           /\ ToSet(objs) = ToSet(BuildObjects)
           /\ ToSet(Last(edges).ins) \ ToSet(objs)
                \subseteq {LinkOutput[d] : d \in ToSet(tgt.linkDeps)} \cup ToSet(tgt.extraObjs)
                           \cup (IF Last(edges).rule = "stamp" THEN {SwiftModule} ELSE {})

(* The link line names every library dep the way the linker needs it: a *)
(* shared library with a separate .TOC through the .TOC (so the target  *)
(* relinks only when the library's interface changes) and solibs, never  *)
(* as an explicit input; a Rust library only in a final target (an      *)
(* executable, a shared library, a complete static library), as an      *)
(* implicit input and in rlibs; every other library as an input.        *)
LinkDepsComplete ==
  pc = "done" /\ tgt.type # "source_set" =>
    LET e == Last(edges) IN
    \A d \in ToSet(tgt.linkDeps) :
      CASE DepKind[d] = "shared_toc" ->
             /\ DepOutput[d] \in ToSet(e.implicit)
             /\ LinkOutput[d] \in ToSet(e.solibs) \ ToSet(e.ins)
        [] DepKind[d] = "rust" ->
             /\ (DepOutput[d] \in ToSet(e.implicit)) = IsFinal
             /\ (DepOutput[d] \in ToSet(e.rlibs)) = IsFinal
             /\ LinkOutput[d] \notin ToSet(e.ins)
        [] OTHER -> LinkOutput[d] \in ToSet(e.ins)

(* The outputs of the non-linkable deps (actions, groups, data deps) that *)
(* have one reach the last line only after "||" (or, for a link line with *)
(* async_non_linkable_deps, only after "|@"), never as an input: a change *)
(* in an action's output does not relink the target, and a dep without a  *)
(* dependency output is not named at all.                                 *)
NonLinkableDepsOrderOnly ==
  pc = "done" =>
    LET e == Last(edges)
        nl == {NonLinkableOutput[d] : d \in ToSet(tgt.nonLinkable)} \ {""}
    IN  /\ ToSet(e.orderOnly) \cup ToSet(e.validations) = nl
        /\ nl \cap (ToSet(e.ins) \cup ToSet(e.implicit)) = {}
        /\ e.validations # << >> => e.rule = "link" /\ tgt.asyncNonLinkable
(* Every build line that reads a source (a PCH, source or Swift compile) *)
(* waits for the target's inputs: it depends on the input deps, so that  *)
(* a changed input recompiles it, and after "||" on the order-only deps, *)
(* which Run passes to every compile including the PCH ones. The order-  *)
(* only deps are never a real input of any line (a change upstream does  *)
(* not recompile), and the link line depends on the input deps too, for  *)
(* a target with no compile. The Swift compile is ordered, after the     *)
(* order-only deps, on every swiftmodule dep as well.                    *)
InputsOrderEveryCompile ==
  \A e \in ToSet(edges) :
    /\ e.rule \in CompileRules \cup {"swift"} =>
         /\ ToSet(InputDeps) \subseteq ToSet(e.implicit)
         /\ e.rule # "swift" => e.orderOnly = OrderOnlyDeps
    /\ e.rule = "swift" =>
         /\ IsPrefix(OrderOnlyDeps, e.orderOnly)
         /\ ToSet(e.orderOnly) = ToSet(OrderOnlyDeps)
                                 \cup ToSet(Outs(SwiftDepOutput, tgt.swiftDeps))
    /\ e.rule = "link" => ToSet(InputDeps) \subseteq ToSet(e.implicit)
    /\ ToSet(OrderOnlyDeps) \cap (ToSet(e.ins) \cup ToSet(e.implicit)) = {}

(* The link line reads what the linker reads. A final target hands the   *)
(* linker every Swift module it links (each swiftmodule dep's, and its  *)
(* own when it builds one) and depends on each, so a changed module     *)
(* relinks; only an executable or a shared library lists them in the   *)
(* swiftmodules variable, and a target that is not final names no       *)
(* module of a dep. Libraries named by path and frameworks that have a  *)
(* dependency output are implicit deps, and the extra objects of        *)
(* source-set deps are explicit inputs.                                 *)
LinkReadsAreDeps ==
  pc = "done" /\ tgt.type # "source_set" =>
    LET e == Last(edges)
        depMods == ToSet(Outs(SwiftDepModule, tgt.swiftDeps))
        mods == IF IsFinal
                  THEN depMods \cup (IF "swift" \in SourceTypesUsed
                                       THEN {SwiftModule} ELSE {})
                  ELSE {}
    IN  /\ mods \subseteq ToSet(e.implicit)
        /\ ToSet(e.swiftmodules) = IF tgt.type \in {"executable", "shared_library"}
                                     THEN mods ELSE {}
        /\ ~IsFinal => depMods \cap ToSet(e.implicit) = {}
        /\ ToSet(tgt.libPaths)
              \cup ({FrameworkOutput[d] : d \in ToSet(tgt.frameworks)} \ {""})
              \subseteq ToSet(e.implicit)
        /\ ToSet(tgt.extraObjs) \subseteq ToSet(e.ins)

PcmIndex(p) == CHOOSE x \in DOMAIN PcmOrder : PcmOrder[x] = p

(* Once WriteCompilerVars has run, the module list names each module pcm *)
(* once, in path order, and marks the target's own module isSelf and no  *)
(* other: a module reached through two deps, or a dep's .modulemap that  *)
(* compiles to the target's own pcm, is neither passed twice to every     *)
(* compile nor taken for a dep (and left in module_deps_no_self).        *)
ModuleDepsExact ==
  pc # "start" =>
    LET own == IF "modulemap" \in SourceTypesUsed
                 THEN {OutputOf[SelectSeq(tgt.sources, LAMBDA s : Kind[s] = "modulemap")[1]]}
                 ELSE {}
        deps == {PcmOf[d] : d \in ToSet(tgt.moduleDeps)} \ {""}
    IN  /\ \A a, b \in DOMAIN moduleDepInfo :
             a < b => PcmIndex(moduleDepInfo[a].pcm) < PcmIndex(moduleDepInfo[b].pcm)
        /\ {moduleDepInfo[j].pcm : j \in DOMAIN moduleDepInfo} = own \cup deps
        /\ \A j \in DOMAIN moduleDepInfo : moduleDepInfo[j].isSelf <=> moduleDepInfo[j].pcm \in own
====
