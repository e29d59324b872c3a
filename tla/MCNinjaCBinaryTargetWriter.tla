-------------------- MODULE MCNinjaCBinaryTargetWriter ------------------------
(* One C/C++ target, with every subset of a pool of sources: two .cc     *)
(* files whose objects collide (a.cc and sub/a.cc both map to a.o, the    *)
(* case CheckForDuplicateObjectFiles reports), a .c file, a .modulemap,  *)
(* a .def file and an object file; with or without precompiled headers,  *)
(* for the C tool, the C++ tool or both, of one toolchain kind (MSVC or  *)
(* GCC); with module deps with and without a .modulemap, repeated, or  *)
(* sharing the target's own module; and with a                         *)
(* static, a shared (separate .TOC) and a Rust library dep; with or     *)
(* without an action and a group as non-linkable deps, under either     *)
(* setting of async_non_linkable_deps. A linked target has or has not a *)
(* source-set dep's extra object, a library named by path, and a        *)
(* framework with and one without a dependency output. A Swift target   *)
(* has one Swift source, whose object does not collide with a C one,    *)
(* and none or two swiftmodule deps.                                    *)
EXTENDS NinjaCBinaryTargetWriter

MCKind == [s \in {"a.cc", "sub/a.cc"} |-> "cc"] @@ ("b.c" :> "c")
          @@ ("m.modulemap" :> "modulemap") @@ ("x.def" :> "def") @@ ("z.o" :> "o")
          @@ ("s.swift" :> "swift")
MCOutputOf == [s \in {"a.cc", "sub/a.cc"} |-> "a.o"] @@ ("b.c" :> "b.o")
              @@ ("m.modulemap" :> "m.pcm") @@ ("x.def" :> "") @@ ("z.o" :> "z.o")
              @@ ("s.swift" :> "s.o")
(* d1 has a .modulemap, d2 none, and d3 compiles the target's own       *)
(* m.modulemap (a source both list), so its pcm is the target's.        *)
MCPcmOf == ("d1" :> "d1.pcm") @@ ("d2" :> "") @@ ("d3" :> "m.pcm")
MCPcmOrder == <<"d1.pcm", "m.pcm">>
MCPchOutput ==
  ("cc" :> [msvc |-> "pch.c.obj", gcc |-> "pch.h-c.gch"])
  @@ ("cxx" :> [msvc |-> "pch.cc.obj", gcc |-> "pch.h-cc.gch"])
MCDepKind == ("libs" :> "static") @@ ("libsh" :> "shared_toc") @@ ("libr" :> "rust")
MCLinkOutput == ("libs" :> "libs.a") @@ ("libsh" :> "libsh.so") @@ ("libr" :> "libr.rlib")
MCDepOutput == ("libs" :> "libs.a") @@ ("libsh" :> "libsh.so.TOC") @@ ("libr" :> "libr.rlib")
(* An action has a stamp; a group of no targets has no dependency output. *)
MCNonLinkableOutput == ("act" :> "act.stamp") @@ ("grp" :> "")
(* The target has inputs and deps that are not linked, so Run hands each *)
(* compile an inputs stamp and an order-only deps stamp.                 *)
MCInputDeps == <<"inputs.stamp">>
MCFrameworkOutput == ("fw" :> "fw.stamp") @@ ("fwg" :> "")
MCSwiftDepOutput == ("sw1" :> "sw1.stamp") @@ ("sw2" :> "sw2.stamp")
MCSwiftDepModule == ("sw1" :> "sw1.swiftmodule") @@ ("sw2" :> "sw2.swiftmodule")
MCOrderOnlyDeps == <<"deps.stamp">>

SourcePool == <<"a.cc", "sub/a.cc", "b.c", "m.modulemap", "x.def", "z.o">>
DepPool == <<"libs", "libsh", "libr">>

(* The subsequences of a sequence: every subset, in the sequence's order. *)
SubSeqsOf(sq) == {[k \in 1..Cardinality(I) |-> sq[SetToSortSeq(I, <)[k]]] :
                    I \in SUBSET DOMAIN sq}

(* A toolchain's C and C++ tools use one kind of precompiled header. *)
PchConfigs ==
  {[t \in {"cc", "cxx"} |-> "none"]}
  \cup {[t \in {"cc", "cxx"} |-> IF t \in T THEN ty ELSE "none"] :
          ty \in {"msvc", "gcc"}, T \in SUBSET {"cc", "cxx"} \ {{}}}

CInputs ==
  {r \in [type : {"source_set", "static_library", "executable", "shared_library"},
          completeStatic : BOOLEAN, sources : SubSeqsOf(SourcePool),
          hasPch : BOOLEAN, pchType : PchConfigs,
          moduleDeps : {<< >>, <<"d2", "d1">>, <<"d3", "d1", "d1">>},
          linkDeps : SubSeqsOf(DepPool),
          nonLinkable : {<< >>, <<"grp", "act">>}, asyncNonLinkable : BOOLEAN] :
     /\ r.completeStatic => r.type = "static_library"
     /\ ~r.hasPch => r.pchType = [t \in {"cc", "cxx"} |-> "none"]
     /\ r.type = "source_set" => r.linkDeps = << >>}

(* The link inputs other than the deps' outputs, present or not. *)
Extras(e) == [extraObjs |-> IF e THEN <<"ss/x.o">> ELSE << >>,
              libPaths |-> IF e THEN <<"lib/p.a">> ELSE << >>,
              frameworks |-> IF e THEN <<"fw", "fwg">> ELSE << >>]

(* A C target has the extra link inputs exactly when it has             *)
(* non-linkable deps (both are unrelated to its sources and libraries),  *)
(* which keeps the number of targets as it was; a Swift target has     *)
(* them or not, whatever its other deps.                                 *)
MCInputs ==
  {LET e == r.nonLinkable # << >> /\ r.type # "source_set" IN
   [type |-> r.type, completeStatic |-> r.completeStatic, sources |-> r.sources,
    hasPch |-> r.hasPch, pchType |-> r.pchType, moduleDeps |-> r.moduleDeps,
    linkDeps |-> r.linkDeps, nonLinkable |-> r.nonLinkable,
    asyncNonLinkable |-> r.asyncNonLinkable, swiftDeps |-> << >>,
    extraObjs |-> Extras(e).extraObjs, libPaths |-> Extras(e).libPaths,
    frameworks |-> Extras(e).frameworks] :
     r \in CInputs}
  \cup
  (* A Swift target: gn rejects a target whose sources mix languages. *)
  {[type |-> ty, completeStatic |-> FALSE, sources |-> <<"s.swift">>,
    hasPch |-> FALSE, pchType |-> [t \in {"cc", "cxx"} |-> "none"],
    moduleDeps |-> << >>, linkDeps |-> ld, nonLinkable |-> nl,
    asyncNonLinkable |-> an, swiftDeps |-> sd,
    extraObjs |-> Extras(e).extraObjs, libPaths |-> Extras(e).libPaths,
    frameworks |-> Extras(e).frameworks] :
     ty \in {"source_set", "static_library", "executable", "shared_library"},
     ld \in SubSeqsOf(DepPool), nl \in {<< >>, <<"grp", "act">>}, an \in BOOLEAN,
     sd \in {<< >>, <<"sw1", "sw2">>}, e \in BOOLEAN}

(* The shared GetModuleDepsInformation, on the same modules: a dep's    *)
(* first .modulemap is named after its pcm.                              *)
Util == INSTANCE ModuleWriterUtil WITH
  ModuleMaps <- {"m.modulemap", "d1.modulemap"},
  PcmFile <- ("m.modulemap" :> "m.pcm") @@ ("d1.modulemap" :> "d1.pcm"),
  PcmOrder <- MCPcmOrder,
  DepModuleMap <- ("d1" :> "d1.modulemap") @@ ("d2" :> "none") @@ ("d3" :> "m.modulemap"),
  NoFile <- "none"

(* The module list the C binary writer's own copy of                     *)
(* GetModuleDepsInformation computes is the one the shared copy in       *)
(* ninja_module_writer_util.cc computes for the same target: the two     *)
(* copies pass the same pcms, in the same order, with the same is_self.  *)
SharedUtilAgrees ==
  pc # "start" =>
    LET u == Util!GetModuleDepsInformation(tgt.sources, tgt.moduleDeps)
    IN  moduleDepInfo = [j \in DOMAIN u |-> [pcm |-> u[j].pcm, isSelf |-> u[j].is_self]]
====
