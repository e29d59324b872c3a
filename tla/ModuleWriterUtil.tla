-------------------------- MODULE ModuleWriterUtil ---------------------------
(***************************************************************************)
(* GetModuleDepsInformation of src/gn/ninja_module_writer_util.cc: the    *)
(* shared version of the clang module list, which the ninja writers other *)
(* than the C binary writer call. It is a pure function of the target and *)
(* its resolved module deps, modelled as an operator: add_if_new is a    *)
(* step of a fold over the target and then its deps, and the result is    *)
(* sorted by pcm path. The C binary writer keeps its own copy (lines      *)
(* 78-132 of ninja_c_binary_target_writer.cc); MCNinjaCBinaryTargetWriter *)
(* compares the two on every target it checks.                            *)
(*                                                                         *)
(* A source file is a name. ModuleMaps are the names IsModuleMapType      *)
(* accepts. PcmFile is the single output GetOutputFilesForSource gives a  *)
(* .modulemap. DepModuleMap is a dep's first .modulemap, or NoFile. The   *)
(* label (module_name) is not modelled.                                   *)
(***************************************************************************)
EXTENDS Integers, Sequences, SequencesExt

CONSTANTS
  ModuleMaps,    \* the files that are .modulemap files
  PcmFile,       \* .modulemap -> the .pcm its compile produces
  PcmOrder,      \* every pcm, in the order of their paths
  DepModuleMap,  \* module dep -> GetModuleMapFromTargetSources(dep)
  NoFile         \* GetModuleMapFromTargetSources found no .modulemap

(* GetModuleMapFromTargetSources (lines 16-24): the first .modulemap in  *)
(* the sources, or NoFile.                                                *)
GetModuleMapFromTargetSources(sources) ==
  LET mms == SelectSeq(sources, LAMBDA f : f \in ModuleMaps)
  IN  IF mms = << >> THEN NoFile ELSE mms[1]

(* Mutant of AddIfNew: the added_pcms test dropped. *)
AddIfNewNoSet(acc, mm, isSelf) ==
  IF mm = NoFile THEN acc
  ELSE [ret |-> Append(acc.ret, [pcm |-> PcmFile[mm], is_self |-> isSelf]),
        added_pcms |-> acc.added_pcms \cup {PcmFile[mm]}]

(* The add_if_new lambda (lines 44-62) on [ret, added_pcms], for a target *)
(* whose first .modulemap is mm: skipped without one, and its pcm added   *)
(* to ret only if added_pcms did not hold it yet.                         *)
AddIfNew(acc, mm, isSelf) ==
  IF mm = NoFile \/ PcmFile[mm] \in acc.added_pcms THEN acc
  ELSE [ret |-> Append(acc.ret, [pcm |-> PcmFile[mm], is_self |-> isSelf]),
        added_pcms |-> acc.added_pcms \cup {PcmFile[mm]}]

PcmBefore(a, b) == \E x, y \in DOMAIN PcmOrder :
                     x < y /\ PcmOrder[x] = a.pcm /\ PcmOrder[y] = b.pcm

(* GetModuleDepsInformation (lines 36-78): the target itself when it uses *)
(* a .modulemap (lines 64-65), then each resolved module dep in order     *)
(* (lines 67-68), then the sort by pcm path (lines 70-75).                *)
GetModuleDepsInformation(sources, resolved) ==
  LET none == [ret |-> << >>, added_pcms |-> {}]
      self == IF \E j \in DOMAIN sources : sources[j] \in ModuleMaps
                THEN AddIfNew(none, GetModuleMapFromTargetSources(sources), TRUE)
                ELSE none
      all == FoldLeft(LAMBDA acc, d : AddIfNew(acc, DepModuleMap[d], FALSE),
                      self, resolved)
  IN  SortSeq(all.ret, PcmBefore)
====
