----------------------------- MODULE RuntimeDeps -----------------------------
(***************************************************************************)
(* ComputeRuntimeDeps and RecursiveCollectRuntimeDeps                     *)
(* (src/gn/runtime_deps.cc, lines 44-114 and 291-304).                    *)
(*                                                                         *)
(* A file is a tagged pair: <<"runtime", t>> stands for the runtime       *)
(* outputs of t, <<"data", t>> for its data files, <<"output", t>> for    *)
(* its action or copy outputs and <<"bundle", t>> for its bundle root     *)
(* dir. Every target lists data, so each visit of a target shows in the   *)
(* result.                                                                *)
(***************************************************************************)
EXTENDS Integers, Sequences, FiniteSets, SequencesExt

CONSTANTS
  Targets,    \* the resolved targets
  Inputs      \* the graphs to explore: records [type, data, linked, root]

VARIABLES
  outputType,  \* target->output_type()
  dataDeps,    \* target->data_deps(), in declared order
  linkedDeps,  \* target->GetDeps(Target::DEPS_LINKED): public then private deps
  root,        \* the target ComputeRuntimeDeps is called on
  result       \* the RuntimeDepsVector it returns, << >> before the call

inputs == <<outputType, dataDeps, linkedDeps, root>>
vars == <<inputs, result>>

(* Output types with a main runtime output (lines 66-68). *)
Linkable == {"executable", "loadable_module", "shared_library"}
(* Output types whose outputs count when they are a data dep (lines 78-80). *)
Producing == {"action", "action_foreach", "copy"}

(* The files one visit of t reports, in order (lines 64-85). *)
OwnFiles(t, isData) ==
  (IF outputType[t] \in Linkable THEN << <<"runtime", t>> >> ELSE << >>)
  \o << <<"data", t>> >>
  \o (IF isData /\ outputType[t] \in Producing THEN << <<"output", t>> >> ELSE << >>)

(* The linked deps the walk follows (lines 102-111): not executables, and *)
(* not shared libraries an action depends on.                            *)
Followed(t, d) ==
  /\ outputType[d] # "executable"
  /\ ~(outputType[d] = "shared_library" /\ outputType[t] \in {"action", "action_foreach"})

(* Mutant of Collect: a target already seen is never visited again, even *)
(* when it is now reached as a data dep (lines 54-61 reduced to return).  *)
RECURSIVE CollectNoRevisit(_, _, _)
CollectNoRevisit(t, isData, st) ==
  IF t \in DOMAIN st.seen THEN st
  ELSE LET s1 == [seen |-> (t :> isData) @@ st.seen, out |-> st.out \o OwnFiles(t, isData)]
           s2 == FoldLeft(LAMBDA s, d : CollectNoRevisit(d, TRUE, s), s1, dataDeps[t])
       IN  IF outputType[t] = "create_bundle"
             THEN [s2 EXCEPT !.out = Append(@, <<"bundle", t>>)]
             ELSE FoldLeft(LAMBDA s, d : CollectNoRevisit(d, FALSE, s), s2,
                           SelectSeq(linkedDeps[t], LAMBDA d : Followed(t, d)))

(* Mutant of Collect: a revisit as a data dep does not update            *)
(* seen_targets (line 60 dropped).                                        *)
RECURSIVE CollectNoUpdate(_, _, _)
CollectNoUpdate(t, isData, st) ==
  IF t \in DOMAIN st.seen /\ (st.seen[t] \/ ~isData) THEN st
  ELSE LET s1 == [seen |-> IF t \in DOMAIN st.seen THEN st.seen ELSE (t :> isData) @@ st.seen,
                  out |-> st.out \o OwnFiles(t, isData)]
           s2 == FoldLeft(LAMBDA s, d : CollectNoUpdate(d, TRUE, s), s1, dataDeps[t])
       IN  IF outputType[t] = "create_bundle"
             THEN [s2 EXCEPT !.out = Append(@, <<"bundle", t>>)]
             ELSE FoldLeft(LAMBDA s, d : CollectNoUpdate(d, FALSE, s), s2,
                           SelectSeq(linkedDeps[t], LAMBDA d : Followed(t, d)))

(* RecursiveCollectRuntimeDeps(target, is_target_data_dep, on_file,      *)
(* seen_targets), with st = [seen |-> seen_targets, out |-> files so far]: *)
(* a target already seen as a data dep, or seen at all when this is not a *)
(* data dep, is skipped; otherwise it is (re)marked, its own files are    *)
(* reported, its data deps are walked as data deps, and then either the   *)
(* bundle root is reported (create_bundle) or its followed linked deps    *)
(* are walked as regular deps.                                            *)
RECURSIVE Collect(_, _, _)
Collect(t, isData, st) ==
  IF t \in DOMAIN st.seen /\ (st.seen[t] \/ ~isData) THEN st
  ELSE LET s1 == [seen |-> (t :> isData) @@ st.seen, out |-> st.out \o OwnFiles(t, isData)]
           s2 == FoldLeft(LAMBDA s, d : Collect(d, TRUE, s), s1, dataDeps[t])
       IN  IF outputType[t] = "create_bundle"
             THEN [s2 EXCEPT !.out = Append(@, <<"bundle", t>>)]
             ELSE FoldLeft(LAMBDA s, d : Collect(d, FALSE, s), s2,
                           SelectSeq(linkedDeps[t], LAMBDA d : Followed(t, d)))

(* ComputeRuntimeDeps: the root is not a data dep (lines 299-302). *)
ComputeRuntimeDeps(t) == Collect(t, FALSE, [seen |-> << >>, out |-> << >>]).out

(* StreamRuntimeDeps (lines 116-128), the content of a runtime deps file: *)
(* the same walk from the target as a regular dep, one line per file.    *)
StreamRuntimeDeps(t) == Collect(t, FALSE, [seen |-> << >>, out |-> << >>]).out

(* The state before the call, on one of the graphs of G. *)
InitFrom(G) ==
  /\ \E g \in G :
       /\ outputType = g.type
       /\ dataDeps = g.data
       /\ linkedDeps = g.linked
       /\ root = g.root
  /\ result = << >>

Init == InitFrom(Inputs)

Compute ==
  /\ result = << >>
  /\ result' = ComputeRuntimeDeps(root)
  /\ UNCHANGED inputs

Next == Compute

Spec == Init /\ [][Next]_vars

-----------------------------------------------------------------------------
(* Reference, from the help text (lines 222-289): the runtime deps are the *)
(* files of every target reached from the root through data_deps, and     *)
(* through deps except into executables; action and copy outputs count    *)
(* only for targets reached as data deps; a bundle's deps are not         *)
(* reached (comment of line 92); an action's shared library deps are not   *)
(* runtime deps (comment of line 108).                                     *)
Reaches(p) ==
  {<<d, TRUE>> : d \in ToSet(dataDeps[p[1]])}
  \cup IF outputType[p[1]] = "create_bundle" THEN {}
       ELSE {<<d, FALSE>> : d \in {d \in ToSet(linkedDeps[p[1]]) :
               /\ outputType[d] # "executable"
               /\ ~(outputType[d] = "shared_library"
                    /\ outputType[p[1]] \in {"action", "action_foreach"})}}

RECURSIVE ReachedFrom(_)
ReachedFrom(S) ==
  LET next == S \cup UNION {Reaches(p) : p \in S}
  IN  IF next = S THEN S ELSE ReachedFrom(next)

RefFiles(p) ==
  {f \in {<<"runtime", p[1]>>, <<"data", p[1]>>, <<"output", p[1]>>, <<"bundle", p[1]>>} :
     \/ f[1] = "runtime" /\ outputType[p[1]] \in Linkable
     \/ f[1] = "data"
     \/ f[1] = "output" /\ p[2] /\ outputType[p[1]] \in Producing
     \/ f[1] = "bundle" /\ outputType[p[1]] = "create_bundle"}

RuntimeFiles == UNION {RefFiles(p) : p \in ReachedFrom({<<root, FALSE>>})}

Done == result # << >>

(* The walk reports exactly the runtime files of the help text, whatever  *)
(* order deps and data_deps are declared in: in particular a target first *)
(* reached as a regular dep and later as a data dep still gets its action *)
(* outputs reported.                                                      *)
RuntimeDepsComplete == Done => ToSet(result) = RuntimeFiles

(* seen_targets bounds the work: a target is visited at most twice, once  *)
(* as a regular dep and once as a data dep, so a file is reported at most *)
(* twice and an action output (reported only as a data dep) at most once. *)
VisitedAtMostTwice ==
  Done => \A f \in ToSet(result) :
            Cardinality({i \in DOMAIN result : result[i] = f})
              <= IF f[1] = "output" THEN 1 ELSE 2

(* The main output of a target: its runtime output when it links, its    *)
(* outputs when it is an action or a copy.                               *)
MainOutput(t) == IF outputType[t] \in Linkable THEN <<"runtime", t>> ELSE <<"output", t>>

(* The write_runtime_deps help text (variables.cc, lines 2393-2397): the *)
(* first line of the file is the main output of the target itself. The  *)
(* file is written by StreamRuntimeDeps, which walks the target as a     *)
(* regular dep (line 127), so an action or copy target lists its data    *)
(* first and its outputs never.                                          *)
FirstLineIsMainOutput ==
  outputType[root] \in Linkable \cup Producing =>
    StreamRuntimeDeps(root)[1] = MainOutput(root)
=============================================================================
