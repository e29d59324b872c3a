---------------------------- MODULE MCRuntimeDeps ----------------------------
(* Dependency graphs of three targets numbered in dependency order (gn    *)
(* rejects cycles). Target 1 is the root. Its deps and data_deps may be   *)
(* listed in either order and may name the same target. Target 3 is the  *)
(* only dep that can be reached by two paths. Every output type that      *)
(* RecursiveCollectRuntimeDeps tells apart is used; a group stands for    *)
(* every type the walk treats alike (group, source_set, static_library).  *)
EXTENDS RuntimeDeps

MCTargets == 1..3

Types == {"executable", "shared_library", "loadable_module", "action", "copy",
          "create_bundle", "group"}

(* Every order of every set of deps of t on later targets. *)
DepSeqs(t) == UNION {SetToSeqs(S) : S \in SUBSET {u \in MCTargets : u > t}}

MCInputs ==
  {[type |-> ty, root |-> 1,
    data |-> (1 :> d1) @@ (2 :> d2) @@ (3 :> << >>),
    linked |-> (1 :> l1) @@ (2 :> l2) @@ (3 :> << >>)] :
     ty \in [MCTargets -> Types], d1 \in DepSeqs(1), d2 \in DepSeqs(2),
     l1 \in DepSeqs(1), l2 \in DepSeqs(2)}

(* Four targets, deps listed in dependency order, over the three types    *)
(* that decide revisits: target 4 can be reached as a regular dep of 2,  *)
(* then as a data dep of 3 (a revisit), then as a data dep of 1 (which    *)
(* must be skipped). Three targets cannot reach a target as a data dep    *)
(* after a revisit, since a target's data deps are walked before its deps.*)
MCTargets4 == 1..4

Ascending(t) == {SetToSortSeq(S, <) : S \in SUBSET {u \in MCTargets4 : u > t}}

DepLists4 ==
  {f \in [MCTargets4 -> UNION {Ascending(t) : t \in MCTargets4}] :
     \A t \in MCTargets4 : f[t] \in Ascending(t)}

MCInputs4 ==
  {[type |-> ty, root |-> 1,
    data |-> [t \in MCTargets4 |-> ds[t]], linked |-> [t \in MCTargets4 |-> ls[t]]] :
     ty \in [MCTargets4 -> {"executable", "action", "group"}],
     ds \in DepLists4, ls \in DepLists4}

(* The three-target graphs over MCTargets4, target 4 an unreachable group. *)
DepLists3 ==
  {[t \in MCTargets4 |-> IF t \in MCTargets THEN d[t] ELSE << >>] :
     d \in {f \in [MCTargets -> UNION {DepSeqs(t) : t \in MCTargets}] :
              \A t \in MCTargets : f[t] \in DepSeqs(t)}}

MCInputs3 ==
  {[type |-> [t \in MCTargets4 |-> IF t \in MCTargets THEN ty[t] ELSE "group"],
    root |-> 1, data |-> ds, linked |-> ls] :
     ty \in [MCTargets -> Types], ds \in DepLists3, ls \in DepLists3}

(* Both families in one run, each enumerated on its own. *)
MCInit == InitFrom(MCInputs3) \/ InitFrom(MCInputs4)
=============================================================================
