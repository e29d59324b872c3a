-------------------------- MODULE MCDependencyWalk --------------------------
(* Every dependency graph over four targets in which each edge is absent, *)
(* a public dep or a private dep. The builder rejects dependency cycles,  *)
(* so edges only go from a lower to a higher number; search_from and      *)
(* search_for range over all targets, so every acyclic graph is covered   *)
(* up to renaming.                                                        *)
EXTENDS DependencyWalk

MCTargets == 1..4

MCNoTarget == 0

EdgeKinds == [{<<i, j>> \in MCTargets \X MCTargets : i < j} -> {"none", "pub", "priv"}]

MCDepGraphs ==
  { [pub  |-> [i \in MCTargets |-> {j \in MCTargets : i < j /\ e[<<i, j>>] = "pub"}],
     priv |-> [i \in MCTargets |-> {j \in MCTargets : i < j /\ e[<<i, j>>] = "priv"}]]
    : e \in EdgeKinds }
=============================================================================
