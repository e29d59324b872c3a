------------------------- MODULE MCRuntimeDepsWrite -------------------------
(* Three targets, one for each place a listed target's file can go: a    *)
(* shared library (its first output), an executable with a dependency   *)
(* output file, and a group without one. The list file has up to two     *)
(* lines, so it can name a target twice or put a bad line after a good    *)
(* one; one target at most called write_runtime_deps. A file starts      *)
(* absent, stale, or already holding the deps it must hold.              *)
EXTENDS RuntimeDepsWrite

MCTargets == {"so", "exe", "group"}

MCOutputType == [t \in MCTargets |->
                   IF t = "so" THEN "shared_library"
                   ELSE IF t = "exe" THEN "executable" ELSE "group"]

MCHasDepFile == [t \in MCTargets |-> t = "exe"]

MCWriteOutput == [t \in MCTargets |-> <<"wrt", t>>]

(* write_runtime_deps of the shared library names the path the list file *)
(* gives the executable: its dependency output file plus .runtime_deps.  *)
MCWriteOutputCollide == [MCWriteOutput EXCEPT !["so"] = <<"depfile", "exe">>]

(* The target whose deps a file holds when it is up to date. *)
Owner(f) == CHOOSE t \in MCTargets : f \in {ListOutputOf(t), WriteOutput[t]}

(* A clean output directory, or one where every file is stale or up to *)
(* date.                                                                 *)
MCOldDisks ==
  {[f \in Files |-> NoContent]}
  \cup {[f \in Files |-> IF f \in S THEN Owner(f) ELSE Stale] : S \in SUBSET Files}

ListFiles == {<< >>} \cup {<<l>> : l \in Lines} \cup (Lines \X Lines)

MCInputs ==
  {[flag |-> "none", lines |-> << >>, wrt |-> w] : w \in {<< >>, <<"exe">>}}
  \cup {[flag |-> "missing", lines |-> << >>, wrt |-> << >>]}
  \cup {[flag |-> "given", lines |-> l, wrt |-> w] :
          l \in ListFiles, w \in {<< >>, <<"so">>}}
=============================================================================
