--------------------------- MODULE UnreachableError ---------------------------
(***************************************************************************)
(* The candidate list of HeaderChecker::MakeUnreachableError              *)
(* (src/gn/header_checker.cc, lines 696-757): the targets that claim an   *)
(* include file are split by toolchain, the other-toolchain candidates    *)
(* whose label matches a same-toolchain one are erased in an index loop,  *)
(* and the message lists what is left, naming toolchains only when some   *)
(* other-toolchain candidate is left.                                      *)
(*                                                                         *)
(* A label is a record of a name (its directory and short name) and a     *)
(* toolchain. The message text is abstracted to the labels it lists and   *)
(* whether it shows toolchains.                                            *)
(***************************************************************************)
EXTENDS Integers, Sequences, FiniteSets, SequencesExt

CONSTANTS
  FromToolchain,   \* from_target->toolchain()
  Claims           \* the TargetVectors to explore: sequences of labels

VARIABLES
  targets,           \* the claims of the include file, in file map order
  matching,          \* targets_with_matching_toolchains
  others,            \* targets_with_other_toolchains
  otherIndex,        \* other_index (0-based, as in the code)
  pc,                \* "split", "dedup", "done"
  includeToolchain,  \* include_toolchain
  listed             \* the labels the message lists, in order

vars == <<targets, matching, others, otherIndex, pc, includeToolchain, listed>>

(* TargetLabelsMatchExceptToolchain (lines 104-107). *)
TargetLabelsMatchExceptToolchain(a, b) == a.name = b.name

Init ==
  /\ targets \in Claims
  /\ matching = << >>
  /\ others = << >>
  /\ otherIndex = 0
  /\ pc = "split"
  /\ includeToolchain = FALSE
  /\ listed = << >>

(* Lines 703-710: partition the candidates by toolchain, keeping order. *)
Split ==
  /\ pc = "split"
  /\ matching' = SelectSeq(targets, LAMBDA t : t.toolchain = FromToolchain)
  /\ others' = SelectSeq(targets, LAMBDA t : t.toolchain # FromToolchain)
  /\ otherIndex' = 0
  /\ pc' = "dedup"
  /\ UNCHANGED <<targets, includeToolchain, listed>>

(* Mutant of DedupStep: other_index-- dropped after the erase. *)
DedupStepNoBack ==
  /\ pc = "dedup"
  /\ otherIndex < Len(others)
  /\ IF \E k \in 1..Len(matching) :
          TargetLabelsMatchExceptToolchain(matching[k], others[otherIndex + 1])
       THEN others' = RemoveAt(others, otherIndex + 1)
       ELSE others' = others
  /\ otherIndex' = otherIndex + 1
  /\ UNCHANGED <<targets, matching, pc, includeToolchain, listed>>

(* One iteration of the loop of lines 719-732: an other-toolchain label   *)
(* that matches a same-toolchain one is erased and the index stepped back, *)
(* so the loop's increment revisits the same position.                   *)
DedupStep ==
  /\ pc = "dedup"
  /\ otherIndex < Len(others)
  /\ IF \E k \in 1..Len(matching) :
          TargetLabelsMatchExceptToolchain(matching[k], others[otherIndex + 1])
       THEN /\ others' = RemoveAt(others, otherIndex + 1)
            /\ otherIndex' = otherIndex
       ELSE /\ others' = others
            /\ otherIndex' = otherIndex + 1
  /\ UNCHANGED <<targets, matching, pc, includeToolchain, listed>>


(* Lines 734-750: toolchains are shown when other-toolchain candidates    *)
(* are left; the message lists the same-toolchain ones, then the others.  *)
Compose ==
  /\ pc = "dedup"
  /\ otherIndex >= Len(others)
  /\ includeToolchain' = (others # << >>)
  /\ listed' = matching \o others
  /\ pc' = "done"
  /\ UNCHANGED <<targets, matching, others, otherIndex>>

Next == Split \/ DedupStep \/ Compose

Spec == Init /\ [][Next]_vars /\ WF_vars(Next)

-----------------------------------------------------------------------------
Labels(s) == {s[k] : k \in DOMAIN s}

(* Section 4.7 of the design: an other-toolchain candidate is dropped     *)
(* exactly when a same-toolchain candidate has its directory and name.    *)
(* The message lists the same-toolchain candidates, then every other one  *)
(* that is not dropped, each once and in file map order, so no candidate  *)
(* right after a dropped one is lost or kept by mistake.                  *)
CandidatesListed ==
  pc = "done" =>
    listed = SelectSeq(targets, LAMBDA t : t.toolchain = FromToolchain)
             \o SelectSeq(targets, LAMBDA t :
                  /\ t.toolchain # FromToolchain
                  /\ \A m \in Labels(targets) :
                       m.toolchain = FromToolchain => m.name # t.name)

=============================================================================
