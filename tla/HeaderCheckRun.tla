--------------------------- MODULE HeaderCheckRun ---------------------------
(***************************************************************************)
(* What HeaderChecker::Run promises (header_checker.h, lines 63-73), as   *)
(* an abstract specification: once Run starts, every file that must be    *)
(* checked is checked, each exactly once and in some order, the errors of *)
(* a check are reported all at once, and Run returns when every check is  *)
(* done, with the errors of all of them.                                  *)
(***************************************************************************)
EXTENDS FiniteSets

CONSTANTS
  Tasks,          \* the (target, file) pairs to check
  ErrorsOf(_)     \* the errors the check of a task reports

VARIABLES
  phase,          \* "idle" before Run, "running", "returned"
  checked,        \* the tasks already checked
  reported        \* the errors reported so far

vars == <<phase, checked, reported>>

Init ==
  /\ phase = "idle"
  /\ checked = {}
  /\ reported = {}

Begin ==
  /\ phase = "idle"
  /\ phase' = "running"
  /\ UNCHANGED <<checked, reported>>

Check(tf) ==
  /\ phase = "running"
  /\ tf \in Tasks \ checked
  /\ checked' = checked \cup {tf}
  /\ reported' = reported \cup ErrorsOf(tf)
  /\ UNCHANGED phase

Return ==
  /\ phase = "running"
  /\ checked = Tasks
  /\ phase' = "returned"
  /\ UNCHANGED <<checked, reported>>

Next == Begin \/ (\E tf \in Tasks : Check(tf)) \/ Return

(* The steps the contract allows, without its fairness. *)
SafetySpec == Init /\ [][Next]_vars

Spec == Init /\ [][Next]_vars /\ WF_vars(Begin) /\ WF_vars(Return)
        /\ \A tf \in Tasks : WF_vars(Check(tf))
=============================================================================
