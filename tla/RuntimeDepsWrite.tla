-------------------------- MODULE RuntimeDepsWrite --------------------------
(***************************************************************************)
(* WriteRuntimeDepsFilesIfNecessary (src/gn/runtime_deps.cc, lines        *)
(* 306-338) with CollectRuntimeDepsFromFlag (lines 130-200) and           *)
(* WriteRuntimeDepsFile (lines 202-218).                                  *)
(*                                                                         *)
(* The list file of --runtime-deps-list-file is read line by line; every  *)
(* line must name a target, and each target gets a file next to its      *)
(* output. Then one work item per file, and one per target that called   *)
(* write_runtime_deps(), is scheduled on g_scheduler's worker pool, and   *)
(* g_scheduler->Run() waits for all of them. A work item computes the     *)
(* target's runtime deps (RuntimeDeps checks their content; here the     *)
(* content of a target's file is the target itself) and writes them with *)
(* WriteToFileIfChanged, which may fail.                                  *)
(***************************************************************************)
EXTENDS Integers, Sequences, FiniteSets, SequencesExt

CONSTANTS
  Targets,        \* the resolved targets
  OutputType,     \* target->output_type()
  HasDepFile,     \* target->has_dependency_output_file()
  WriteOutput,    \* target->write_runtime_deps_output()
  Inputs,         \* records [flag, lines, wrt]: the switch, the list file, the
                  \* write_runtime_deps targets in scheduling order
  NoContent,      \* the content of a file that does not exist
  Stale,          \* the content a file kept from an earlier generation
  OldDisks        \* the output directories gn may find: functions from Files

(* A line of the list file: empty, a label that does not resolve, a label *)
(* of something that is not a target, or a target.                       *)
Lines == {"empty", "badlabel", "notarget"} \cup Targets

VARIABLES
  flag,          \* "none" (switch unset), "missing" (unreadable), "given"
  lines,         \* the list file's lines
  wrt,           \* g_scheduler->GetWriteRuntimeDepsTargets()
  pc,            \* "start", "lines", "schedule", "run", "done"
  i,             \* the line being read
  filesToWrite,  \* files_to_write: <<output file, target>> pairs
  jobs,          \* the scheduled work items, in scheduling order
  jstate,        \* each job's step: "queued", "compared", "finished"
  unchanged,     \* each compared job: the file already holds its content
  disk,          \* the content of each output file
  failed,        \* g_scheduler->FailWithError was called
  ret            \* the return value, "true" or "false"; "none" until it returns

inputs == <<flag, lines, wrt>>
vars == <<inputs, pc, i, filesToWrite, jobs, jstate, unchanged, disk, failed, ret>>

(* The runtime deps file of a listed target (lines 179-197): next to the  *)
(* first computed output of a shared library or loadable module, next to *)
(* the dependency output file, or in the target's obj dir.               *)
ListOutputOf(t) ==
  IF OutputType[t] \in {"shared_library", "loadable_module"} THEN <<"output0", t>>
  ELSE IF HasDepFile[t] THEN <<"depfile", t>>
  ELSE <<"objdir", t>>

Files == {ListOutputOf(t) : t \in Targets} \cup {WriteOutput[t] : t \in Targets}

Init ==
  /\ \E in \in Inputs : flag = in.flag /\ lines = in.lines /\ wrt = in.wrt
  /\ pc = "start"
  /\ i = 0
  /\ filesToWrite = << >>
  /\ jobs = << >>
  /\ jstate = << >>
  /\ unchanged = << >>
  /\ disk \in OldDisks
  /\ failed = FALSE
  /\ ret = "none"

(* CollectRuntimeDepsFromFlag's start (lines 134-152): no switch, nothing *)
(* to collect; an unreadable file is an error and the function returns.   *)
ReadListFile ==
  /\ pc = "start"
  /\ CASE flag = "none"    -> pc' = "schedule" /\ UNCHANGED <<i, ret>>
       [] flag = "missing" -> pc' = "done" /\ ret' = "false" /\ UNCHANGED i
       [] OTHER            -> pc' = "lines" /\ i' = 1 /\ UNCHANGED ret
  /\ UNCHANGED <<inputs, filesToWrite, jobs, jstate, unchanged, disk, failed>>

(* Mutant of NextLine: a bad line is skipped (continue instead of return). *)
NextLineSkipBad ==
  /\ pc = "lines"
  /\ i <= Len(lines)
  /\ i' = i + 1
  /\ filesToWrite' = IF lines[i] \in Targets
                       THEN Append(filesToWrite, <<ListOutputOf(lines[i]), lines[i]>>)
                       ELSE filesToWrite
  /\ UNCHANGED <<inputs, pc, jobs, jstate, unchanged, disk, failed, ret>>

(* One line of the list file (lines 155-198): an empty line is skipped;  *)
(* a label that does not resolve, or names no target, is an error and    *)
(* the function returns at once, dropping files_to_write; otherwise the  *)
(* target's file is appended.                                             *)
NextLine ==
  /\ pc = "lines"
  /\ i <= Len(lines)
  /\ IF lines[i] \in {"badlabel", "notarget"}
       THEN pc' = "done" /\ ret' = "false" /\ UNCHANGED <<i, filesToWrite>>
       ELSE /\ i' = i + 1
            /\ filesToWrite' = IF lines[i] \in Targets
                                 THEN Append(filesToWrite, <<ListOutputOf(lines[i]), lines[i]>>)
                                 ELSE filesToWrite
            /\ UNCHANGED <<pc, ret>>
  /\ UNCHANGED <<inputs, jobs, jstate, unchanged, disk, failed>>

(* Mutant of EndOfList: the loop runs one line too far. *)
EndOfListLate ==
  /\ pc = "lines"
  /\ i > Len(lines) + 1
  /\ pc' = "schedule"
  /\ UNCHANGED <<inputs, i, filesToWrite, jobs, jstate, unchanged, disk, failed, ret>>

(* The loop over the lines ends (line 199). *)
EndOfList ==
  /\ pc = "lines"
  /\ i > Len(lines)
  /\ pc' = "schedule"
  /\ UNCHANGED <<inputs, i, filesToWrite, jobs, jstate, unchanged, disk, failed, ret>>

(* The two loops of ScheduleWork (lines 315-335): one job per collected  *)
(* file, then one per write_runtime_deps target, at its own output.      *)
Schedule ==
  /\ pc = "schedule"
  /\ jobs' = filesToWrite \o [k \in 1..Len(wrt) |-> <<WriteOutput[wrt[k]], wrt[k]>>]
  /\ jstate' = [k \in 1..Len(jobs') |-> "queued"]
  /\ unchanged' = [k \in 1..Len(jobs') |-> FALSE]
  /\ pc' = "run"
  /\ UNCHANGED <<inputs, i, filesToWrite, disk, failed, ret>>

(* A worker runs job k: WriteRuntimeDepsFile streams the runtime deps and *)
(* WriteToFileIfChanged compares them with the file on disk.             *)
Compare(k) ==
  /\ jstate[k] = "queued"
  /\ jstate' = [jstate EXCEPT ![k] = "compared"]
  /\ unchanged' = [unchanged EXCEPT ![k] = (disk[jobs[k][1]] = jobs[k][2])]
  /\ UNCHANGED <<inputs, pc, i, filesToWrite, jobs, disk, failed, ret>>

(* Mutant of Write: a file that exists is never rewritten. *)
WriteIfMissing(k) ==
  /\ jstate[k] = "compared"
  /\ jstate' = [jstate EXCEPT ![k] = "finished"]
  /\ \/ (unchanged[k] \/ disk[jobs[k][1]] # NoContent)
        /\ UNCHANGED <<disk, failed>>
     \/ ~unchanged[k] /\ disk[jobs[k][1]] = NoContent
        /\ disk' = [disk EXCEPT ![jobs[k][1]] = jobs[k][2]]
        /\ UNCHANGED failed
  /\ UNCHANGED <<inputs, pc, i, filesToWrite, jobs, unchanged, ret>>

(* The file is left alone when its content is the same; otherwise it is  *)
(* written, or the write fails and the job calls FailWithError (lines    *)
(* 319-322 and 330-333).                                                 *)
Write(k) ==
  /\ jstate[k] = "compared"
  /\ jstate' = [jstate EXCEPT ![k] = "finished"]
  /\ \/ unchanged[k] /\ UNCHANGED <<disk, failed>>
     \/ ~unchanged[k] /\ disk' = [disk EXCEPT ![jobs[k][1]] = jobs[k][2]] /\ UNCHANGED failed
     \/ ~unchanged[k] /\ failed' = TRUE /\ UNCHANGED disk
  /\ UNCHANGED <<inputs, pc, i, filesToWrite, jobs, unchanged, ret>>

(* Mutant of Finish: Run's result ignores FailWithError. *)
FinishIgnoringFailure ==
  /\ pc = "run"
  /\ \A k \in DOMAIN jobs : jstate[k] = "finished"
  /\ pc' = "done"
  /\ ret' = "true"
  /\ UNCHANGED <<inputs, i, filesToWrite, jobs, jstate, unchanged, disk, failed>>

(* g_scheduler->Run() (line 337) returns once every job has finished, or *)
(* as soon as one has failed, with false exactly when one failed.        *)
Finish ==
  /\ pc = "run"
  /\ failed \/ \A k \in DOMAIN jobs : jstate[k] = "finished"
  /\ pc' = "done"
  /\ ret' = IF failed THEN "false" ELSE "true"
  /\ UNCHANGED <<inputs, i, filesToWrite, jobs, jstate, unchanged, disk, failed>>

Job(k) == Compare(k) \/ Write(k)

Next ==
  \/ ReadListFile \/ NextLine \/ EndOfList \/ Schedule \/ Finish
  \/ \E k \in DOMAIN jobs : Job(k)

(* The main thread and the scheduler's workers keep running while they   *)
(* can.                                                                   *)
Spec == Init /\ [][Next]_vars /\ WF_vars(ReadListFile \/ NextLine \/ EndOfList \/ Schedule \/ Finish)
        /\ WF_vars(\E k \in DOMAIN jobs : Job(k))

-----------------------------------------------------------------------------
(* The list file cannot be used: --runtime-deps-list-file names a file   *)
(* that cannot be read, or one of its lines is not a target.             *)
ListError ==
  \/ flag = "missing"
  \/ flag = "given" /\ \E k \in 1..Len(lines) : lines[k] \in {"badlabel", "notarget"}

(* The files and contents a successful run must produce: one per target *)
(* of the list file and one per write_runtime_deps target.               *)
Expected ==
  {<<ListOutputOf(t), t>> : t \in {t \in Targets : flag = "given" /\ t \in ToSet(lines)}}
  \cup {<<WriteOutput[t], t>> : t \in ToSet(wrt)}

(* A list file with a bad line anywhere writes nothing: the files of the *)
(* lines before it, and the write_runtime_deps files, are not scheduled, *)
(* and generation fails.                                                  *)
NothingWrittenOnListError ==
  ListError => jobs = << >> /\ ret \in {"none", "false"}

(* When Run reports success, every file holds the runtime deps of its   *)
(* target, including files that already existed with other content and  *)
(* files scheduled twice.                                                *)
FilesHoldTheirDeps ==
  ret = "true" => \A p \in Expected : disk[p[1]] = p[2]

(* Generation fails exactly when the list file is bad or a write failed. *)
ResultMeansNoFailure ==
  ret # "none" => ((ret = "true") = ~(ListError \/ failed))

(* Generation always ends: the list is read to its end or its first bad  *)
(* line, and every job is run.                                           *)
Terminates == <>(ret # "none")
====
