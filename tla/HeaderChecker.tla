--------------------------- MODULE HeaderChecker ---------------------------
(***************************************************************************)
(* HeaderChecker::Run (src/gn/header_checker.cc): the main thread posts   *)
(* one DoWork task per (target, file) to a worker pool and waits on a     *)
(* condition variable until the outstanding-task count reaches zero;      *)
(* workers run CheckFile / CheckInclude, share the sharded dependency     *)
(* cache, and merge their errors into errors_ under errors_lock_.         *)
(*                                                                         *)
(* The target graph, the files and their includes are constants. Labels,  *)
(* paths and messages are abstracted: a label pattern list is the set of  *)
(* targets it matches, a path join is a lookup table, an Err is a record  *)
(* of its kind and where it was raised.                                   *)
(***************************************************************************)
EXTENDS Integers, Sequences, FiniteSets, SequencesExt

CONSTANTS
  Targets, Files, Dirs, Literals, Workers,
  NoFile,            \* the null SourceFile
  NoTask,            \* a worker with no task
  TargetOrder,       \* the `targets` vector given to the constructor
  ToCheck,           \* the `to_check` vector given to Run
  FileOrder,         \* std::map<SourceFile, ...> iteration order of Files
  Toolchain,         \* [Targets -> toolchains]
  IsBinary,          \* [Targets -> BOOLEAN]
  CheckIncludes,     \* [Targets -> BOOLEAN], the check_includes flag
  PublicDeps, PrivateDeps,       \* [Targets -> SUBSET Targets]
  Friends,           \* [Targets -> SUBSET Targets]: targets matched by friends()
  AllowCircular,     \* [Targets -> SUBSET Targets]: allow_circular_includes_from
  AllHeadersPublic,  \* [Targets -> BOOLEAN]
  Sources, PublicHeaders, ActionOutputs,   \* [Targets -> SUBSET Files]
  BuildsSwiftModule, \* [Targets -> BOOLEAN]
  SwiftBridge,       \* [Targets -> Files \cup {NoFile}]
  SwiftOutputs,      \* [Targets -> SUBSET Files]
  FileType,          \* [Files -> {"cpp", "h", "c", "m", "mm", "rc", "other"}]
  InOutputDir,       \* files under build_dir
  OnDisk,            \* files ReadFileToString can read
  FileDir,           \* [Files -> Dirs], InputFile::dir()
  IncludeDirs,       \* [Targets -> Seq(Dirs)], include_dirs of the target and its configs
  ResolveIn,         \* [Dirs \X Literals -> Files \cup {NoFile}], ResolveRelativeFile
  Includes,          \* [Files -> Seq([system : BOOLEAN, literal : Literals])]
  CheckGenerated, CheckSystem, ForceCheck  \* BOOLEAN flags

ASSUME NoFile \notin Files /\ NoTask \notin Targets \X Files
ASSUME ToSet(ToCheck) \subseteq ToSet(TargetOrder)

-----------------------------------------------------------------------------
(* AddTargetToFileMap (lines 261-318): files_to_public is written stage  *)
(* by stage (sources, public headers, Swift bridge header, Swift generated *)
(* headers, action outputs); a later stage overwrites is_public, and only *)
(* the last two set is_generated.                                         *)
FilesToPublic(t) ==
  LET dflt   == AllHeadersPublic[t]
      bridge == IF BuildsSwiftModule[t] /\ SwiftBridge[t] # NoFile
                  THEN {SwiftBridge[t]} ELSE {}
      swiftH == IF BuildsSwiftModule[t]
                  THEN {f \in SwiftOutputs[t] : FileType[f] = "h"} ELSE {}
      stages == << <<Sources[t], dflt>>, <<PublicHeaders[t], TRUE>>, <<bridge, dflt>>,
                   <<swiftH, TRUE>>, <<ActionOutputs[t], TRUE>> >>
      LastStage(f) == Max({i \in 1..Len(stages) : f \in stages[i][1]})
  IN  [f \in UNION {stages[i][1] : i \in 1..Len(stages)} |->
         [is_public    |-> stages[LastStage(f)][2],
          is_generated |-> f \in swiftH \cup ActionOutputs[t]]]

(* A FileMap built by calling AddTargetToFileMap for each target in order: *)
(* a file's TargetInfo list follows the order of the targets.             *)
FileMapOf(ts) ==
  LET ftp     == [t \in ToSet(ts) |-> FilesToPublic(t)]
      claimed == UNION {DOMAIN ftp[t] : t \in ToSet(ts)}
  IN  [f \in claimed |->
         LET owners == SelectSeq(ts, LAMBDA t : f \in DOMAIN ftp[t])
         IN  [i \in 1..Len(owners) |->
                [target |-> owners[i]] @@ ftp[owners[i]][f]]]

(* file_map_, built by the constructor (lines 172-183) and never changed *)
(* afterwards.                                                            *)
VARIABLE fileMap

(* HeaderChecker::SourceFileForInclude (lines 325-353): a quoted include  *)
(* is first tried in the including file's directory, then the include    *)
(* dirs in order; the first candidate that file_map_ knows wins.         *)
SourceFileForInclude(fm, inc, dirs, file) ==
  LET Known(d) == ResolveIn[<<d, inc.literal>>] \in DOMAIN fm
      hits     == SelectSeq(dirs, Known)
  IN  IF ~inc.system /\ Known(FileDir[file]) THEN ResolveIn[<<FileDir[file], inc.literal>>]
      ELSE IF hits # << >> THEN ResolveIn[<<hits[1], inc.literal>>]
      ELSE NoFile

(* The file kinds RunCheckOverFiles looks into (lines 211-215). *)
CheckedTypes == {"cpp", "h", "c", "m", "mm", "rc"}

(* The tasks RunCheckOverFiles (lines 205-236) posts, in posting order:   *)
(* files_to_check holds the binary targets of to_check (Run, lines        *)
(* 190-196); a file is skipped when any claim in file_map_ is generated.  *)
(* As in the code, force_check is not consulted.                         *)
TasksToPost(fm) ==
  LET toCheck == FileMapOf(SelectSeq(ToCheck, LAMBDA t : IsBinary[t]))
      Wanted(f) ==
        /\ f \in DOMAIN toCheck
        /\ FileType[f] \in CheckedTypes
        /\ CheckGenerated \/ \A i \in DOMAIN fm[f] : ~fm[f][i].is_generated
      TasksOf(f) ==
        LET cs == SelectSeq(toCheck[f], LAMBDA c : CheckIncludes[c.target])
        IN  [i \in 1..Len(cs) |-> <<cs[i].target, f>>]
  IN  FlattenSeq([k \in 1..Len(SelectSeq(FileOrder, Wanted)) |->
                    TasksOf(SelectSeq(FileOrder, Wanted)[k])])

(* Dependency classification that IsDependencyOf computes with its two    *)
(* walks; MCDependencyWalk checks the walk against these definitions.     *)
RECURSIVE PublicClosure(_)
PublicClosure(S) ==
  LET next == S \cup UNION {PublicDeps[t] : t \in S}
  IN  IF next = S THEN S ELSE PublicClosure(next)

RECURSIVE AnyClosure(_)
AnyClosure(S) ==
  LET next == S \cup UNION {PublicDeps[t] \cup PrivateDeps[t] : t \in S}
  IN  IF next = S THEN S ELSE AnyClosure(next)

Deps(t) == PublicDeps[t] \cup PrivateDeps[t]

(* search_for is reached from search_from by a permitted chain: any first *)
(* hop, then public deps only.                                           *)
PermittedDependency(for, from) == for \in PublicClosure(Deps(from))
AnyDependency(for, from) == for \in AnyClosure(Deps(from))

-----------------------------------------------------------------------------
VARIABLES
  mainPc,       \* the main thread's place in Run / RunCheckOverFiles
  toPost,       \* tasks the posting loop has still to post
  pool,         \* tasks posted to the WorkerPool and not yet started
  taskCount,    \* task_count_
  cvLock,       \* holder of task_count_lock_: "none", "main" or a worker
  errors,       \* errors_
  cache,        \* dependency_cache_: (search_for, search_from) -> DependencyState
  wpc,          \* each worker's place in DoWork
  task,         \* the (target, file) a worker is checking
  inc,          \* index of the include being checked
  header,       \* the resolved include_file of the include being checked
  claim,        \* index of the TargetInfo of header being considered
  lastErr,      \* last_error of CheckInclude: "none", "private" or "chain"
  foundDep,     \* found_dependency of CheckInclude
  memo,         \* no_dependency_cache of CheckFile
  localErrs     \* the errors vector of DoWork

(* The data members of HeaderChecker (header_checker.h, lines 300-352): *)
(* file_map_, task_count_ with task_count_lock_ and task_count_cv_,       *)
(* errors_, and the 64 shards of dependency_cache_ as one function; the   *)
(* workers' locals follow.                                                *)
mainVars == <<mainPc, toPost, pool, taskCount, cvLock>>
workerVars == <<wpc, task, inc, header, claim, lastErr, foundDep, memo, localErrs>>
vars == <<fileMap, mainVars, errors, cache, workerVars>>

States == {"none", "permitted", "nonpermitted", "notdep"}

Init ==
  /\ fileMap = FileMapOf(TargetOrder)
  /\ mainPc = "begin"
  /\ toPost = << >>
  /\ pool = << >>
  /\ taskCount = 0
  /\ cvLock = "none"
  /\ errors = << >>
  /\ cache = [p \in Targets \X Targets |-> "none"]
  /\ wpc = [w \in Workers |-> "idle"]
  /\ task = [w \in Workers |-> NoTask]
  /\ inc = [w \in Workers |-> 0]
  /\ header = [w \in Workers |-> NoFile]
  /\ claim = [w \in Workers |-> 0]
  /\ lastErr = [w \in Workers |-> "none"]
  /\ foundDep = [w \in Workers |-> FALSE]
  /\ memo = [w \in Workers |-> {}]
  /\ localErrs = [w \in Workers |-> << >>]

-----------------------------------------------------------------------------
(* Main thread. *)

(* Run builds files_to_check; RunCheckOverFiles holds one count for itself *)
(* while it posts.                                                        *)
BeginRun ==
  /\ mainPc = "begin"
  /\ mainPc' = "post"
  /\ toPost' = TasksToPost(fileMap)
  /\ taskCount' = 1
  /\ UNCHANGED <<fileMap, pool, cvLock, errors, cache, workerVars>>

(* Mutant of PostTask: the task is posted without task_count_.Increment(). *)
PostTaskUncounted ==
  /\ mainPc = "post"
  /\ toPost # << >>
  /\ pool' = Append(pool, Head(toPost))
  /\ toPost' = Tail(toPost)
  /\ UNCHANGED <<fileMap, mainPc, taskCount, cvLock, errors, cache, workerVars>>

PostTask ==
  /\ mainPc = "post"
  /\ toPost # << >>
  /\ taskCount' = taskCount + 1
  /\ pool' = Append(pool, Head(toPost))
  /\ toPost' = Tail(toPost)
  /\ UNCHANGED <<fileMap, mainPc, cvLock, errors, cache, workerVars>>

(* Posting done: drop the loop's own count (line 238). *)
EndPosting ==
  /\ mainPc = "post"
  /\ toPost = << >>
  /\ taskCount' = taskCount - 1
  /\ mainPc' = "lock"
  /\ UNCHANGED <<fileMap, toPost, pool, cvLock, errors, cache, workerVars>>

MainLock ==
  /\ mainPc = "lock"
  /\ cvLock = "none"
  /\ cvLock' = "main"
  /\ mainPc' = "check"
  /\ UNCHANGED <<fileMap, toPost, pool, taskCount, errors, cache, workerVars>>

(* while (!task_count_.IsZero()), under task_count_lock_. *)
MainCheck ==
  /\ mainPc = "check"
  /\ IF taskCount = 0
       THEN /\ mainPc' = "join"
            /\ cvLock' = "none"
       ELSE /\ mainPc' = "wait"
            /\ UNCHANGED cvLock
  /\ UNCHANGED <<fileMap, toPost, pool, taskCount, errors, cache, workerVars>>

(* task_count_cv_.wait releases the lock and blocks. *)
MainWait ==
  /\ mainPc = "wait"
  /\ cvLock' = "none"
  /\ mainPc' = "waiting"
  /\ UNCHANGED <<fileMap, toPost, pool, taskCount, errors, cache, workerVars>>

(* condition_variable::wait may also return without a notify_one; the    *)
(* while loop then re-checks the count.                                   *)
SpuriousWake ==
  /\ mainPc = "waiting"
  /\ mainPc' = "woken"
  /\ UNCHANGED <<fileMap, toPost, pool, taskCount, cvLock, errors, cache, workerVars>>

(* A notified wait re-acquires the lock before returning. *)
MainWake ==
  /\ mainPc = "woken"
  /\ cvLock = "none"
  /\ cvLock' = "main"
  /\ mainPc' = "check"
  /\ UNCHANGED <<fileMap, toPost, pool, taskCount, errors, cache, workerVars>>

(* RunCheckOverFiles returns: the WorkerPool destructor joins its threads, *)
(* then Run copies errors_ out.                                           *)
JoinPool ==
  /\ mainPc = "join"
  /\ pool = << >>
  /\ \A w \in Workers : wpc[w] = "idle"
  /\ mainPc' = "done"
  /\ UNCHANGED <<fileMap, toPost, pool, taskCount, cvLock, errors, cache, workerVars>>

-----------------------------------------------------------------------------
(* Worker threads: DoWork (lines 246-258) running CheckFile (355-415) and *)
(* CheckInclude (423-571).                                                *)

Owner(w) == task[w][1]
Claims(w) == fileMap[header[w]]
Claimed(w) == Claims(w)[claim[w]]

(* A worker takes the next posted task and begins CheckFile: a file in    *)
(* the output dir is skipped unless generated files are checked, and an   *)
(* unreadable file is an error unless it is in the output dir.           *)
Start(w) ==
  /\ wpc[w] = "idle"
  /\ pool # << >>
  /\ LET t == Head(pool)[1]
         f == Head(pool)[2]
         skip == (~CheckGenerated /\ f \in InOutputDir) \/ (f \notin OnDisk /\ f \in InOutputDir)
         missing == f \notin OnDisk
     IN  /\ wpc' = [wpc EXCEPT ![w] = IF skip THEN "dec" ELSE IF missing THEN "merge" ELSE "include"]
         /\ localErrs' = [localErrs EXCEPT ![w] =
              IF ~skip /\ missing
                THEN << [kind |-> "notfound", target |-> t, file |-> f, inc |-> 0] >>
                ELSE << >>]
  /\ pool' = Tail(pool)
  /\ task' = [task EXCEPT ![w] = Head(pool)]
  /\ inc' = [inc EXCEPT ![w] = 1]
  /\ memo' = [memo EXCEPT ![w] = {}]
  /\ UNCHANGED <<fileMap, toPost, mainPc, taskCount, cvLock, errors, cache,
                 header, claim, lastErr, foundDep>>

(* Mutant of EndOfIncludes: DoWork's test of CheckFile's result is       *)
(* inverted, so errors are merged only when there are none.               *)
EndOfIncludesInverted(w) ==
  /\ wpc[w] = "include"
  /\ inc[w] > Len(Includes[task[w][2]])
  /\ wpc' = [wpc EXCEPT ![w] = IF localErrs[w] = << >> THEN "merge" ELSE "dec"]
  /\ UNCHANGED <<fileMap, mainVars, errors, cache, task, inc, header, claim, lastErr,
                 foundDep, memo, localErrs>>

(* CheckFile's loop over the includes has ended: DoWork merges the errors *)
(* only when CheckFile reported new ones.                                *)
EndOfIncludes(w) ==
  /\ wpc[w] = "include"
  /\ inc[w] > Len(Includes[task[w][2]])
  /\ wpc' = [wpc EXCEPT ![w] = IF localErrs[w] = << >> THEN "dec" ELSE "merge"]
  /\ UNCHANGED <<fileMap, mainVars, errors, cache, task, inc, header, claim, lastErr,
                 foundDep, memo, localErrs>>

(* The next include: a system include is skipped unless check_system, an  *)
(* unresolved one is skipped, CheckInclude returns at once for a file    *)
(* unknown to file_map_ or unknown in the includer's toolchain; otherwise *)
(* CheckInclude starts on the file's TargetInfo list.                     *)
NextInclude(w) ==
  /\ wpc[w] = "include"
  /\ inc[w] <= Len(Includes[task[w][2]])
  /\ LET f == task[w][2]
         i == Includes[f][inc[w]]
         r == SourceFileForInclude(fileMap, i, IncludeDirs[Owner(w)], f)
         checked ==
           /\ ~(i.system /\ ~CheckSystem)
           /\ r # NoFile
           /\ r \in DOMAIN fileMap
           /\ \E k \in DOMAIN fileMap[r] : Toolchain[fileMap[r][k].target] = Toolchain[Owner(w)]
     IN  IF checked
           THEN /\ wpc' = [wpc EXCEPT ![w] = "claim"]
                /\ header' = [header EXCEPT ![w] = r]
                /\ claim' = [claim EXCEPT ![w] = 1]
                /\ UNCHANGED inc
           ELSE /\ inc' = [inc EXCEPT ![w] = @ + 1]
                /\ UNCHANGED <<wpc, header, claim>>
  /\ UNCHANGED <<fileMap, mainVars, errors, cache, task, lastErr, foundDep, memo, localErrs>>

(* CheckInclude returns: with no dependency found it reports the          *)
(* Unreachable error (MakeUnreachableError), otherwise last_error if set. *)
Finish(w, found, err) ==
  /\ localErrs' = [localErrs EXCEPT ![w] =
       IF ~found THEN Append(@, [kind |-> "unreachable", target |-> Owner(w),
                                 file |-> task[w][2], inc |-> inc[w]])
       ELSE IF err # "none" THEN Append(@, [kind |-> err, target |-> Owner(w),
                                            file |-> task[w][2], inc |-> inc[w]])
       ELSE @]
  /\ inc' = [inc EXCEPT ![w] = @ + 1]
  /\ wpc' = [wpc EXCEPT ![w] = "include"]
  /\ header' = [header EXCEPT ![w] = NoFile]
  /\ claim' = [claim EXCEPT ![w] = 0]
  /\ lastErr' = [lastErr EXCEPT ![w] = "none"]
  /\ foundDep' = [foundDep EXCEPT ![w] = FALSE]

(* The claim's target is not a dependency of the includer: the include is *)
(* allowed if the includer is in allow_circular_includes_from; otherwise  *)
(* the pair is remembered in no_dependency_cache unless it came from it.  *)
NotADependency(w, cached) ==
  LET to == Claimed(w).target IN
  IF Owner(w) \in AllowCircular[to]
    THEN /\ Finish(w, TRUE, "none")
         /\ UNCHANGED memo
    ELSE /\ memo' = IF cached THEN memo ELSE [memo EXCEPT ![w] = @ \cup {<<to, Owner(w)>>}]
         /\ claim' = [claim EXCEPT ![w] = @ + 1]
         /\ wpc' = [wpc EXCEPT ![w] = "claim"]
         /\ UNCHANGED <<inc, header, lastErr, foundDep, localErrs>>

(* FriendMatches (header_checker.cc 111-115): the friends() patterns of  *)
(* annotationOn match isMarkedFriend's label.                            *)
FriendMatches(annotationOn, isMarkedFriend) == isMarkedFriend \in Friends[annotationOn]

(* Mutant of Dependency: the pair also goes into no_dependency_cache     *)
(* (add_to_cache = false on line 497 dropped).                           *)
DependencyCached(w, permitted) ==
  LET c == Claimed(w)
      effectivelyPublic == c.is_public \/ FriendMatches(c.target, Owner(w))
  IN  /\ memo' = [memo EXCEPT ![w] = @ \cup {<<c.target, Owner(w)>>}]
      /\ IF effectivelyPublic /\ permitted
           THEN Finish(w, TRUE, "none")
           ELSE /\ lastErr' = [lastErr EXCEPT ![w] =
                                 IF ~effectivelyPublic THEN "private" ELSE "chain"]
                /\ foundDep' = [foundDep EXCEPT ![w] = TRUE]
                /\ claim' = [claim EXCEPT ![w] = @ + 1]
                /\ wpc' = [wpc EXCEPT ![w] = "claim"]
                /\ UNCHANGED <<inc, header, localErrs>>

(* The claim's target is a dependency: a public (or friend) header over a *)
(* permitted chain ends the check; anything else becomes last_error.     *)
Dependency(w, permitted) ==
  LET c == Claimed(w)
      effectivelyPublic == c.is_public \/ FriendMatches(c.target, Owner(w))
  IN  /\ UNCHANGED memo
      /\ IF effectivelyPublic /\ permitted
           THEN Finish(w, TRUE, "none")
           ELSE /\ lastErr' = [lastErr EXCEPT ![w] =
                                 IF ~effectivelyPublic THEN "private" ELSE "chain"]
                /\ foundDep' = [foundDep EXCEPT ![w] = TRUE]
                /\ claim' = [claim EXCEPT ![w] = @ + 1]
                /\ wpc' = [wpc EXCEPT ![w] = "claim"]
                /\ UNCHANGED <<inc, header, localErrs>>

(* Every TargetInfo has been considered. *)
ClaimsExhausted(w) ==
  /\ wpc[w] = "claim"
  /\ claim[w] > Len(Claims(w))
  /\ Finish(w, foundDep[w], lastErr[w])
  /\ UNCHANGED <<fileMap, mainVars, errors, cache, task, memo>>

(* Mutant of SelfClaim: a claim by the includer itself is passed over   *)
(* (continue instead of return).                                         *)
SelfClaimContinue(w) ==
  /\ wpc[w] = "claim"
  /\ claim[w] <= Len(Claims(w))
  /\ Claimed(w).target = Owner(w)
  /\ claim' = [claim EXCEPT ![w] = @ + 1]
  /\ UNCHANGED <<fileMap, mainVars, errors, cache, task, memo, wpc, inc, header, lastErr,
                 foundDep, localErrs>>

(* A target may always include its own headers: CheckInclude returns,     *)
(* dropping any last_error of an earlier claim.                           *)
SelfClaim(w) ==
  /\ wpc[w] = "claim"
  /\ claim[w] <= Len(Claims(w))
  /\ Claimed(w).target = Owner(w)
  /\ Finish(w, TRUE, "none")
  /\ UNCHANGED <<fileMap, mainVars, errors, cache, task, memo>>

(* The pair is in no_dependency_cache: IsDependencyOf is not called. *)
MemoClaim(w) ==
  /\ wpc[w] = "claim"
  /\ claim[w] <= Len(Claims(w))
  /\ Claimed(w).target # Owner(w)
  /\ <<Claimed(w).target, Owner(w)>> \in memo[w]
  /\ NotADependency(w, TRUE)
  /\ UNCHANGED <<fileMap, mainVars, errors, cache, task>>

(* IsDependencyOf reads the shard under its shared lock (lines 588-606):  *)
(* kNotADependency answers at once; any other state, or none, falls      *)
(* through to the walks because CheckInclude always asks for the chain.   *)
LookupClaim(w) ==
  /\ wpc[w] = "claim"
  /\ claim[w] <= Len(Claims(w))
  /\ Claimed(w).target # Owner(w)
  /\ <<Claimed(w).target, Owner(w)>> \notin memo[w]
  /\ IF cache[<<Claimed(w).target, Owner(w)>>] = "notdep"
       THEN NotADependency(w, FALSE)
       ELSE /\ wpc' = [wpc EXCEPT ![w] = "walk"]
            /\ UNCHANGED <<inc, header, claim, lastErr, foundDep, memo, localErrs>>
  /\ UNCHANGED <<fileMap, mainVars, errors, cache, task>>


(* With no lock held, the permitted walk and then the any-chain walk run;  *)
(* the outcome is stored under the shard's unique lock (lines 608-630).   *)
Walk(w) ==
  /\ wpc[w] = "walk"
  /\ LET to == Claimed(w).target
         permitted == PermittedDependency(to, Owner(w))
         any == AnyDependency(to, Owner(w))
     IN  /\ cache' = [cache EXCEPT ![<<to, Owner(w)>>] =
              IF permitted THEN "permitted" ELSE IF any THEN "nonpermitted" ELSE "notdep"]
         /\ IF any THEN Dependency(w, permitted) ELSE NotADependency(w, FALSE)
  /\ UNCHANGED <<fileMap, mainVars, errors, task>>

(* DoWork appends the task's errors to errors_ under errors_lock_. *)
Merge(w) ==
  /\ wpc[w] = "merge"
  /\ errors' = errors \o localErrs[w]
  /\ wpc' = [wpc EXCEPT ![w] = "dec"]
  /\ UNCHANGED <<fileMap, mainVars, cache, task, inc, header, claim, lastErr, foundDep, memo, localErrs>>

(* task_count_.Decrement(); the worker that brings it to zero goes on to  *)
(* signal the condition variable, the others finish the task.            *)
Dec(w) ==
  /\ wpc[w] = "dec"
  /\ taskCount' = taskCount - 1
  /\ wpc' = [wpc EXCEPT ![w] = IF taskCount - 1 = 0 THEN "notify" ELSE "idle"]
  /\ task' = [task EXCEPT ![w] = NoTask]
  /\ inc' = [inc EXCEPT ![w] = 0]
  /\ memo' = [memo EXCEPT ![w] = {}]
  /\ localErrs' = [localErrs EXCEPT ![w] = << >>]
  /\ UNCHANGED <<fileMap, mainPc, toPost, pool, cvLock, errors, cache, header, claim, lastErr, foundDep>>

(* Mutant of Notify: notify_one without taking task_count_lock_. *)
NotifyUnlocked(w) ==
  /\ wpc[w] = "notify"
  /\ mainPc' = IF mainPc = "waiting" THEN "woken" ELSE mainPc
  /\ wpc' = [wpc EXCEPT ![w] = "idle"]
  /\ UNCHANGED <<fileMap, toPost, pool, taskCount, cvLock, errors, cache, task, inc, header,
                 claim, lastErr, foundDep, memo, localErrs>>

(* Under task_count_lock_, notify_one: it wakes the main thread only if it *)
(* is blocked in wait at that moment.                                     *)
Notify(w) ==
  /\ wpc[w] = "notify"
  /\ cvLock = "none"
  /\ mainPc' = IF mainPc = "waiting" THEN "woken" ELSE mainPc
  /\ wpc' = [wpc EXCEPT ![w] = "idle"]
  /\ UNCHANGED <<fileMap, toPost, pool, taskCount, cvLock, errors, cache, task, inc, header,
                 claim, lastErr, foundDep, memo, localErrs>>

Main == BeginRun \/ PostTask \/ EndPosting \/ MainLock \/ MainCheck \/ MainWait
        \/ MainWake \/ JoinPool

Worker(w) ==
  \/ Start(w) \/ EndOfIncludes(w) \/ NextInclude(w)
  \/ ClaimsExhausted(w) \/ SelfClaim(w) \/ MemoClaim(w) \/ LookupClaim(w) \/ Walk(w)
  \/ Merge(w) \/ Dec(w) \/ Notify(w)

Next == Main \/ SpuriousWake \/ \E w \in Workers : Worker(w)

(* The pool's threads and the main thread are OS threads: each keeps      *)
(* running while it can. Nothing makes a spurious wake-up happen, so it   *)
(* gets no fairness.                                                      *)
Spec == Init /\ [][Next]_vars /\ WF_vars(Main) /\ \A w \in Workers : WF_vars(Worker(w))

-----------------------------------------------------------------------------
(* Reference definitions, from the contract in the header file's comments *)
(* and the comment above CheckInclude: what a complete run reports.       *)

(* The file map as the constructor builds it; fileMap always equals it. *)
FileMap0 == FileMapOf(TargetOrder)

(* Run's contract (header_checker.h, lines 63-73): every C-like file of  *)
(* each binary target in to_check is checked, including targets that opt *)
(* out with check_includes = false when force_check is set; files claimed *)
(* as generated are left out unless check_generated.                    *)
RefTasks ==
  { tf \in ToSet(ToCheck) \X Files :
      LET t == tf[1]  f == tf[2] IN
      /\ IsBinary[t]
      /\ f \in DOMAIN FilesToPublic(t)
      /\ FileType[f] \in CheckedTypes
      /\ CheckGenerated \/ \A i \in DOMAIN FileMap0[f] : ~FileMap0[f][i].is_generated
      /\ CheckIncludes[t] \/ ForceCheck }

(* A TargetInfo that makes the include legal: the includer itself, a      *)
(* dependency with an effectively public header over a permitted chain,   *)
(* or a non-dependency that allows circular includes from the includer.   *)
Admits(t, c) ==
  \/ c.target = t
  \/ /\ AnyDependency(c.target, t)
     /\ c.is_public \/ FriendMatches(c.target, t)
     /\ PermittedDependency(c.target, t)
  \/ ~AnyDependency(c.target, t) /\ t \in AllowCircular[c.target]

(* The kind of error an include reports: none when some claim admits it,  *)
(* "unreachable" when no claim is a dependency, else the diagnosis of the *)
(* last claim that is one.                                                *)
IncludeVerdict(t, f, k) ==
  LET i == Includes[f][k]
      r == SourceFileForInclude(FileMap0, i, IncludeDirs[t], f)
      cs == FileMap0[r]
      deps == {j \in DOMAIN cs : AnyDependency(cs[j].target, t)}
      last == cs[CHOOSE j \in deps : \A j2 \in deps : j2 <= j]
  IN  IF \/ i.system /\ ~CheckSystem
         \/ r = NoFile
         \/ \A j \in DOMAIN cs : Toolchain[cs[j].target] # Toolchain[t]
         \/ \E j \in DOMAIN cs : Admits(t, cs[j])
        THEN "none"
      ELSE IF deps = {} THEN "unreachable"
      ELSE IF ~(last.is_public \/ FriendMatches(last.target, t)) THEN "private"
      ELSE "chain"

RefErrors(t, f) ==
  IF (~CheckGenerated \/ f \notin OnDisk) /\ f \in InOutputDir THEN {}
  ELSE IF f \notin OnDisk THEN {[kind |-> "notfound", target |-> t, file |-> f, inc |-> 0]}
  ELSE {[kind |-> IncludeVerdict(t, f, k), target |-> t, file |-> f, inc |-> k] :
          k \in {k \in 1..Len(Includes[f]) : IncludeVerdict(t, f, k) # "none"}}

(* The errors of each task, computed once. *)
RefErrorsOf == [tf \in RefTasks |-> RefErrors(tf[1], tf[2])]

ExpectedErrors == UNION {RefErrorsOf[tf] : tf \in RefTasks}

RefState(for, from) ==
  IF PermittedDependency(for, from) THEN "permitted"
  ELSE IF AnyDependency(for, from) THEN "nonpermitted"
  ELSE "notdep"

-----------------------------------------------------------------------------
TypeOK ==
  /\ mainPc \in {"begin", "post", "lock", "check", "wait", "waiting", "woken", "join", "done"}
  /\ taskCount \in Nat
  /\ cvLock \in {"none", "main"} \cup Workers
  /\ cache \in [Targets \X Targets -> States]
  /\ wpc \in [Workers -> {"idle", "include", "claim", "walk", "merge", "dec", "notify"}]
  /\ task \in [Workers -> (Targets \X Files) \cup {NoTask}]
  /\ lastErr \in [Workers -> {"none", "private", "chain"}]
  /\ \A w \in Workers : memo[w] \subseteq Targets \X Targets

(* When Run returns, errors_ holds exactly the errors of every task the   *)
(* contract requires, each once, whatever order the workers ran in, which *)
(* worker filled the shared dependency cache first, and which claim of a  *)
(* multiply-claimed header was looked at first.                          *)
ErrorsComplete ==
  mainPc = "done" =>
    /\ ToSet(errors) = ExpectedErrors
    /\ Len(errors) = Cardinality(ExpectedErrors)


(* A pair in a worker's no_dependency_cache is neither a dependency nor   *)
(* allowed circular includes, so skipping IsDependencyOf for it on later  *)
(* includes of the same file never changes a verdict.                    *)
MemoSound ==
  \A w \in Workers : \A p \in memo[w] :
    ~AnyDependency(p[1], p[2]) /\ p[2] \notin AllowCircular[p[1]]

(* The main thread's wait on task_count_cv_ always ends: no wake-up is    *)
(* lost between its check of the count and its wait.                     *)
RunTerminates == <>(mainPc = "done")

-----------------------------------------------------------------------------
(* Refinement of HeaderCheckRun. A task is checked once its worker is    *)
(* past merging its errors: it has been posted, taken from the pool, and *)
(* no worker holds it in CheckFile or before Merge. errors_ is the set of *)
(* reported errors; Run has begun after BeginRun and returned at "done". *)
TasksInProgress == {task[w] : w \in {w \in Workers : wpc[w] \in {"include", "claim", "walk", "merge"}}}

(* The tasks RunCheckOverFiles posts; file_map_ never changes. *)
PostedTasks == ToSet(TasksToPost(FileMap0))

CheckedTasks ==
  IF mainPc = "begin" THEN {}
  ELSE PostedTasks \ (ToSet(toPost) \cup ToSet(pool) \cup TasksInProgress)

RunPhase == CASE mainPc = "begin" -> "idle" [] mainPc = "done" -> "returned"
                 [] OTHER -> "running"

Abstract == INSTANCE HeaderCheckRun
              WITH Tasks <- RefTasks, ErrorsOf <- LAMBDA tf : RefErrorsOf[tf],
                   phase <- RunPhase, checked <- CheckedTasks, reported <- ToSet(errors)

(* Run implements its contract step by step: the workers' interleaving   *)
(* is a sequence of atomic checks of the tasks the contract names, each   *)
(* adding exactly that task's errors when its worker merges them, and Run *)
(* returns only after the last one. The contract's fairness follows from *)
(* this and RunTerminates, since the abstract phase is "returned" exactly *)
(* when mainPc is "done".                                                 *)
RunRefines == Abstract!SafetySpec

=============================================================================
