# TLA+ models of gn's header checker and neighbours

This directory holds TLA+ models of the parts of `gn` (the sources under
`src/src/`) that TLC can explore. It also holds the TLC configurations that
check them. The header checker (`gn/header_checker.{h,cc}`) is the one
concurrent component in these sources, and it is modelled first and in the
most detail.

## The system

`src/src` holds these parts:

| Part | Files | What it does |
|---|---|---|
| Header checker | `gn/header_checker.{h,cc}` | `gn check`: checks that every `#include` of a checked file names a header the including target may use. It runs on a worker pool with a shared dependency cache. |
| Runtime deps | `gn/runtime_deps.cc` | Collects the runtime dependencies of a target with a recursive walk and a seen-set. Reads the `--runtime-deps-list-file` and writes one file per listed target and per `write_runtime_deps` target, as jobs on the scheduler's workers. |
| Ninja writers | `gn/ninja_c_binary_target_writer.cc`, `gn/ninja_module_writer_util.{h,cc}` | Write the ninja rules of C/C++ targets, including module dependencies (de-duplicated by pcm, then sorted). |
| SHA-256 | `base/sha2.{h,cc}` | Hashing. |
| `len()` | `gn/function_len.cc` | The `len` builtin of the build language. |
| Variable help | `gn/variables.cc` | Help texts of the built-in variables. |
| SysInfo | `util/sys_info.h` | Host queries. |
| Unit tests | `*_unittest.cc` | Read as statements of intended behaviour. |

### How the header checker works

- **Constructor.** It builds `file_map_` by calling `AddTargetToFileMap` for
  every target. The result maps each file to the `TargetInfo` list of the
  targets that claim it, each entry with `is_public` and `is_generated`.
  `file_map_` is never changed afterwards.
- **`Run`.** It builds the same kind of map for the binary targets of
  `to_check`, then calls `RunCheckOverFiles`. That function:
  - posts one task per (target, file) on a `WorkerPool`;
  - counts the tasks in `task_count_`, holding one count itself while it
    posts;
  - waits on `task_count_cv_` under `task_count_lock_` until the count
    reaches zero.
- **Each task (`DoWork`).** It runs `CheckFile`, which:
  - reads the file;
  - resolves each include (`SourceFileForInclude`);
  - calls `CheckInclude`, which walks the header's `TargetInfo` list.

  `DoWork` then appends the file's errors to `errors_` under `errors_lock_`.
  It decrements the count, and the worker that brings it to zero notifies
  the main thread.
- **`CheckInclude`.** For each claim it asks `IsDependencyOf(to, from)`,
  skipping pairs already in the file's `no_dependency_cache`.
  `IsDependencyOf`:
  - reads `dependency_cache_` under a shard's shared lock;
  - answers at once only for `kNotADependency`;
  - otherwise, with no lock held, runs a breadth-first walk requiring a
    permitted chain (any first hop, then public deps only), then a walk
    allowing any chain;
  - stores the outcome under the shard's unique lock.

## Modules

| Module | Models | Source |
|---|---|---|
| `DependencyWalk` | The BFS of `IsDependencyOf(search_for, search_from, require_permitted, chain)` one pop at a time, with `BreadcrumbTable::Insert` and `GetLink` and the chain reconstruction. | header_checker.cc 131-168, 633-695 |
| `HeaderChecker` | The whole of `Run`: the file maps, the posting loop, the task count and condition variable, and each worker's `DoWork`/`CheckFile`/`CheckInclude`/`IsDependencyOf` steps over the shared cache and its own `no_dependency_cache`. `FriendMatches` is its own operator. | header_checker.cc 111-115, 172-630 |
| `HeaderCheckRun` | The contract of `Run` (header_checker.h 63-73) as an abstract specification: `Begin`, one atomic `Check(tf)` per task that adds that task's errors, and `Return` once every task is checked. | header_checker.h 63-73, header_checker.cc 187-251 |
| `RuntimeDeps` | `RecursiveCollectRuntimeDeps` as a RECURSIVE operator over a `seen_targets` record, and `ComputeRuntimeDeps` as the one action that calls it on the root. | runtime_deps.cc 36-112, 291-304 |
| `NinjaCBinaryTargetWriter` | `NinjaCBinaryTargetWriter::Run` for one C/C++ target, one action per phase and one per source, with the build lines abstracted to edges. | ninja_c_binary_target_writer.cc 78-132, 144-242, 243-554, 555-743, 778-837 |
| `Sha256` | `base::Sha256`: the loop over 64-byte chunks as `UpdateChunk`, and `Finalize` with its one or two padded chunks, as actions; `Update`, the message schedule, the 64 rounds and the round functions as operators. | sha2.cc 25-181 |
| `RuntimeDepsWrite` | `CollectRuntimeDepsFromFlag` one line per step, then `WriteRuntimeDepsFilesIfNecessary`: the scheduled jobs, each comparing and then writing its file, and `Run`'s result. | runtime_deps.cc 130-218, 306-338 |
| `UnreachableError` | The candidate list of `MakeUnreachableError`: the split by toolchain, the erase loop over `other_index`, and the choice to show toolchains. | header_checker.cc 104-107, 696-757 |
| `ModuleWriterUtil` | The shared `GetModuleDepsInformation` as a pure operator: `add_if_new` as a fold step, then the sort by pcm path. | ninja_module_writer_util.cc 16-78 |
| `MCDependencyWalk`, `MCHeaderChecker`, `MCRuntimeDeps`, `MCRuntimeDepsWrite`, `MCNinjaCBinaryTargetWriter`, `MCSha256`, `MCUnreachableError` | The constants for TLC. `MCNinjaCBinaryTargetWriter` also instantiates `ModuleWriterUtil` and holds `SharedUtilAgrees`. `MCSha256` also holds the unit test's expected digests and `DigestMatchesTests`. | |

### DependencyWalk

The state is the walk's locals:

- `workQueue`, a sequence of `ChainLink` records;
- `breadcrumbs`, a function from targets to links, `NullLink` when absent;
- `firstTime`, `chain` and `result`.

The graph and the arguments are chosen in `Init`. The actions are:

- `PopFound`: the front link is `search_for`, and the chain is rebuilt by
  the recursive `ChainBack`;
- `Expand`: one iteration of the loop body;
- `Exhausted`: the queue is empty, and the walk returns false.

The order in which a target declares its deps is not an input. `Expand`
chooses the order of the newly seen public deps, then of the private deps,
with `SetToSeqs`. Each target is expanded at most once, so every declared
order is covered.

`GetDependencyChainPublicError` turns a found chain into the lines of the
"not public" error: one line per link from the root down, each with the
arrow of `ChainArrow`. The arrow says `[private]` when the link it leads to
is not public, but the last link's arrow is always plain, as line 92 writes
it. `NonPublicChainShown` checks the text that results when a walk that
allows any chain found one and no permitted chain exists, which is exactly
the case `CheckInclude` reports with this text.

### HeaderChecker

**Constants.** The targets, files, include lists and all per-target
attributes are constants: deps, friends, `allow_circular_includes_from`,
sources, public headers, action and Swift outputs, toolchain and include
dirs. So are the `check_generated`, `check_system` and `force_check` flags.
Directory resolution is abstracted to a table `ResolveIn[dir, literal]`.

**Main thread.** It moves through `BeginRun`, `PostTask`*, `EndPosting`,
`MainLock`, `MainCheck`, `MainWait`, `MainWake` and `JoinPool`.
`SpuriousWake` is the return of `wait` without a notify.

**Workers.** Each worker has a program counter `wpc` and the locals of
`DoWork`, `CheckFile` and `CheckInclude`:

- `task`, `inc` (the include index), `header` and `claim` (the index in the
  header's `TargetInfo` list);
- `lastErr`, `foundDep`, `memo` (`no_dependency_cache`) and `localErrs`.

The worker actions are:

- `Start` and `EndOfIncludes`: the beginning and end of a file;
- `NextInclude`: one include, with every early return of `CheckFile` and
  `CheckInclude`;
- `SelfClaim`, `MemoClaim`, `LookupClaim`, `Walk` and `ClaimsExhausted`:
  one claim each, with `Dependency`, `NotADependency` and `Finish` as the
  shared tails;
- `Merge`, `Dec` and `Notify`: the end of `DoWork`.

**Walks and cache.** In `Walk`, the two BFS walks are replaced by their
results:

- `PermittedDependency` is membership in the public closure of the
  source's deps;
- `AnyDependency` is membership in the closure over all deps.

`DependencyWalk` checks that the BFS computes exactly these. The 64 shards
of the cache are one function from (search_for, search_from) pairs to
`DependencyState`. Shard locks only make each read or store atomic, and
each store is one step. A cached permitted or non-permitted state does not
end the lookup: `CheckInclude` always wants the chain, so the pair is
walked again (the comment at line 604 says so), and two workers may walk
the same pair at once. Since `Walk` stores the state it computes, a wrong
cached state could only come from a wrong walk, so there is no separate
cache property. A wrong walk, or a wrong `kNotADependency` answer
reused by the other worker, shows as a wrong error list in
`ErrorsComplete`.

**Refinement.** `HeaderChecker` instantiates `HeaderCheckRun` as
`Abstract` with this mapping:

- `Tasks` is `RefTasks`, and `ErrorsOf(tf)` is the contract's errors of the
  task (`RefErrorsOf`);
- `phase` is `"idle"` before `BeginRun`, `"returned"` at `mainPc = "done"`,
  and `"running"` otherwise;
- `checked` is the set of posted tasks that are no longer to post, in the
  pool, or held by a worker before or in `Merge`;
- `reported` is the set of entries of `errors`.

`RunRefines` is `Abstract!SafetySpec`: every concrete step is a contract
step or leaves the mapped state unchanged. The contract's fairness is not
checked through the mapping, because TLC would have to evaluate `ENABLED`
of the abstract actions over the concrete state. It follows from
`RunRefines` and `RunTerminates`, since `phase` is `"returned"` exactly when
`mainPc` is `"done"` and `Return` requires every task to be checked.

### RuntimeDeps

The graph is the state: `outputType`, `dataDeps` and `linkedDeps` (the
public and private deps, in declared order), chosen in `Init` from the
constant `Inputs` (`InitFrom`), and the `root`. `Compute` sets `result` to the sequence
of files `ComputeRuntimeDeps(root)` returns. A file is a tagged pair:
`<<"runtime", t>>` (the runtime outputs of an executable, shared library or
loadable module), `<<"data", t>>`, `<<"output", t>>` (action, action_foreach
or copy outputs, only when t is a data dep) and `<<"bundle", t>>`. Path
rebasing (`SourceAsOutputFile`) only spells a file differently, so it is left
out.

`Collect(t, isData, st)` follows the function line for line: the
`try_emplace` test and its two early returns, the flag raised on a revisit,
the own files (`OwnFiles`), the data deps walked as data deps with
`FoldLeft`, the bundle root and early return of `create_bundle`, and the
linked deps that `Followed` keeps (no executables, no shared libraries of an
action).

The reference, `RuntimeFiles`, is the help text's definition: the files of
every (target, reached-as-data) pair in the closure of the reach relation.
It is computed without `seen_targets`, so it does not depend on the order
in which deps are visited.

`StreamRuntimeDeps` is the content of a runtime deps file (lines 116-128):
the same walk from the target, again as a regular dep.
`FirstLineIsMainOutput` states the `write_runtime_deps` help text: the
first line of the file is the target's main output (`MainOutput`). It is
checked in a violation run; see the findings.

### RuntimeDepsWrite

The inputs are `flag` (switch unset, file unreadable, or given), the list
file's `lines` and `wrt`, the targets that called `write_runtime_deps`.
A line is empty, a label that does not resolve, a label of a non-target, or
a target. `ReadListFile` and `NextLine` follow `CollectRuntimeDepsFromFlag`:
an unreadable file or a bad line returns false at once, dropping
`filesToWrite`; a target's file goes where lines 179-197 put it
(`ListOutputOf`). `Schedule` is the two `ScheduleWork` loops. Each job is
one worker's `WriteRuntimeDepsFile` in two steps: `Compare` reads the file on
`disk`, and `Write` keeps it when equal, writes it, or fails and calls
`FailWithError`. The content of a file is the target whose deps it holds;
what those deps are is `RuntimeDeps`' subject. `WriteOutput` gives the
path of each `write_runtime_deps` output and `ListOutputOf` the path of
each listed target's file, so two jobs may name one path. The scheduler and
`WriteToFileIfChanged` are not under `src/`. The model assumes what their
use here implies: jobs run concurrently on workers, and `Run` returns when
every job has finished, or as soon as one has failed, with false exactly
when one failed (`Finish`).

### NinjaCBinaryTargetWriter

The target (`tgt`) is chosen in `Init`: its type, its sources in order, its
precompiled header setting and the PCH kind of its toolchain's C and C++
tools, its module deps and its linkable deps. What the code reads off a
file name is a table in the MC module: the kind of a source, the first
output of its tool, the pcm of a module dep, the order of pcm paths, the
PCH output of a tool, and the link and dependency outputs of a library.
The ninja text is abstracted to `edges`, a sequence of build lines with a
rule, outputs, explicit and implicit inputs, and the `solibs` and `rlibs`
variables of a link line.

Run hands every compile line, PCH compiles included, the target's input
deps as implicit deps and its order-only deps after `||` (`CompileEdge`);
the link line gets the input deps too. The stamps themselves are written by
the base writer, which is not in this repository; their outputs are the
constants `InputDeps` and `OrderOnlyDeps`.

The actions follow `Run`:

- `WriteCompilerVars`: `GetModuleDepsInformation` (the own module first,
  then each module dep with a .modulemap, first pcm wins, sorted by path)
  and the `module_deps` variables;
- `WritePCHCommands`: the C then the C++ tool. An MSVC PCH object goes to
  `pchObjFiles`, a GCC .gch to `pchOtherFiles`, and each gets a compile of
  the precompiled source;
- `WriteSource`: one source. It is skipped (a .def kept in `otherFiles`) when
  it has no output. It gets a compile line with the PCH deps of its own
  tool and every module pcm but its own output, unless its tool is none (an
  object file). Its output is an object unless it is a .modulemap;
- `EndSources`: the MSVC PCH objects are appended, and a duplicate object
  name ends `Run` (`pc = "failed"`);
- `WriteSwiftSources`: instead of `WriteSource`, when a source is Swift.
  One compile line for all sources, whose outputs are the objects and the
  target's .swiftmodule; only the objects go to `objFiles`. The line is
  ordered after the order-only deps, then after each swiftmodule dep's
  dependency output (`tgt.swiftDeps`), each once (`UniqueAppend`, the
  `UniqueVector` of line 531);
- `WriteSourceSetStamp` or `WriteLinkerStuff`: the stamp over the objects
  (over all Swift outputs for a Swift target), or the link line with the
  objects and the extra objects of source-set deps (`tgt.extraObjs`), the
  libraries, the .TOC of shared libraries, the first .def file, the
  libraries named by path (`tgt.libPaths`), the frameworks that have a
  dependency output (`tgt.frameworks`), the input deps and, for a final
  target, the Rust libraries and the Swift modules (`SwiftModules`: each
  swiftmodule dep's, then its own). An executable or a shared library also
  lists the Swift modules in its `swiftmodules` variable. The
  non-linkable deps (`tgt.nonLinkable`) that have a dependency output are
  order-only deps of the stamp, and of the link line unless
  `tgt.asyncNonLinkable` (the `--async-non-linkable-deps` switch), where
  they are validations instead.

### Sha256

**Words.** TLC's integers are narrower than 32 bits. A `uint32_t` is
therefore the pair `<<hi, lo>>` of its 16-bit halves:

- `WordXor` and `WordAnd` apply `^^` and `&` of the `Bitwise` module to
  each half, and `WordNot` is `~`;
- `WordAdd` carries from the low half into the high half and drops the
  carry out of the high half, which is the `uint32_t` wrap-around;
- `RotateRight` and `ShiftRight` move bits between the halves.

**Byte order.** `Update` loads the chunk with `memcpy` and, on a
little-endian CPU, `ByteSwap`s each word. `Finalize` does the same on the
way out. On either byte order the net effect is a big-endian load and
store, which is what `BigEndianWord` and `Digest` say.

**State.** The variables are the argument (`message`), the part the loop
has not yet handed to `Update` (`str`), `hash_` (`hash`) and the result.
`fed` records every chunk passed to `Update`, in order. It is an
observation, not state of the code.

**Evaluation.** The rounds and the schedule are built by appending to a
sequence, one word or one set of working variables at a time. This keeps
TLC's evaluation strict.

### UnreachableError

The state is the locals of `MakeUnreachableError`: the claims of the
include file in file map order (`targets`, chosen in `Init`), the two
vectors `matching` and `others`, `otherIndex`, `includeToolchain` and the
labels the message lists (`listed`). A label is a record of a name and a
toolchain; the text of the message is left out. `Split` is lines 703-710,
`DedupStep` one iteration of the erase loop, with the `other_index--` that
revisits the position after an erase, and `Compose` the decision to show
toolchains and the list. `CheckInclude` calls the function only when some
claim is in the including target's toolchain (lines 459-467), so
`matching` is never empty.

## Runs

| Run | Config | Expect | What it shows |
|---|---|---|---|
| dependency_walk | `MCDependencyWalk.cfg` | pass | On every acyclic graph of 4 targets (3^6 edge labellings), for every source, target, mode and declared dep order, the walk answers correctly. `WalkComplete`: "found" exactly when a path of the requested kind exists. `WalkSound`: the chain is such a path, its flags are its edge kinds, and its last link is public. `WalkShortest`: the chain is a shortest one. `NonPublicChainShown`: when only a non-permitted chain exists, the error lists at least three links from the root to the include's target, and `[private]` marks exactly the arrows into non-public links, the last arrow excepted. |
| header_checker | `MCHeaderChecker.cfg` | pass | Two workers run 9 tasks. `ErrorsComplete`: the errors when `Run` returns are exactly those the contract requires, each once. `MemoSound`: no memoised pair is a dependency or allows circular includes. `RunTerminates`: the main thread always returns. `RunRefines`: the two workers' interleaving implements the contract `HeaderCheckRun`. A task's errors all appear in `errors_` in the one step that completes its check, never partly and never for a task that is not checked, and `Run` returns only when every task the contract names has been checked. |
| header_checker_flags | `MCHeaderCheckerFlags.cfg` | pass | `ErrorsComplete` and `MemoSound` again, with `check_generated`, `check_system` and a friend annotation, which take branches of `CheckFile` and `CheckInclude` the default run skips. The task counting and the cache do not depend on these flags, so `TypeOK` and `RunTerminates` are checked only in `header_checker`. |

| force_check | `MCHeaderCheckerForce.cfg` | violation | With `force_check` the opted-out target `o` is still not checked. See the findings. |
| runtime_deps | `MCRuntimeDeps.cfg` | pass | On every acyclic graph of 3 targets, every output type and every order of deps and data_deps, and on graphs of 4 targets where a target is reached three times, `RuntimeDepsComplete`: the result holds exactly the runtime files of the help text. `VisitedAtMostTwice`: no file is reported more than twice, and no action output more than once. |
| c_binary_writer | `MCNinjaCBinaryTargetWriter.cfg` | pass | For every target of the bounds below: `BuildGraphAcyclic`, the build lines form no cycle (a .modulemap compile does not depend on its own pcm). `PchDepsOwnTool`: each compile depends on exactly its own tool's precompiled headers. `ObjectsLinkedOnce`: the writer fails exactly on a duplicate object name, and otherwise the stamp or link line lists every object once. `LinkDepsComplete`: each library dep is linked as its kind requires. `NonLinkableDepsOrderOnly`: the non-linkable deps with an output are exactly the order-only deps or validations of the last line, never one of its inputs, and validations only on a link line with the async switch. `InputsOrderEveryCompile`: every compile, PCH compiles included, depends on the input deps and is ordered after the order-only deps, and the order-only deps are never a real input. `ModuleDepsExact`: the module list names each pcm once, in path order, and only the target's own module is `isSelf`. `SharedUtilAgrees`: the writer's copy of `GetModuleDepsInformation` gives the same list as the shared copy in `ninja_module_writer_util.cc`. `LinkReadsAreDeps`: a final target depends on every Swift module it links, its own included; only an executable or a shared library lists them in `swiftmodules`; a target that is not final names no dep's module; libraries by path and frameworks with an output are implicit deps, and extra objects are inputs. |
| sha256 | `MCSha256.cfg` | pass | `DigestMatchesTests`: for the strings of `Sha2Test.Basic`, all but the million-byte one, the result is the digest the test expects. `PaddedAsFips`: for those strings and for every length 0..129 of a string of `'U'`s, the chunks passed to `Update` are exactly the FIPS 180-4 padded message. |
| runtime_deps_write | `MCRuntimeDepsWrite.cfg` | pass | `NothingWrittenOnListError`: a bad line anywhere schedules nothing and returns false. `FilesHoldTheirDeps`: when the function returns true every file holds its target's deps, stale files included and a target listed twice. `ResultMeansNoFailure`: the result is false exactly when the list or a write failed. `Terminates`: it always returns. |
| runtime_deps_first_line | `MCRuntimeDepsFirstLine.cfg` | violation | The first line of an action root's file is not its output. See the findings. |
| runtime_deps_write_collide | `MCRuntimeDepsWriteCollide.cfg` | violation | `FilesHoldTheirDeps` with a `write_runtime_deps` output at the path of a listed target's file: `Run` returns true while that file holds the other target's deps. See the findings. |
| unreachable_error | `MCUnreachableError.cfg` | pass | `CandidatesListed`: the message lists the same-toolchain candidates and then exactly the other-toolchain ones whose name no same-toolchain candidate has, in order, even when two erased candidates are adjacent. |

The reference for `ErrorsComplete` (`RefTasks`, `IncludeVerdict`) is written
from the header file's contract and the comments above `CheckInclude`. It is
not written from the code's loop. It says:

- which files are checked;
- that an include is legal when some claim admits it;
- that otherwise the error is "unreachable" when no claim is a dependency,
  and else the diagnosis of the last claim that is one.

Every property of a passing run has a mutant in `PROJECT.json`: a plausible
slip in the code, which TLC shows breaks it.

### Bounds

`MCHeaderChecker` is one build that has every case of `CheckInclude` (the
comment at its top lists them):

- an own header;
- a direct private dep's public header;
- a header two hops down a private chain;
- a private header, including one of a Swift bridge;
- an unreachable header, and one allowed by `allow_circular_includes_from`;
- a header claimed by two targets, of which the first is not a dep;
- a header of another toolchain, and an unknown header;
- a system include and a quoted include resolved next to the including file;
- a generated Swift header, a file in the output dir, a missing file;
- an action output listed as a source;
- a target that opts out.

Two files of `a` include the same headers, so cache entries, including
`kNotADependency` ones, are written by one worker and read by the other.
Two workers are enough for every race on the cache and on the count,
because each race involves two threads. The full state space is explored
(about 53,000 and 63,000 distinct states).

`MCRuntimeDeps` enumerates two families in one run (`MCInit`, one
`InitFrom` per family, so TLC never forms their union). The first is the
34,300 graphs of 3 targets (targets are numbered in dependency order, since
gn rejects cycles) over seven output types, which stand for every case the
walk tells apart; a fourth target is there an unreachable group. The second
is the 331,776 graphs of 4 targets of type executable, action or group with
each dep list in ascending order. This leaves out the orders among
siblings, which the first family covers. It adds the case of a target
reached three times, once before and twice after its data-dep flag is
decided: a walk that does not raise the `seen_targets` flag on the revisit
breaks `VisitedAtMostTwice` only there. The violation run of
`FirstLineIsMainOutput` uses the first family alone.

`MCRuntimeDepsWrite` has three targets, one for each place a listed
target's file goes, list files of up to two lines (so a target twice, or a
bad line after a good one), at most one `write_runtime_deps` target, and an
output directory that is clean or has each file stale or up to date: 84,236
states, with every interleaving of up to three jobs.

`MCNinjaCBinaryTargetWriter` draws the sources from six files that cover
every branch of `WriteSources`: two .cc files with the same object name,
a .c file, a .modulemap, a .def and an object file. It takes every subset
in a fixed order. The order matters only for which of two equal objects
comes first. The PCH setups are one kind per toolchain, since a toolchain
is either MSVC-like or GCC-like. The libraries are one of each kind the link
line tells apart: static, shared with a .TOC, and Rust. The non-linkable
deps are none, or an action with a stamp and a group without a dependency
output, with the async switch on and off. The module deps are none; a
dep without a .modulemap then one with; or a dep that compiles the
target's own .modulemap, then one dep twice. A C target that is linked
has an extra object, a library by path and two frameworks (one with a
dependency output, one without) exactly when it has non-linkable deps.
Tying the two keeps the target count as it was, and both cases still
occur. A Swift target has one Swift source, of each output type, with
none or two swiftmodule deps and with and without the extra link inputs,
independently. That makes 1,574,400 distinct states in about 75 s.

`MCSha256` runs the twelve strings of the unit test of up to 1005 bytes,
which end in every number of leftover bytes the test chose: 0, 1, 3, 4, 40,
45, 55, 56 and 57. It also runs every length from 0 to 129, which covers
each remainder modulo 64 twice, with both the one-chunk and the two-chunk
`Finalize`, and strings of one, two and three chunks before `Finalize`.
The million-byte string of the test is left out.

`MCUnreachableError` takes every sequence of one to four distinct labels
over two names and three toolchains with at least one in the including
target's toolchain: two adjacent erasable candidates, a kept one after an
erased one, and a candidate list of only one toolchain all occur.

`MCRuntimeDepsWriteCollide` is `MCRuntimeDepsWrite` with the
`write_runtime_deps` output of one target at the path gn gives another
target's list-file output.

`MCDependencyWalk` enumerates all graphs over 4 targets. That is enough for
chains of length 4, for a private edge after the first hop, and for two
paths of different lengths to the same target.

### Fairness

The main thread and each pool thread are OS threads that keep running while
they can, so `Spec` has weak fairness on `Main` and on each `Worker(w)`.
`RuntimeDepsWrite` has weak fairness on the main thread and on the jobs,
for the same reason. Nothing forces a spurious wake-up, so `SpuriousWake` has no fairness. The
walk's loop runs to completion, so `DependencyWalk` has `WF_vars(Next)`.
Deadlock checking is off in every config because a finished run (`mainPc =
"done"`, or `result # "running"`) really stops.

## Findings

1. **force_check is ignored** (code_bug, run `force_check`). The header
   file (lines 69-70) says that `force_check` overrides `check_includes =
   false`. `RunCheckOverFiles` (line 229) tests only `check_includes()` and
   never reads `force_check`. TLC shows a run that returns without the
   error of the opted-out target's file.
2. **An action's runtime deps file does not start with its output**
   (spec_code_divergence, run `runtime_deps_first_line`). The
   `write_runtime_deps` help text (variables.cc 2395-2396) says the first
   line is the main output of the target itself. `ComputeRuntimeDeps` walks
   the target as a regular dep (`StreamRuntimeDeps`, line 127), so an action, action_foreach or
   copy target lists its data files first and never its outputs. TLC shows
   an action root with no deps whose file holds only its data.
3. **Colliding runtime deps paths are not detected** (spec_gap, run
   `runtime_deps_write_collide`). `WriteRuntimeDepsFilesIfNecessary`
   schedules each `write_runtime_deps` output (line 327) without comparing
   it with the list file's outputs. When two paths coincide, two jobs write
   different contents to one file, the last writer wins, and `Run` returns
   true. The help text (variables.cc 2377-2398) promises that the file
   holds the target's runtime deps and does not mention the case.

## Not modelled

- **Error texts in `HeaderChecker`.** Its errors are records of kind,
  target, file and include index. The two texts whose content depends on
  more than formatting are modelled on their own: the chain of
  `GetDependencyChainPublicError` (in `DependencyWalk`) and the candidate
  list of `MakeUnreachableError` (`UnreachableError`).
  `CreatePersistentRange` and the wording only format.
- **The `file_map_[...]` insertion** in `RunCheckOverFiles` (line 222). It
  races with the workers only if `to_check` names a target the constructor
  did not see. The model assumes it does not.
- **`ReachabilityCache`.** header_checker.h declares a reachability cache,
  but header_checker.cc defines none of it. The model follows the .cc,
  which walks with `IsDependencyOf` and caches only through
  `dependency_cache_`.
- **A second `Run`** on the same checker. `errors_` is never cleared, but
  gn creates one checker per `gn check` and calls `Run` once, so the model
  has one run.
- **The rest of the C binary writer.** The ObjC PCH tools, loadable
  modules, the output substitutions and the flag texts are not modelled. The inputs
  stamp and the order-only deps stamp are written by the base writer,
  which is not in this repository; the model takes their outputs as
  given.
- **SHA-256 length overflow.** `original_size * 8` wraps in `uint64_t`
  only for strings of 2^61 bytes or more. The model uses the exact product.
- **`len()`.** `RunLen` is three early returns on the argument count and
  type, with no state; its unit tests cover every branch.
- **Other parts.** The other ninja writers,
  variable help and SysInfo are not modelled yet. The plan below covers
  them.

## Plan

1. Done: `DependencyWalk` and `HeaderChecker`, with the runs above.
2. Done: `RuntimeDeps`, the collection walk, and `RuntimeDepsWrite`, the
   list file and the scheduled writes.
3. Done: `NinjaCBinaryTargetWriter`, with one Swift compile per target,
   and `ModuleWriterUtil`, compared with the writer's copy.
4. Done: `Sha256`, checked against the unit test's vectors and FIPS
   padding.
5. Dropped: a model of `RunLen`, which has no state (see Not modelled).
