# Formal model of the clang-tidy pipeline of Astra

This directory holds TLA+ models of `src/run_clang_tidy.py`. That script runs
clang-tidy over a C++ project and writes an HTML and JSON report.

The spec (`spec.md`) names five parts. Data flows through them in this order:

1. The **Ignore-Rule Engine** (`get_gitignore_patterns`, `is_ignored_by_git`,
   `is_build_dir`) decides which files are out of scope.
2. The **Compilation Database Filter** (`filter_compile_commands`,
   `cleanup_compile_command`, `cleanup`) does three things:
   - it drops the excluded entries of `compile_commands.json`;
   - it strips PCH flags from the commands of the others;
   - it writes the result to the scratch directory `TEMP_DIR`.
3. The **Parallel Analysis Scheduler** (`main`, `run_clang_tidy_parallel`,
   `analyze_file`) works on the entries that `main` reads back:
   - it submits one `analyze_file` task per entry to a `ThreadPoolExecutor` of
     `min(16, 2*cpu)` threads;
   - each task runs clang-tidy with `timeout=300`, parses the output and tags
     every record with the entry's file;
   - each task then extends the shared list `all_diagnostics` under
     `diagnostics_lock`.
4. The **Diagnostic Parser** (`parse_diagnostics`, and the `strip()` before
   it) turns one clang-tidy output into records, each followed by its notes.
5. The **Report Aggregator** (`generate_html_report`) counts the errors and
   warnings, groups the records by file and writes both artifacts.

The other three scripts under `src/` are out of the spec's scope:
`gitcollector.py`, `scripts/format.py` and
`Astra-CacheServer/proto/generate_command_index.py`. The last one is run
again and again on a header file that developers edit between runs, and
`CmdIndex` models that loop. The other two are not modelled; see the end of
this file.

## Modules

| Module | Models | Kind |
|---|---|---|
| `Filter` | the Ignore-Rule Engine and the per-entry loop of the Filter | operators |
| `Parser` | `parse_diagnostics` and `output.strip()` | operators (recursive functions) |
| `Report` | the content of `generate_html_report` | operators |
| `Scheduler` | `main`, `run_clang_tidy_parallel`, `analyze_file` | state machine |
| `Pipeline` | the scratch database in `TEMP_DIR` across concurrent runs of the script: `filter_compile_commands`'s exits and write, `main`'s read back, `cleanup` | state machine |
| `CmdIndex` | `update_file` and `main` of `generate_command_index.py`, with developers' edits between runs | state machine |
| `AtomicAnalysis` | what `main` and `run_clang_tidy_parallel` promise, with the threads abstracted away: each file analysed in one atomic step, at most once | abstract state machine |
| `SchedulerProofs` | TLAPS proofs about `Scheduler`: types and the blocks of `all_diagnostics` | theorems |
| `SchedulerReportProofs` | TLAPS proofs about `Scheduler`: the inductive invariant `IInv` and `ReportComplete` | theorems |
| `SchedulerRefinement` | TLAPS proof that `Scheduler` implements `AtomicAnalysis` | theorems |
| `PipelineProofs` | TLAPS proofs about `Pipeline` | theorems |
| `FilterProofs` | TLAPS proofs about the operators of `Filter`, for every path and rule list | theorems |
| `MCFilter`, `MCPieces` | model checking of `Filter` | MC |
| `MCParser`, `MCLines` | model checking of `Parser` and `Report` | MC |
| `MCScheduler` | `Scheduler` composed with `Parser` (`INSTANCE Parser`) | MC |
| `MCPipeline` | two runs of the script | MC |

### Text

Strings are sequences of tokens. The regex, `split`, `strip`, `lower` and `in`
calls the code makes are defined on those sequences by what they do.

- **`Parser`.** A clang-tidy line is a sequence of words, `":"` and `" "`. The
  words are atomic.
  - `Parts` is `split(":", 3)`.
  - `Strip`, `SplitWS` and `JoinSp` are `strip()`, `split()` and `" ".join`.
  - The while loop over `i` with its note look-ahead over `j` is the
    recursive function `scan` in `ParseLines`. It resumes at `NoteEnd` after
    a header, which is the loop's `i = j`.
- **`Filter`.** A path or an argument is a sequence of pieces. A piece is
  `"/"` or a letter run, so `library` can be `<<"lib", "rary">>` and contain
  `lib`.
  - `InStr` is Python's `in`.
  - `RegexMatch` is the `re.match` of the three regex forms that
    `is_ignored_by_git` builds.
  - `LowerStr` is `lower()`.
  - `CleanupCompileCommand` is the while loop over `i`, as a recursive
    function.
  - `GetGitignorePatterns` takes a sequence of sources. A source is an
    ignore file that exists: its stripped lines, and how many of them the
    `for` loop read before `open()` or the decoding raised. The `except` is
    per file, so the lines read before the failure stay in `patterns`, and
    the next file is still read.
  - `MCFilter` is a sum, not a product: at Init it chooses to build either
    a file (path segments and the two ignore sources, `.gitignore` and
    `.git/info/exclude`) or a command (its arguments). The filter
    properties look only at the file, and the cleanup properties look only
    at the command. `BreakRead` makes the read of `.gitignore` fail after
    the lines written so far.
- **`CmdIndex`.** `CommandImpl.hpp` is a sequence of lines. Each line has
  the kind the old-index regex sees, plus the id of the edit that wrote it:
  - `open`: `/*` alone;
  - `star`: the first non-blank character is `*`;
  - `close`: `*/` alone;
  - `top` and `bottom`: the `// ┌` and `// └` lines of the old index form;
  - `code`: anything else.

  `OldIndexEnd` and `BoxEnd` say where each alternative of the pattern,
  tried at a line, ends. Because `.*?` runs across lines in DOTALL mode,
  the first alternative ends at the last `*/` line of the file.
  `RemoveOldIndex` is `re.sub`'s scan, as a recursive function. This
  abstraction of the regex was compared with Python's `re` on every file of
  up to 6 lines of these kinds, and they agreed on every file.
  `RunScript` is `main`, and `Edit` is a developer inserting a line
  anywhere but inside the generated index.
  - **Limit of the abstraction:** a substring that would cut a piece is not
    represented. The vocabulary in `MCPieces` is chosen so that every
    fragment the code looks for is a run of whole pieces.
  - `" ".join` followed by `split()` gives the argument list back, because
    every argument is non-empty and has no white space. For that reason the
    model keeps the list.

### Scheduler state

Each variable corresponds to a part of the running program:

| Variable | Corresponds to |
|---|---|
| `entries` | the list `main` reads back from the scratch database |
| `mainpc` | where `main` is: start, submit, wait, report or done |
| `submitted`, `queue` | `executor.submit` and the executor's FIFO work queue |
| `wpc`, `wtask`, `wdiags` | per worker thread: the point in `analyze_file`, the task, and the tagged records still to append |
| `lock` | `diagnostics_lock` |
| `store` | `all_diagnostics` |
| `done` | the futures that are done |
| `report` | what `generate_html_report` wrote |
| `outcome`, `result`, `acquired`, `start` | history variables: how each subprocess call ended, what each task parsed, which tasks entered the locked block, and the length of the list when each did |

Each action corresponds to one step of the code. `PROJECT.json` ("map") gives
the exact lines.

- **`main`:** `StartEmpty` (the empty-list branch), `StartRun`, `Submit`,
  `WaitAll` (the `as_completed` loop and the end of the `with` block) and
  `WriteReport`.
- **Worker threads:**
  - `Take` is a thread taking the oldest work item.
  - `RunReturns` is `subprocess.run` returning with exit 0 or non-zero (the
    status is not checked), followed by parsing and tagging.
  - `RunRaises` is the `except` clause, taken on a timeout or a spawn
    failure.
  - `Acquire` is entering `with diagnostics_lock`.
  - `AppendOne` is one element of `extend`. The extend is split into
    elements so that the lock is what keeps blocks apart.
  - `Release` is leaving the `with` block, after which the future is done.

The parser is the constant operator `ParseDiagnostics`. This keeps
`Scheduler` free of recursion, so TLAPS can reason about it. `MCScheduler`
instantiates that constant with `Parser!ParseDiagnostics`.

### The abstract specification and the refinement mapping

`AtomicAnalysis` has the state `entries`, `phase` (start, run, done),
`finished`, `astore` and `report`. Its actions are:

- `NoEntries`: the empty-list branch of `main`;
- `Begin`: the start of the analysis;
- `AnalyzeFile(t)`: one call of `analyze_file` that returns, with its tagged
  records appended to `astore` as one block;
- `FailFile(t)`: a call that raises;
- `WriteReport`: the report, once every file is finished.

`Scheduler` defines the mapping:

- `Phase` folds `mainpc` into the three phases;
- `finished` is `done`;
- `AbsStore` is `all_diagnostics` without the block that is still being
  appended: the prefix up to the holder's `start` while a worker holds the
  lock, all of it otherwise.

`AtomicRefinement == Abs!Spec` is checked as a property by the `scheduler`
run. Under the mapping, `Release` is `AnalyzeFile` and `RunRaises` is
`FailFile`. `StartEmpty`, `StartRun` and `WriteReport` are the abstract
steps of the same names. Every other step is a stutter.

### Pipeline state

`Pipeline` follows each run of the script (a process) through the scratch
database. Per run: `db` (missing, malformed or valid), `kept` (how many
entries its filter keeps), `pc`, `code` (exit status) and `left` (clang-tidy
calls to go). Shared: `dir` (whether `TEMP_DIR` exists) and `file` (who last
opened `TEMP_COMPILE_DB` and whether that write ended). `misread` is a
history variable: the runs that read a database other than their own.

- `LoadFails` is `sys.exit(1)` on a missing or malformed database.
- `OpenScratch` is `mkdir` and `open(..., 'w')`, which truncates.
- `CloseScratch` is `json.dump` and the close.
- `ReadBack` is `main`'s `json.load`: an uncaught exception on a missing or
  half-written file, and the empty-report return when there are no entries.
- `Analyze` is one clang-tidy call, which reads `-p=TEMP_DIR`.
- `Finish` is the normal exit.

Every exit, normal or not, includes `cleanup()` (the `atexit` handler), as
part of the same action.

## Runs

| Run | Expect | What it shows |
|---|---|---|
| `parser` | pass | On every output of up to 4 lines (warnings, errors, notes, short notes and echoed source lines), `ParseFollowsSpec` and `SeveritiesCounted` hold (see below). |
| `parser_roundtrip` | violation | The spec's round-trip example gives type `warning:` and the note `note: bar`, not `warning` and `bar`. |
| `parser_windows` | violation | A drive-letter path (`C:a:1:2: warning: m`) shifts the colon fields, so the warning is lost. |
| `scheduler` | pass | `TypeOK`, `StoreBlocks`, `ReportComplete`, `IInv` (the inductive invariant of the proofs), `Termination`, `AtomicRefinement` and `StoreFinalAfterWait` (see below), with 2 workers and up to 3 entries. |
| `scheduler_nonzero` | violation | A clang-tidy run with a non-zero exit still contributes its diagnostics. Spec section 7 says it contributes none. |
| `filter` | pass | `DirRulesExclude`, `BuildDirsExcluded`, `RemainingSourcesApplied` and `PchStripIdempotent` (see below). |
| `filter_anchored` | violation | The anchored rule `/src` also excludes `gen/src`, through the full-path substring test. |
| `filter_partial` | violation | A `.gitignore` whose read raises after its first line still applies that line (`/src` excludes `src/...`). Spec section 7 says an unreadable source is skipped (`UnreadableSourceSkipped`). |
| `pipeline` | pass | Two concurrent runs, with any kind of database, remove each other's `TEMP_DIR` in any order, and `TEMP_DIR` is gone once both have exited by any exit path (`ScratchRemovedAtEnd`). |
| `pipeline_isolation` | violation | One run's exit, even on a missing database, removes `TEMP_DIR` while the other run's clang-tidy calls still read it. |
| `cmdindex` | violation | A code line with a lone `*/` line anywhere below it is deleted by the second run of `generate_command_index.py` (`CodeLinesKept`). |
| `cleanup_msvc` | violation | `/FpX.pch` (MSVC syntax, value attached) also removes the next argument, here the source file. |

What the passing runs check:

- **`ParseFollowsSpec`** says `ParseLines` returns the records of the spec's
  description. That description is written without the scan loop: a header
  is a primary unless it lies in the note run of an earlier primary.
- **`SeveritiesCounted`** says the report counts one error per error line and
  one warning per warning line.
- **`StoreBlocks`** says each task that took the lock has its records in
  `all_diagnostics` as one contiguous block, in parser order. No two blocks
  overlap, and no record lies outside every block.
- **`ReportComplete`** says that when the report is written, every task has
  ended. The report then holds all the records of every task whose subprocess
  returned, and none of a task that raised.
- **`Termination`** says `main` always finishes.
- **`AtomicRefinement`** says every behaviour of the threaded scheduler,
  seen through the mapping above, is a behaviour of `AtomicAnalysis`:
  - each file is analysed at most once;
  - its records enter the list as one whole block, the tagged parse of one
    output;
  - the report is written from whole blocks after every file is finished.
- **`StoreFinalAfterWait`** is an action property. Once `main` is past the
  `as_completed` loop, no step appends to `all_diagnostics` or finishes a
  future. The list handed to `generate_html_report` is therefore final, not
  one that a late `analyze_file` call is still extending.
- **`DirRulesExclude`**: a directory rule `d/` excludes files under `d`, also
  at the top level. There the regex (`.*/d/.*`) fails, and only the
  full-path test catches the file.
- **`BuildDirsExcluded`**: a build-directory segment, in any letter case,
  excludes the file.
- **`RemainingSourcesApplied`**: spec section 7 says that when an ignore
  source cannot be read, rule compilation goes on with the remaining
  sources. The property says that every source read to its end excludes
  whatever its rules match, even when the read of another source failed
  part-way. What a part-way failure does to the failing source itself is the
  `filter_partial` finding.
- **`PchStripIdempotent`**: `cleanup_compile_command` is idempotent.

Each property of a passing run has a mutant in `PROJECT.json`. A mutant is a
plausible bug in the modelled code, and TLC finds the property violated under
it:

| Property | Mutant |
|---|---|
| `StoreBlocks`, `IInv`, `AtomicRefinement` | an unprotected extend |
| `ReportComplete`, `StoreFinalAfterWait` | not waiting for the futures |
| `Termination` | a retry of a failed file |
| `ParseFollowsSpec` | rescanning the note lines |
| `SeveritiesCounted` | an exact type comparison |
| `DirRulesExclude` | no full-path test |
| `BuildDirsExcluded` | no `lower()` |
| `PchStripIdempotent` | a missing `continue` |
| `RemainingSourcesApplied` | one `try` around the loop over the files |
| `TypeOK` (Pipeline) | the analysis loop without its bound |
| `ScratchRemovedAtEnd` (Pipeline) | no `atexit` cleanup |

The findings are in `PROJECT.json`.

### Bounds

- **Parser (4 lines of 5 shapes: warning, error, note, short note, echoed source).** This covers a header followed by notes,
  short notes, a header inside a note run, and non-diagnostic lines between
  headers. These are the cases where the resume point `i = j` matters.
- **Scheduler (`CpuCount = 1`, so 2 workers; up to 3 entries, one file
  twice).** With these bounds:
  - a work item waits in the queue;
  - two workers compete for the lock while a third task is pending;
  - every outcome (exit 0, non-zero, raised) and each output shape occurs.
- **Filter (3 segments, 2 ignore lines, one exclude rule, 4 arguments).**
  This covers:
  - relative files, files under the root and files outside it (the entry's
    directory is the project root, so a relative file lands under the root
    outside `build/`, where the ignore rules decide on it);
  - a rule's name as the first or an inner directory;
  - comments and the `/` line, which `get_gitignore_patterns` drops;
  - a `.gitignore` whose read fails before its first line, between its two
    lines, or not at all, with the exclude file after it.
- **Pipeline (2 runs, up to 2 entries each).** Two runs are the least that
  share `TEMP_DIR`. Two entries let a run's database disappear between two
  of its clang-tidy calls.
- **Cleanup (4 arguments, in the same `MCFilter` run).** This lets a PCH flag with a separate value be
  followed by another PCH flag and then a plain argument. That is the case
  where a wrong skip shows up on a second run.

### Fairness

`Spec` assumes weak fairness of `main`'s steps and of each worker thread.
These are runnable OS threads, and the only blocking call is `subprocess.run`,
which `timeout=300` bounds. `Termination` rests on this fairness. `Pipeline`,
`MCFilter` and `CmdIndex` assume no fairness: only safety is checked of them.
`Pipeline` checks no termination property because each run is a straight
sequence of steps whose analysis loop counts down, so its termination follows
from the shape of the model and would say nothing about the code.

## Proofs (TLAPS: `SchedulerProofs`, `SchedulerReportProofs`, `SchedulerRefinement`, `PipelineProofs`, `FilterProofs`)

The `SchedulerProofs` proofs hold for all values of the constants, under three named
assumptions:

- `EntriesAssumption`: the entry lists are bounded by `MaxEntries`;
- `ParseAssumption`: the parser returns sequences of records;
- `CpuAssumption`: the CPU count is a natural number.

- **`TypeCorrect`:** `Spec => []TypeOK`. `TypeOK` alone is not inductive,
  because a busy worker's task and the queued items must be submitted tasks,
  and `TypeOK` does not say so. The proof uses `TypeInv == TypeOK /\
  TaskRange`. `TypeInitial` and `TypeStep` prove that `TypeInv` holds
  initially and is preserved by every action, one case per action, and PTL
  concludes.
- **`StoreBlocksHold`:** `Spec => []StoreBlocks`. The inductive invariant is
  `StoreInv == TypeInv /\ TaskDistinct /\ LockInv /\ StoreBlocks`. The extra
  conjuncts are needed for these reasons:
  - **`TaskDistinct`:** no task is held by two workers or queued twice, and a
    queued task has not taken the lock. Without it, a second `Acquire` of
    the same task would move its block.
  - **`LockInv`:** the lock is held exactly by the worker in `append`. That
    worker's remaining records are a suffix of its result, and its block
    ends at the end of the list. Because of this, `AppendOne` extends
    exactly the holder's block.

  There is one step lemma per action (`TakeStep`, `AcquireStep`,
  `AppendOneStep`, ...). Small lemmas on the operators support them:
  `CopiedFrame`, `StoreBlocksFrame`, `SuffixShift` and `CopiedNat`.

`SchedulerReportProofs` proves two more theorems under the same assumptions:

- **`IInvHolds`:** `Spec => []IInv`, where `IInv == StoreInv /\ DoneInv /  OutcomeInv /\ MainInv`. The three new conjuncts say:
  - **`DoneInv`:** exactly the busy workers hold a task. No busy worker and
    no queued item is on a done task. A task that took the lock is done or
    is the holder's.
  - **`OutcomeInv`:**
    - a task whose call returned has as its result the tagged parse of some
      output;
    - a task that took the lock returned;
    - a done task took the lock exactly when its call did not raise;
    - a worker waiting for the lock has a task whose call returned.

    The last conjunct is what makes `IInv` inductive: without it,
    `Acquire` could put a task whose call raised into `acquired`.
  - **`MainInv`:** ties `main`'s phase to the tasks and the report:
    - nothing is submitted before the start;
    - every entry is submitted from the wait on;
    - past the wait, every entry is done;
    - the report is the empty one until it is written, and
      `Summary(all_diagnostics)` after.

  The lemma `Quiet` says that past the wait no worker is busy and the queue
  is empty. Because of it, the worker steps cannot happen while `main`
  writes the report. There is one step lemma per action, and
  `ReportStep` combines them.
- **`ReportCompleteHolds`:** `Spec => []ReportComplete`, from `IInvHolds` by
  the lemma `IInvReport`. When the report is written, the lock is free, so
  every block is whole. `StoreBlocks` and `OutcomeInv` then give the report
  as exactly the blocks of the tasks that returned.

- **`StoreFinalHolds`:** `Spec => StoreFinalAfterWait`. The lemma
  `FinalStep` uses `Quiet`: past the wait, every worker is idle and the
  queue is empty. So no worker action is enabled, and every step of `main`
  leaves the list and the futures as they are. PTL combines `FinalStep`
  with `IInvHolds`.

`SchedulerRefinement` proves **`Refinement`:** `Spec => AtomicRefinement`.

- `AbsInit` shows that the initial states map to initial states.
- `RefineStep` shows that each step from a state of `IInv` maps to a step
  of `AtomicAnalysis` or to a stutter. It has one lemma per action.
- `Acquire` is a stutter: the lock was free, so the abstract list was the
  whole list, and the new block starts at its end.
- `AppendOne` is a stutter: the abstract list is the prefix before the open
  block, and `PrefixOfAppend` says `Append` leaves it unchanged.
- `Release` is `AnalyzeFile`. By `LockInv` the holder's block ends at the
  end of the list. By `StoreBlocks` it holds the task's whole result, so
  `SplitAtBlock` gives the list as the abstract list followed by that
  result. `OutcomeInv` makes that result the tagged parse of one output.
- `RunRaises` is `FailFile`. `BusyWorker` says a busy worker's task is
  submitted and not finished.

The report's error and warning counts are written as
`Len(SelectSeq(ds, P))`, as in the code's `len([d for d in ds if ...])`.
In that form, the report of the abstract specification is provably the same
operator as `Scheduler`'s (`SummarySame`).

`PipelineProofs` proves two theorems for every set of concurrent runs
`Procs`. They assume only `PipelineAssumption`, that `MaxEntries` is a
natural number.

- **`TypeCorrect`:** `Spec => []TypeOK`. `TypeOK` is inductive. The step
  lemma `TypeStep` has one case per action. `ReadBack` is split on whether
  a complete file was found and whether it holds entries. `DecrBounded`
  bounds `Analyze`'s decrement.
- **`ScratchRemoved`:** `Spec => []ScratchRemovedAtEnd`.
  `ScratchRemovedAtEnd` is not inductive: a step that ends one run says
  nothing about a `TEMP_DIR` that another run created. The proof uses
  `IInv == TypeOK /\ DirOwned`, where `DirOwned` says that while `TEMP_DIR`
  exists, some run is between its `mkdir` and its exit. This holds for two
  reasons:
  - every action that ends a run includes `cleanup()` (lemma
    `CleanupOwned`);
  - every other action that touches the directory leaves its run at a live
    point (lemma `LiveOwned`).

  `IInv` implies the property, because when every run has exited, no run is
  live.

`FilterProofs` proves facts about `is_ignored_by_git` and `is_build_dir`
for every path, rule list and vocabulary. It needs no assumption on the
constants. Its lemmas on sequences are:

- `InfixAt` and `InStrInfix`: `pat in a + pat + b`, at offset `Len(a)`;
- `LowerType` and `LowerConcat`: `lower()` works piece by piece, so it
  distributes over concatenation.

Its theorems are:

- **`RuleInPathIgnores`:** any rule that occurs as a substring of the path
  string ignores the path, whatever its kind and wherever it occurs. This
  is the full-path test `pattern in str(path)`. It is also the general form
  of the `filter_anchored` finding: an anchored rule `/src` ignores
  `.../gen/src/...` too.
- **`DirRuleEveryDepth`:** a directory rule `d/` ignores every file that
  has `d` as a directory, at any depth, and at the top of the project.
  There the regex `.*/d/.*` alone fails. This is `DirRulesExclude` for
  every path.
- **`BuildDirAnyCase`:** `is_build_dir` holds whenever a name of
  `BUILD_DIR_PATTERNS` occurs in the path in any letter case. This is the
  operator-level core of `BuildDirsExcluded`.

The run properties `DirRulesExclude` and `BuildDirsExcluded` go on through
`get_gitignore_patterns` and the filter loop (`SelectSeq`, `FlattenSeq`).
That part stays with TLC.

### Left to TLC

These are not proved; TLC checks them:

- **Liveness** (`Termination`). TLAPS does not handle fairness and `ENABLED`.
- **`CmdIndex`**, which uses a recursive function over the file, and
  `RunsIsolated`, which is violated.
- **The parser and filter properties.** `Parser` and `Filter` are defined
  with recursive functions over unbounded data, and with `SelectSeq`,
  `FlattenSeq` and `SetToSortSeq`. What they compute for every input would
  need induction over data, which the installed provers cannot do. The
  library has no lemmas on these operators. `FilterProofs` proves the parts
  of the filter that need none.

## Not modelled yet, and the plan

- **The bytes of two overlapping writes** of `TEMP_COMPILE_DB`. `Pipeline`
  lets the last opener own the file.
- **`Pipeline` composed with `Filter` and `Scheduler`.** The filter result is
  abstracted to a count in `Pipeline`, and the analysis to one read per entry.
- **The git config query** for the global excludes file. It is
  abstracted to whether that file is among the sources.
- **`extract_commands`** of `generate_command_index.py`. It changes only
  the text of the index's own lines, which `CmdIndex` abstracts to their
  kind.
- **`gitcollector.py`.** It runs `cloc`, then writes a bar chart, a pie
  chart and an HTML page one after the other. It is a sequential script
  whose only state is the files it writes. If `generate_charts` fails
  between the two charts, the page shows a new bar chart next to an old pie
  chart. A unit test reaches that case; a model checker adds nothing.
- **`scripts/format.py`.** Its process pool formats each file in place,
  one worker per file, with no shared state: there is no interleaving to
  explore. `is_ignored` returns `returncode == 0` from `git check-ignore`,
  so when git fails (status 128 outside a repository) the file counts as
  not ignored. The `.gitignore` fallback is reached only when git cannot be
  started. This is listed as a hazard.
- **`REPORT_DIR`** is named after the current second. Two runs started in
  the same second write the same report files. It is listed as a hazard
  that no property covers yet.
- **Liveness of the refinement.** `AtomicRefinement` is the safety part of
  the abstract specification. That every file is eventually finished is
  `Termination`, which TLC checks.
