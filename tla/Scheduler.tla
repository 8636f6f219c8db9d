------------------------------ MODULE Scheduler ------------------------------
(***************************************************************************)
(* The Parallel Analysis Scheduler of run_clang_tidy.py together with the *)
(* main flow that drives it: main() reads the filtered entries, submits   *)
(* one analyze_file task per entry to a ThreadPoolExecutor, waits for all *)
(* futures and hands the shared list all_diagnostics to                   *)
(* generate_html_report.                                                   *)
(*                                                                         *)
(* Every worker thread runs analyze_file: the clang-tidy subprocess (the  *)
(* only blocking call), parse_diagnostics and the tagging of every        *)
(* diagnostic with the entry's file, then an extend of the shared list    *)
(* under diagnostics_lock.  The extend is modelled one element per step   *)
(* while the lock is held, so that the lock is what keeps the blocks of   *)
(* two tasks apart.                                                        *)
(*                                                                         *)
(* The parser is a parameter (ParseDiagnostics) so that this module can   *)
(* be reasoned about with TLAPS; MCScheduler instantiates it with the     *)
(* Parser module.                                                          *)
(***************************************************************************)
EXTENDS Naturals, Sequences, FiniteSets, Report

CONSTANTS
  Files,              \* the project-relative file names an entry may have
  InputEntries,       \* the filtered entry lists main() may read back
  Outputs,            \* the raw outputs clang-tidy may print for a file
  ParseDiagnostics(_),\* parse_diagnostics: raw output -> list of records
  ParsedDiag,         \* the records parse_diagnostics may return
  CpuCount,           \* os.cpu_count(); 0 stands for None
  MaxEntries          \* bound on the number of filtered entries

ASSUME EntriesAssumption ==
  /\ MaxEntries \in Nat
  /\ InputEntries \subseteq Seq(Files)
  /\ \A es \in InputEntries : Len(es) <= MaxEntries

ASSUME ParseAssumption ==
  \A o \in Outputs : ParseDiagnostics(o) \in Seq(ParsedDiag)

ASSUME CpuAssumption == CpuCount \in Nat

(* max_workers = min(16, (os.cpu_count() or 4) * 2)                         *)
MaxWorkers ==
  LET n == (IF CpuCount = 0 THEN 4 ELSE CpuCount) * 2
  IN  IF n < 16 THEN n ELSE 16

Workers == 1..MaxWorkers
Tasks   == 1..MaxEntries
NoTask  == 0
NoHolder == 0
NoReport == [total |-> 0, errors |-> 0, warnings |-> 0,
             files |-> <<>>, diagnostics |-> <<>>]

(* d["file"] = str(rel_file) for every d of the parsed list.               *)
Tag(ds, f) == [i \in DOMAIN ds |-> [ds[i] EXCEPT !.file = f]]

TaggedDiag == {[d EXCEPT !.file = f] : d \in ParsedDiag, f \in Files}

(* How the subprocess call of a task ended: not yet, returned with exit    *)
(* status zero or non-zero (subprocess.run does not check it), or raised   *)
(* (TimeoutExpired after 300 s, or the spawn failed).                      *)
Outcomes == {"pending", "exit0", "exitNonzero", "raised"}

VARIABLES
  entries,    \* the filtered entries main() read back from the temp DB
  mainpc,     \* where main() is: start, submit, wait, report, done
  submitted,  \* number of futures submitted so far
  queue,      \* the executor's FIFO work queue of task indices
  wpc,        \* per worker: idle, run (subprocess), lock (waiting), append
  wtask,      \* per worker: the task it is running
  wdiags,     \* per worker: the tagged diagnostics still to be appended
  lock,       \* diagnostics_lock: the holding worker or NoHolder
  store,      \* all_diagnostics
  done,       \* the tasks whose future is done
  report,     \* what generate_html_report wrote
  \* history variables, not in the code:
  outcome,    \* per task: how its subprocess call ended
  result,     \* per task: the tagged list it computed
  acquired,   \* the tasks that entered the with-diagnostics_lock block
  start       \* per task: Len(all_diagnostics) when it took the lock

vars == <<entries, mainpc, submitted, queue, wpc, wtask, wdiags, lock,
          store, done, report, outcome, result, acquired, start>>

TaskSet == 1..Len(entries)

-----------------------------------------------------------------------------
(* main(), run_clang_tidy_parallel and generate_html_report.               *)

Init ==
  /\ entries \in InputEntries
  /\ mainpc = "start"
  /\ submitted = 0
  /\ queue = <<>>
  /\ wpc = [w \in Workers |-> "idle"]
  /\ wtask = [w \in Workers |-> NoTask]
  /\ wdiags = [w \in Workers |-> <<>>]
  /\ lock = NoHolder
  /\ store = <<>>
  /\ done = {}
  /\ report = NoReport
  /\ outcome = [t \in Tasks |-> "pending"]
  /\ result = [t \in Tasks |-> <<>>]
  /\ acquired = {}
  /\ start = [t \in Tasks |-> 0]

(* if not entries: generate_html_report([]) and return.                    *)
StartEmpty ==
  /\ mainpc = "start"
  /\ entries = <<>>
  /\ mainpc' = "done"
  /\ report' = Summary(<<>>)
  /\ UNCHANGED <<entries, submitted, queue, wpc, wtask, wdiags, lock, store,
                 done, outcome, result, acquired, start>>

StartRun ==
  /\ mainpc = "start"
  /\ entries # <<>>
  /\ mainpc' = "submit"
  /\ UNCHANGED <<entries, submitted, queue, wpc, wtask, wdiags, lock, store,
                 done, report, outcome, result, acquired, start>>

(* Mutant of Submit: the work item gets a 0-based index.                   *)
SubmitZeroBased ==
  /\ mainpc = "submit"
  /\ submitted < Len(entries)
  /\ queue' = Append(queue, submitted)
  /\ submitted' = submitted + 1
  /\ mainpc' = IF submitted + 1 = Len(entries) THEN "wait" ELSE "submit"
  /\ UNCHANGED <<entries, wpc, wtask, wdiags, lock, store, done, report,
                 outcome, result, acquired, start>>

(* executor.submit(analyze_file, entry), one entry at a time, in order.    *)
Submit ==
  /\ mainpc = "submit"
  /\ submitted < Len(entries)
  /\ queue' = Append(queue, submitted + 1)
  /\ submitted' = submitted + 1
  /\ mainpc' = IF submitted + 1 = Len(entries) THEN "wait" ELSE "submit"
  /\ UNCHANGED <<entries, wpc, wtask, wdiags, lock, store, done, report,
                 outcome, result, acquired, start>>

(* Mutant of WaitAll: main goes on without waiting for the futures.       *)
WaitAllEarly ==
  /\ mainpc = "wait"
  /\ mainpc' = "report"
  /\ UNCHANGED <<entries, submitted, queue, wpc, wtask, wdiags, lock, store,
                 done, report, outcome, result, acquired, start>>

(* The as_completed loop and the end of the with-executor block: main      *)
(* goes on once every future is done.                                      *)
WaitAll ==
  /\ mainpc = "wait"
  /\ done = TaskSet
  /\ mainpc' = "report"
  /\ UNCHANGED <<entries, submitted, queue, wpc, wtask, wdiags, lock, store,
                 done, report, outcome, result, acquired, start>>

(* diagnostics = run_clang_tidy_parallel(entries);                         *)
(* generate_html_report(diagnostics).                                      *)
WriteReport ==
  /\ mainpc = "report"
  /\ report' = Summary(store)
  /\ mainpc' = "done"
  /\ UNCHANGED <<entries, submitted, queue, wpc, wtask, wdiags, lock, store,
                 done, outcome, result, acquired, start>>

-----------------------------------------------------------------------------
(* A worker thread of the executor running analyze_file.                  *)

(* An idle worker takes the oldest work item.                              *)
Take(w) ==
  /\ wpc[w] = "idle"
  /\ queue # <<>>
  /\ wtask' = [wtask EXCEPT ![w] = Head(queue)]
  /\ queue' = Tail(queue)
  /\ wpc' = [wpc EXCEPT ![w] = "run"]
  /\ UNCHANGED <<entries, mainpc, submitted, wdiags, lock, store, done,
                 report, outcome, result, acquired, start>>

(* subprocess.run returns (whatever the exit status) with output o; the    *)
(* output is parsed and every record tagged with the entry's file.         *)
RunReturns(w) ==
  LET t == wtask[w] IN
  /\ wpc[w] = "run"
  /\ \E o \in Outputs, rc \in {"exit0", "exitNonzero"} :
       LET diags == Tag(ParseDiagnostics(o), entries[t]) IN
       /\ wdiags' = [wdiags EXCEPT ![w] = diags]
       /\ result' = [result EXCEPT ![t] = diags]
       /\ outcome' = [outcome EXCEPT ![t] = rc]
  /\ wpc' = [wpc EXCEPT ![w] = "lock"]
  /\ UNCHANGED <<entries, mainpc, submitted, queue, wtask, lock, store, done,
                 report, acquired, start>>

(* Mutant of RunRaises: a failed file is put back on the queue (retry).   *)
RunRaisesRetry(w) ==
  LET t == wtask[w] IN
  /\ wpc[w] = "run"
  /\ outcome' = [outcome EXCEPT ![t] = "raised"]
  /\ queue' = Append(queue, t)
  /\ wpc' = [wpc EXCEPT ![w] = "idle"]
  /\ wtask' = [wtask EXCEPT ![w] = NoTask]
  /\ UNCHANGED <<entries, mainpc, submitted, done, wdiags, lock, store,
                 report, result, acquired, start>>

(* subprocess.run raises (timeout, spawn failure): the except clause      *)
(* prints and the task ends with nothing appended.                         *)
RunRaises(w) ==
  LET t == wtask[w] IN
  /\ wpc[w] = "run"
  /\ outcome' = [outcome EXCEPT ![t] = "raised"]
  /\ done' = done \cup {t}
  /\ wpc' = [wpc EXCEPT ![w] = "idle"]
  /\ wtask' = [wtask EXCEPT ![w] = NoTask]
  /\ UNCHANGED <<entries, mainpc, submitted, queue, wdiags, lock, store,
                 report, result, acquired, start>>

(* Mutant of Acquire: the extend is not protected by the lock.             *)
AcquireUnlocked(w) ==
  LET t == wtask[w] IN
  /\ wpc[w] = "lock"
  /\ lock' = w
  /\ wpc' = [wpc EXCEPT ![w] = "append"]
  /\ acquired' = acquired \cup {t}
  /\ start' = [start EXCEPT ![t] = Len(store)]
  /\ UNCHANGED <<entries, mainpc, submitted, queue, wtask, wdiags, store,
                 done, report, outcome, result>>

(* with diagnostics_lock: -- entering the block.                           *)
Acquire(w) ==
  LET t == wtask[w] IN
  /\ wpc[w] = "lock"
  /\ lock = NoHolder
  /\ lock' = w
  /\ wpc' = [wpc EXCEPT ![w] = "append"]
  /\ acquired' = acquired \cup {t}
  /\ start' = [start EXCEPT ![t] = Len(store)]
  /\ UNCHANGED <<entries, mainpc, submitted, queue, wtask, wdiags, store,
                 done, report, outcome, result>>

(* all_diagnostics.extend(diags), one element per step.                    *)
AppendOne(w) ==
  /\ wpc[w] = "append"
  /\ wdiags[w] # <<>>
  /\ store' = Append(store, Head(wdiags[w]))
  /\ wdiags' = [wdiags EXCEPT ![w] = Tail(wdiags[w])]
  /\ UNCHANGED <<entries, mainpc, submitted, queue, wpc, wtask, lock, done,
                 report, outcome, result, acquired, start>>

(* Leaving the with block; analyze_file returns and the future is done.    *)
Release(w) ==
  /\ wpc[w] = "append"
  /\ wdiags[w] = <<>>
  /\ lock' = NoHolder
  /\ done' = done \cup {wtask[w]}
  /\ wpc' = [wpc EXCEPT ![w] = "idle"]
  /\ wtask' = [wtask EXCEPT ![w] = NoTask]
  /\ UNCHANGED <<entries, mainpc, submitted, queue, wdiags, store, report,
                 outcome, result, acquired, start>>

(* The process exits after main() returns.                                 *)
Finished ==
  /\ mainpc = "done"
  /\ UNCHANGED vars

Worker(w) ==
  \/ Take(w) \/ RunReturns(w) \/ RunRaises(w)
  \/ Acquire(w) \/ AppendOne(w) \/ Release(w)

Next ==
  \/ StartEmpty \/ StartRun \/ Submit \/ WaitAll \/ WriteReport
  \/ \E w \in Workers : Worker(w)
  \/ Finished

(* Every thread that can make progress eventually does: the worker        *)
(* threads and the main thread are runnable OS threads, and the only      *)
(* blocking call, subprocess.run, is bounded by timeout=300.               *)
Fairness ==
  /\ WF_vars(StartEmpty \/ StartRun \/ Submit \/ WaitAll \/ WriteReport)
  /\ \A w \in Workers : WF_vars(Worker(w))

Spec == Init /\ [][Next]_vars /\ Fairness

-----------------------------------------------------------------------------
(* Invariants and properties.                                              *)

(* The type of every variable but report, whose value is pinned down by    *)
(* ReportComplete.                                                         *)
TypeOK ==
  /\ entries \in InputEntries
  /\ mainpc \in {"start", "submit", "wait", "report", "done"}
  /\ submitted \in 0..MaxEntries
  /\ queue \in Seq(Tasks)
  /\ wpc \in [Workers -> {"idle", "run", "lock", "append"}]
  /\ wtask \in [Workers -> Tasks \cup {NoTask}]
  /\ wdiags \in [Workers -> Seq(TaggedDiag)]
  /\ lock \in Workers \cup {NoHolder}
  /\ store \in Seq(TaggedDiag)
  /\ done \subseteq Tasks
  /\ outcome \in [Tasks -> Outcomes]
  /\ result \in [Tasks -> Seq(TaggedDiag)]
  /\ acquired \subseteq Tasks
  /\ start \in [Tasks -> Nat]

(* The task whose worker holds diagnostics_lock, if any.                   *)
Holder == IF lock = NoHolder THEN NoTask ELSE wtask[lock]

(* How many of task t's diagnostics are already in all_diagnostics.        *)
Copied(t) ==
  IF t = Holder THEN Len(result[t]) - Len(wdiags[lock]) ELSE Len(result[t])

Block(t) == start[t] + 1..start[t] + Copied(t)

(* all_diagnostics is made of one contiguous block per task that entered  *)
(* the locked section, in the order the lock was taken: each block holds  *)
(* the first Copied(t) records the task parsed, in parser order, no two   *)
(* blocks overlap, and no record of the list lies outside every block.    *)
(* This is what diagnostics_lock around extend guarantees to concurrent   *)
(* analyze_file calls.                                                     *)
StoreBlocks ==
  /\ \A t \in acquired :
       /\ start[t] + Copied(t) <= Len(store)
       /\ \A k \in 1..Copied(t) : store[start[t] + k] = result[t][k]
  /\ \A t1, t2 \in acquired :
       t1 # t2 => Block(t1) \cap Block(t2) = {}
  /\ \A i \in 1..Len(store) : \E t \in acquired : i \in Block(t)

(* When main() writes the report, every future is done and the report     *)
(* holds, for each entry whose clang-tidy call returned, all the records  *)
(* parsed from its output, and nothing of an entry whose call raised.     *)
(* run_clang_tidy_parallel returns only after the executor has finished.  *)
ReportComplete ==
  mainpc = "done" /\ entries # <<>> =>
    /\ report = Summary(store)
    /\ \A t \in TaskSet :
         /\ outcome[t] # "pending"
         /\ (t \in acquired <=> outcome[t] # "raised")
         /\ t \in acquired => Copied(t) = Len(result[t])

(* Once main() is past the as_completed loop, no worker thread appends to *)
(* all_diagnostics or finishes a future any more: the list main() hands   *)
(* to generate_html_report is final, not one a late analyze_file call is  *)
(* still extending.                                                         *)
StoreFinalAfterWait ==
  [][(mainpc \in {"report", "done"}) => UNCHANGED <<store, done>>]_vars

(* The analysis finishes: every submitted analyze_file call ends (the     *)
(* subprocess timeout bounds it) and main() writes the report.             *)
Termination == <>(mainpc = "done")

(* Section 4.4 of the spec: a per-file failure -- non-zero exit, timeout  *)
(* or spawn failure -- contributes zero diagnostics for that file.  In    *)
(* analyze_file only an exception is a failure: subprocess.run does not   *)
(* check the exit status.                                                  *)
FailedFileContributesNothing ==
  \A t \in acquired : outcome[t] \in {"exitNonzero", "raised"} => result[t] = <<>>

-----------------------------------------------------------------------------
(* The inductive invariants behind TypeOK, StoreBlocks and ReportComplete, *)
(* checked by TLC and used in SchedulerProofs.                             *)

Busy(w) == wpc[w] # "idle"

(* Every task that was submitted is numbered 1..submitted, and main()      *)
(* submits at most one future per entry.                                   *)
TaskRange ==
  /\ submitted <= Len(entries)
  /\ \A w \in Workers : Busy(w) => wtask[w] \in 1..submitted
  /\ \A i \in DOMAIN queue : queue[i] \in 1..submitted
  /\ acquired \cup done \subseteq 1..submitted

TypeInv == TypeOK /\ TaskRange

(* A task is in at most one place: once in the queue, or with one worker;  *)
(* a queued task has not entered the locked section.                       *)
TaskDistinct ==
  /\ \A w1, w2 \in Workers :
       w1 # w2 /\ Busy(w1) /\ Busy(w2) => wtask[w1] # wtask[w2]
  /\ \A i, j \in DOMAIN queue : i # j => queue[i] # queue[j]
  /\ \A i \in DOMAIN queue :
       /\ queue[i] \notin acquired
       /\ \A w \in Workers : Busy(w) => wtask[w] # queue[i]

(* A worker holds diagnostics_lock exactly while it appends; what it has   *)
(* still to append is the tail of its task's list not yet copied.          *)
LockInv ==
  \A w \in Workers :
    /\ (lock = w) <=> (wpc[w] = "append")
    /\ wpc[w] \in {"run", "lock"} => wtask[w] \notin acquired
    /\ wpc[w] = "lock" => wdiags[w] = result[wtask[w]]
    /\ wpc[w] = "append" =>
         /\ wtask[w] \in acquired
         /\ Len(wdiags[w]) <= Len(result[wtask[w]])
         /\ \A k \in 1..Len(wdiags[w]) :
              wdiags[w][k] =
                result[wtask[w]][Len(result[wtask[w]]) - Len(wdiags[w]) + k]
         /\ start[wtask[w]] + Copied(wtask[w]) = Len(store)

StoreInv == TypeInv /\ TaskDistinct /\ LockInv /\ StoreBlocks

(* A done task is with no worker and not queued; a task that entered the   *)
(* locked section is done or is the holder's.                              *)
DoneInv ==
  /\ \A w \in Workers : Busy(w) <=> (wtask[w] # NoTask)
  /\ \A w \in Workers : Busy(w) => wtask[w] \notin done
  /\ \A i \in DOMAIN queue : queue[i] \notin done
  /\ \A t \in acquired : t \in done \/ t = Holder

(* How a task ended decides whether it entered the locked section: only a *)
(* task whose subprocess call returned waits for the lock or enters it,   *)
(* and its list is the tagged parse of one output.                         *)
OutcomeInv ==
  /\ \A w \in Workers :
       wpc[w] = "lock" => outcome[wtask[w]] \in {"exit0", "exitNonzero"}
  /\ \A t \in Tasks :
       /\ outcome[t] \in {"exit0", "exitNonzero"} =>
            \E o \in Outputs : result[t] = Tag(ParseDiagnostics(o), entries[t])
       /\ t \in acquired => outcome[t] \in {"exit0", "exitNonzero"}
       /\ t \in done =>
            /\ outcome[t] # "pending"
            /\ (t \in acquired <=> outcome[t] # "raised")

(* main() is past the wait only when every future is done.                *)
MainInv ==
  /\ mainpc = "start" => submitted = 0
  /\ mainpc \in {"wait", "report", "done"} /\ entries # <<>> =>
       submitted = Len(entries)
  /\ mainpc \in {"report", "done"} => done = TaskSet
  /\ mainpc # "done" => report = NoReport
  /\ mainpc = "done" => report = Summary(store)

IInv == StoreInv /\ DoneInv /\ OutcomeInv /\ MainInv


-----------------------------------------------------------------------------
(* Refinement of AtomicAnalysis.  main() is "start" before it reads the    *)
(* entries, "done" once it returns, and analysing in between.  The list    *)
(* the abstract specification sees is all_diagnostics without the block   *)
(* the lock holder is still extending: a task's records appear at once,    *)
(* when it leaves the locked section.                                      *)
Phase ==
  CASE mainpc = "start" -> "start"
    [] mainpc = "done"  -> "done"
    [] OTHER            -> "run"

AbsStore == IF lock = NoHolder THEN store ELSE SubSeq(store, 1, start[Holder])

Abs == INSTANCE AtomicAnalysis WITH phase <- Phase, finished <- done,
                                      astore <- AbsStore

(* The threads, the queue and diagnostics_lock implement one atomic       *)
(* analysis per entry: the records of each file whose clang-tidy call     *)
(* returned reach all_diagnostics as one block, the tagged parse of its   *)
(* output, each file once, and the report is the summary of that list.    *)
AtomicRefinement == Abs!Spec

=============================================================================
