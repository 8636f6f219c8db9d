------------------------- MODULE SchedulerRefinement -------------------------
(***************************************************************************)
(* The proof that Scheduler implements AtomicAnalysis under the mapping of *)
(* Scheduler.tla (Phase, done, AbsStore), for every number of workers and  *)
(* entries.  Every step of main() or of a worker is a step of the abstract *)
(* specification or leaves the mapped state as it was:                      *)
(*   StartEmpty -> NoEntries, StartRun -> Begin, WriteReport -> WriteReport,*)
(*   RunRaises -> FailFile, Release -> AnalyzeFile, every other step a      *)
(*   stutter.                                                              *)
(* Release is the step that needs IInv: the holder's block ends at the end *)
(* of all_diagnostics (LockInv), it holds the whole of the task's list     *)
(* (StoreBlocks), and that list is the tagged parse of one output          *)
(* (OutcomeInv).                                                            *)
(***************************************************************************)
EXTENDS SchedulerReportProofs, SequenceTheorems

-----------------------------------------------------------------------------
(* Lemmas on sequences.                                                    *)

(* A sequence whose last Len(r) elements are r is its prefix followed by r. *)
LEMMA SplitAtBlock ==
  ASSUME NEW S, NEW s \in Seq(S), NEW r \in Seq(S), NEW n \in Nat,
         n + Len(r) = Len(s),
         \A k \in 1..Len(r) : s[n + k] = r[k]
  PROVE  s = SubSeq(s, 1, n) \o r
<1>1. SubSeq(s, 1, n) \in Seq(S) /\ Len(SubSeq(s, 1, n)) = n
  OBVIOUS
<1>2. /\ SubSeq(s, 1, n) \o r \in Seq(S)
      /\ Len(SubSeq(s, 1, n) \o r) = Len(s)
  BY <1>1
<1>3. \A i \in 1..Len(s) : s[i] = (SubSeq(s, 1, n) \o r)[i]
  <2>1. SUFFICES ASSUME NEW i \in 1..Len(s) PROVE s[i] = (SubSeq(s, 1, n) \o r)[i]
    OBVIOUS
  <2>2. CASE i <= n
    BY <1>1, <2>2
  <2>3. CASE i > n
    <3>1. i - n \in 1..Len(r) /\ s[n + (i - n)] = r[i - n]
      BY <2>3
    <3>. QED BY <1>1, <2>3, <3>1
  <2>. QED BY <2>2, <2>3
<1>. QED BY <1>2, <1>3, SeqEqual

(* Appending to a list leaves each of its prefixes as it was.              *)
LEMMA PrefixOfAppend ==
  ASSUME NEW S, NEW s \in Seq(S), NEW x \in S, NEW n \in 0..Len(s)
  PROVE  SubSeq(Append(s, x), 1, n) = SubSeq(s, 1, n)
OBVIOUS

-----------------------------------------------------------------------------
(* Facts from the invariant.                                               *)

(* A busy worker holds a submitted, unfinished task, while main() is       *)
(* submitting or waiting.                                                  *)
LEMMA BusyWorker ==
  ASSUME IInv, NEW w \in Workers, Busy(w)
  PROVE  /\ Phase = "run"
         /\ wtask[w] \in TaskSet \ done
         /\ wtask[w] \in 1..MaxEntries
<1>0. TypeInv /\ TypeOK /\ TaskRange /\ DoneInv /\ MainInv
  BY DEF IInv, StoreInv, TypeInv
<1>1. /\ wtask[w] \in 1..submitted /\ submitted <= Len(entries)
      /\ submitted \in Nat
  BY <1>0 DEF TaskRange, TypeOK
<1>2. mainpc \in {"start", "submit", "wait"}
  BY <1>0, WorkerBeforeReport
<1>3. mainpc # "start"
  <2>1. submitted # 0
    BY <1>1
  <2>. QED BY <1>0, <2>1 DEF MainInv
<1>4. Phase = "run"
  BY <1>2, <1>3 DEF Phase
<1>5. wtask[w] \notin done
  BY <1>0 DEF DoneInv
<1>6. Len(entries) \in 0..MaxEntries
  BY <1>0, EntriesBound DEF TypeOK
<1>7. wtask[w] \in TaskSet
  BY <1>1, <1>6 DEF TaskSet
<1>8. wtask[w] \in 1..MaxEntries
  BY <1>1, <1>6, EntriesAssumption
<1>. QED BY <1>4, <1>5, <1>7, <1>8

(* No worker holds the lock once main() is past the wait.                  *)
LEMMA LockFreeAfterWait ==
  ASSUME IInv, mainpc \in {"report", "done"}
  PROVE  lock = NoHolder /\ AbsStore = store
<1>0. TypeInv /\ TypeOK /\ LockInv /\ DoneInv /\ MainInv
  BY DEF IInv, StoreInv, TypeInv
<1>1. \A w \in Workers : ~Busy(w)
  BY <1>0, Quiet
<1>2. lock \notin Workers
  BY <1>0, <1>1 DEF LockInv, Busy
<1>. QED BY <1>0, <1>2 DEF TypeOK, AbsStore

(* A step that keeps the lock, its holder, the list and the start indices *)
(* keeps the abstract list.                                                *)
LEMMA AbsStoreFrame ==
  ASSUME UNCHANGED <<lock, store, start>>, Holder' = Holder
  PROVE  AbsStore' = AbsStore
BY DEF AbsStore

(* A step that keeps main()'s phase, the finished set, the report and the  *)
(* abstract list is a stutter of AtomicAnalysis.                           *)
LEMMA AvarsFrame ==
  ASSUME UNCHANGED <<entries, done, report, lock, store, start>>,
         Holder' = Holder, Phase' = Phase
  PROVE  UNCHANGED Abs!avars
BY AbsStoreFrame DEF Abs!avars

(* A worker that does not hold the lock and changes at most its own task   *)
(* leaves the holder as it was.                                            *)
LEMMA HolderFrame ==
  ASSUME TypeOK, NEW w \in Workers, lock # w, lock' = lock,
         \A w2 \in Workers \ {w} : wtask'[w2] = wtask[w2]
  PROVE  Holder' = Holder
BY DEF Holder, TypeOK

(* The abstract specification writes the same report as Report.tla.       *)
LEMMA SummarySame ==
  ASSUME NEW ds PROVE Abs!Summary(ds) = Summary(ds)
BY DEF Abs!Summary, Summary, Abs!CountIf, CountIf, Abs!IsErrorDiag,
       IsErrorDiag, Abs!IsWarningDiag, IsWarningDiag, Abs!HasWord, HasWord,
       Abs!GroupByFile, GroupByFile

-----------------------------------------------------------------------------
(* The steps of main().                                                    *)

LEMMA AbsInit == Init => Abs!Init
BY DEF Init, Abs!Init, Phase, AbsStore, NoReport, Abs!NoReport

(* if not entries: the abstract NoEntries.                                 *)
LEMMA StartEmptyRefines ==
  ASSUME IInv, StartEmpty PROVE Abs!NoEntries
<1>1. Phase = "start" /\ Phase' = "done"
  BY DEF StartEmpty, Phase
<1>2. AbsStore' = AbsStore
  BY AbsStoreFrame DEF StartEmpty, Holder
<1>. QED BY <1>1, <1>2, SummarySame DEF StartEmpty, Abs!NoEntries

LEMMA StartRunRefines ==
  ASSUME IInv, StartRun PROVE Abs!Begin
<1>1. Phase = "start" /\ Phase' = "run"
  BY DEF StartRun, Phase
<1>2. AbsStore' = AbsStore
  BY AbsStoreFrame DEF StartRun, Holder
<1>. QED BY <1>1, <1>2 DEF StartRun, Abs!Begin

(* executor.submit and the wait for the futures are stutters.              *)
LEMMA SubmitWaitRefines ==
  ASSUME IInv, Submit \/ WaitAll PROVE UNCHANGED Abs!avars
<1>1. Phase' = Phase
  BY DEF Submit, WaitAll, Phase
<1>. QED BY <1>1, AvarsFrame DEF Submit, WaitAll, Holder

(* generate_html_report: every file is finished and no block is open.     *)
LEMMA WriteReportRefines ==
  ASSUME IInv, WriteReport PROVE Abs!WriteReport
<1>0. MainInv
  BY DEF IInv
<1>1. Phase = "run" /\ Phase' = "done"
  BY DEF WriteReport, Phase
<1>2. done = Abs!TaskSet
  BY <1>0 DEF WriteReport, MainInv, TaskSet, Abs!TaskSet
<1>3. AbsStore = store
  BY LockFreeAfterWait DEF WriteReport
<1>4. AbsStore' = AbsStore
  BY AbsStoreFrame DEF WriteReport, Holder
<1>. QED BY <1>1, <1>2, <1>3, <1>4, SummarySame DEF WriteReport, Abs!WriteReport

-----------------------------------------------------------------------------
(* The steps of a worker.                                                  *)

(* The invariant's parts the worker steps use.                             *)
LEMMA WorkerFacts ==
  ASSUME IInv
  PROVE  TypeOK /\ LockInv /\ StoreBlocks /\ OutcomeInv
BY DEF IInv, StoreInv, TypeInv

(* Taking a work item and the return of subprocess.run are stutters: the  *)
(* worker does not hold the lock.                                          *)
LEMMA TakeRunReturnsRefines ==
  ASSUME IInv, NEW w \in Workers, Take(w) \/ RunReturns(w)
  PROVE  UNCHANGED Abs!avars
<1>0. TypeOK /\ LockInv
  BY WorkerFacts
<1>1. lock # w
  BY <1>0 DEF Take, RunReturns, LockInv
<1>2. Holder' = Holder
  BY <1>0, <1>1, HolderFrame DEF Take, RunReturns, TypeOK
<1>3. Phase' = Phase
  BY DEF Take, RunReturns, Phase
<1>. QED BY <1>2, <1>3, AvarsFrame DEF Take, RunReturns

(* subprocess.run raises: the abstract FailFile of the worker's task.      *)
LEMMA RunRaisesRefines ==
  ASSUME IInv, NEW w \in Workers, RunRaises(w)
  PROVE  Abs!FailFile(wtask[w])
<1>0. TypeOK /\ LockInv
  BY WorkerFacts
<1>1. Phase = "run" /\ wtask[w] \in TaskSet \ done
  BY BusyWorker DEF RunRaises, Busy
<1>2. lock # w
  BY <1>0 DEF RunRaises, LockInv
<1>3. Holder' = Holder
  BY <1>0, <1>2, HolderFrame DEF RunRaises, TypeOK
<1>4. AbsStore' = AbsStore /\ Phase' = Phase
  BY <1>3, AbsStoreFrame DEF RunRaises, Phase
<1>. QED BY <1>1, <1>4 DEF RunRaises, Abs!FailFile, TaskSet, Abs!TaskSet

(* Entering the with block is a stutter: the lock was free, so the        *)
(* abstract list was all of all_diagnostics, and the new block starts at  *)
(* its end.                                                                *)
LEMMA AcquireRefines ==
  ASSUME IInv, NEW w \in Workers, Acquire(w)
  PROVE  UNCHANGED Abs!avars
<1>0. TypeOK
  BY WorkerFacts
<1>1. wtask[w] \in Tasks
  BY BusyWorker DEF Acquire, Busy, Tasks
<1>2. AbsStore = store
  BY <1>0 DEF Acquire, AbsStore
<1>3. lock' # NoHolder /\ Holder' = wtask[w]
  BY SentinelsApart DEF Acquire, Holder
<1>4. start'[wtask[w]] = Len(store)
  BY <1>0, <1>1 DEF Acquire, TypeOK
<1>5. AbsStore' = SubSeq(store, 1, Len(store))
  BY <1>3, <1>4 DEF Acquire, AbsStore
<1>6. AbsStore' = AbsStore
  BY <1>0, <1>2, <1>5 DEF TypeOK
<1>. QED BY <1>6 DEF Acquire, Phase, Abs!avars

(* One element of extend is a stutter: the abstract list is the part      *)
(* before the open block, and Append leaves it as it was.                  *)
LEMMA AppendOneRefines ==
  ASSUME IInv, NEW w \in Workers, AppendOne(w)
  PROVE  UNCHANGED Abs!avars
<1>0. TypeOK /\ LockInv
  BY WorkerFacts
<1>1. wtask[w] \in Tasks
  BY BusyWorker DEF AppendOne, Busy, Tasks
<1>2. lock = w /\ lock # NoHolder /\ Holder = wtask[w] /\ Holder' = Holder
  BY <1>0, SentinelsApart DEF AppendOne, LockInv, Holder
<1>3. start[wtask[w]] + Copied(wtask[w]) = Len(store)
  BY <1>0, <1>2 DEF AppendOne, LockInv
<1>4. start[wtask[w]] \in 0..Len(store)
  BY <1>0, <1>1, <1>3, CopiedNat DEF TypeOK
<1>5. Head(wdiags[w]) \in TaggedDiag
  BY <1>0 DEF AppendOne, TypeOK
<1>6. SubSeq(Append(store, Head(wdiags[w])), 1, start[wtask[w]])
        = SubSeq(store, 1, start[wtask[w]])
  BY <1>0, <1>4, <1>5, PrefixOfAppend DEF TypeOK
<1>7. AbsStore' = AbsStore
  BY <1>2, <1>6 DEF AppendOne, AbsStore
<1>. QED BY <1>7 DEF AppendOne, Phase, Abs!avars

(* Leaving the with block: the abstract AnalyzeFile of the worker's task.  *)
(* The whole of the task's list is now the block at the end of the list,  *)
(* so all_diagnostics is the abstract list followed by the tagged parse   *)
(* of one output.                                                          *)
LEMMA ReleaseRefines ==
  ASSUME IInv, NEW w \in Workers, Release(w)
  PROVE  Abs!AnalyzeFile(wtask[w])
<1> DEFINE t == wtask[w]
<1>0. TypeOK /\ LockInv /\ StoreBlocks /\ OutcomeInv
  BY WorkerFacts
<1>1. Phase = "run" /\ t \in TaskSet \ done /\ t \in Tasks
  BY BusyWorker DEF Release, Busy, Tasks
<1>2. lock = w /\ lock # NoHolder /\ Holder = t
  BY <1>0, SentinelsApart DEF Release, LockInv, Holder
<1>3. t \in acquired /\ start[t] + Copied(t) = Len(store)
  BY <1>0, <1>2 DEF Release, LockInv
<1>4. Copied(t) = Len(result[t])
  BY <1>0, <1>2, <1>1 DEF Release, Copied, TypeOK
<1>5. \A k \in 1..Len(result[t]) : store[start[t] + k] = result[t][k]
  BY <1>0, <1>3, <1>4 DEF StoreBlocks
<1>6. store = AbsStore \o result[t]
  <2>1. start[t] \in Nat /\ result[t] \in Seq(TaggedDiag)
        /\ store \in Seq(TaggedDiag)
    BY <1>0, <1>1 DEF TypeOK
  <2>2. store = SubSeq(store, 1, start[t]) \o result[t]
    BY <1>3, <1>4, <1>5, <2>1, SplitAtBlock
  <2>. QED BY <1>2, <2>2 DEF AbsStore
<1>7. \E o \in Outputs : result[t] = Tag(ParseDiagnostics(o), entries[t])
  BY <1>0, <1>1, <1>3 DEF OutcomeInv
<1>8. AbsStore' = store
  BY SentinelsApart DEF Release, AbsStore
<1>9. \E o \in Outputs :
        AbsStore' = AbsStore \o Abs!Tag(ParseDiagnostics(o), entries[t])
  BY <1>6, <1>7, <1>8 DEF Tag, Abs!Tag
<1>. QED BY <1>1, <1>9 DEF Release, Abs!AnalyzeFile, TaskSet, Abs!TaskSet,
                             Phase

-----------------------------------------------------------------------------
(* The refinement.                                                         *)

(* Every step of Scheduler, from a state of the invariant, is a step of   *)
(* AtomicAnalysis or leaves its state unchanged.                           *)
LEMMA RefineStep ==
  ASSUME IInv, [Next]_vars
  PROVE  [Abs!Next]_Abs!avars
<1>1. CASE StartEmpty
  BY <1>1, StartEmptyRefines DEF Abs!Next
<1>2. CASE StartRun
  BY <1>2, StartRunRefines DEF Abs!Next
<1>3. CASE Submit \/ WaitAll
  BY <1>3, SubmitWaitRefines
<1>4. CASE WriteReport
  BY <1>4, WriteReportRefines DEF Abs!Next
<1>5. CASE \E w \in Workers : Worker(w)
  <2>1. PICK w \in Workers : Worker(w)
    BY <1>5
  <2>2. CASE Take(w) \/ RunReturns(w) \/ Acquire(w) \/ AppendOne(w)
    BY <2>2, TakeRunReturnsRefines, AcquireRefines, AppendOneRefines
  <2>3. CASE RunRaises(w) \/ Release(w)
    <3>1. wtask[w] \in 1..MaxEntries
      BY <2>3, BusyWorker DEF RunRaises, Release, Busy
    <3>2. Abs!FailFile(wtask[w]) \/ Abs!AnalyzeFile(wtask[w])
      BY <2>3, RunRaisesRefines, ReleaseRefines
    <3>. QED BY <3>1, <3>2 DEF Abs!Next
  <2>. QED BY <2>1, <2>2, <2>3 DEF Worker
<1>6. CASE Finished \/ UNCHANGED vars
  BY <1>6 DEF Finished, vars, Abs!avars, Phase, AbsStore, Holder
<1>. QED BY <1>1, <1>2, <1>3, <1>4, <1>5, <1>6 DEF Next

(* Scheduler implements AtomicAnalysis: every behaviour of the threaded   *)
(* run_clang_tidy_parallel, seen through Phase, done and the list before  *)
(* the open block, is a behaviour in which each file is analysed in one   *)
(* atomic step, at most once, and the report is written from the list of  *)
(* whole blocks after every file is finished.                              *)
THEOREM Refinement == Spec => AtomicRefinement
<1>1. Init => Abs!Init
  BY AbsInit
<1>2. IInv /\ [Next]_vars => [Abs!Next]_Abs!avars
  BY RefineStep
<1>. QED BY <1>1, <1>2, IInvHolds, PTL DEF Spec, AtomicRefinement, Abs!Spec

=============================================================================
