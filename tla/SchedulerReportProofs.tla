------------------------ MODULE SchedulerReportProofs ------------------------
(***************************************************************************)
(* The proof that the report main() writes is complete: ReportComplete,   *)
(* for every number of workers and entries.                                *)
(*                                                                         *)
(* ReportComplete speaks of the state once main() is done; it is not      *)
(* inductive, since nothing in it stops a worker from appending after the *)
(* report.  The proof goes through IInv == StoreInv /\ ReportInv, where    *)
(* ReportInv says where each task is (DoneInv), how its subprocess call    *)
(* ended (OutcomeInv) and what main() knows when it passes the wait       *)
(* (MainInv).  The key fact is Quiet: once main() is past WaitAll every    *)
(* submitted task is done, so no worker is busy and the work queue is      *)
(* empty; all_diagnostics cannot change under the report.                  *)
(***************************************************************************)
EXTENDS SchedulerProofs

ReportInv == DoneInv /\ OutcomeInv /\ MainInv

-----------------------------------------------------------------------------
(* Once main() is past the wait for the futures, no worker thread is busy  *)
(* and no work item is queued: every submitted task is done.               *)
LEMMA Quiet ==
  ASSUME TypeInv, DoneInv, MainInv, mainpc \in {"report", "done"}
  PROVE  /\ \A w \in Workers : ~Busy(w)
         /\ queue = <<>>
<1>0. TypeOK /\ TaskRange
  BY DEF TypeInv
<1>1. 1..submitted \subseteq done
  <2>1. done = TaskSet
    BY DEF MainInv
  <2>2. submitted <= Len(entries) /\ submitted \in Nat
    BY <1>0 DEF TaskRange, TypeOK
  <2>. QED BY <2>1, <2>2 DEF TaskSet
<1>2. ASSUME NEW w \in Workers, Busy(w) PROVE FALSE
  BY <1>0, <1>1, <1>2 DEF TaskRange, DoneInv
<1>3. DOMAIN queue = {}
  BY <1>0, <1>1 DEF TaskRange, DoneInv
<1>4. queue = <<>>
  BY <1>0, <1>3 DEF TypeOK
<1>. QED BY <1>2, <1>4

(* A worker's step, taken while main() is still submitting or waiting,     *)
(* leaves what main() knows as it was.                                     *)
LEMMA MainFrame ==
  ASSUME MainInv, mainpc \in {"start", "submit", "wait"},
         UNCHANGED <<mainpc, submitted, entries, report>>
  PROVE  MainInv'
BY DEF MainInv

(* A worker that can take a step means main() is not past the wait.        *)
LEMMA WorkerBeforeReport ==
  ASSUME TypeInv, DoneInv, MainInv, NEW w \in Workers,
         Busy(w) \/ queue # <<>>
  PROVE  mainpc \in {"start", "submit", "wait"}
<1>1. mainpc \in {"start", "submit", "wait", "report", "done"}
  BY DEF TypeInv, TypeOK
<1>2. ~(mainpc \in {"report", "done"})
  BY Quiet
<1>. QED BY <1>1, <1>2

-----------------------------------------------------------------------------
(* The steps of main().                                                    *)

LEMMA ReportInitial == Init => ReportInv
<1> SUFFICES ASSUME Init PROVE ReportInv
  OBVIOUS
<1>1. DoneInv
  BY SentinelsApart DEF Init, DoneInv, Busy, Holder
<1>2. OutcomeInv
  BY DEF Init, OutcomeInv
<1>3. MainInv
  BY DEF Init, MainInv
<1>. QED BY <1>1, <1>2, <1>3 DEF ReportInv

(* if not entries: the empty report, with nothing ever submitted.          *)
LEMMA StartEmptyStep ==
  ASSUME IInv, StartEmpty PROVE ReportInv'
<1>0. TypeOK /\ TaskRange /\ StoreBlocks /\ DoneInv /\ OutcomeInv /\ MainInv
  BY DEF IInv, StoreInv, TypeInv
<1>1. submitted = 0
  BY <1>0 DEF StartEmpty, MainInv
<1>2. acquired = {} /\ done = {}
  BY <1>0, <1>1 DEF TaskRange
<1>3. store = <<>>
  <2>1. \A i \in 1..Len(store) : FALSE
    BY <1>0, <1>2 DEF StoreBlocks
  <2>. QED BY <1>0, <2>1 DEF TypeOK
<1>4. DoneInv' /\ OutcomeInv'
  BY <1>0 DEF StartEmpty, DoneInv, OutcomeInv, Busy, Holder
<1>5. MainInv'
  BY <1>1, <1>2, <1>3 DEF StartEmpty, MainInv, TaskSet
<1>. QED BY <1>4, <1>5 DEF ReportInv

LEMMA StartRunStep ==
  ASSUME IInv, StartRun PROVE ReportInv'
<1>1. DoneInv' /\ OutcomeInv'
  BY DEF IInv, StartRun, DoneInv, OutcomeInv, Busy, Holder
<1>2. MainInv'
  BY DEF IInv, StartRun, MainInv
<1>. QED BY <1>1, <1>2 DEF ReportInv

(* A fresh work item is above every task done so far.                      *)
LEMMA SubmitReportStep ==
  ASSUME IInv, Submit PROVE ReportInv'
<1>0. TypeOK /\ TaskRange /\ DoneInv /\ OutcomeInv /\ MainInv
  BY DEF IInv, StoreInv, TypeInv
<1>. DEFINE n == submitted + 1
<1>1. n \notin done
  BY <1>0 DEF TaskRange, TypeOK
<1>2. /\ DOMAIN queue' = (DOMAIN queue) \cup {Len(queue) + 1}
      /\ \A i \in DOMAIN queue : queue'[i] = queue[i]
      /\ queue'[Len(queue) + 1] = n
  BY <1>0 DEF Submit, TypeOK
<1>3. DoneInv'
  BY <1>0, <1>1, <1>2 DEF Submit, DoneInv, Busy, Holder
<1>4. OutcomeInv'
  BY <1>0 DEF Submit, OutcomeInv
<1>5. MainInv'
  BY <1>0 DEF Submit, MainInv
<1>. QED BY <1>3, <1>4, <1>5 DEF ReportInv

(* main() passes the wait only when every future is done.                  *)
LEMMA WaitAllStep ==
  ASSUME IInv, WaitAll PROVE ReportInv'
<1>1. DoneInv' /\ OutcomeInv'
  BY DEF IInv, WaitAll, DoneInv, OutcomeInv, Busy, Holder
<1>2. MainInv'
  BY DEF IInv, WaitAll, MainInv, TaskSet
<1>. QED BY <1>1, <1>2 DEF ReportInv

(* The report is the summary of all_diagnostics as it is now.              *)
LEMMA WriteReportStep ==
  ASSUME IInv, WriteReport PROVE ReportInv'
<1>1. DoneInv' /\ OutcomeInv'
  BY DEF IInv, WriteReport, DoneInv, OutcomeInv, Busy, Holder
<1>2. MainInv'
  BY DEF IInv, WriteReport, MainInv, TaskSet
<1>. QED BY <1>1, <1>2 DEF ReportInv

-----------------------------------------------------------------------------
(* The steps of the worker threads, all taken while main() is submitting  *)
(* or waiting.                                                             *)

(* An idle worker takes the oldest work item, which is not done.          *)
LEMMA TakeReportStep ==
  ASSUME IInv, NEW w \in Workers, Take(w) PROVE ReportInv'
<1>0. /\ TypeInv /\ TypeOK /\ LockInv /\ DoneInv /\ OutcomeInv /\ MainInv
  BY DEF IInv, StoreInv, TypeInv, ReportInv
<1>1. MainInv'
  <2>1. mainpc \in {"start", "submit", "wait"}
    BY <1>0, WorkerBeforeReport DEF Take
  <2>. QED BY <1>0, <2>1, MainFrame DEF Take
<1>. DEFINE h == Head(queue)
<1>2. /\ queue # <<>> /\ 1 \in DOMAIN queue /\ h = queue[1]
      /\ h \in Tasks /\ h # NoTask /\ h \notin done
      /\ \A i \in DOMAIN Tail(queue) :
           i + 1 \in DOMAIN queue /\ Tail(queue)[i] = queue[i + 1]
  BY <1>0, SentinelsApart DEF Take, TypeOK, DoneInv
<1>3. wpc[w] = "idle" /\ lock # w
  BY <1>0 DEF Take, LockInv
<1>4. Holder' = Holder
  BY <1>0, <1>3 DEF Take, Holder, TypeOK
<1>5. DoneInv'
  <2>1. \A w2 \in Workers : Busy(w2)' <=> (wtask'[w2] # NoTask)
    BY <1>0, <1>2 DEF Take, DoneInv, Busy, TypeOK
  <2>2. \A w2 \in Workers : Busy(w2)' => wtask'[w2] \notin done'
    BY <1>0, <1>2 DEF Take, DoneInv, Busy, TypeOK
  <2>3. \A i \in DOMAIN queue' : queue'[i] \notin done'
    BY <1>0, <1>2 DEF Take, DoneInv
  <2>4. \A t \in acquired' : t \in done' \/ t = Holder'
    BY <1>0, <1>4 DEF Take, DoneInv
  <2>. QED BY <2>1, <2>2, <2>3, <2>4 DEF DoneInv
<1>6. OutcomeInv'
  BY <1>0 DEF Take, OutcomeInv, TypeOK
<1>. QED BY <1>1, <1>5, <1>6 DEF ReportInv

(* subprocess.run returns: the outcome of a task that is not done and has *)
(* not entered the locked section is set, and the worker waits for the    *)
(* lock.                                                                   *)
LEMMA RunReturnsReportStep ==
  ASSUME IInv, NEW w \in Workers, RunReturns(w) PROVE ReportInv'
<1>0. /\ TypeInv /\ TypeOK /\ TaskDistinct /\ LockInv
      /\ DoneInv /\ OutcomeInv /\ MainInv
  BY DEF IInv, StoreInv, TypeInv, ReportInv
<1>. DEFINE t == wtask[w]
<1>1. /\ wpc[w] = "run" /\ Busy(w)
      /\ t \in Tasks /\ t \notin acquired /\ t \notin done
      /\ \A w2 \in Workers \ {w} : Busy(w2) => wtask[w2] # t
  BY <1>0, SentinelsApart DEF RunReturns, LockInv, DoneInv, TaskDistinct,
     Busy, TypeOK
<1>2. MainInv'
  <2>1. mainpc \in {"start", "submit", "wait"}
    BY <1>0, <1>1, WorkerBeforeReport
  <2>. QED BY <1>0, <2>1, MainFrame DEF RunReturns
<1>3. PICK o \in Outputs, rc \in {"exit0", "exitNonzero"} :
        /\ result' = [result EXCEPT ![t] = Tag(ParseDiagnostics(o), entries[t])]
        /\ outcome' = [outcome EXCEPT ![t] = rc]
  BY DEF RunReturns
<1>4. DoneInv'
  BY <1>0, <1>1 DEF RunReturns, DoneInv, Busy, Holder, TypeOK
<1>5. OutcomeInv'
  <2>1. \A w2 \in Workers :
          wpc'[w2] = "lock" => outcome'[wtask'[w2]] \in {"exit0", "exitNonzero"}
    <3>1. SUFFICES ASSUME NEW w2 \in Workers, wpc'[w2] = "lock"
                   PROVE  outcome'[wtask'[w2]] \in {"exit0", "exitNonzero"}
      OBVIOUS
    <3>2. CASE w2 = w
      BY <1>0, <1>1, <1>3, <3>1, <3>2 DEF RunReturns, TypeOK
    <3>3. CASE w2 # w
      <4>1. wpc[w2] = "lock" /\ Busy(w2) /\ wtask[w2] \in Tasks
        BY <1>0, <3>1, <3>3, SentinelsApart DEF RunReturns, Busy, DoneInv, TypeOK
      <4>2. wtask[w2] # t
        BY <1>1, <3>3, <4>1
      <4>. QED BY <1>0, <1>3, <4>1, <4>2 DEF RunReturns, OutcomeInv, TypeOK
    <3>. QED BY <3>2, <3>3
  <2>2. \A t2 \in Tasks :
          /\ t2 \in acquired' => outcome'[t2] \in {"exit0", "exitNonzero"}
          /\ t2 \in done' =>
               /\ outcome'[t2] # "pending"
               /\ (t2 \in acquired' <=> outcome'[t2] # "raised")
    BY <1>0, <1>1, <1>3 DEF RunReturns, OutcomeInv, TypeOK
  <2>3. \A t2 \in Tasks :
          outcome'[t2] \in {"exit0", "exitNonzero"} =>
            \E o2 \in Outputs : result'[t2] = Tag(ParseDiagnostics(o2), entries'[t2])
    BY <1>0, <1>1, <1>3 DEF RunReturns, OutcomeInv, TypeOK
  <2>. QED BY <2>1, <2>2, <2>3 DEF OutcomeInv
<1>. QED BY <1>2, <1>4, <1>5 DEF ReportInv

(* subprocess.run raises: the task is done with outcome "raised" and has  *)
(* not entered the locked section.                                         *)
LEMMA RunRaisesReportStep ==
  ASSUME IInv, NEW w \in Workers, RunRaises(w) PROVE ReportInv'
<1>0. /\ TypeInv /\ TypeOK /\ TaskDistinct /\ LockInv
      /\ DoneInv /\ OutcomeInv /\ MainInv
  BY DEF IInv, StoreInv, TypeInv, ReportInv
<1>. DEFINE t == wtask[w]
<1>1. /\ wpc[w] = "run" /\ Busy(w) /\ lock # w
      /\ t \in Tasks /\ t \notin acquired /\ t \notin done
      /\ \A w2 \in Workers \ {w} : Busy(w2) => wtask[w2] # t
      /\ \A i \in DOMAIN queue : queue[i] # t
  BY <1>0, SentinelsApart DEF RunRaises, LockInv, DoneInv, TaskDistinct,
     Busy, TypeOK
<1>2. MainInv'
  <2>1. mainpc \in {"start", "submit", "wait"}
    BY <1>0, <1>1, WorkerBeforeReport
  <2>. QED BY <1>0, <2>1, MainFrame DEF RunRaises
<1>3. Holder' = Holder
  BY <1>0, <1>1 DEF RunRaises, Holder, TypeOK
<1>4. DoneInv'
  <2>1. \A w2 \in Workers : Busy(w2)' <=> (wtask'[w2] # NoTask)
    BY <1>0 DEF RunRaises, DoneInv, Busy, TypeOK
  <2>2. \A w2 \in Workers : Busy(w2)' => wtask'[w2] \notin done'
    BY <1>0, <1>1 DEF RunRaises, DoneInv, Busy, TypeOK
  <2>3. \A i \in DOMAIN queue' : queue'[i] \notin done'
    BY <1>0, <1>1 DEF RunRaises, DoneInv
  <2>4. \A t2 \in acquired' : t2 \in done' \/ t2 = Holder'
    BY <1>0, <1>3 DEF RunRaises, DoneInv
  <2>. QED BY <2>1, <2>2, <2>3, <2>4 DEF DoneInv
<1>5. OutcomeInv'
  <2>1. \A w2 \in Workers :
          wpc'[w2] = "lock" => outcome'[wtask'[w2]] \in {"exit0", "exitNonzero"}
    BY <1>0, <1>1 DEF RunRaises, OutcomeInv, Busy, TypeOK
  <2>2. \A t2 \in Tasks :
          /\ t2 \in acquired' => outcome'[t2] \in {"exit0", "exitNonzero"}
          /\ t2 \in done' =>
               /\ outcome'[t2] # "pending"
               /\ (t2 \in acquired' <=> outcome'[t2] # "raised")
    BY <1>0, <1>1 DEF RunRaises, OutcomeInv, TypeOK
  <2>3. \A t2 \in Tasks :
          outcome'[t2] \in {"exit0", "exitNonzero"} =>
            \E o2 \in Outputs : result'[t2] = Tag(ParseDiagnostics(o2), entries'[t2])
    BY <1>0, <1>1 DEF RunRaises, OutcomeInv, TypeOK
  <2>. QED BY <2>1, <2>2, <2>3 DEF OutcomeInv
<1>. QED BY <1>2, <1>4, <1>5 DEF ReportInv

(* Entering the with block: the lock was free, so every task that entered *)
(* before is done, and the new holder's call returned.                     *)
LEMMA AcquireReportStep ==
  ASSUME IInv, NEW w \in Workers, Acquire(w) PROVE ReportInv'
<1>0. /\ TypeInv /\ TypeOK /\ LockInv /\ DoneInv /\ OutcomeInv /\ MainInv
  BY DEF IInv, StoreInv, TypeInv, ReportInv
<1>. DEFINE t == wtask[w]
<1>1. /\ wpc[w] = "lock" /\ Busy(w) /\ lock = NoHolder
      /\ t \in Tasks /\ t \notin done
      /\ outcome[t] \in {"exit0", "exitNonzero"}
  BY <1>0, SentinelsApart DEF Acquire, DoneInv, OutcomeInv, Busy, TypeOK
<1>2. MainInv'
  <2>1. mainpc \in {"start", "submit", "wait"}
    BY <1>0, <1>1, WorkerBeforeReport
  <2>. QED BY <1>0, <2>1, MainFrame DEF Acquire
<1>3. Holder = NoTask /\ Holder' = t
  BY <1>1, SentinelsApart DEF Acquire, Holder
<1>4. acquired \subseteq done
  BY <1>0, <1>3, SentinelsApart DEF DoneInv, TypeOK
<1>5. DoneInv'
  BY <1>0, <1>3, <1>4 DEF Acquire, DoneInv, Busy
<1>6. OutcomeInv'
  BY <1>0, <1>1 DEF Acquire, OutcomeInv, TypeOK
<1>. QED BY <1>2, <1>5, <1>6 DEF ReportInv

(* One element of the extend: no task changes place or outcome.           *)
LEMMA AppendOneReportStep ==
  ASSUME IInv, NEW w \in Workers, AppendOne(w) PROVE ReportInv'
<1>0. /\ TypeInv /\ DoneInv /\ OutcomeInv /\ MainInv
  BY DEF IInv, StoreInv, ReportInv
<1>1. Busy(w)
  BY DEF AppendOne, Busy
<1>2. MainInv'
  <2>1. mainpc \in {"start", "submit", "wait"}
    BY <1>0, <1>1, WorkerBeforeReport
  <2>. QED BY <1>0, <2>1, MainFrame DEF AppendOne
<1>3. DoneInv' /\ OutcomeInv'
  BY <1>0 DEF AppendOne, DoneInv, OutcomeInv, Busy, Holder
<1>. QED BY <1>2, <1>3 DEF ReportInv

(* Leaving the with block: the holder's task, whose call returned, is     *)
(* done, and no task is left between the lock and done.                   *)
LEMMA ReleaseReportStep ==
  ASSUME IInv, NEW w \in Workers, Release(w) PROVE ReportInv'
<1>0. /\ TypeInv /\ TypeOK /\ TaskDistinct /\ LockInv
      /\ DoneInv /\ OutcomeInv /\ MainInv
  BY DEF IInv, StoreInv, TypeInv, ReportInv
<1>. DEFINE t == wtask[w]
<1>1. /\ wpc[w] = "append" /\ Busy(w) /\ lock = w
      /\ t \in Tasks /\ t \in acquired /\ Holder = t
      /\ outcome[t] \in {"exit0", "exitNonzero"}
      /\ \A w2 \in Workers \ {w} : Busy(w2) => wtask[w2] # t
      /\ \A i \in DOMAIN queue : queue[i] # t
  BY <1>0, SentinelsApart DEF Release, LockInv, DoneInv, OutcomeInv,
     TaskDistinct, Busy, Holder, TypeOK
<1>2. MainInv'
  <2>1. mainpc \in {"start", "submit", "wait"}
    BY <1>0, <1>1, WorkerBeforeReport
  <2>. QED BY <1>0, <2>1, MainFrame DEF Release
<1>3. Holder' = NoTask
  BY DEF Release, Holder
<1>4. DoneInv'
  <2>1. \A w2 \in Workers : Busy(w2)' <=> (wtask'[w2] # NoTask)
    BY <1>0 DEF Release, DoneInv, Busy, TypeOK
  <2>2. \A w2 \in Workers : Busy(w2)' => wtask'[w2] \notin done'
    BY <1>0, <1>1 DEF Release, DoneInv, Busy, TypeOK
  <2>3. \A i \in DOMAIN queue' : queue'[i] \notin done'
    BY <1>0, <1>1 DEF Release, DoneInv
  <2>4. \A t2 \in acquired' : t2 \in done' \/ t2 = Holder'
    BY <1>0, <1>1 DEF Release, DoneInv
  <2>. QED BY <2>1, <2>2, <2>3, <2>4 DEF DoneInv
<1>5. OutcomeInv'
  BY <1>0, <1>1 DEF Release, OutcomeInv, TypeOK
<1>. QED BY <1>2, <1>4, <1>5 DEF ReportInv

-----------------------------------------------------------------------------
(* The inductive invariant and the theorems.                               *)

LEMMA ReportStep == IInv /\ [Next]_vars => ReportInv'
<1> SUFFICES ASSUME IInv, [Next]_vars PROVE ReportInv'
  OBVIOUS
<1>1. CASE StartEmpty
  BY <1>1, StartEmptyStep
<1>2. CASE StartRun
  BY <1>2, StartRunStep
<1>3. CASE Submit
  BY <1>3, SubmitReportStep
<1>4. CASE WaitAll
  BY <1>4, WaitAllStep
<1>5. CASE WriteReport
  BY <1>5, WriteReportStep
<1>6. ASSUME NEW w \in Workers, Worker(w) PROVE ReportInv'
  BY <1>6, TakeReportStep, RunReturnsReportStep, RunRaisesReportStep,
     AcquireReportStep, AppendOneReportStep, ReleaseReportStep DEF Worker
<1>7. CASE Finished \/ UNCHANGED vars
  BY <1>7 DEF Finished, vars, IInv, ReportInv, DoneInv, OutcomeInv, MainInv,
     Busy, Holder, TaskSet
<1>. QED BY <1>1, <1>2, <1>3, <1>4, <1>5, <1>6, <1>7 DEF Next

LEMMA IInvInitial == Init => IInv
BY StoreInitial, ReportInitial DEF IInv, ReportInv

LEMMA IInvStep == IInv /\ [Next]_vars => IInv'
<1> SUFFICES ASSUME IInv, [Next]_vars PROVE IInv'
  OBVIOUS
<1>1. StoreInv'
  BY StoreStep DEF IInv
<1>2. ReportInv'
  BY ReportStep
<1>. QED BY <1>1, <1>2 DEF IInv, ReportInv

(* The inductive invariant IInv, which the scheduler run checks on two     *)
(* workers and three entries, holds in every reachable state for every    *)
(* number of workers and entries.                                          *)
THEOREM IInvHolds == Spec => []IInv
BY IInvInitial, IInvStep, PTL DEF Spec

(* Once main() is done, a task that took diagnostics_lock is done and not  *)
(* the holder of the lock, so all of its records are in all_diagnostics.  *)
LEMMA IInvReport == IInv => ReportComplete
<1> SUFFICES ASSUME IInv, mainpc = "done", entries # <<>>
             PROVE  /\ report = Summary(store)
                    /\ \A t \in TaskSet :
                         /\ outcome[t] # "pending"
                         /\ (t \in acquired <=> outcome[t] # "raised")
                         /\ t \in acquired => Copied(t) = Len(result[t])
  BY DEF ReportComplete
<1>0. /\ TypeOK /\ LockInv /\ DoneInv /\ OutcomeInv /\ MainInv
  BY DEF IInv, StoreInv, TypeInv
<1>1. report = Summary(store) /\ done = TaskSet
  BY <1>0 DEF MainInv
<1>2. ASSUME NEW t \in TaskSet
      PROVE  /\ outcome[t] # "pending"
             /\ (t \in acquired <=> outcome[t] # "raised")
             /\ t \in acquired => Copied(t) = Len(result[t])
  <2>1. t \in done /\ t \in Tasks
    BY <1>0, <1>1 DEF TypeOK
  <2>2. outcome[t] # "pending" /\ (t \in acquired <=> outcome[t] # "raised")
    BY <1>0, <2>1 DEF OutcomeInv
  <2>3. t # Holder
    <3>1. CASE lock = NoHolder
      BY <2>1, <3>1, SentinelsApart DEF Holder
    <3>2. CASE lock # NoHolder
      <4>1. lock \in Workers /\ wpc[lock] = "append"
        BY <1>0, <3>2 DEF LockInv, TypeOK
      <4>2. wtask[lock] \notin done
        BY <1>0, <4>1 DEF DoneInv, Busy
      <4>. QED BY <2>1, <3>2, <4>2 DEF Holder
    <3>. QED BY <3>1, <3>2
  <2>4. t \in acquired => Copied(t) = Len(result[t])
    BY <2>3 DEF Copied
  <2>. QED BY <2>2, <2>4
<1>. QED BY <1>1, <1>2

(* Section 4.4 of the spec, for every number of workers and entries: when *)
(* main() writes the report, every future is done, the report is the      *)
(* summary of all_diagnostics, and all_diagnostics holds every record of  *)
(* every entry whose clang-tidy call returned and nothing of an entry     *)
(* whose call raised.  run_clang_tidy_parallel waits for the executor.     *)
THEOREM ReportCompleteHolds == Spec => []ReportComplete
BY IInvHolds, IInvReport, PTL

-----------------------------------------------------------------------------
(* No worker step is possible past the wait: every worker is idle and the *)
(* queue is empty, so every step keeps all_diagnostics and the futures.    *)
LEMMA FinalStep ==
  ASSUME IInv, [Next]_vars, mainpc \in {"report", "done"}
  PROVE  UNCHANGED <<store, done>>
<1>0. TypeInv /\ DoneInv /\ MainInv
  BY DEF IInv, StoreInv
<1>1. (\A w \in Workers : ~Busy(w)) /\ queue = <<>>
  BY <1>0, Quiet
<1>2. ASSUME NEW w \in Workers, Worker(w) PROVE FALSE
  BY <1>1, <1>2 DEF Worker, Take, RunReturns, RunRaises, Acquire, AppendOne,
                    Release, Busy
<1>3. CASE StartEmpty \/ StartRun \/ Submit \/ WaitAll \/ WriteReport
  BY <1>3 DEF StartEmpty, StartRun, Submit, WaitAll, WriteReport
<1>. QED BY <1>2, <1>3 DEF Next, Finished, vars

(* Once main() is past the as_completed loop, no analyze_file call appends *)
(* to all_diagnostics or finishes a future, for every number of workers   *)
(* and entries: the executor's with block has joined every worker.        *)
THEOREM StoreFinalHolds == Spec => StoreFinalAfterWait
<1>1. IInv /\ [Next]_vars =>
        ((mainpc \in {"report", "done"}) => UNCHANGED <<store, done>>)
  BY FinalStep
<1>. QED BY <1>1, IInvHolds, PTL DEF Spec, StoreFinalAfterWait

=============================================================================
