--------------------------- MODULE SchedulerProofs ---------------------------
(***************************************************************************)
(* Proofs about the Parallel Analysis Scheduler, for every value of the   *)
(* constants that satisfies the module's assumptions.                      *)
(*                                                                         *)
(* TypeOK is not inductive: a worker's task must be known to be an entry  *)
(* index for entries[t] and result[t] to be typed, so TypeCorrect goes    *)
(* through TypeInv.  StoreBlocks needs StoreInv: that diagnostics_lock is *)
(* held exactly by the appending worker, that a task is with one worker   *)
(* at most, and that the holder's block ends at the end of the list.      *)
(***************************************************************************)
EXTENDS Scheduler, TLAPS

-----------------------------------------------------------------------------
(* Facts about the constants.                                              *)

LEMMA MaxWorkersNat == MaxWorkers \in Nat
BY CpuAssumption DEF MaxWorkers

LEMMA EntriesBound ==
  ASSUME NEW es \in InputEntries
  PROVE  /\ es \in Seq(Files)
         /\ Len(es) \in 0..MaxEntries
BY EntriesAssumption

(* Tagging every record of a parsed list with a file name yields a list   *)
(* of tagged records.                                                      *)
LEMMA TagType ==
  ASSUME NEW ds \in Seq(ParsedDiag), NEW f \in Files
  PROVE  Tag(ds, f) \in Seq(TaggedDiag)
<1>1. \A i \in DOMAIN ds : [ds[i] EXCEPT !.file = f] \in TaggedDiag
  BY DEF TaggedDiag
<1>2. DOMAIN ds = 1..Len(ds)
  OBVIOUS
<1>. QED BY <1>1, <1>2 DEF Tag

-----------------------------------------------------------------------------
(* Type correctness.                                                       *)

LEMMA TypeInitial == Init => TypeInv
BY EntriesAssumption, MaxWorkersNat
   DEF Init, TypeInv, TypeOK, TaskRange, Busy, Workers, Tasks, NoTask,
       NoHolder, Outcomes

LEMMA TypeStep == TypeInv /\ [Next]_vars => TypeInv'
<1> SUFFICES ASSUME TypeOK, TaskRange, [Next]_vars
             PROVE  TypeOK' /\ TaskRange'
  BY DEF TypeInv
<1>0. /\ MaxEntries \in Nat
      /\ entries \in Seq(Files)
      /\ Len(entries) \in 0..MaxEntries
  BY EntriesBound, EntriesAssumption DEF TypeOK
<1>1. CASE StartEmpty
  BY <1>1 DEF StartEmpty, TypeOK, TaskRange, Busy
<1>2. CASE StartRun
  BY <1>2 DEF StartRun, TypeOK, TaskRange, Busy
<1>3. CASE Submit
  <2>1. submitted + 1 \in 1..MaxEntries
    BY <1>0, <1>3 DEF Submit, TaskRange, TypeOK
  <2>2. queue' \in Seq(Tasks)
    BY <2>1, <1>3 DEF Submit, Tasks, TypeOK
  <2>3. \A i \in DOMAIN queue' : queue'[i] \in 1..submitted'
    BY <1>3, SMTT(30) DEF Submit, TaskRange, TypeOK
  <2>4. TypeOK'
    BY <1>0, <1>3, <2>1, <2>2 DEF Submit, TypeOK, TaskRange
  <2>5. TaskRange'
    BY <1>0, <1>3, <2>3 DEF Submit, TypeOK, TaskRange, Busy
  <2>. QED BY <2>4, <2>5
<1>4. CASE WaitAll
  BY <1>4 DEF WaitAll, TypeOK, TaskRange, Busy
<1>5. CASE WriteReport
  BY <1>5 DEF WriteReport, TypeOK, TaskRange, Busy
<1>6. ASSUME NEW w \in Workers, Take(w) PROVE TypeOK' /\ TaskRange'
  <2>1. TypeOK'
    BY <1>6 DEF Take, TypeOK
  <2>2. Head(queue) \in 1..submitted
    BY <1>6 DEF Take, TypeOK, TaskRange
  <2>3. \A i \in DOMAIN Tail(queue) : Tail(queue)[i] \in 1..submitted
    <3>1. queue # <<>> /\ queue \in Seq(Tasks)
      BY <1>6 DEF Take, TypeOK
    <3>2. \A i \in DOMAIN Tail(queue) :
            i + 1 \in DOMAIN queue /\ Tail(queue)[i] = queue[i + 1]
      BY <3>1
    <3>. QED BY <3>2 DEF TaskRange
  <2>4. TaskRange'
    BY <1>6, <2>2, <2>3 DEF Take, TypeOK, TaskRange, Busy
  <2>. QED BY <2>1, <2>4
<1>7. ASSUME NEW w \in Workers, RunReturns(w) PROVE TypeOK' /\ TaskRange'
  <2>. DEFINE t == wtask[w]
  <2>1. t \in 1..Len(entries)
    BY <1>0, <1>7 DEF RunReturns, TaskRange, Busy, TypeOK
  <2>2. PICK o \in Outputs, rc \in {"exit0", "exitNonzero"} :
          /\ wdiags' = [wdiags EXCEPT ![w] = Tag(ParseDiagnostics(o), entries[t])]
          /\ result' = [result EXCEPT ![t] = Tag(ParseDiagnostics(o), entries[t])]
          /\ outcome' = [outcome EXCEPT ![t] = rc]
    BY <1>7 DEF RunReturns
  <2>3. entries[t] \in Files /\ ParseDiagnostics(o) \in Seq(ParsedDiag)
    BY <1>0, <2>1, ParseAssumption
  <2>4. Tag(ParseDiagnostics(o), entries[t]) \in Seq(TaggedDiag)
    BY <2>3, TagType
  <2>5. TypeOK'
    BY <1>0, <1>7, <2>1, <2>2, <2>4 DEF RunReturns, TypeOK, Tasks, Outcomes
  <2>6. TaskRange'
    BY <1>7 DEF RunReturns, TypeOK, TaskRange, Busy
  <2>. QED BY <2>5, <2>6
<1>8. ASSUME NEW w \in Workers, RunRaises(w) PROVE TypeOK' /\ TaskRange'
  <2>1. wtask[w] \in Tasks
    BY <1>0, <1>8 DEF RunRaises, TaskRange, Busy, Tasks, TypeOK
  <2>2. TypeOK'
    BY <1>8, <2>1 DEF RunRaises, TypeOK, Outcomes
  <2>3. TaskRange'
    BY <1>8 DEF RunRaises, TypeOK, TaskRange, Busy
  <2>. QED BY <2>2, <2>3
<1>9. ASSUME NEW w \in Workers, Acquire(w) PROVE TypeOK' /\ TaskRange'
  <2>1. wtask[w] \in Tasks
    <3>1. wpc[w] = "lock"
      BY <1>9 DEF Acquire
    <3>. QED BY <1>0, <3>1 DEF TaskRange, Busy, Tasks, TypeOK
  <2>2. TypeOK'
    BY <1>9, <2>1 DEF Acquire, TypeOK
  <2>3. TaskRange'
    BY <1>9 DEF Acquire, TypeOK, TaskRange, Busy
  <2>. QED BY <2>2, <2>3
<1>10. ASSUME NEW w \in Workers, AppendOne(w) PROVE TypeOK' /\ TaskRange'
  <2>1. TypeOK'
    BY <1>10 DEF AppendOne, TypeOK
  <2>2. TaskRange'
    BY <1>10 DEF AppendOne, TypeOK, TaskRange, Busy
  <2>. QED BY <2>1, <2>2
<1>11. ASSUME NEW w \in Workers, Release(w) PROVE TypeOK' /\ TaskRange'
  <2>1. wtask[w] \in Tasks
    BY <1>0, <1>11 DEF Release, TaskRange, Busy, Tasks, TypeOK
  <2>2. TypeOK'
    BY <1>11, <2>1 DEF Release, TypeOK, NoHolder
  <2>3. TaskRange'
    BY <1>11, SMTT(30) DEF Release, TypeOK, TaskRange, Busy
  <2>. QED BY <2>2, <2>3
<1>12. CASE Finished
  BY <1>12 DEF Finished, vars, TypeOK, TaskRange, Busy
<1>13. CASE UNCHANGED vars
  BY <1>13 DEF vars, TypeOK, TaskRange, Busy
<1>. QED
  BY <1>1, <1>2, <1>3, <1>4, <1>5, <1>6, <1>7, <1>8, <1>9, <1>10, <1>11,
     <1>12, <1>13 DEF Next, Worker

(* Every reachable state of the scheduler is well typed: in particular    *)
(* every worker's task indexes an entry, so entries[t] in analyze_file is *)
(* defined, and all_diagnostics only ever holds tagged records.            *)
THEOREM TypeCorrect == Spec => []TypeOK
<1>1. Spec => []TypeInv
  BY TypeInitial, TypeStep, PTL DEF Spec
<1>. QED BY <1>1, PTL DEF TypeInv

-----------------------------------------------------------------------------
(* The blocks of all_diagnostics.                                          *)

LEMMA SentinelsApart == NoHolder \notin Workers /\ NoTask \notin Tasks
BY DEF NoHolder, Workers, NoTask, Tasks

(* A task's copied count only depends on the lock, its holder, the task's  *)
(* list and what the holder has left to append.                            *)
LEMMA CopiedFrame ==
  ASSUME NEW t, lock' = lock, Holder' = Holder, result'[t] = result[t],
         t = Holder => wdiags'[lock] = wdiags[lock]
  PROVE  Copied(t)' = Copied(t)
BY DEF Copied

LEMMA StoreBlocksFrame ==
  ASSUME StoreBlocks, store' = store, acquired' = acquired, start' = start,
         \A t \in acquired : Copied(t)' = Copied(t) /\ result'[t] = result[t]
  PROVE  StoreBlocks'
BY DEF StoreBlocks, Block

(* One step of the suffix arithmetic of the appending worker.              *)
LEMMA SuffixShift ==
  ASSUME NEW a \in Nat, NEW b \in Nat, NEW k \in Nat
  PROVE  a - (b - 1) + k = a - b + (k + 1)
OBVIOUS

(* The number of records a task has copied is a natural number.          *)
LEMMA CopiedNat ==
  ASSUME TypeOK, LockInv, NEW t \in Tasks
  PROVE  Copied(t) \in Nat
<1>1. CASE t = Holder
  <2>1. lock \in Workers /\ wtask[lock] = t
    BY <1>1, SentinelsApart DEF Holder, TypeOK
  <2>2. Len(wdiags[lock]) <= Len(result[t])
    BY <2>1 DEF LockInv
  <2>. QED BY <1>1, <2>2 DEF Copied, TypeOK
<1>2. CASE t # Holder
  BY <1>2 DEF Copied, TypeOK
<1>. QED BY <1>1, <1>2

(* A step of a worker that neither holds nor takes the lock, and does not  *)
(* touch the list of a task that entered the locked section, leaves every  *)
(* block as it was.                                                        *)
LEMMA OtherWorkerFrame ==
  ASSUME StoreInv, NEW w \in Workers, wpc[w] # "append",
         lock' = lock, wtask' = [wtask EXCEPT ![w] = wtask'[w]],
         wdiags' = [wdiags EXCEPT ![w] = wdiags'[w]],
         \A t \in acquired : result'[t] = result[t],
         store' = store, acquired' = acquired, start' = start
  PROVE  /\ Holder' = Holder
         /\ \A t \in acquired : Copied(t)' = Copied(t)
         /\ StoreBlocks'
<1>0. TypeOK /\ LockInv /\ StoreBlocks
  BY DEF StoreInv, TypeInv
<1>1. lock # w
  BY <1>0 DEF LockInv
<1>2. Holder' = Holder
  BY <1>0, <1>1 DEF Holder, TypeOK
<1>3. ASSUME NEW t \in acquired PROVE Copied(t)' = Copied(t)
  <2>1. t = Holder => wdiags'[lock] = wdiags[lock]
    <3>1. t = Holder => lock # NoHolder
      BY SentinelsApart, <1>0 DEF Holder, TypeOK
    <3>. QED BY <3>1, <1>0, <1>1 DEF TypeOK
  <2>. QED BY <1>2, <2>1, CopiedFrame
<1>4. StoreBlocks'
  BY <1>0, <1>3, StoreBlocksFrame
<1>. QED BY <1>2, <1>3, <1>4

(* An idle worker taking the oldest work item.                             *)
LEMMA TakeStep ==
  ASSUME StoreInv, NEW w \in Workers, Take(w)
  PROVE  TaskDistinct' /\ LockInv' /\ StoreBlocks'
<1>0. TypeOK /\ TaskRange /\ TaskDistinct /\ LockInv /\ StoreBlocks
  BY DEF StoreInv, TypeInv
<1>. DEFINE h == Head(queue)
<1>1. /\ queue # <<>> /\ queue \in Seq(Tasks)
      /\ 1 \in DOMAIN queue /\ h = queue[1]
      /\ \A i \in DOMAIN Tail(queue) :
           i + 1 \in DOMAIN queue /\ Tail(queue)[i] = queue[i + 1]
  BY <1>0 DEF Take, TypeOK
<1>2. /\ h \notin acquired
      /\ \A w2 \in Workers : Busy(w2) => wtask[w2] # h
      /\ \A i \in DOMAIN Tail(queue) : Tail(queue)[i] # h
  BY <1>0, <1>1 DEF TaskDistinct
<1>3. wpc[w] = "idle" /\ lock # w
  BY <1>0 DEF Take, LockInv
<1>4. /\ Holder' = Holder
      /\ \A t \in acquired : Copied(t)' = Copied(t)
      /\ StoreBlocks'
  BY <1>0, <1>3, OtherWorkerFrame DEF Take, StoreInv, TypeOK
<1>5. TaskDistinct'
  <2>1. \A w1, w2 \in Workers :
          w1 # w2 /\ Busy(w1)' /\ Busy(w2)' => wtask'[w1] # wtask'[w2]
    BY <1>0, <1>2 DEF Take, TaskDistinct, Busy, TypeOK
  <2>2. \A i, j \in DOMAIN queue' : i # j => queue'[i] # queue'[j]
    BY <1>0, <1>1 DEF Take, TaskDistinct
  <2>3. \A i \in DOMAIN queue' :
          /\ queue'[i] \notin acquired'
          /\ \A w2 \in Workers : Busy(w2)' => wtask'[w2] # queue'[i]
    BY <1>0, <1>1, <1>2 DEF Take, TaskDistinct, Busy, TypeOK
  <2>. QED BY <2>1, <2>2, <2>3 DEF TaskDistinct
<1>6. LockInv'
  <2>1. SUFFICES ASSUME NEW w2 \in Workers
                 PROVE  LockInv!(w2)'
    BY DEF LockInv
  <2>2. CASE w2 = w
    BY <1>0, <1>2, <1>3, <2>2 DEF Take, TypeOK
  <2>3. CASE w2 # w
    BY <1>0, <1>4, <2>3 DEF Take, TypeOK, LockInv
  <2>. QED BY <2>2, <2>3
<1>. QED BY <1>4, <1>5, <1>6

(* A subprocess call that raises: the worker goes idle, nothing appended.  *)
LEMMA RunRaisesStep ==
  ASSUME StoreInv, NEW w \in Workers, RunRaises(w)
  PROVE  TaskDistinct' /\ LockInv' /\ StoreBlocks'
<1>0. TypeOK /\ TaskDistinct /\ LockInv /\ StoreBlocks
  BY DEF StoreInv, TypeInv
<1>1. wpc[w] = "run" /\ lock # w
  BY <1>0 DEF RunRaises, LockInv
<1>2. /\ Holder' = Holder
      /\ \A t \in acquired : Copied(t)' = Copied(t)
      /\ StoreBlocks'
  BY <1>0, <1>1, OtherWorkerFrame DEF RunRaises, StoreInv, TypeOK
<1>3. TaskDistinct'
  BY <1>0 DEF RunRaises, TaskDistinct, Busy, TypeOK
<1>4. LockInv'
  <2>1. SUFFICES ASSUME NEW w2 \in Workers
                 PROVE  LockInv!(w2)'
    BY DEF LockInv
  <2>2. CASE w2 = w
    BY <1>0, <1>1, <2>2 DEF RunRaises, TypeOK
  <2>3. CASE w2 # w
    BY <1>0, <1>2, <2>3 DEF RunRaises, TypeOK, LockInv
  <2>. QED BY <2>2, <2>3
<1>. QED BY <1>2, <1>3, <1>4

(* subprocess.run returns: the worker's list is parsed and tagged; it     *)
(* belongs to a task that has not entered the locked section.              *)
LEMMA RunReturnsStep ==
  ASSUME StoreInv, NEW w \in Workers, RunReturns(w)
  PROVE  TaskDistinct' /\ LockInv' /\ StoreBlocks'
<1>0. TypeOK /\ TaskRange /\ TaskDistinct /\ LockInv /\ StoreBlocks
  BY DEF StoreInv, TypeInv
<1>. DEFINE t == wtask[w]
<1>1. /\ wpc[w] = "run" /\ lock # w
      /\ t \in Tasks /\ t \notin acquired
  BY <1>0, EntriesAssumption, SMTT(30) DEF RunReturns, LockInv, TaskRange, Busy, TypeOK,
     Tasks
<1>2. PICK diags :
        /\ wdiags' = [wdiags EXCEPT ![w] = diags]
        /\ result' = [result EXCEPT ![t] = diags]
  BY <1>0 DEF RunReturns
<1>3. \A w2 \in Workers \ {w} : Busy(w2) => result'[wtask[w2]] = result[wtask[w2]]
  <2>1. \A w2 \in Workers : Busy(w2) => wtask[w2] \in Tasks
    BY <1>0, EntriesAssumption DEF TaskRange, TypeOK, Tasks
  <2>. QED BY <1>0, <1>1, <1>2, <2>1 DEF TaskDistinct, Busy, TypeOK
<1>4. /\ Holder' = Holder
      /\ \A t2 \in acquired : Copied(t2)' = Copied(t2)
      /\ StoreBlocks'
  <2>1. \A t2 \in acquired : result'[t2] = result[t2]
    BY <1>0, <1>1, <1>2 DEF TypeOK
  <2>. QED BY <1>0, <1>1, <1>2, <2>1, OtherWorkerFrame, ZenonT(30) DEF RunReturns, StoreInv, TypeOK
<1>5. TaskDistinct'
  BY <1>0 DEF RunReturns, TaskDistinct, Busy, TypeOK
<1>6. LockInv'
  <2>1. SUFFICES ASSUME NEW w2 \in Workers
                 PROVE  LockInv!(w2)'
    BY DEF LockInv
  <2>2. CASE w2 = w
    BY <1>0, <1>1, <1>2, <2>2 DEF RunReturns, TypeOK
  <2>3. CASE w2 # w
    <3>1. wpc'[w2] = wpc[w2] /\ wtask'[w2] = wtask[w2] /\ wdiags'[w2] = wdiags[w2]
      BY <1>0, <1>2, <2>3 DEF RunReturns, TypeOK
    <3>2. Busy(w2) => result'[wtask[w2]] = result[wtask[w2]]
      BY <1>3, <2>3
    <3>3. LockInv!(w2)
      BY <1>0 DEF LockInv
    <3>. QED BY <1>4, <3>1, <3>2, <3>3, ZenonT(30) DEF RunReturns, Busy
  <2>. QED BY <2>2, <2>3
<1>. QED BY <1>4, <1>5, <1>6

(* Leaving the with block: the lock is free and the task's block is whole. *)
LEMMA ReleaseStep ==
  ASSUME StoreInv, NEW w \in Workers, Release(w)
  PROVE  TaskDistinct' /\ LockInv' /\ StoreBlocks'
<1>0. TypeOK /\ TaskDistinct /\ LockInv /\ StoreBlocks
  BY DEF StoreInv, TypeInv
<1>1. /\ wpc[w] = "append" /\ lock = w /\ wdiags[w] = <<>>
      /\ Holder = wtask[w] /\ Holder' = NoTask
      /\ \A w2 \in Workers : wpc[w2] = "append" => w2 = w
  BY <1>0, SentinelsApart DEF Release, LockInv, Holder
<1>2. \A t \in acquired : Copied(t)' = Copied(t)
  BY <1>0, <1>1, SentinelsApart DEF Release, Copied, TypeOK
<1>3. StoreBlocks'
  BY <1>0, <1>2, StoreBlocksFrame DEF Release
<1>4. TaskDistinct'
  BY <1>0 DEF Release, TaskDistinct, Busy, TypeOK
<1>5. LockInv'
  BY <1>0, <1>1, SentinelsApart DEF Release, LockInv, TypeOK
<1>. QED BY <1>3, <1>4, <1>5

(* A step of main() touches no worker, no lock and no list.               *)
LEMMA WorkersFrame ==
  ASSUME StoreInv,
         UNCHANGED <<wpc, wtask, wdiags, lock, store, result, acquired, start>>
  PROVE  LockInv' /\ StoreBlocks'
<1>1. LockInv /\ StoreBlocks
  BY DEF StoreInv
<1>2. Holder' = Holder /\ \A t : Copied(t)' = Copied(t)
  BY DEF Holder, Copied
<1>3. StoreBlocks'
  BY <1>1, <1>2, StoreBlocksFrame
<1>4. LockInv'
  BY <1>1, <1>2, ZenonT(30) DEF LockInv
<1>. QED BY <1>3, <1>4

(* executor.submit numbers a fresh task, above every task seen so far.    *)
LEMMA SubmitStep ==
  ASSUME StoreInv, Submit
  PROVE  TaskDistinct' /\ LockInv' /\ StoreBlocks'
<1>0. TypeOK /\ TaskRange /\ TaskDistinct
  BY DEF StoreInv, TypeInv
<1>1. LockInv' /\ StoreBlocks'
  BY WorkersFrame DEF Submit
<1>. DEFINE n == submitted + 1
<1>2. /\ n \notin acquired
      /\ \A w \in Workers : Busy(w) => wtask[w] # n
      /\ \A i \in DOMAIN queue : queue[i] # n
  BY <1>0 DEF TaskRange, TypeOK
<1>3. /\ queue' = Append(queue, n)
      /\ DOMAIN queue' = (DOMAIN queue) \cup {Len(queue) + 1}
      /\ \A i \in DOMAIN queue : queue'[i] = queue[i]
      /\ queue'[Len(queue) + 1] = n
      /\ Len(queue) + 1 \notin DOMAIN queue
  BY <1>0, SMTT(30) DEF Submit, TypeOK
<1>4. TaskDistinct'
  BY <1>0, <1>2, <1>3 DEF Submit, TaskDistinct, Busy
<1>. QED BY <1>1, <1>4

(* Entering the with block: the task's block starts, empty, at the end of  *)
(* all_diagnostics, and no other worker is appending.                      *)
LEMMA AcquireStep ==
  ASSUME StoreInv, NEW w \in Workers, Acquire(w)
  PROVE  TaskDistinct' /\ LockInv' /\ StoreBlocks'
<1>0. TypeOK /\ TaskRange /\ TaskDistinct /\ LockInv /\ StoreBlocks
  BY DEF StoreInv, TypeInv
<1>. DEFINE t == wtask[w]
<1>1. /\ wpc[w] = "lock" /\ lock = NoHolder
      /\ t \in Tasks /\ t \notin acquired /\ wdiags[w] = result[t]
      /\ Holder = NoTask
      /\ \A w2 \in Workers : wpc[w2] # "append"
  BY <1>0, SentinelsApart, EntriesAssumption, SMTT(30)
     DEF Acquire, LockInv, TaskRange, Busy, Holder, TypeOK, Tasks
<1>2. /\ Holder' = t
      /\ Copied(t)' = 0
      /\ \A t2 \in acquired : Copied(t2)' = Copied(t2)
      /\ \A t2 \in acquired : Copied(t2) = Len(result[t2])
  BY <1>0, <1>1, SentinelsApart DEF Acquire, Holder, Copied, TypeOK
<1>3. /\ acquired' = acquired \cup {t}
      /\ \A t2 \in acquired : start'[t2] = start[t2]
      /\ start'[t] = Len(store)
      /\ store' = store /\ result' = result /\ wtask' = wtask
  BY <1>0, <1>1 DEF Acquire, TypeOK
<1>4. StoreBlocks'
  <2>1. \A t2 \in acquired : Block(t2)' = Block(t2)
    BY <1>2, <1>3 DEF Block
  <2>2. Block(t)' = {}
    BY <1>0, <1>2, <1>3 DEF Block, TypeOK
  <2>3. \A t2 \in acquired' :
          /\ start'[t2] + Copied(t2)' <= Len(store')
          /\ \A k \in 1..Copied(t2)' : store'[start'[t2] + k] = result'[t2][k]
    <3>1. SUFFICES ASSUME NEW t2 \in acquired'
                   PROVE  /\ start'[t2] + Copied(t2)' <= Len(store')
                          /\ \A k \in 1..Copied(t2)' :
                               store'[start'[t2] + k] = result'[t2][k]
      OBVIOUS
    <3>2. CASE t2 = t
      BY <1>2, <1>3, <3>2
    <3>3. CASE t2 # t
      <4>1. t2 \in acquired
        BY <1>3, <3>3
      <4>. QED BY <4>1, <1>0, <1>2, <1>3 DEF StoreBlocks
    <3>. QED BY <3>2, <3>3
  <2>4. \A t1, t2 \in acquired' : t1 # t2 => Block(t1)' \cap Block(t2)' = {}
    BY <1>0, <2>1, <2>2, <1>3 DEF StoreBlocks
  <2>5. \A i \in 1..Len(store') : \E t2 \in acquired' : i \in Block(t2)'
    BY <1>0, <2>1, <1>3 DEF StoreBlocks
  <2>. QED BY <2>3, <2>4, <2>5 DEF StoreBlocks
<1>5. TaskDistinct'
  <2>1. \A i \in DOMAIN queue : queue[i] # t
    BY <1>0, <1>1 DEF TaskDistinct, Busy
  <2>. QED BY <1>0, <1>3, <2>1 DEF Acquire, TaskDistinct, Busy, TypeOK
<1>6. LockInv'
  <2>1. SUFFICES ASSUME NEW w2 \in Workers
                 PROVE  LockInv!(w2)'
    BY DEF LockInv
  <2>2. CASE w2 = w
    <3>1. wpc'[w] = "append" /\ lock' = w /\ wtask'[w] = t /\ wdiags'[w] = wdiags[w]
      BY <1>0 DEF Acquire, TypeOK
    <3>2. \A k \in 1..Len(wdiags[w]) :
            wdiags[w][k] = result[t][Len(result[t]) - Len(wdiags[w]) + k]
      BY <1>0, <1>1 DEF TypeOK
    <3>3. Len(wdiags[w]) = Len(result[t])
      BY <1>1, SMTT(30)
    <3>. QED BY <1>2, <1>3, <2>2, <3>1, <3>2, <3>3
  <2>3. CASE w2 # w
    <3>1. /\ wpc'[w2] = wpc[w2] /\ wtask'[w2] = wtask[w2]
          /\ wdiags'[w2] = wdiags[w2] /\ lock' # w2
      BY <1>0, <2>3 DEF Acquire, TypeOK
    <3>2. Busy(w2) => wtask[w2] # t
      BY <1>0, <1>1, <2>3 DEF TaskDistinct, Busy
    <3>3. LockInv!(w2)
      BY <1>0 DEF LockInv
    <3>. QED BY <1>1, <1>3, <3>1, <3>2, <3>3 DEF Busy
  <2>. QED BY <2>2, <2>3
<1>. QED BY <1>4, <1>5, <1>6

(* One element of the holder's list is appended at the end of              *)
(* all_diagnostics: its block grows by one, the others stay where they     *)
(* are.                                                                    *)
LEMMA AppendOneStep ==
  ASSUME StoreInv, NEW w \in Workers, AppendOne(w)
  PROVE  TaskDistinct' /\ LockInv' /\ StoreBlocks'
<1>0. TypeOK /\ TaskRange /\ TaskDistinct /\ LockInv /\ StoreBlocks
  BY DEF StoreInv, TypeInv
<1>. DEFINE t  == wtask[w]
            wd == wdiags[w]
            L  == Len(result[t])
            c  == Copied(t)
<1>1. /\ wpc[w] = "append" /\ lock = w /\ wd # <<>>
      /\ \A w2 \in Workers : w2 # w => wpc[w2] # "append"
  BY <1>0 DEF AppendOne, LockInv
<1>2. Holder = t
  BY <1>1, SentinelsApart DEF Holder
<1>3. /\ t \in acquired
      /\ Len(wd) <= L
      /\ \A k \in 1..Len(wd) : wd[k] = result[t][L - Len(wd) + k]
      /\ start[t] + c = Len(store)
  BY <1>0, <1>1 DEF LockInv
<1>4. /\ t \in Tasks
      /\ wd \in Seq(TaggedDiag) /\ result[t] \in Seq(TaggedDiag)
      /\ start[t] \in Nat /\ store \in Seq(TaggedDiag)
  BY <1>0, <1>3 DEF TypeOK
<1>5. c = L - Len(wd)
  BY <1>1, <1>2 DEF Copied
<1>6. /\ store' = Append(store, wd[1])
      /\ wdiags' = [wdiags EXCEPT ![w] = Tail(wd)]
      /\ UNCHANGED <<wpc, wtask, lock, result, acquired, start, queue>>
  BY <1>0, <1>1 DEF AppendOne
<1>7. /\ Holder' = t
      /\ Copied(t)' = c + 1
      /\ \A t2 \in acquired : t2 # t => Copied(t2)' = Copied(t2)
  BY <1>0, <1>1, <1>2, <1>3, <1>4, <1>5, <1>6 DEF Holder, Copied, TypeOK
<1>8. wd[1] = result[t][c + 1]
  <2>1. 1 \in 1..Len(wd)
    BY <1>1, <1>4
  <2>2. wd[1] = result[t][L - Len(wd) + 1]
    BY <2>1, <1>3, Zenon
  <2>. QED BY <2>2, <1>5, <1>3, <1>4
<1>9. /\ Len(store') = Len(store) + 1
      /\ \A i \in 1..Len(store) : store'[i] = store[i]
      /\ store'[Len(store) + 1] = result[t][c + 1]
  BY <1>4, <1>6, <1>8
<1>10. \A t2 \in acquired : t2 # t => Block(t2) \subseteq 1..Len(store)
  <2>1. SUFFICES ASSUME NEW t2 \in acquired
                 PROVE  Block(t2) \subseteq 1..Len(store)
    OBVIOUS
  <2>2. start[t2] \in Nat /\ start[t2] + Copied(t2) <= Len(store)
    BY <1>0 DEF StoreBlocks, TypeOK
  <2>3. Copied(t2) \in Nat
    BY <1>0, CopiedNat DEF TypeOK
  <2>. QED BY <2>2, <2>3 DEF Block
<1>11. StoreBlocks'
  <2>0. c \in Nat /\ Len(store) \in Nat
    BY <1>0, <1>4, CopiedNat
  <2>1. \A t2 \in acquired : t2 # t => Block(t2)' = Block(t2)
    BY <1>6, <1>7 DEF Block
  <2>2. /\ Block(t) = start[t] + 1..Len(store)
        /\ Block(t)' = start[t] + 1..Len(store) + 1
    BY <1>3, <1>4, <1>6, <1>7, <2>0 DEF Block
  <2>3. /\ start'[t] + Copied(t)' <= Len(store')
        /\ \A k \in 1..Copied(t)' : store'[start'[t] + k] = result'[t][k]
    <3>1. \A k \in 1..c : store'[start[t] + k] = result[t][k]
      <4>1. \A k \in 1..c : store[start[t] + k] = result[t][k]
        BY <1>0, <1>3 DEF StoreBlocks
      <4>. QED BY <4>1, <1>3, <1>4, <1>9, <2>0, SMTT(30)
    <3>2. store'[start[t] + (c + 1)] = result[t][c + 1]
      BY <1>3, <1>4, <1>9, <2>0
    <3>3. ASSUME NEW k \in 1..c + 1
          PROVE  store'[start[t] + k] = result[t][k]
      <4>1. CASE k \in 1..c
        BY <3>1, <4>1
      <4>2. CASE k = c + 1
        BY <3>2, <4>2, Zenon
      <4>. QED BY <2>0, <4>1, <4>2
    <3>4. Copied(t)' = c + 1 /\ start'[t] = start[t] /\ result'[t] = result[t]
      BY <1>6, <1>7
    <3>5. start'[t] + Copied(t)' <= Len(store')
      BY <3>4, <1>3, <1>4, <1>9, <2>0
    <3>6. \A k \in 1..Copied(t)' : store'[start'[t] + k] = result'[t][k]
      BY <3>3, <3>4, Zenon
    <3>. QED BY <3>5, <3>6
  <2>4. ASSUME NEW t2 \in acquired, t2 # t
        PROVE  /\ start'[t2] + Copied(t2)' <= Len(store')
               /\ \A k \in 1..Copied(t2)' : store'[start'[t2] + k] = result'[t2][k]
    <3>1. /\ start[t2] \in Nat /\ Copied(t2) \in Nat
          /\ start[t2] + Copied(t2) <= Len(store)
          /\ \A k \in 1..Copied(t2) : store[start[t2] + k] = result[t2][k]
      BY <1>0, CopiedNat DEF StoreBlocks, TypeOK
    <3>. QED BY <1>6, <1>7, <1>9, <2>4, <3>1, SMTT(30)
  <2>5. \A t1, t2 \in acquired' : t1 # t2 => Block(t1)' \cap Block(t2)' = {}
    <3>1. \A t1, t2 \in acquired : t1 # t2 => Block(t1) \cap Block(t2) = {}
      BY <1>0 DEF StoreBlocks
    <3>2. Block(t)' = Block(t) \cup {Len(store) + 1}
      BY <1>3, <1>4, <2>0, <2>2
    <3>3. SUFFICES ASSUME NEW t1 \in acquired, NEW t2 \in acquired, t1 # t2
                   PROVE  Block(t1)' \cap Block(t2)' = {}
      BY <1>6
    <3>4. CASE t1 = t
      <4>1. Block(t1)' = Block(t1) \cup {Len(store) + 1} /\ Block(t2)' = Block(t2)
        BY <1>6, <2>1, <3>2, <3>3, <3>4
      <4>2. Len(store) + 1 \notin Block(t2)
        BY <1>10, <2>0, <3>3, <3>4
      <4>. QED BY <3>1, <3>3, <4>1, <4>2
    <3>5. CASE t2 = t
      <4>1. Block(t2)' = Block(t2) \cup {Len(store) + 1} /\ Block(t1)' = Block(t1)
        BY <1>6, <2>1, <3>2, <3>3, <3>5
      <4>2. Len(store) + 1 \notin Block(t1)
        BY <1>10, <2>0, <3>3, <3>5
      <4>. QED BY <3>1, <3>3, <4>1, <4>2
    <3>6. CASE t1 # t /\ t2 # t
      BY <2>1, <3>1, <3>3, <3>6
    <3>. QED BY <3>4, <3>5, <3>6
  <2>6. \A i \in 1..Len(store') : \E t2 \in acquired' : i \in Block(t2)'
    <3>1. \A i \in 1..Len(store) : \E t2 \in acquired : i \in Block(t2)
      BY <1>0 DEF StoreBlocks
    <3>2. Block(t)' = Block(t) \cup {Len(store) + 1}
      BY <1>3, <1>4, <2>0, <2>2
    <3>3. SUFFICES ASSUME NEW i \in 1..Len(store')
                   PROVE  \E t2 \in acquired' : i \in Block(t2)'
      OBVIOUS
    <3>4. CASE i = Len(store) + 1
      BY <1>3, <1>6, <3>2, <3>4
    <3>5. CASE i \in 1..Len(store)
      <4>1. PICK t2 \in acquired : i \in Block(t2)
        BY <3>1, <3>5
      <4>. QED BY <1>6, <2>1, <3>2, <4>1
    <3>. QED BY <1>9, <2>0, <3>4, <3>5
  <2>. QED BY <1>6, <2>3, <2>4, <2>5, <2>6, ZenonT(30) DEF StoreBlocks
<1>12. TaskDistinct'
  BY <1>0, <1>6 DEF TaskDistinct, Busy
<1>13. LockInv'
  <2>1. SUFFICES ASSUME NEW w2 \in Workers
                 PROVE  LockInv!(w2)'
    BY DEF LockInv
  <2>2. CASE w2 = w
    <3>1. wdiags'[w] = Tail(wd) /\ Len(Tail(wd)) = Len(wd) - 1
      BY <1>0, <1>1, <1>2, <1>3, <1>4, <1>5, <1>6 DEF TypeOK
    <3>2. \A k \in 1..Len(Tail(wd)) :
            Tail(wd)[k] = result[t][L - Len(Tail(wd)) + k]
      <4>1. SUFFICES ASSUME NEW k \in 1..Len(Tail(wd))
                     PROVE  Tail(wd)[k] = result[t][L - Len(Tail(wd)) + k]
        OBVIOUS
      <4>2. Tail(wd)[k] = wd[k + 1] /\ k + 1 \in 1..Len(wd)
        BY <1>1, <1>4, <3>1
      <4>3. wd[k + 1] = result[t][L - Len(wd) + (k + 1)]
        BY <1>3, <4>2, Zenon
      <4>4. L - Len(Tail(wd)) + k = L - Len(wd) + (k + 1)
        <5>1. Len(wd) \in Nat /\ L \in Nat /\ Len(Tail(wd)) = Len(wd) - 1
          BY <1>4, <3>1
        <5>2. k \in Nat
          OBVIOUS
        <5>3. L - Len(Tail(wd)) + k = L - (Len(wd) - 1) + k
          BY <5>1, Zenon
        <5>4. L - (Len(wd) - 1) + k = L - Len(wd) + (k + 1)
          BY <5>1, <5>2, SuffixShift
        <5>. QED BY <5>3, <5>4, Zenon
      <4>. QED BY <4>2, <4>3, <4>4, Zenon
    <3>3. /\ lock' = w /\ wpc'[w] = "append"
          /\ wtask'[w] = t /\ t \in acquired'
          /\ result'[t] = result[t] /\ start'[t] = start[t]
      BY <1>1, <1>3, <1>6
    <3>4. start'[t] + Copied(t)' = Len(store')
      <4>1. c \in Nat
        BY <1>0, <1>4, CopiedNat
      <4>2. start'[t] + Copied(t)' = start[t] + (c + 1)
        BY <1>7, <3>3, Zenon
      <4>3. start[t] + (c + 1) = Len(store) + 1
        BY <1>3, <1>4, <4>1
      <4>. QED BY <1>9, <4>2, <4>3, Zenon
    <3>5. Len(wdiags'[w]) <= Len(result'[t])
      BY <1>3, <1>4, <3>1, <3>3, SMTT(30)
    <3>. QED BY <2>2, <3>1, <3>2, <3>3, <3>4, <3>5
  <2>3. CASE w2 # w
    <3>1. wdiags'[w2] = wdiags[w2]
      BY <1>0, <1>6, <2>3 DEF TypeOK
    <3>2. LockInv!(w2)
      BY <1>0 DEF LockInv
    <3>. QED BY <1>1, <1>2, <1>3, <1>4, <1>5, <1>6, <2>3, <3>1, <3>2
  <2>. QED BY <2>2, <2>3
<1>. QED BY <1>11, <1>12, <1>13

LEMMA StoreInitial == Init => StoreInv
<1> SUFFICES ASSUME Init PROVE StoreInv
  OBVIOUS
<1>1. TypeInv
  BY TypeInitial
<1>2. TaskDistinct /\ LockInv
  BY SentinelsApart DEF Init, TaskDistinct, LockInv, Busy
<1>3. StoreBlocks
  BY DEF Init, StoreBlocks
<1>. QED BY <1>1, <1>2, <1>3 DEF StoreInv

LEMMA StoreStep == StoreInv /\ [Next]_vars => StoreInv'
<1> SUFFICES ASSUME StoreInv, [Next]_vars
             PROVE  TaskDistinct' /\ LockInv' /\ StoreBlocks'
  BY TypeStep DEF StoreInv
<1>0. TaskDistinct
  BY DEF StoreInv
<1>. DEFINE MainStep ==
       UNCHANGED <<queue, wpc, wtask, wdiags, lock, store, result, acquired, start>>
<1>1. ASSUME MainStep PROVE TaskDistinct' /\ LockInv' /\ StoreBlocks'
  BY <1>0, <1>1, WorkersFrame DEF TaskDistinct, Busy
<1>2. CASE StartEmpty \/ StartRun \/ WaitAll \/ WriteReport \/ Finished
  BY <1>1, <1>2 DEF StartEmpty, StartRun, WaitAll, WriteReport, Finished, vars
<1>3. CASE UNCHANGED vars
  BY <1>1, <1>3 DEF vars
<1>4. CASE Submit
  BY <1>4, SubmitStep
<1>5. ASSUME NEW w \in Workers, Worker(w)
      PROVE  TaskDistinct' /\ LockInv' /\ StoreBlocks'
  BY <1>5, TakeStep, RunReturnsStep, RunRaisesStep, AcquireStep,
     AppendOneStep, ReleaseStep DEF Worker
<1>. QED BY <1>2, <1>3, <1>4, <1>5 DEF Next

(* all_diagnostics is, in every reachable state and for every number of   *)
(* workers and entries, the concatenation of one contiguous block per     *)
(* task that took diagnostics_lock, each block a prefix of that task's    *)
(* parsed records in parser order: concurrent extends never interleave.   *)
THEOREM StoreBlocksHold == Spec => []StoreBlocks
<1>1. Spec => []StoreInv
  BY StoreInitial, StoreStep, PTL DEF Spec
<1>. QED BY <1>1, PTL DEF StoreInv

=============================================================================
