--------------------------- MODULE PipelineProofs ---------------------------
(***************************************************************************)
(* Proofs, for every set of runs and every bound on the entries, that the *)
(* Pipeline model is well typed and that TEMP_DIR is gone once every run  *)
(* has exited.  ScratchRemovedAtEnd is not inductive: a step of one run    *)
(* says nothing about a TEMP_DIR created by another.  The strengthening    *)
(* DirOwned says that while TEMP_DIR exists some run is between its       *)
(* mkdir and its exit: every exit path calls cleanup(), and only           *)
(* OpenScratch creates the directory.                                      *)
(***************************************************************************)
EXTENDS Pipeline, TLAPS

(* Some run is past TEMP_DIR.mkdir and has not exited.                     *)
Busy == \E p \in Procs : pc[p] \in {"writing", "written", "analyzing"}

(* TEMP_DIR exists only while some run that may still remove it is live.  *)
DirOwned == dir => Busy

(* The inductive invariant.                                                *)
IInv == TypeOK /\ DirOwned

-----------------------------------------------------------------------------
(* One call fewer of a positive count stays within the bound.              *)
LEMMA DecrBounded ==
  ASSUME NEW n \in 0..MaxEntries, n > 0
  PROVE  n - 1 \in 0..MaxEntries
  BY PipelineAssumption

(* A step of any run keeps the types: the exit status is 0 or 1, and a    *)
(* run never has more clang-tidy calls to make than its entries.           *)
LEMMA TypeStep == TypeOK /\ [Next]_vars => TypeOK'
  <1> SUFFICES ASSUME TypeOK, [Next]_vars PROVE TypeOK'
    OBVIOUS
  <1>1. ASSUME NEW p \in Procs, LoadFails(p) PROVE TypeOK'
    BY <1>1 DEF LoadFails, Cleanup, TypeOK, Files, NoFile
  <1>2. ASSUME NEW p \in Procs, OpenScratch(p) PROVE TypeOK'
    BY <1>2 DEF OpenScratch, TypeOK, Files
  <1>3. ASSUME NEW p \in Procs, CloseScratch(p) PROVE TypeOK'
    BY <1>3 DEF CloseScratch, TypeOK, Files, NoFile
  <1>4. ASSUME NEW p \in Procs, ReadBack(p) PROVE TypeOK'
    <2>1. CASE dir /\ file # NoFile /\ file.complete
      <3>1. file.writer \in Procs
        BY <2>1 DEF TypeOK, Files
      <3>2. kept[file.writer] \in 0..MaxEntries
        BY <3>1 DEF TypeOK
      <3>3. CASE kept[file.writer] = 0
        <4>1. /\ pc' = [pc EXCEPT ![p] = "exited"]
              /\ dir' = FALSE /\ file' = NoFile
              /\ UNCHANGED <<db, kept, code, left>>
              /\ misread' \subseteq Procs
          BY <1>4, <2>1, <3>3 DEF ReadBack, Cleanup, TypeOK
        <4>2. QED
          BY <4>1 DEF TypeOK, Files
      <3>4. CASE kept[file.writer] # 0
        <4>1. /\ pc' = [pc EXCEPT ![p] = "analyzing"]
              /\ left' = [left EXCEPT ![p] = kept[file.writer]]
              /\ UNCHANGED <<db, kept, code, dir, file>>
              /\ misread' \subseteq Procs
          BY <1>4, <2>1, <3>1, <3>4 DEF ReadBack, TypeOK
        <4>2. QED
          BY <3>2, <4>1 DEF TypeOK
      <3>5. QED
        BY <3>3, <3>4
    <2>2. CASE ~(dir /\ file # NoFile /\ file.complete)
      BY <1>4, <2>2 DEF ReadBack, Cleanup, TypeOK, Files, NoFile
    <2>3. QED
      BY <2>1, <2>2
  <1>5. ASSUME NEW p \in Procs, Analyze(p) PROVE TypeOK'
    <2>1. left' \in [Procs -> 0..MaxEntries]
      <3>1. left[p] - 1 \in 0..MaxEntries
        <4>1. left[p] \in 0..MaxEntries
          BY DEF TypeOK
        <4>2. left[p] > 0
          BY <1>5 DEF Analyze
        <4>3. QED
          BY <4>1, <4>2, DecrBounded
      <3>2. left' = [left EXCEPT ![p] = left[p] - 1]
        BY <1>5 DEF Analyze
      <3>3. QED
        BY <3>1, <3>2 DEF TypeOK
    <2>2. misread' \subseteq Procs
      BY <1>5 DEF Analyze, TypeOK
    <2>3. QED
      BY <1>5, <2>1, <2>2 DEF Analyze, TypeOK
  <1>6. ASSUME NEW p \in Procs, Finish(p) PROVE TypeOK'
    BY <1>6 DEF Finish, Cleanup, TypeOK, Files, NoFile
  <1>7. CASE Done \/ UNCHANGED vars
    BY <1>7 DEF Done, vars, TypeOK
  <1>8. QED
    BY <1>1, <1>2, <1>3, <1>4, <1>5, <1>6, <1>7 DEF Next, Run

(* The initial state is well typed.                                       *)
LEMMA InitTyped == Init => TypeOK
  <1> SUFFICES ASSUME Init PROVE TypeOK
    OBVIOUS
  <1>1. NoFile \in Files
    BY DEF Files
  <1>2. /\ code \in [Procs -> {0, 1}]
        /\ left \in [Procs -> 0..MaxEntries]
    BY PipelineAssumption DEF Init
  <1>3. pc \in [Procs -> {"start", "writing", "written", "analyzing", "exited"}]
    BY DEF Init
  <1>4. QED
    BY <1>1, <1>2, <1>3 DEF Init, TypeOK

(* Every state of every behaviour is well typed: in particular no run      *)
(* makes more clang-tidy calls than the entries of the database it read.  *)
THEOREM TypeCorrect == Spec => []TypeOK
  <1>1. Init => TypeOK
    BY InitTyped
  <1>2. QED
    BY <1>1, TypeStep, PTL DEF Spec

-----------------------------------------------------------------------------
(* A step that ends with cleanup() leaves no TEMP_DIR.                     *)
LEMMA CleanupOwned == Cleanup => DirOwned'
  BY DEF Cleanup, DirOwned

(* A step that moves run p to a live point of its life cycle, without     *)
(* touching the others, keeps DirOwned.                                    *)
LEMMA LiveOwned ==
  ASSUME TypeOK, NEW p \in Procs,
         pc'[p] \in {"writing", "written", "analyzing"}
  PROVE  DirOwned'
  BY DEF DirOwned, Busy

(* Section 6 of the spec, for any number of concurrent runs: once every    *)
(* run has exited, by any of its exit paths, TEMP_DIR does not exist.      *)
THEOREM ScratchRemoved == Spec => []ScratchRemovedAtEnd
  <1>1. Init => IInv
    BY InitTyped DEF Init, IInv, DirOwned
  <1>2. IInv /\ [Next]_vars => IInv'
    <2> SUFFICES ASSUME IInv, [Next]_vars PROVE IInv'
      OBVIOUS
    <2>0. TypeOK'
      BY TypeStep DEF IInv
    <2> SUFFICES DirOwned'
      BY <2>0 DEF IInv
    <2> USE DEF IInv
    <2>1. ASSUME NEW p \in Procs, LoadFails(p) PROVE DirOwned'
      BY <2>1, CleanupOwned DEF LoadFails
    <2>2. ASSUME NEW p \in Procs, OpenScratch(p) PROVE DirOwned'
      <3>1. pc'[p] = "writing"
        BY <2>2 DEF OpenScratch, TypeOK
      <3>2. QED
        BY <3>1, LiveOwned
    <2>3. ASSUME NEW p \in Procs, CloseScratch(p) PROVE DirOwned'
      <3>1. pc'[p] = "written"
        BY <2>3 DEF CloseScratch, TypeOK
      <3>2. QED
        BY <3>1, LiveOwned
    <2>4. ASSUME NEW p \in Procs, ReadBack(p) PROVE DirOwned'
      <3>1. CASE Cleanup
        BY <3>1, CleanupOwned
      <3>2. CASE ~Cleanup
        <4>1. pc'[p] = "analyzing"
          BY <2>4, <3>2 DEF ReadBack, TypeOK
        <4>2. QED
          BY <4>1, LiveOwned
      <3>3. QED
        BY <3>1, <3>2
    <2>5. ASSUME NEW p \in Procs, Analyze(p) PROVE DirOwned'
      BY <2>5 DEF Analyze, DirOwned, Busy
    <2>6. ASSUME NEW p \in Procs, Finish(p) PROVE DirOwned'
      BY <2>6, CleanupOwned DEF Finish
    <2>7. CASE Done \/ UNCHANGED vars
      BY <2>7 DEF Done, vars, DirOwned, Busy
    <2>8. QED
      BY <2>1, <2>2, <2>3, <2>4, <2>5, <2>6, <2>7 DEF Next, Run
  <1>3. IInv => ScratchRemovedAtEnd
    BY DEF IInv, DirOwned, Busy, ScratchRemovedAtEnd, AllExited
  <1>4. QED
    BY <1>1, <1>2, <1>3, PTL DEF Spec

=============================================================================
