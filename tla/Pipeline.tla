------------------------------ MODULE Pipeline ------------------------------
(***************************************************************************)
(* The scratch compilation database of run_clang_tidy.py and its life     *)
(* cycle, for several runs of the script on one machine.  Each run (a     *)
(* process) loads compile_commands.json, writes the filtered entries to   *)
(* TEMP_COMPILE_DB, reads them back in main(), has clang-tidy read the    *)
(* database with -p=TEMP_DIR once per entry and exits; the atexit handler *)
(* cleanup() removes TEMP_DIR on every exit.  TEMP_DIR is the fixed path  *)
(* tempfile.gettempdir()/clang_tidy_filtered, shared by all the runs.     *)
(*                                                                         *)
(* What the filter computes is abstracted to the number of entries it     *)
(* keeps; the analysis of an entry to its read of the database (the       *)
(* Scheduler module models the rest).  Two runs that both have the file   *)
(* open for writing are modelled by the last opener owning the file: the  *)
(* content of the other is lost.                                           *)
(***************************************************************************)
EXTENDS Naturals

CONSTANTS
  Procs,       \* the runs of the script
  MaxEntries   \* bound on the number of entries a filter keeps

ASSUME PipelineAssumption == MaxEntries \in Nat

(* How compile_commands.json is: absent, not JSON, or a list.             *)
DbKinds == {"missing", "malformed", "valid"}

NoFile == [writer |-> "none", complete |-> FALSE]
Files  == [writer : Procs, complete : BOOLEAN] \cup {NoFile}

VARIABLES
  db,       \* per run: its compile_commands.json
  kept,     \* per run: how many entries its filter keeps
  pc,       \* per run: start, writing, written, analyzing, exited
  code,     \* per run: its exit status once exited
  left,     \* per run: clang-tidy calls still to make
  dir,      \* whether TEMP_DIR exists
  file,     \* TEMP_COMPILE_DB: who wrote it and whether the write ended
  \* history variable, not in the code:
  misread   \* the runs that read a database other than their own

vars == <<db, kept, pc, code, left, dir, file, misread>>

(* The state left by cleanup(): shutil.rmtree(TEMP_DIR) if it exists.     *)
Cleanup == dir' = FALSE /\ file' = NoFile

(* The database p reads is its own, complete one.                          *)
OwnDb(p) == dir /\ file.writer = p /\ file.complete

Init ==
  /\ db \in [Procs -> DbKinds]
  /\ kept \in [Procs -> 0..MaxEntries]
  /\ pc = [p \in Procs |-> "start"]
  /\ code = [p \in Procs |-> 0]
  /\ left = [p \in Procs |-> 0]
  /\ dir = FALSE
  /\ file = NoFile
  /\ misread = {}

(* filter_compile_commands: the database is missing or json.load fails;   *)
(* sys.exit(1), and the atexit handler runs.                               *)
LoadFails(p) ==
  /\ pc[p] = "start"
  /\ db[p] \in {"missing", "malformed"}
  /\ pc' = [pc EXCEPT ![p] = "exited"]
  /\ code' = [code EXCEPT ![p] = 1]
  /\ Cleanup
  /\ UNCHANGED <<db, kept, left, misread>>

(* TEMP_DIR.mkdir(exist_ok=True); open(TEMP_COMPILE_DB, 'w') truncates.    *)
OpenScratch(p) ==
  /\ pc[p] = "start"
  /\ db[p] = "valid"
  /\ dir' = TRUE
  /\ file' = [writer |-> p, complete |-> FALSE]
  /\ pc' = [pc EXCEPT ![p] = "writing"]
  /\ UNCHANGED <<db, kept, code, left, misread>>

(* json.dump(filtered_db, f) and the close at the end of the with block.  *)
(* If another run has truncated the file since, or removed TEMP_DIR, p's  *)
(* content is not what the path holds.                                     *)
CloseScratch(p) ==
  /\ pc[p] = "writing"
  /\ file' = IF dir /\ file.writer = p THEN [file EXCEPT !.complete = TRUE]
                                     ELSE file
  /\ pc' = [pc EXCEPT ![p] = "written"]
  /\ UNCHANGED <<db, kept, code, left, dir, misread>>

(* main(): json.load(open(TEMP_COMPILE_DB)).  A missing file or a file     *)
(* still being written raises out of main (exit status 1).  Otherwise the *)
(* entries are those of whoever wrote the file; none means an empty       *)
(* report and return.                                                      *)
ReadBack(p) ==
  /\ pc[p] = "written"
  /\ IF dir /\ file # NoFile /\ file.complete
       THEN LET n == kept[file.writer] IN
            /\ misread' = IF file.writer = p THEN misread ELSE misread \cup {p}
            /\ IF n = 0
                 THEN /\ pc' = [pc EXCEPT ![p] = "exited"]
                      /\ Cleanup
                      /\ UNCHANGED left
                 ELSE /\ pc' = [pc EXCEPT ![p] = "analyzing"]
                      /\ left' = [left EXCEPT ![p] = n]
                      /\ UNCHANGED <<dir, file>>
            /\ UNCHANGED code
       ELSE /\ pc' = [pc EXCEPT ![p] = "exited"]
            /\ code' = [code EXCEPT ![p] = 1]
            /\ Cleanup
            /\ UNCHANGED <<left, misread>>
  /\ UNCHANGED <<db, kept>>

(* Mutant of Analyze: the loop does not check that a call is left.        *)
AnalyzeUnguarded(p) ==
  /\ pc[p] = "analyzing"
  /\ misread' = IF OwnDb(p) THEN misread ELSE misread \cup {p}
  /\ left' = [left EXCEPT ![p] = @ - 1]
  /\ UNCHANGED <<db, kept, pc, code, dir, file>>

(* One clang-tidy call of analyze_file, which reads -p=TEMP_DIR; a failed *)
(* call is caught and the next entry goes on.                              *)
Analyze(p) ==
  /\ pc[p] = "analyzing"
  /\ left[p] > 0
  /\ misread' = IF OwnDb(p) THEN misread ELSE misread \cup {p}
  /\ left' = [left EXCEPT ![p] = @ - 1]
  /\ UNCHANGED <<db, kept, pc, code, dir, file>>

(* Mutant of Finish: the atexit handler is not registered.                 *)
FinishNoCleanup(p) ==
  /\ pc[p] = "analyzing"
  /\ left[p] = 0
  /\ pc' = [pc EXCEPT ![p] = "exited"]
  /\ UNCHANGED <<db, kept, code, left, dir, file, misread>>

(* generate_html_report, main returns, the process exits with status 0    *)
(* and cleanup() runs.                                                     *)
Finish(p) ==
  /\ pc[p] = "analyzing"
  /\ left[p] = 0
  /\ pc' = [pc EXCEPT ![p] = "exited"]
  /\ Cleanup
  /\ UNCHANGED <<db, kept, code, left, misread>>

AllExited == \A p \in Procs : pc[p] = "exited"

(* Every run has exited.                                                   *)
Done ==
  /\ AllExited
  /\ UNCHANGED vars

Run(p) ==
  \/ LoadFails(p) \/ OpenScratch(p) \/ CloseScratch(p)
  \/ ReadBack(p) \/ Analyze(p) \/ Finish(p)

Next == (\E p \in Procs : Run(p)) \/ Done

(* Only safety is checked of the runs, so no fairness is assumed.          *)
Spec == Init /\ [][Next]_vars

-----------------------------------------------------------------------------
(* The type of every variable: in particular no run makes more clang-tidy *)
(* calls than its entries (the analysis loop stops at the last entry).     *)
TypeOK ==
  /\ db \in [Procs -> DbKinds]
  /\ kept \in [Procs -> 0..MaxEntries]
  /\ pc \in [Procs -> {"start", "writing", "written", "analyzing", "exited"}]
  /\ code \in [Procs -> {0, 1}]
  /\ left \in [Procs -> 0..MaxEntries]
  /\ dir \in BOOLEAN
  /\ file \in Files
  /\ misread \subseteq Procs

(* Section 6 of the spec: the scratch database is removed on exit,         *)
(* whatever the outcome.  Once every run has exited, TEMP_DIR is gone,     *)
(* even though the runs removed it under each other's feet.                *)
ScratchRemovedAtEnd == AllExited => ~dir

(* Sections 5 and 6 of the spec: the filtered database is the run's own    *)
(* scratch state, so every read a run makes -- main's read back and every  *)
(* clang-tidy call -- sees the database that run wrote, complete.          *)
RunsIsolated == misread = {}

=============================================================================
