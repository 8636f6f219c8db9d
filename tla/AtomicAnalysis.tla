--------------------------- MODULE AtomicAnalysis ---------------------------
(***************************************************************************)
(* What run_clang_tidy.py's main() and run_clang_tidy_parallel promise,    *)
(* with the threads, the work queue and diagnostics_lock abstracted away:  *)
(* the entries are analysed one whole file at a time, in any order, each   *)
(* once; a file whose clang-tidy call returns adds the records parsed from *)
(* its output, tagged with its name, as one block of all_diagnostics, and  *)
(* a file whose call raises adds nothing; the report is written once every *)
(* file is finished, from the list as it is then.                          *)
(***************************************************************************)
EXTENDS Naturals, Sequences, Report

CONSTANTS
  InputEntries,       \* the filtered entry lists main() may read back
  Outputs,            \* the raw outputs clang-tidy may print for a file
  ParseDiagnostics(_),\* parse_diagnostics: raw output -> list of records
  MaxEntries          \* bound on the number of filtered entries

NoReport == [total |-> 0, errors |-> 0, warnings |-> 0,
             files |-> <<>>, diagnostics |-> <<>>]

(* d["file"] = str(rel_file) for every d of the parsed list.               *)
Tag(ds, f) == [i \in DOMAIN ds |-> [ds[i] EXCEPT !.file = f]]

VARIABLES
  entries,   \* the filtered entries main() read back
  phase,     \* start, run (analysing), done (report written)
  finished,  \* the entries whose analysis has ended
  astore,    \* all_diagnostics
  report     \* what generate_html_report wrote

avars == <<entries, phase, finished, astore, report>>

TaskSet == 1..Len(entries)

Init ==
  /\ entries \in InputEntries
  /\ phase = "start"
  /\ finished = {}
  /\ astore = <<>>
  /\ report = NoReport

(* if not entries: generate_html_report([]) and return.                    *)
NoEntries ==
  /\ phase = "start"
  /\ entries = <<>>
  /\ phase' = "done"
  /\ report' = Summary(<<>>)
  /\ UNCHANGED <<entries, finished, astore>>

Begin ==
  /\ phase = "start"
  /\ entries # <<>>
  /\ phase' = "run"
  /\ UNCHANGED <<entries, finished, astore, report>>

(* analyze_file(entry t) as one step: the call returns with output o and  *)
(* the tagged records are appended as one block.                           *)
AnalyzeFile(t) ==
  /\ phase = "run"
  /\ t \in TaskSet \ finished
  /\ \E o \in Outputs :
       astore' = astore \o Tag(ParseDiagnostics(o), entries[t])
  /\ finished' = finished \cup {t}
  /\ UNCHANGED <<entries, phase, report>>

(* analyze_file(entry t) whose call raises: nothing is appended.           *)
FailFile(t) ==
  /\ phase = "run"
  /\ t \in TaskSet \ finished
  /\ finished' = finished \cup {t}
  /\ UNCHANGED <<entries, phase, astore, report>>

(* Every file is finished: generate_html_report(all_diagnostics).          *)
WriteReport ==
  /\ phase = "run"
  /\ finished = TaskSet
  /\ phase' = "done"
  /\ report' = Summary(astore)
  /\ UNCHANGED <<entries, finished, astore>>

Next ==
  \/ NoEntries \/ Begin \/ WriteReport
  \/ \E t \in 1..MaxEntries : AnalyzeFile(t) \/ FailFile(t)

Spec == Init /\ [][Next]_avars

=============================================================================
