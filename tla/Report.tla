------------------------------- MODULE Report -------------------------------
(***************************************************************************)
(* The Report Aggregator of run_clang_tidy.py: generate_html_report turns *)
(* the shared diagnostic list into a summary (total, error and warning    *)
(* counts) and a per-file grouping, and writes both artifacts.  Only the  *)
(* content is modelled; HTML and JSON layout are left out.                 *)
(*                                                                         *)
(* A diagnostic's "type" is a text in the token representation of the    *)
(* Parser module: a sequence of words and the separators ":" and " ".     *)
(* Python's substring test  "error" in d["type"]  is a token test here:   *)
(* the words of the vocabulary are atomic.                                 *)
(***************************************************************************)
EXTENDS Naturals, Sequences, FiniteSets

(* "w" in text, for a single word w of the vocabulary.                     *)
HasWord(text, w) == \E i \in DOMAIN text : text[i] = w

(* len([d for d in ds if P(d)]).                                           *)
CountIf(ds, P(_)) == Len(SelectSeq(ds, P))

(* Mutant of IsErrorDiag: d["type"] == "error" instead of containment.   *)
IsErrorDiagExact(d) == d.type = <<"error">>

IsErrorDiag(d) == HasWord(d.type, "error")

IsWarningDiag(d) == HasWord(d.type, "warning")

(* The files dict: for each file name met, the diagnostics of that file   *)
(* in the order of the list.                                               *)
GroupByFile(ds) ==
  [f \in {ds[i].file : i \in DOMAIN ds} |->
      SelectSeq(ds, LAMBDA d : d.file = f)]

(* What generate_html_report computes from its argument and writes to     *)
(* index.html and report.json.                                             *)
Summary(ds) ==
  [total    |-> Len(ds),
   errors   |-> CountIf(ds, IsErrorDiag),
   warnings |-> CountIf(ds, IsWarningDiag),
   files    |-> GroupByFile(ds),
   diagnostics |-> ds]

=============================================================================
