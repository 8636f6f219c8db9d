------------------------------ MODULE MCParser ------------------------------
(***************************************************************************)
(* Model checking of the Diagnostic Parser.  clang-tidy is modelled as a  *)
(* writer that prints its output one line at a time, each line one of a  *)
(* few shapes; every output of up to MaxLines lines is reached, and the   *)
(* invariants below are evaluated on each.                                 *)
(***************************************************************************)
EXTENDS Parser, Report, MCLines

CONSTANTS
  LineShapes,    \* the lines clang-tidy may print, in token form
  ErrorLines,    \* those of LineShapes that report an error
  WarningLines,  \* those of LineShapes that report a warning
  MaxLines       \* bound on the number of lines of an output

ASSUME MaxLinesAssumption == MaxLines \in Nat

VARIABLE out

Init == out = <<>>

(* clang-tidy prints one more line.                                        *)
PrintLine ==
  /\ Len(out) < MaxLines
  /\ \E l \in LineShapes : out' = Append(out, l)

(* clang-tidy exits; its output is complete.                               *)
Exit ==
  /\ Len(out) = MaxLines
  /\ UNCHANGED out

Next == PrintLine \/ Exit

Spec == Init /\ [][Next]_out

-----------------------------------------------------------------------------
(* The parse that section 4.3 of the spec describes, stated without the   *)
(* scan loop: a line is a primary diagnostic iff it is a candidate with   *)
(* four fields that is not inside the note run after an earlier primary;  *)
(* the notes of a primary are the four-field note lines of the run right  *)
(* after it, in order.                                                     *)

InNoteRun(lines, h, k) ==
  h < k /\ \A m \in h + 1..k : IsNoteLine(lines[m])

SpecPrimaries(lines) ==
  LET cand == {k \in DOMAIN lines : IsHeader(lines[k])}
  IN  CHOOSE H \in SUBSET cand :
        \A k \in cand : k \in H <=> ~\E h \in H : InNoteRun(lines, h, k)

SpecNotes(lines, h) ==
  LET ms == SetToSortSeq({m \in DOMAIN lines :
                            InNoteRun(lines, h, m) /\ Len(Parts(lines[m])) >= 4}, <)
  IN  [k \in DOMAIN ms |-> NoteText(lines[ms[k]])]

SpecParse(lines) ==
  LET hs == SetToSortSeq(SpecPrimaries(lines), <)
  IN  [r \in DOMAIN hs |->
         [HeaderRecord(lines[hs[r]]) EXCEPT !.notes = SpecNotes(lines, hs[r])]]

(* parse_diagnostics turns every output into exactly the records of the   *)
(* spec's description, in order: no primary line is dropped or parsed     *)
(* twice, a note line never becomes a diagnostic of its own while it      *)
(* follows a primary, and each diagnostic gets exactly the notes printed  *)
(* right after it (the while loop over i and its look-ahead over j).      *)
ParseFollowsSpec == ParseLines(out) = SpecParse(out)

(* Every error and every warning clang-tidy prints is counted as such by  *)
(* generate_html_report: the type of its record, the first token of the   *)
(* fourth colon field, contains "error" or "warning" respectively.         *)
SeveritiesCounted ==
  LET ds == ParseDiagnostics(out) IN
  /\ CountIf(ds, IsErrorDiag)
       = Cardinality({k \in DOMAIN out : out[k] \in ErrorLines})
  /\ CountIf(ds, IsWarningDiag)
       = Cardinality({k \in DOMAIN out : out[k] \in WarningLines})

(* Section 8 of the spec: the block "a.cpp:10:5: warning: foo" followed   *)
(* by "a.cpp:10:5: note: bar" parses to one diagnostic of severityKind    *)
(* "warning", message "foo" and notes ["bar"].                            *)
SpecRoundTrip ==
  out = SpecExample =>
    LET ds == ParseDiagnostics(out) IN
    /\ Len(ds) = 1
    /\ ds[1].type = <<"warning">>
    /\ ds[1].message = <<"m">>
    /\ ds[1].notes = << <<"n">> >>

=============================================================================
