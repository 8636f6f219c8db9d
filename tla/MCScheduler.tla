----------------------------- MODULE MCScheduler -----------------------------
(***************************************************************************)
(* Model checking of the Scheduler composed with the Parser: every        *)
(* analyze_file task parses its clang-tidy output with parse_diagnostics  *)
(* as the Parser module defines it.                                        *)
(***************************************************************************)
EXTENDS Scheduler, MCLines

P == INSTANCE Parser WITH LowerWord <- MCLowerWord

CONSTANTS f1, f2   \* file names (model values)

MCFiles == {f1, f2}

(* clang-tidy's output for a file: clean, one warning with a note and a   *)
(* source line, or an error followed by a warning.                         *)
MCOutputs == {<<>>, <<HW, HN, SN>>, <<SN, HE, HW>>}

MCParse(o) == P!ParseDiagnostics(o)

MCParsedDiag == UNION {{MCParse(o)[i] : i \in DOMAIN MCParse(o)} : o \in MCOutputs}

(* The filtered entry lists: none, one, two, or the same file twice (a    *)
(* compilation database may list a file once per configuration).          *)
MCInputEntries == {<<>>, <<f1>>, <<f1, f2>>, <<f1, f2, f1>>}

=============================================================================
