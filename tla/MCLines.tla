------------------------------- MODULE MCLines -------------------------------
(***************************************************************************)
(* The vocabulary and the line shapes that the model-checking modules use *)
(* for clang-tidy's output (token form of the Parser module).             *)
(***************************************************************************)
EXTENDS Sequences

(* The vocabulary: "a" a path, "C" a drive letter, "1" "2" numbers, "m"   *)
(* "n" words of a message, "Warning" a capitalised severity.              *)
MCLowerWord == [w \in {"a", "C", "1", "2", "m", "n", "warning", "error",
                       "note", "Warning"} |->
                  IF w = "Warning" THEN "warning" ELSE w]

(* a:1:2: <sev>: <word>                                                    *)
Hdr(sev, w) == <<"a", ":", "1", ":", "2", ":", " ", sev, ":", " ", w>>
HW == Hdr("warning", "m")
HE == Hdr("error", "m")
HN == Hdr("note", "n")
(* "  note: n": a note line with fewer than four parts                     *)
NS == <<" ", " ", "note", ":", " ", "n">>
(* "  m": a source line echoed by clang-tidy                              *)
SN == <<" ", " ", "m">>
(* C:a:1:2: warning: m -- a header whose path has a drive letter           *)
WHW == <<"C", ":">> \o HW

(* The spec's example: "a.cpp:10:5: warning: foo\na.cpp:10:5: note: bar". *)
SpecExample == <<HW, HN>>

MCLineShapes  == {HW, HE, HN, NS, SN}
MCWinShapes   == {WHW, HE, HN}
MCErrorLines   == {HE}
MCWarningLines == {HW, WHW}

=============================================================================
