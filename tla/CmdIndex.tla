------------------------------ MODULE CmdIndex ------------------------------
(***************************************************************************)
(* Astra-CacheServer/proto/generate_command_index.py: main() rewrites      *)
(* CommandImpl.hpp with a fresh command index at the top, after removing   *)
(* the old index with one regular expression.  The script is run again    *)
(* whenever commands change, between edits of the file by its developers.  *)
(*                                                                         *)
(* A file is a sequence of lines, each with the kind the regular           *)
(* expression sees and the id of the edit that wrote it (0 for the lines   *)
(* the script writes):                                                     *)
(*   "open"   /* and nothing else                                          *)
(*   "star"   a line whose first non-blank character is *: a comment line *)
(*            " * ..." and also a code line such as "*p = v;"              *)
(*   "close"  */ and nothing else                                          *)
(*   "top"    a line comment // followed by a box corner, "bottom" the     *)
(*            same with the lower corner: the old form of the index        *)
(*   "code"   any other line, "/** ..." and "/* text" included             *)
(* Blank lines are left out: the \s* of the expression takes a blank line  *)
(* together with the line after it.                                       *)
(***************************************************************************)
EXTENDS Naturals, Sequences, FiniteSetsExt

CONSTANTS
  DevKinds,  \* the kinds of the lines developers write
  MaxLines   \* bound on the number of lines developers write

Line(k, id) == [kind |-> k, id |-> id]

(* \s*\*: the line starts, after blanks, with "*".                        *)
StartsWithStar(l) == l.kind \in {"star", "close"}

(* The first alternative, /\*\s*\n(?:\s*\*\s*.*?\n)*\s*\*/\s*\n, tried at *)
(* line i: it needs "/*" alone on line i and a line starting with "*"     *)
(* after it.  Each (?:...) item starts on a "*" line, and its lazy .*? in *)
(* DOTALL mode may run on over any lines, so the backtracking search      *)
(* settles on the LAST "*/" line of the file.  0 when nothing matches.     *)
OldIndexEnd(f, i) ==
  LET closes == {j \in i + 1..Len(f) : f[j].kind = "close"}
  IN  IF /\ f[i].kind = "open" /\ i < Len(f)
         /\ StartsWithStar(f[i + 1]) /\ closes # {}
      THEN Max(closes) ELSE 0

(* The second alternative, //\s*┌.*?//\s*└.*?\n, tried at line i: the lazy *)
(* .*? stops at the FIRST lower corner.  0 when nothing matches.           *)
BoxEnd(f, i) ==
  LET bottoms == {j \in i + 1..Len(f) : f[j].kind = "bottom"}
  IN  IF f[i].kind = "top" /\ bottoms # {} THEN Min(bottoms) ELSE 0

(* old_index_pattern.sub('', content): the scan from line i on, removing  *)
(* each match and going on after it.                                       *)
RemoveOldIndex(f) ==
  LET sub[i \in 1..Len(f) + 1] ==
        IF i > Len(f) THEN <<>>
        ELSE IF OldIndexEnd(f, i) > 0 THEN sub[OldIndexEnd(f, i) + 1]
        ELSE IF BoxEnd(f, i) > 0 THEN sub[BoxEnd(f, i) + 1]
        ELSE <<f[i]>> \o sub[i + 1]
  IN  sub[1]

(* generate_index: "/*", the top border, the title, the separator, a line *)
(* per command, the bottom border and " */".  Every line between the      *)
(* first and the last is " * " and box text, a "star" line, whatever the   *)
(* commands: one command line stands for all of them.                      *)
IndexBlock ==
  <<Line("open", 0)>> \o [k \in 1..5 |-> Line("star", 0)] \o <<Line("close", 0)>>

(* update_file: the old index removed, the new one and a blank line put    *)
(* in front, the file written back.                                        *)
UpdateFile(f) == IndexBlock \o RemoveOldIndex(f)

VARIABLES
  file,    \* the lines of CommandImpl.hpp
  nextId,  \* the id of the next line a developer writes
  \* history variable, not in the code:
  codeIds  \* the ids of the "code" lines developers wrote
vars == <<file, nextId, codeIds>>

Init == file = <<>> /\ nextId = 1 /\ codeIds = {}

(* Line i lies inside the index the script wrote.                         *)
InIndex(f, i) == 1 < i /\ i <= Len(f) /\ f[i - 1].id = 0 /\ f[i].id = 0

(* A developer adds a line to the file, anywhere but inside the index.     *)
Edit ==
  /\ nextId <= MaxLines
  /\ \E k \in DevKinds, i \in 1..Len(file) + 1 :
       /\ ~InIndex(file, i)
       /\ file' = SubSeq(file, 1, i - 1) \o <<Line(k, nextId)>>
                 \o SubSeq(file, i, Len(file))
       /\ codeIds' = IF k = "code" THEN codeIds \cup {nextId} ELSE codeIds
  /\ nextId' = nextId + 1

(* main(): extract_commands, generate_index and update_file on the file.   *)
RunScript ==
  /\ file' = UpdateFile(file)
  /\ UNCHANGED <<nextId, codeIds>>

Next == Edit \/ RunScript

Spec == Init /\ [][Next]_vars

-----------------------------------------------------------------------------
(* The comment of update_file: it deletes the old index, in either of its *)
(* two forms, and puts the new one at the top.  So every line of code a    *)
(* developer wrote is still in the file after any number of runs of the    *)
(* script, whatever comments surround it.                                  *)
CodeLinesKept ==
  \A id \in codeIds : \E i \in DOMAIN file : file[i].id = id

=============================================================================
