------------------------------- MODULE Parser -------------------------------
(***************************************************************************)
(* The Diagnostic Parser of run_clang_tidy.py: parse_diagnostics, and the *)
(* output.strip() that analyze_file applies before it.                    *)
(*                                                                         *)
(* Text is modelled at the level of words: a line is a sequence of tokens,*)
(* each a word of a small vocabulary (atomic: no word contains another),  *)
(* a colon ":" or a space " ".  A raw output is the sequence of its lines *)
(* (what splitlines() returns).  The string operations the parser uses -- *)
(* `in`, split(":", 3), strip(), split(), lower() and " ".join -- are     *)
(* defined on this representation by what they do.                        *)
(***************************************************************************)
EXTENDS Naturals, Sequences, FiniteSets, SequencesExt

CONSTANT LowerWord   \* str.lower() on the words of the vocabulary

Sp == " "
Colon == ":"

(* s.lower()                                                               *)
Lower(s) ==
  [i \in DOMAIN s |-> IF s[i] \in DOMAIN LowerWord THEN LowerWord[s[i]]
                                                   ELSE s[i]]

(* kw + ":" in line                                                        *)
HasKeyword(line, kw) ==
  \E i \in 1..Len(line) - 1 : line[i] = kw /\ line[i + 1] = Colon

(* The line test of the scan loop: ":" in line and one of "warning:",     *)
(* "error:", "note:" in line.                                              *)
IsCandidate(line) ==
  /\ \E i \in DOMAIN line : line[i] = Colon
  /\ \E kw \in {"warning", "error", "note"} : HasKeyword(line, kw)

(* "note:" in line, the test of the look-ahead loop.                       *)
IsNoteLine(line) == HasKeyword(line, "note")

(* line.split(":", 3): the pieces between the first three colons.          *)
Parts(line) ==
  LET cs == SetToSortSeq({i \in DOMAIN line : line[i] = Colon}, <)
      n  == IF Len(cs) < 3 THEN Len(cs) ELSE 3
      cut(k) == IF k = 0 THEN 0 ELSE cs[k]
  IN  [k \in 1..n + 1 |->
         SubSeq(line, cut(k - 1) + 1, IF k <= n THEN cs[k] - 1 ELSE Len(line))]

(* s.strip() (the vocabulary's only white space is " ").                   *)
Strip(s) ==
  LET ns == {i \in DOMAIN s : s[i] # Sp}
  IN  IF ns = {} THEN <<>>
      ELSE SubSeq(s, Min(ns), Max(ns))

(* s.split(): the maximal runs of non-space tokens, in order.              *)
SplitWS(s) ==
  LET starts == SetToSortSeq({i \in DOMAIN s :
                                s[i] # Sp /\ (i = 1 \/ s[i - 1] = Sp)}, <)
      stop(b) == CHOOSE e \in b..Len(s) :
                   /\ \A j \in b..e : s[j] # Sp
                   /\ (e = Len(s) \/ s[e + 1] = Sp)
  IN  [k \in DOMAIN starts |-> SubSeq(s, starts[k], stop(starts[k]))]

(* " ".join(ws)                                                            *)
JoinSp(ws) ==
  LET j[k \in 0..Len(ws)] ==
        IF k = 0 THEN <<>>
        ELSE IF k = 1 THEN ws[1]
        ELSE j[k - 1] \o <<Sp>> \o ws[k]
  IN  j[Len(ws)]

(* The record built from a candidate line that has four parts, before    *)
(* its notes are attached.                                                 *)
HeaderRecord(line) ==
  LET p  == Parts(line)
      mp == Strip(p[4])
      ws == SplitWS(mp)
  IN  [file    |-> Strip(p[1]),
       line    |-> Strip(p[2]),
       column  |-> Strip(p[3]),
       type    |-> IF mp # <<>> THEN Lower(ws[1]) ELSE <<"unknown">>,
       message |-> IF Len(ws) > 1 THEN JoinSp(Tail(ws)) ELSE mp,
       notes   |-> <<>>]

IsHeader(line) == IsCandidate(line) /\ Len(Parts(line)) >= 4

(* The note text of a look-ahead line: note_parts[3].strip().              *)
NoteText(line) == Strip(Parts(line)[4])

(* j after the look-ahead loop started at i + 1: the first line after i   *)
(* that does not contain "note:", or Len(lines) + 1.                       *)
NoteEnd(lines, i) ==
  CHOOSE j \in i + 1..Len(lines) + 1 :
    /\ \A k \in i + 1..j - 1 : IsNoteLine(lines[k])
    /\ (j = Len(lines) + 1 \/ ~IsNoteLine(lines[j]))

(* The notes collected by the look-ahead loop for the header at i: the    *)
(* texts of the note lines i+1 .. NoteEnd-1 that have four parts.          *)
NotesAfter(lines, i) ==
  LET run == SubSeq(lines, i + 1, NoteEnd(lines, i) - 1)
      kept == SelectSeq(run, LAMBDA l : Len(Parts(l)) >= 4)
  IN  [k \in DOMAIN kept |-> NoteText(kept[k])]

(* Mutant of ParseLines: after a header the scan resumes at i + 1.        *)
ParseLinesRescan(lines) ==
  LET scan[i \in 1..Len(lines) + 1] ==
        IF i = Len(lines) + 1 THEN <<>>
        ELSE IF IsHeader(lines[i])
             THEN << [HeaderRecord(lines[i]) EXCEPT
                        !.notes = NotesAfter(lines, i)] >>
                  \o scan[i + 1]
             ELSE scan[i + 1]
  IN  scan[1]

(* parse_diagnostics(output), with output already split into lines: the   *)
(* while loop over i, as a function of the position it resumes at.  A     *)
(* header consumes its note lines (i = j); any other line is skipped.     *)
(* The except branch is unreachable: once msg_part is non-empty after     *)
(* strip(), msg_part.split() has a first element.                          *)
ParseLines(lines) ==
  LET scan[i \in 1..Len(lines) + 1] ==
        IF i = Len(lines) + 1 THEN <<>>
        ELSE IF IsHeader(lines[i])
             THEN << [HeaderRecord(lines[i]) EXCEPT
                        !.notes = NotesAfter(lines, i)] >>
                  \o scan[NoteEnd(lines, i)]
             ELSE scan[i + 1]
  IN  scan[1]

(* output = result.stdout.strip(), then splitlines(): leading and         *)
(* trailing blank lines go, and the spaces before the first and after the *)
(* last remaining character.                                               *)
StripOutput(out) ==
  LET nb == {k \in DOMAIN out : Strip(out[k]) # <<>>}
  IN  IF nb = {} THEN <<>>
      ELSE LET mid == SubSeq(out, Min(nb), Max(nb))
           IN  [mid EXCEPT
                  ![1] = SubSeq(@, Min({i \in DOMAIN @ : @[i] # Sp}), Len(@)),
                  ![Len(mid)] = SubSeq(@, 1, Max({i \in DOMAIN @ : @[i] # Sp}))]

(* What analyze_file parses for a raw clang-tidy output.                   *)
ParseDiagnostics(out) == ParseLines(StripOutput(out))

=============================================================================
