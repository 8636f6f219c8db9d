------------------------------- MODULE Filter -------------------------------
(***************************************************************************)
(* The Ignore-Rule Engine and the Compilation DB Filter of                 *)
(* run_clang_tidy.py: get_gitignore_patterns, is_ignored_by_git,           *)
(* is_build_dir, cleanup_compile_command and the loop of                   *)
(* filter_compile_commands.                                                *)
(*                                                                         *)
(* A string is a sequence of pieces: "/" and letter runs of a small        *)
(* vocabulary, so that "library" can be <<"lib", "rary">> and contain the  *)
(* string "lib".  A substring test (`in`, re.match with ".*") is an infix  *)
(* test on pieces, startswith a prefix test; lower() maps each piece.      *)
(* A substring that would cut a piece in two is outside the abstraction:   *)
(* the vocabulary is chosen so that every fragment the code looks for is   *)
(* a run of whole pieces.                                                  *)
(***************************************************************************)
EXTENDS Naturals, Sequences, SequencesExt

CONSTANTS
  LowerPiece,    \* str.lower() on the pieces of the vocabulary
  ProjectRoot,   \* str(PROJECT_ROOT), a piece sequence starting with "/"
  BuildDirPatterns, \* BUILD_DIR_PATTERNS, each as a piece sequence
  PchArgs        \* PCH_ARGS, each as a piece sequence

Sep == "/"
Eq == "="
Hash == "#"

(* s.lower()                                                               *)
LowerStr(s) ==
  [i \in DOMAIN s |-> IF s[i] \in DOMAIN LowerPiece THEN LowerPiece[s[i]]
                                                    ELSE s[i]]

(* pat in s: pat occurs at some offset i of s.                             *)
InStr(s, pat) ==
  \E i \in 0..Len(s) - Len(pat) : SubSeq(s, i + 1, i + Len(pat)) = pat

-----------------------------------------------------------------------------
(* get_gitignore_patterns: the lines of the ignore files that exist, in    *)
(* order, stripped, without blank lines, comments and the line "/".  A    *)
(* source is a file that exists: its already-stripped lines, and how many *)
(* of them the for loop reads before open() or the decoding raises (all   *)
(* of them when nothing raises).  The except clause is per file: the lines *)
(* read before the exception stay in patterns and the next file is read.  *)
KeepLine(l) == l # <<>> /\ l[1] # Hash /\ l # <<Sep>>

ReadLines(src) == SubSeq(src.lines, 1, src.read)

(* Mutant of GetGitignorePatterns: the try encloses the loop over the      *)
(* files, so the first failure ends the reading of every source.          *)
GetGitignoreStopAtFailure(sources) ==
  LET failed == {k \in DOMAIN sources : sources[k].read < Len(sources[k].lines)}
      last   == IF failed = {} THEN Len(sources)
                ELSE CHOOSE k \in failed : \A j \in failed : k <= j
  IN  SelectSeq(FlattenSeq([k \in 1..last |-> ReadLines(sources[k])]), KeepLine)

GetGitignorePatterns(sources) ==
  SelectSeq(FlattenSeq([k \in DOMAIN sources |-> ReadLines(sources[k])]), KeepLine)

-----------------------------------------------------------------------------
(* path.relative_to(PROJECT_ROOT): defined for a path strictly under the  *)
(* root.                                                                   *)
UnderRoot(p) == IsPrefix(ProjectRoot \o <<Sep>>, p)

RelPath(p) == SubSeq(p, Len(ProjectRoot) + 2, Len(p))

(* re.match(regex, rel_path) for the regex built from pat.                 *)
RegexMatch(pat, rel) ==
  IF pat[1] = Sep
    THEN IsPrefix(Tail(pat), rel)                       \* "^" + pat[1:] (+ ".*")
  ELSE IF Last(pat) = Sep
    THEN InStr(rel, <<Sep>> \o Front(pat) \o <<Sep>>) \* ".*/" + pat[:-1] + "/.*"
  ELSE InStr(rel, pat)                               \* ".*" + pat + ".*"

(* Mutant of IsIgnoredByGit: without the match on the full path string.   *)
IsIgnoredRegexOnly(p, patterns) ==
  \/ ~UnderRoot(p)
  \/ \E k \in DOMAIN patterns :
       LET pat == patterns[k] IN
       /\ pat # <<>> /\ pat[1] # Hash
       /\ RegexMatch(pat, RelPath(p))

(* is_ignored_by_git(path, patterns): true outside the project, else true *)
(* when a pattern's regex matches the relative path or the pattern occurs *)
(* in the full path string.                                                *)
IsIgnoredByGit(p, patterns) ==
  \/ ~UnderRoot(p)
  \/ \E k \in DOMAIN patterns :
       LET pat == patterns[k] IN
       /\ pat # <<>> /\ pat[1] # Hash
       /\ (RegexMatch(pat, RelPath(p)) \/ InStr(p, pat))

(* Mutant of IsBuildDir: without lower(), case-sensitive.                   *)
IsBuildDirExact(p) == \E b \in BuildDirPatterns : InStr(p, b)

(* is_build_dir(path): some pattern of BUILD_DIR_PATTERNS, lowered, occurs *)
(* in the lowered path string.                                             *)
IsBuildDir(p) ==
  \E b \in BuildDirPatterns : InStr(LowerStr(p), LowerStr(b))

-----------------------------------------------------------------------------
(* arg_lower.startswith(p.lower()) for some p of PCH_ARGS                  *)
IsPchArg(arg) == \E p \in PchArgs : IsPrefix(LowerStr(p), LowerStr(arg))

(* Mutant of CleanupCompileCommand: without the `continue`, a PCH flag is *)
(* appended after its value is skipped, and i advances once more.         *)
CleanupNoContinue(args) ==
  LET n == Len(args)
      step(i) == IF IsPchArg(args[i]) /\ ~InStr(args[i], <<Eq>>) /\ i + 1 < n + 1
                 THEN i + 2 ELSE i + 1
      loop[i \in 1..n + 3] ==
        IF i > n THEN <<>>
        ELSE IF IsPchArg(args[i]) THEN <<args[i]>> \o loop[step(i) + 1]
        ELSE <<args[i]>> \o loop[i + 1]
  IN  loop[1]

(* cleanup_compile_command on the argument list cmd.split(): the while     *)
(* loop over i, as a function of the index it is at.  A PCH flag is        *)
(* dropped, and so is the argument after it unless the flag contains "=".  *)
(* The result is " ".join(cleaned); split() gives the list back, since     *)
(* each argument is non-empty and free of white space, so the model keeps  *)
(* the list.                                                               *)
CleanupCompileCommand(args) ==
  LET n == Len(args)
      loop[i \in 1..n + 2] ==
        IF i > n THEN <<>>
        ELSE IF IsPchArg(args[i])
             THEN IF ~InStr(args[i], <<Eq>>) /\ i + 1 < n + 1
                  THEN loop[i + 2]
                  ELSE loop[i + 1]
        ELSE <<args[i]>> \o loop[i + 1]
  IN  loop[1]

-----------------------------------------------------------------------------
(* An entry of compile_commands.json: directory, command (already split    *)
(* into arguments) and file.  A relative file is resolved against the      *)
(* directory; paths hold no "..", so resolve() only joins.                 *)
AbsFile(e) == IF e.file[1] = Sep THEN e.file ELSE e.directory \o <<Sep>> \o e.file

(* The test of the filter loop: is_build_dir or is_ignored_by_git.        *)
Excluded(p, patterns) == IsBuildDir(p) \/ IsIgnoredByGit(p, patterns)

(* The loop of filter_compile_commands over db: the entries that are not   *)
(* excluded, in order, with their commands cleaned and their files made    *)
(* absolute.                                                               *)
FilterCompileCommands(db, patterns) ==
  LET kept == SelectSeq(db, LAMBDA e : ~Excluded(AbsFile(e), patterns))
  IN  [k \in DOMAIN kept |->
         [directory |-> kept[k].directory,
          command   |-> CleanupCompileCommand(kept[k].command),
          file      |-> AbsFile(kept[k])]]

=============================================================================
