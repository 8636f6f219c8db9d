------------------------------ MODULE MCFilter ------------------------------
(***************************************************************************)
(* Model checking of the Ignore-Rule Engine and of the filter loop on one  *)
(* compile_commands.json entry (the loop treats each entry on its own).   *)
(* The loop decides on an entry by its file alone and cleans its command   *)
(* without looking at the file, so a behaviour builds one of the two:      *)
(*   part = "file": the entry's file one path segment at a time, relative *)
(*     to the entry's directory, under the project root or outside it,    *)
(*     and the two ignore sources one line at a time (.gitignore, which   *)
(*     may raise while being read, and .git/info/exclude);                *)
(*   part = "command": the entry's command one argument at a time.        *)
(* Every combination within the bounds is reached.                         *)
(***************************************************************************)
EXTENDS Filter, MCPieces

CONSTANTS
  Segments,        \* path segments, each a piece sequence
  IgnoreLines,     \* lines .gitignore may hold, stripped
  ExcludeLines,    \* lines .git/info/exclude may hold, stripped
  OutsideRoot,     \* a directory outside the project
  ArgShapes,       \* the arguments a command may hold
  PchOptions,      \* those of ArgShapes that are MSVC PCH options
  MaxSegs,         \* bound on the number of segments of the file path
  MaxIgnoreLines,  \* bound on the number of lines of .gitignore
  MaxExcludeLines, \* bound on the number of lines of .git/info/exclude
  MaxArgs          \* bound on the number of arguments

ASSUME BoundsAssumption ==
  {MaxSegs, MaxIgnoreLines, MaxExcludeLines, MaxArgs} \subseteq Nat

VARIABLES
  part,    \* which field of the entry the behaviour builds
  base,    \* whether entry["file"] is relative, under the root or outside
  segs,    \* the segments of entry["file"]
  lines,   \* the lines of .gitignore
  broken,  \* whether reading .gitignore raises
  readTo,  \* if so, how many of its lines are read before it does
  excl,    \* the lines of .git/info/exclude
  args     \* entry["command"].split()
vars == <<part, base, segs, lines, broken, readTo, excl, args>>

(* segs joined with "/"                                                    *)
JoinPath(ss) == FlattenSeq([k \in DOMAIN ss |->
                              IF k = 1 THEN ss[k] ELSE <<Sep>> \o ss[k]])

(* entry["file"]: relative, or absolute under the root or outside it.      *)
EntryFile ==
  CASE base = "rel"  -> JoinPath(segs)
    [] base = "root" -> ProjectRoot \o <<Sep>> \o JoinPath(segs)
    [] base = "out"  -> OutsideRoot \o <<Sep>> \o JoinPath(segs)

(* The entry.  Its directory is the project root rather than the build    *)
(* directory CMake writes: a relative file then resolves under the root   *)
(* outside build/, where the ignore rules, and not is_build_dir alone,    *)
(* decide on it.                                                           *)
Entry == [directory |-> ProjectRoot, command |-> args, file |-> EntryFile]

(* The ignore files that exist, in the order get_gitignore_patterns reads  *)
(* them.                                                                   *)
Sources ==
  << [lines |-> lines, read |-> IF broken THEN readTo ELSE Len(lines)],
     [lines |-> excl,  read |-> Len(excl)] >>

Patterns == GetGitignorePatterns(Sources)

Init ==
  /\ part \in {"file", "command"}
  /\ base \in IF part = "file" THEN {"rel", "root", "out"} ELSE {"rel"}
  /\ segs = <<>> /\ lines = <<>> /\ broken = FALSE /\ readTo = 0
  /\ excl = <<>>
  /\ args = <<>>

AddSegment ==
  /\ part = "file" /\ Len(segs) < MaxSegs
  /\ \E s \in Segments : segs' = Append(segs, s)
  /\ UNCHANGED <<part, base, lines, broken, readTo, excl, args>>

AddIgnoreLine ==
  /\ part = "file" /\ Len(lines) < MaxIgnoreLines
  /\ \E l \in IgnoreLines : lines' = Append(lines, l)
  /\ UNCHANGED <<part, base, segs, broken, readTo, excl, args>>

(* Reading .gitignore raises after the lines it has so far (a decoding     *)
(* error in the next one); the lines added later are not read.  A break   *)
(* after the last line is no break.                                        *)
BreakRead ==
  /\ part = "file" /\ ~broken /\ Len(lines) < MaxIgnoreLines
  /\ broken' = TRUE /\ readTo' = Len(lines)
  /\ UNCHANGED <<part, base, segs, lines, excl, args>>

AddExcludeLine ==
  /\ part = "file" /\ Len(excl) < MaxExcludeLines
  /\ \E l \in ExcludeLines : excl' = Append(excl, l)
  /\ UNCHANGED <<part, base, segs, lines, broken, readTo, args>>

AddArg ==
  /\ part = "command" /\ Len(args) < MaxArgs
  /\ \E a \in ArgShapes : args' = Append(args, a)
  /\ UNCHANGED <<part, base, segs, lines, broken, readTo, excl>>

Complete ==
  /\ \/ part = "file" /\ Len(segs) = MaxSegs /\ Len(lines) = MaxIgnoreLines
                      /\ Len(excl) = MaxExcludeLines
     \/ part = "command" /\ Len(args) = MaxArgs
  /\ UNCHANGED vars

Next == AddSegment \/ AddIgnoreLine \/ BreakRead \/ AddExcludeLine \/ AddArg
        \/ Complete

Spec == Init /\ [][Next]_vars

-----------------------------------------------------------------------------
FileAbs == AbsFile(Entry)
Kept == FilterCompileCommands(<<Entry>>, Patterns) # <<>>
(* The directories of the file: every segment but the last.                *)
DirSegs == {Front(segs)[k] : k \in DOMAIN Front(segs)}

(* Section 4.1 of the spec: a rule "d/" matches any path that has d as a   *)
(* directory, also at the top of the project, where the regex of           *)
(* is_ignored_by_git (which wants a "/" before d) fails and only the match *)
(* on the full path string catches it.                                     *)
DirRulesExclude ==
  \A k \in DOMAIN Patterns :
    /\ Patterns[k][1] # Sep /\ Last(Patterns[k]) = Sep
    /\ Front(Patterns[k]) \in DirSegs
    => ~Kept

(* Section 8 of the spec: an entry whose path has a build-directory name   *)
(* of BUILD_DIR_PATTERNS as a segment, in any letter case, is dropped.     *)
BuildDirsExcluded ==
  (\E s \in DirSegs : \E b \in BuildDirPatterns : LowerStr(s) = LowerStr(b))
    => ~Kept

(* Section 7 of the spec (IgnoreSourceUnavailable): a failure to read one *)
(* ignore source does not stop rule compilation, which goes on with the   *)
(* remaining sources.  An entry that some rule of a source read to its    *)
(* end excludes is dropped, even when .gitignore raised part-way through   *)
(* before that source was read.                                            *)
RemainingSourcesApplied ==
  \A k \in DOMAIN Sources :
    /\ Sources[k].read = Len(Sources[k].lines)
    /\ segs # <<>>
    /\ IsIgnoredByGit(FileAbs, SelectSeq(Sources[k].lines, KeepLine))
    => ~Kept

(* Section 7 of the spec (IgnoreSourceUnavailable): an ignore source that *)
(* cannot be read is skipped, so the filter decides on the entry as if     *)
(* .gitignore were absent whenever reading it raised.                      *)
UnreadableSourceSkipped ==
  LET readable == [k \in DOMAIN Sources |->
                     IF Sources[k].read = Len(Sources[k].lines)
                       THEN Sources[k] ELSE [lines |-> <<>>, read |-> 0]]
  IN  segs # <<>> =>
        (Kept <=> FilterCompileCommands(<<Entry>>, GetGitignorePatterns(readable)) # <<>>)

(* Section 4.1 of the spec: an anchored rule /foo matches only paths whose *)
(* relative path starts with foo.  Checked for an ignore file of anchored  *)
(* rules only, on files under the root outside every build directory.     *)
AnchoredOnlyAtRoot ==
  /\ \A k \in DOMAIN Patterns : Patterns[k][1] = Sep
  /\ segs # <<>> /\ UnderRoot(FileAbs) /\ ~IsBuildDir(FileAbs)
  => (Kept <=> ~\E k \in DOMAIN Patterns :
                   IsPrefix(Tail(Patterns[k]), RelPath(FileAbs)))

(* Section 8 of the spec: cleanup_compile_command is idempotent; cleaning *)
(* a cleaned command changes nothing, since no PCH flag survives the      *)
(* while loop and its skipping of a flag's value.                          *)
PchStripIdempotent ==
  CleanupCompileCommand(CleanupCompileCommand(args)) = CleanupCompileCommand(args)

(* The docstring of cleanup_compile_command: it removes the MSVC PCH       *)
(* options (/Fp, /Yu) and leaves every other argument, in order.           *)
OnlyPchOptionsRemoved ==
  CleanupCompileCommand(args) = SelectSeq(args, LAMBDA a : a \notin PchOptions)

=============================================================================
