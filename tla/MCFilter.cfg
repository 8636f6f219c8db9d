CONSTANTS
  LowerPiece <- MCLowerPiece
  ProjectRoot <- MCProjectRoot
  BuildDirPatterns <- MCBuildDirPatterns
  PchArgs <- MCPchArgs
  Segments <- MCSegments
  IgnoreLines <- MCIgnoreLines
  ExcludeLines <- MCExcludeLines
  OutsideRoot <- MCOutsideRoot
  PchOptions <- MCPchOptions
  MaxSegs = 3
  MaxIgnoreLines = 2
  MaxExcludeLines = 1
  MaxArgs = 4
  ArgShapes <- MCArgShapes
SPECIFICATION Spec
INVARIANT DirRulesExclude
INVARIANT BuildDirsExcluded
INVARIANT RemainingSourcesApplied
INVARIANT PchStripIdempotent
