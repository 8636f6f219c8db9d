CONSTANTS
  LowerWord <- MCLowerWord
  LineShapes <- MCLineShapes
  ErrorLines <- MCErrorLines
  WarningLines <- MCWarningLines
  MaxLines = 4
SPECIFICATION Spec
INVARIANT ParseFollowsSpec
INVARIANT SeveritiesCounted
