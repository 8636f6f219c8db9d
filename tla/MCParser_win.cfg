CONSTANTS
  LowerWord <- MCLowerWord
  LineShapes <- MCWinShapes
  ErrorLines <- MCErrorLines
  WarningLines <- MCWarningLines
  MaxLines = 2
SPECIFICATION Spec
INVARIANT SeveritiesCounted
