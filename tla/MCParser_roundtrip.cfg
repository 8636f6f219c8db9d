CONSTANTS
  LowerWord <- MCLowerWord
  LineShapes <- MCLineShapes
  ErrorLines <- MCErrorLines
  WarningLines <- MCWarningLines
  MaxLines = 2
SPECIFICATION Spec
INVARIANT SpecRoundTrip
