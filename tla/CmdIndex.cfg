CONSTANTS
  DevKinds = {"open", "star", "close", "code", "top", "bottom"}
  MaxLines = 3
SPECIFICATION Spec
INVARIANT CodeLinesKept
