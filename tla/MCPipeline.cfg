CONSTANTS
  p1 = p1
  p2 = p2
  Procs <- MCProcs
  MaxEntries = 2
SPECIFICATION Spec
INVARIANT TypeOK
INVARIANT ScratchRemovedAtEnd
