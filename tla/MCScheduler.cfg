CONSTANTS
  f1 = f1
  f2 = f2
  Files <- MCFiles
  InputEntries <- MCInputEntries
  Outputs <- MCOutputs
  ParseDiagnostics <- MCParse
  ParsedDiag <- MCParsedDiag
  CpuCount = 1
  MaxEntries = 3
SPECIFICATION Spec
INVARIANT TypeOK
 
INVARIANT ReportComplete
INVARIANT IInv
PROPERTY Termination
PROPERTY AtomicRefinement
PROPERTY StoreFinalAfterWait
