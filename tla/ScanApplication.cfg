CONSTANTS
  Fn <- MCFn
  Pkg <- MCPkg
  Name <- MCName
  Type <- MCType
  ErrVar <- MCErrVar
  NoFn = NoFn
  NoName = NoName
  NoType = NoType
  NoErr = NoErr
  NoPkg = NoPkg
  NoKey = NoKey
  Main = "main"
  Apps <- ScanApps
  MaxDepth = 5
SPECIFICATION Spec
INVARIANTS
  TypeOK ScopeReached ScopeComplete NothingAfterEnd TableLeft OutcomeAgrees
  ErrorsKnown
PROPERTIES ClosedForGood Termination
