CONSTANTS
  Fn <- MCFn
  Pkg <- MCPkg
  Name <- MCName
  Type <- MCType
  ErrVar <- MCErrVar
  NoFn = NoFn
  NoName = NoName
  NoType = NoType
  NoErr = NoErr
  NoPkg = NoPkg
  NoKey = NoKey
  Main = "main"
  Apps <- SegmentApps
  MaxDepth = 5
SPECIFICATION Spec
INVARIANT SegmentEndsTolerated
