CONSTANTS
  Fn <- MCFn
  Pkg <- MCPkg
  Name <- MCName
  Site <- MCSite
  ErrVar <- MCErrVar
  NoFn = NoFn
  NoErr = NoErr
  ReturnVal = ReturnVal
  Apps <- LiteralApps
  MaxDepth = 5
SPECIFICATION Spec
INVARIANT CallsAgree
