CONSTANTS
  Fn <- MCFn
  Pkg <- MCPkg
  Name <- MCName
  Site <- MCSite
  ErrVar <- MCErrVar
  NoFn = NoFn
  NoErr = NoErr
  ReturnVal = ReturnVal
  Apps <- SetupLateApps
  MaxDepth = 5
SPECIFICATION Spec
INVARIANT SetupUntouched
