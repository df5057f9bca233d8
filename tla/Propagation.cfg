CONSTANTS
  Fn <- MCFn
  Pkg <- MCPkg
  Name <- MCName
  Site <- MCSite
  ErrVar <- MCErrVar
  NoFn = NoFn
  NoErr = NoErr
  ReturnVal = ReturnVal
  Apps <- SupportedAndErrorApps
  MaxDepth = 5
SPECIFICATION Spec
INVARIANTS
  TypeOK ActivePackage TracedOnce CallsAgree TxnInScope ImportsRecorded
  TracesReachable SetupUntouched OneAgent ErrorsAccounted ErrorOwnerActive
  CapturedAtRoot CapturedPending
