CONSTANTS
  Block <- MCBlock
  NoBlock = NoBlock
  Decl = "body"
  HandlerName <- MCHandlerName
  NRName <- MCNRName
  Progs <- SupportedProgs
SPECIFICATION Spec
INVARIANTS TypeOK NamesDeclared DeclaresNew UserCodeKept LiveTransaction
  EndpointsCovered LogsDecorated
