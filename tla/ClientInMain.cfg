CONSTANTS
  Block <- MCBlock
  NoBlock = NoBlock
  Decl = "body"
  HandlerName <- MCHandlerName
  NRName <- MCNRName
  Progs <- ClientProgs
SPECIFICATION Spec
INVARIANT NeverPanics
