CONSTANTS
  Block <- MCBlock
  NoBlock = NoBlock
  Decl = "body"
  HandlerName <- MCHandlerName
  NRName <- MCNRName
  Progs <- NestedCallProgs
SPECIFICATION Spec
INVARIANT NamesDeclared
