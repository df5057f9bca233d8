CONSTANTS
  NumFiles = 3
  None = None
SPECIFICATION Spec
INVARIANTS TypeOK KeepsUp HonestDone ModulesBeforePatches QuietOnlyOnInterrupt
PROPERTIES Termination ImplementsJob
