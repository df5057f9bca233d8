CONSTANTS
  Package <- MCPackage
  NoPackage = 0
  File <- MCFile
  Name <- MCName
  Dir <- MCDir
  Module <- MCModule
  Start = "start"
  Apps <- MCApps
  MaxOpen = 5
SPECIFICATION Spec
INVARIANTS TypeOK PatchInPlace TestCallsAgree DiffWhole
