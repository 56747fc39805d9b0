SPECIFICATION MapSpec
CONSTANTS
  None = None
  RoomsPerZone = 6
  Asked <- MCAsked
  ModelInfos <- MCModelInfos
INVARIANTS
  NamesMeanOneRegister
  OverlapsAreDocumentedAndSensitive
  ProbesReadRegisters
CHECK_DEADLOCK FALSE
