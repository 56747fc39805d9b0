SPECIFICATION Spec
CONSTANTS
  Registers <- Map
  MaxGroupSize = 3
  Threshold = 2
  MaxBatch = 3
INVARIANTS
  FailuresAreExcluded
  QuarantineIsKept
PROPERTIES
  ExcludedOnOwnAnswer
  EveryRegisterAccountedFor
