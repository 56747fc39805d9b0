SPECIFICATION Spec
CONSTANTS
  MaxHeatingCircuits = 3
  MaxZoneModules = 4
  MaxLost = 2
INVARIANTS
  ConcludesTheDevice
  HiddenZonesWereLost
PROPERTY BestModelWithEvidence
