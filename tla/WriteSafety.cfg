SPECIFICATION Spec
CONSTANTS
  None = None
  Half = 16384
  Gaps <- MCGaps
  Unit = 32
  Definitions <- MCDefinitions
  RegisterMaps <- MCRegisterMaps
  Values <- MCValues
  Interval = 2
  DefaultTtl = 2
  MaxTime = 2
INVARIANTS
  OnlyAllowedValuesWritten
  ReadsBackAsRequested
  PlanStaysAcceptable
PROPERTIES
  SensitiveWritesAreSpaced
  HeartbeatsExpire
