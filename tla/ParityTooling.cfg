SPECIFICATION Spec
CONSTANTS
  CamelNames <- MCCamelNames
  NotIdentifiers = {"not a name"}
  ClientClass = "Client"
  ClientParameters <- MCClientParameters
  RootCount = 2
  WebCount = 2
  AliasCount = 1
  Fixtures <- MCFixtures
  Documents <- MCDocuments
  PinnedApi <- MCPinnedApi
  PinnedClasses <- MCPinnedClasses
  WorkTrees <- MCWorkTrees
  MaxCommands = 2
  MaxFaults = 2
  MaxKills = 1
INVARIANTS
  AllOrNothing
  KeptUntilReplaced
  NoLeftovers
  ReleaseIsCovered
  PartialMembersPartitioned
CHECK_DEADLOCK FALSE
