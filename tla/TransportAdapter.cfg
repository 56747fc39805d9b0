SPECIFICATION AdapterSpec
CONSTANTS
  None = None
  Callers = {c1, c2}
  NormalTimeout = 10000
  Requests <- MCRequests
INVARIANTS
  RequestsUseTheirTimeout
  ResolvedCloseMeansDown
  OutcomesMeanWhatHappened
