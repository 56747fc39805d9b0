SPECIFICATION Spec
CONSTANTS
  a = a
  b = b
  e = e
  k = k
  Callers = {a, b}
  NoCaller = NoCaller
  EepromRegs = {e}
  CyclicRegs = {k}
  VolatileRegs = {}
  NoReg = NoReg
  MaxRetries = 2
  MaxRequests = 2
  EepromInterval = 1
  CyclicTtl = 1
  MaxTime = 2
INVARIANTS
  EepromSpacing
  FreshLink
PROPERTIES
  OnlyAcknowledgedWritesCount
  OnlyConnectGetsUnstuck
  EveryCallReturns
