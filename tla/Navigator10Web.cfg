SPECIFICATION Spec
CONSTANTS
  a = a
  b = b
  c = c
  s1 = s1
  s2 = s2
  s3 = s3
  Callers = {a, b, c}
  NoCaller = NoCaller
  Sockets = {s1, s2, s3}
  NoSocket = NoSocket
  MaxReconnectAttempts = 2
  MaxSettings = 2
  MaxOrphans = 1
INVARIANTS
  AnswersTheirRequest
  OnlyTimeoutsLeaveSockets
  RequestsAreAuthorized
PROPERTIES
  RejectedPinEndsTheCall
  EveryCallReturns
