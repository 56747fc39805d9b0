SPECIFICATION Spec
CONSTANTS
  a = a
  b = b
  p = p
  q = q
  Callers = {a, b}
  NoCaller = NoCaller
  Paths = {p, q}
  LoginPaths = 3
  PinFields = 4
PROPERTY NeverCachesNothing
