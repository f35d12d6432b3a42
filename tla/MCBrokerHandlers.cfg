SPECIFICATION Spec
CONSTANTS
  p1 = p1
  None = None
  Owner <- OneOwner
  Principals = {p1}
  Sessions = {s1, s2}
  Devices = {}
  Sockets = {k1, k2}
  Handlers = {h1}
  MaxEpoch = 1
  MaxGrant = 0
  ReadsMayFail = TRUE
  HandlersMayDrop = FALSE
SYMMETRY SocketSymmetry
INVARIANTS NoneSurvivesItsRevocation LogoutReachesItsSockets
