SPECIFICATION FairSpec
CONSTANTS
  p1 = p1
  None = None
  Owner <- OneOwner
  Principals = {p1}
  Sessions = {s1}
  Devices = {d1}
  Sockets = {k1}
  Handlers = {h1}
  MaxEpoch = 1
  MaxGrant = 1
  ReadsMayFail = FALSE
  HandlersMayDrop = TRUE
INVARIANTS TypeOK RevokedIsChased RevokedMeansInvalid
PROPERTY RevokedSocketCloses
