SPECIFICATION Spec
CONSTANTS
  p1 = p1
  None = None
  Sweeper = Sweeper
  Owner <- OneOwner
  Principals = {p1}
  Sessions = {}
  Devices = {d1, d2}
  Sockets = {k1}
  Handlers = {h1}
  MaxTier = 1
  MaxPolicy = 1
SYMMETRY DeviceSymmetry
INVARIANTS TypeOK SnapshotIsFresh
