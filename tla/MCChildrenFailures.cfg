SPECIFICATION Spec
CONSTANTS
  p1 = p1
  None = None
  NoLock = NoLock
  Loop = Loop
  ChildOf <- OnePrincipal
  Principals = {p1}
  Procs = {c1, c2}
  Requests = {r1, r2}
  HandlersMayDrop = TRUE
  KillsMayStick = TRUE
  MayCrash = TRUE
  MayShutDown = TRUE
SYMMETRY ChildSymmetry
INVARIANTS TypeOK OneServesDb
PROPERTIES ReplacementIsSpared
