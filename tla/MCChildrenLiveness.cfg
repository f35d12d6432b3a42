SPECIFICATION FairSpec
CONSTANTS
  p1 = p1
  None = None
  NoLock = NoLock
  Loop = Loop
  ChildOf <- OnePrincipal
  Principals = {p1}
  Procs = {c1, c2}
  Requests = {r1, r2}
  HandlersMayDrop = FALSE
  KillsMayStick = FALSE
  MayCrash = FALSE
  MayShutDown = FALSE
PROPERTIES ReplacementNeverRaces RequestAnswered DisabledStops
