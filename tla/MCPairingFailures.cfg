SPECIFICATION Spec
CONSTANTS
  None = None
  Sessions = {s1, s2}
  Beginners = {b1}
  Slots = {x, y}
  Clients = {c1, c2}
  MaxOpen = 2
  Mishaps = {"lost", "tx", "drop", "revoke", "restart"}
  MaxMishaps = 1
SYMMETRY PairSymmetry
INVARIANTS TypeOK GrantNeedsCode
PROPERTIES FinalStaysFinal
CHECK_DEADLOCK FALSE
