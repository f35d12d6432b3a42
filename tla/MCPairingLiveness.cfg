SPECIFICATION FairSpec
CONSTANTS
  None = None
  Sessions = {s1, s2}
  Beginners = {b1}
  Slots = {x, y}
  Clients = {c1}
  MaxOpen = 2
  Mishaps = {}
  MaxMishaps = 0
INVARIANTS CodesAgree GrantIsHeldOrChased
PROPERTIES SessionsEnd GrantIsSettled
CHECK_DEADLOCK FALSE
