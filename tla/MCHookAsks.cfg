SPECIFICATION Spec
CONSTANTS
  None = None
  Asks = {a1, a2}
  Deciders = {yes, no}
  Allowing = {yes}
  MaxHeld = 1
  Capacity = 1
  MaxStops = 2
  Losses = {"row", "flip", "append", "batch", "ack"}
SYMMETRY AskSymmetry
INVARIANTS TypeOK AuditedOnce SweptIsAudited OpenIsAttended
CHECK_DEADLOCK FALSE
