CONSTANTS
  Sessions = {s1, s2}
  Clients = {c1, c2}
  MaxCreated = 1
  MaxAttach = 2
  MaxOut = 1
  MaxAwaited = 1
  MaxCrashes = 1
  StaleBeats = 1
SYMMETRY Interchangeable
SPECIFICATION Spec
INVARIANTS
  TypeOK
  AttachedIsOpen
  StatusIsTrue
PROPERTIES
  TokensDie
CHECK_DEADLOCK FALSE
