CONSTANTS
  Sessions = {s1}
  Clients = {c1, c2}
  MaxCreated = 1
  MaxAttach = 2
  MaxOut = 3
  MaxAwaited = 1
  MaxCrashes = 0
  StaleBeats = 1
SYMMETRY Interchangeable
SPECIFICATION Spec
INVARIANT DeliveredOnce
CHECK_DEADLOCK FALSE
