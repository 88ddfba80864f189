CONSTANTS
  Messages = {m1, m2}
  MaxAttempts = 2
  MaxInputs = 3
  MaxCrashes = 1
SPECIFICATION LiveSpec
INVARIANTS
  TypeOK
  TripNeedsTwo
  OneTurn
PROPERTIES
  RequestServed
CHECK_DEADLOCK FALSE
