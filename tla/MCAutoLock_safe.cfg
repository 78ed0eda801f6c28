SPECIFICATION Spec
CONSTANTS
  Events = {e1, e2}
  Cinemas = {c1}
  Calls = {k1, k2}
  Limits = {0, 2}
  MaxEdits = 1
  MaxExpiries = 1
  MaxCrashes = 1
  MaxFaults = 1
INVARIANTS
  TypeOK
  MarksBacked
  SettledStaysQuiet
  LateFailureIgnored
PROPERTY RetryPromiseHolds
SYMMETRY Symmetry
CHECK_DEADLOCK FALSE
