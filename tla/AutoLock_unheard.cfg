SPECIFICATION Spec
CONSTANTS
  Events = {e1, e2}
  Cinemas = {c1}
  Calls = {k1, k2}
  Limits = {2}
  MaxEdits = 0
  MaxExpiries = 0
  MaxCrashes = 0
  MaxFaults = 0
PROPERTY SuccessHeard
CHECK_DEADLOCK FALSE
