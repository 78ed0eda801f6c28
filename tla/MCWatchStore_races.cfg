SPECIFICATION Spec
CONSTANTS
  w1 = w1
  w2 = w2
  m1 = m1
  m2 = m2
  c1 = c1
  c2 = c2
  wx = wx
  autolock = autolock
  Ids = {w1, w2}
  Movies = {m1, m2}
  Cinemas = {c1, c2}
  Blank = Blank
  Users = {u1}
  AutoLock = autolock
  Handlers = {1, 2}
  Keep = Keep
  MaxRequests = 4
  MaxFaults = 1
  Channels <- MCChannels
  Specs <- MCSpecs
  Patches <- MCPatches
INVARIANT TypeOK
INVARIANT KeyNamesFilter
INVARIANT AutoLockHasItsChannel
PROPERTY NewFilterForgets
PROPERTY EditsLoseNobody
PROPERTY OwnConfigurationKept
SYMMETRY IdSymmetry
CHECK_DEADLOCK FALSE
